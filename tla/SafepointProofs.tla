--------------------------- MODULE SafepointProofs ---------------------------
(***************************************************************************)
(* Proofs about Safepoint, for any machines, processors and number of      *)
(* safepoints.                                                             *)
(***************************************************************************)
EXTENDS Safepoint, FiniteSetTheorems, TLAPS

Actors == Threads \cup {MM}

-----------------------------------------------------------------------------
(* Counting who is where.                                                  *)

\* Those of D that are at one of the labels of L.
Those(D, L) == {t \in D : pc[t] \in L}

LEMMA ActorsAreFinite == IsFiniteSet(Actors) /\ IsFiniteSet(Threads)
BY SafepointAssumption, FS_AddElement DEF Actors

\* One actor's move changes the number of those at the labels of L by one, if
\* it comes or goes.
LEMMA CountMoves ==
  ASSUME NEW D, D \subseteq Actors, NEW L, NEW t \in Actors, NEW l,
         pc \in [Actors -> ThreadPCs \cup MMPCs], Goto(t, l)
  PROVE  /\ Cardinality(Those(D, L)) \in Nat /\ Cardinality(Those(D, L)') \in Nat
         /\ (t \notin D \/ (pc[t] \in L <=> l \in L)) =>
              Cardinality(Those(D, L)') = Cardinality(Those(D, L))
         /\ (t \in D /\ pc[t] \in L /\ l \notin L) =>
              Cardinality(Those(D, L)') = Cardinality(Those(D, L)) - 1
         /\ (t \in D /\ pc[t] \notin L /\ l \in L) =>
              Cardinality(Those(D, L)') = Cardinality(Those(D, L)) + 1
<1> DEFINE S == Those(D, L)
           T == {u \in D : pc'[u] \in L}
<1>0. T = Those(D, L)'
  BY DEF Those
<1>1. pc'[t] = l /\ \A u \in Actors : u # t => pc'[u] = pc[u]
  BY DEF Goto
<1>2. IsFiniteSet(S) /\ IsFiniteSet(T)
  BY ActorsAreFinite, FS_Subset DEF Those
<1>3. Cardinality(S) \in Nat /\ Cardinality(T) \in Nat
  <2> HIDE DEF S, T
  <2> QED BY <1>2, FS_CardinalityType
<1>4. ASSUME t \notin D \/ (pc[t] \in L <=> l \in L) PROVE T = S
  BY <1>1, <1>4 DEF Those
<1>5. ASSUME t \in D, pc[t] \in L, l \notin L PROVE t \in S /\ T = S \ {t}
  BY <1>1, <1>5 DEF Those
<1>6. ASSUME t \in D, pc[t] \notin L, l \in L PROVE t \notin S /\ T = S \cup {t}
  BY <1>1, <1>6 DEF Those
<1> HIDE DEF S, T
<1>7. ASSUME t \in S PROVE Cardinality(S \ {t}) = Cardinality(S) - 1
  BY <1>2, <1>7, FS_RemoveElement
<1>8. ASSUME t \notin S PROVE Cardinality(S \cup {t}) = Cardinality(S) + 1
  BY <1>2, <1>8, FS_AddElement
<1>9. S = Those(D, L)
  BY DEF S
<1> QED BY <1>0, <1>3, <1>4, <1>5, <1>6, <1>7, <1>8, <1>9

-----------------------------------------------------------------------------
(* The inductive invariant.                                                *)

\* Between wait_barrier_wait's first and last access to wait_barrier.threads.
InsidePCs == {"recheck", "count", "sleep", "woken", "claim", "signal", "leave"}

\* The labels of the threads and of the memory-management thread.
Placed == pc[MM] \in MMPCs /\ \A t \in Threads : pc[t] \in ThreadPCs

\* mm->safepoint_counter is odd while a safepoint is on.
OddPCs == {"arm_state", "arm_count", "scan", "stopped", "disarm"}
CounterFits ==
  /\ pc[MM] \in OddPCs => \E k \in Nat : counter = 2 * k + 1
  /\ pc[MM] \notin OddPCs => \E k \in Nat : counter = 2 * k
  /\ pc[MM] = "arm" => counter < 2 * MaxCycles

\* What a thread knows is a safepoint there has been.
IdsArePast == \A t \in Threads : id[t] <= counter

\* The barrier is armed for the safepoint that comes, or not at all.
TagFits ==
  /\ pc[MM] \in {"idle", "drain", "claim", "signal", "check"} => barrier.tag = 0
  /\ pc[MM] = "arm" => barrier.tag = counter + 1

\* Who claims has seen a waiter.
ClaimsFit == \A t \in Actors : pc[t] \in {"claim", "signal"} => w[t] > 0

\* wait_barrier.threads counts those inside.
InsideCounted == barrier.threads = Cardinality(Those(Threads, InsidePCs))

\* The lock is one of a processor there is, and held in the scan only.
LockFits == scan.locked => scan.proc <= NProcs /\ pc[MM] = "scan"

IInv ==
  /\ TypeOK /\ Placed /\ CounterFits /\ IdsArePast /\ TagFits /\ ClaimsFit
  /\ InsideCounted /\ WakeupsBalance /\ BarrierEmptyBetween /\ LockFits

LEMMA InitIInv == Init => IInv
<1> SUFFICES ASSUME Init PROVE IInv
  OBVIOUS
<1> USE SafepointAssumption
<1>1. /\ pc[MM] = "idle" /\ \A t \in Threads : pc[t] \in {"run", "out", "unborn"}
      /\ pc \in [Actors -> ThreadPCs \cup MMPCs]
  <2>1. pc = [t \in Actors |-> CASE t = MM -> "idle" [] t \in Early \cup Foreign -> "run"
                                 [] t \in Main -> "out" [] OTHER -> "unborn"]
    BY DEF Init, Actors
  <2> DEFINE at(t) == CASE t = MM -> "idle" [] t \in Early \cup Foreign -> "run"
                        [] t \in Main -> "out" [] OTHER -> "unborn"
  <2>2. at(MM) = "idle"
    BY DEF Threads, Machines
  <2>3. \A t \in Threads : at(t) \in {"run", "out", "unborn"}
    BY Zenon
  <2>4. MM \in Actors /\ Threads \subseteq Actors /\ Actors = Threads \cup {MM}
    BY DEF Actors
  <2>5. pc = [t \in Actors |-> at(t)]
    BY <2>1
  <2> HIDE DEF at
  <2> QED BY <2>2, <2>3, <2>4, <2>5 DEF ThreadPCs, MMPCs
<1>2. /\ barrier = [tag |-> 0, waiters |-> 0, threads |-> 0, sem |-> 0]
      /\ state = "NOT_SYNCHRONIZED" /\ counter = 0 /\ armed = FALSE /\ scan = NoScan
      /\ id = [t \in Threads |-> 0] /\ polled = [t \in Threads |-> FALSE]
      /\ w = [t \in Actors |-> 0]
      /\ mach \in [Machines -> {"INIT", "IDLE", "RUNNING", "SAFE"}]
      /\ listed \subseteq Machines /\ running \subseteq Machines
  BY DEF Init, Actors, Machines
<1> HIDE DEF Init
<1>3. TypeOK
  <2>1. barrier \in [tag : Nat, waiters : Nat, threads : Nat, sem : Nat]
    BY <1>2
  <2>2. scan \in [proc : 0 .. NProcs + 1, locked : BOOLEAN, todo : SUBSET Machines,
                  seen : SUBSET Machines, total : Nat, still : Int]
    BY <1>2 DEF NoScan
  <2>3. counter \in 0 .. 2 * MaxCycles
    BY <1>2
  <2>4. id \in [Threads -> Nat] /\ polled \in [Threads -> BOOLEAN] /\ w \in [Actors -> Nat]
    BY <1>2
  <2> QED BY <1>1, <1>2, <2>1, <2>2, <2>3, <2>4 DEF TypeOK, Actors
<1>4. Placed /\ LockFits
  BY <1>1, <1>2 DEF Placed, LockFits, NoScan, ThreadPCs, MMPCs
<1>5. CounterFits
  <2>1. counter = 2 * 0
    BY <1>2
  <2> QED BY <1>1, <2>1 DEF CounterFits, OddPCs
<1>6. IdsArePast /\ TagFits /\ ClaimsFit
  BY <1>1, <1>2 DEF IdsArePast, TagFits, ClaimsFit, Actors
<1>7. \A t \in Actors : pc[t] \notin InsidePCs
  BY <1>1 DEF Actors, InsidePCs
<1>8. Those(Threads, InsidePCs) = {} /\ InPC({"sleep"}) = {} /\ InPC({"signal"}) = {}
  BY <1>7 DEF Those, InPC, InsidePCs, Actors
<1>9. InsideCounted /\ WakeupsBalance /\ BarrierEmptyBetween
  <2>1. Cardinality({}) = 0
    BY FS_EmptySet
  <2>2. barrier.waiters = 0 /\ barrier.threads = 0 /\ barrier.sem = 0
    BY <1>2
  <2>3. InsideCounted /\ WakeupsBalance
    BY <1>8, <2>1, <2>2 DEF InsideCounted, WakeupsBalance
  <2>4. BarrierEmptyBetween
    BY <1>7, <2>2 DEF BarrierEmptyBetween, InsidePCs, Actors
  <2> QED BY <2>3, <2>4
<1> QED BY <1>3, <1>4, <1>5, <1>6, <1>9 DEF IInv

-----------------------------------------------------------------------------
(* The steps of threads that are outside the barrier.                      *)

Quiet(t) ==
  /\ pc[t] \notin InsidePCs
  /\ \E l \in ThreadPCs \ InsidePCs : Goto(t, l)
  /\ UNCHANGED <<barrier, counter, scan, w>>
  /\ \A u \in Threads : id'[u] <= counter

LEMMA QuietStep ==
  ASSUME IInv, TypeOK', NEW t \in Threads, Quiet(t)
  PROVE  IInv'
<1> USE SafepointAssumption DEF IInv
<1>1. PICK l \in ThreadPCs \ InsidePCs : Goto(t, l)
  BY DEF Quiet
<1>2. t \in Actors /\ t # MM /\ MM \in Actors /\ Threads \subseteq Actors
  BY DEF Actors
<1>3. pc \in [Actors -> ThreadPCs \cup MMPCs]
  BY DEF TypeOK, Actors
<1>4. pc'[t] = l /\ pc[t] \notin InsidePCs /\ \A u \in Actors : u # t => pc'[u] = pc[u]
  BY <1>1, <1>2, <1>3 DEF Goto, Quiet
<1>5. barrier' = barrier /\ counter' = counter /\ scan' = scan /\ w' = w
  BY DEF Quiet
<1>6. InsideCounted'
  <2>1. Cardinality(Those(Threads, InsidePCs)') = Cardinality(Those(Threads, InsidePCs))
    BY <1>1, <1>2, <1>3, <1>4, CountMoves
  <2> QED BY <1>5, <2>1 DEF InsideCounted
<1>7. WakeupsBalance'
  <2>1. l \notin {"sleep", "signal"} /\ pc[t] \notin {"sleep", "signal"}
    BY <1>4 DEF InsidePCs
  <2>2. InPC({"sleep"})' = InPC({"sleep"}) /\ InPC({"signal"})' = InPC({"signal"})
    BY <1>4, <2>1 DEF InPC, Actors
  <2> QED BY <1>5, <2>2 DEF WakeupsBalance
<1>8. Placed'
  BY <1>2, <1>4 DEF Placed, Actors
<1>9. CounterFits' /\ TagFits' /\ LockFits' /\ IdsArePast'
  BY <1>2, <1>4, <1>5 DEF CounterFits, TagFits, LockFits, IdsArePast, Quiet
<1>10. ClaimsFit'
  BY <1>4, <1>5 DEF ClaimsFit, InsidePCs
<1>11. BarrierEmptyBetween'
  BY <1>2, <1>4, <1>5 DEF BarrierEmptyBetween, InsidePCs
<1> QED BY <1>6, <1>7, <1>8, <1>9, <1>10, <1>11

\* process.c, the signal handler and mm_synchronize_handle.
LEMMA MachineSteps ==
  ASSUME IInv, NEW m \in Machines, Life(m) \/ PageFault(m) \/ Handling(m)
  PROVE  IInv'
<1> USE SafepointAssumption DEF IInv
<1>0. m \in Threads
  BY DEF Threads
<1>a. counter \in Nat /\ id \in [Threads -> Nat] /\ \A u \in Threads : id[u] <= counter
  BY DEF TypeOK, IdsArePast
<1>1. CASE EnterMain(m)
  <2>1. TypeOK'
    BY <1>0, <1>1 DEF EnterMain, At, Goto, TypeOK, ThreadPCs, mmVars
  <2>2. Quiet(m)
    BY <1>0, <1>1 DEF EnterMain, At, Goto, Quiet, InsidePCs, ThreadPCs, mmVars, IdsArePast,
       TypeOK
  <2> QED BY <1>0, <2>1, <2>2, QuietStep
<1>2. CASE LeaveMain(m)
  <2>1. TypeOK'
    BY <1>0, <1>2 DEF LeaveMain, At, Goto, TypeOK, ThreadPCs, mmVars
  <2>2. Quiet(m)
    BY <1>0, <1>2 DEF LeaveMain, At, Goto, Quiet, InsidePCs, ThreadPCs, mmVars, IdsArePast,
       TypeOK
  <2> QED BY <1>0, <2>1, <2>2, QuietStep
<1>3. CASE AddMachine(m)
  <2>1. TypeOK'
    BY <1>0, <1>3 DEF AddMachine, At, Goto, TypeOK, ThreadPCs, mmVars
  <2>2. Quiet(m)
    BY <1>0, <1>3 DEF AddMachine, At, Goto, Quiet, InsidePCs, ThreadPCs, mmVars, IdsArePast,
       TypeOK
  <2> QED BY <1>0, <2>1, <2>2, QuietStep
<1>4. CASE StartMachine(m)
  <2>1. TypeOK'
    BY <1>0, <1>4 DEF StartMachine, At, Goto, TypeOK, ThreadPCs, mmVars
  <2>2. Quiet(m)
    BY <1>0, <1>4 DEF StartMachine, At, Goto, Quiet, InsidePCs, ThreadPCs, mmVars,
       IdsArePast, TypeOK
  <2> QED BY <1>0, <2>1, <2>2, QuietStep
<1>5. CASE ExitMachine(m)
  <2>1. TypeOK'
    BY <1>0, <1>5 DEF ExitMachine, At, Goto, TypeOK, ThreadPCs, mmVars
  <2>2. Quiet(m)
    BY <1>0, <1>5 DEF ExitMachine, At, Goto, Quiet, InsidePCs, ThreadPCs, mmVars,
       IdsArePast, TypeOK
  <2> QED BY <1>0, <2>1, <2>2, QuietStep
<1>6. CASE JoinMachine(m)
  <2>1. TypeOK'
    BY <1>0, <1>6 DEF JoinMachine, At, Goto, TypeOK, ThreadPCs, mmVars
  <2>2. Quiet(m)
    BY <1>0, <1>6 DEF JoinMachine, At, Goto, Quiet, InsidePCs, ThreadPCs, mmVars,
       IdsArePast, TypeOK
  <2> QED BY <1>0, <2>1, <2>2, QuietStep
<1>7. CASE PageFault(m)
  <2>1. TypeOK'
    BY <1>0, <1>7 DEF PageFault, At, Goto, TypeOK, ThreadPCs, mmVars
  <2>2. Quiet(m)
    BY <1>0, <1>7 DEF PageFault, At, Goto, Quiet, InsidePCs, ThreadPCs, mmVars, IdsArePast,
       TypeOK
  <2> QED BY <1>0, <2>1, <2>2, QuietStep
<1>8. CASE HandleCheck(m)
  <2>1. TypeOK'
    BY <1>0, <1>8 DEF HandleCheck, At, Goto, TypeOK, ThreadPCs, mmVars
  <2>2. Quiet(m)
    BY <1>0, <1>8 DEF HandleCheck, At, Goto, Quiet, InsidePCs, ThreadPCs, mmVars,
       IdsArePast, TypeOK
  <2> QED BY <1>0, <2>1, <2>2, QuietStep
<1>9. CASE HandleId(m)
  <2>1. PICK l \in ThreadPCs \ InsidePCs : Goto(m, l)
    BY <1>9 DEF HandleId, ThreadPCs, InsidePCs
  <2>2. \A u \in Threads : id'[u] \in {id[u], counter}
    BY <1>0, <1>a, <1>9 DEF HandleId
  <2>3. id' \in [Threads -> Nat]
    BY <1>0, <1>a, <1>9 DEF HandleId
  <2>4. /\ UNCHANGED <<state, counter, barrier, armed, listed, scan, running, w>>
        /\ mach' \in [Machines -> {"INIT", "IDLE", "RUNNING", "SAFE"}]
        /\ polled' \in [Threads -> BOOLEAN] /\ pc[m] \notin InsidePCs
    BY <1>0, <1>9 DEF HandleId, At, mmVars, InsidePCs, TypeOK
  <2>5. pc' \in [Actors -> ThreadPCs \cup MMPCs]
    BY <1>0, <2>1 DEF Goto, TypeOK, Actors
  <2>6. TypeOK'
    BY <2>3, <2>4, <2>5 DEF TypeOK, Actors
  <2>7. Quiet(m)
    BY <1>a, <2>1, <2>2, <2>4 DEF Quiet
  <2> QED BY <1>0, <2>6, <2>7, QuietStep
<1>10. CASE HandleSafe(m)
  <2>1. TypeOK'
    BY <1>0, <1>10 DEF HandleSafe, At, Goto, TypeOK, ThreadPCs, mmVars
  <2>2. Quiet(m)
    BY <1>0, <1>10 DEF HandleSafe, At, Goto, Quiet, InsidePCs, ThreadPCs, mmVars,
       IdsArePast, TypeOK
  <2> QED BY <1>0, <2>1, <2>2, QuietStep
<1> QED BY <1>1, <1>2, <1>3, <1>4, <1>5, <1>6, <1>7, <1>8, <1>9, <1>10 DEF Life, Polling, Handling

\* mm_synchronize_poll, and the test before the barrier.
LEMMA PollSteps ==
  ASSUME IInv, NEW t \in Threads, Polling(t) \/ BarrierTest(t)
  PROVE  IInv'
<1> USE SafepointAssumption DEF IInv
<1>a. counter \in Nat /\ id \in [Threads -> Nat] /\ \A u \in Threads : id[u] <= counter
  BY DEF TypeOK, IdsArePast
<1>1. CASE Poll(t)
  <2>1. PICK l \in ThreadPCs \ InsidePCs : Goto(t, l)
    BY <1>1 DEF Poll, ThreadPCs, InsidePCs
  <2>2. \A u \in Threads : id'[u] \in {id[u], counter}
    BY <1>a, <1>1 DEF Poll
  <2>3. id' \in [Threads -> Nat]
    BY <1>a, <1>1 DEF Poll
  <2>4. /\ UNCHANGED <<state, counter, barrier, armed, listed, scan, running, w>>
        /\ mach' \in [Machines -> {"INIT", "IDLE", "RUNNING", "SAFE"}]
        /\ polled' \in [Threads -> BOOLEAN] /\ pc[t] \notin InsidePCs
    BY <1>1 DEF Poll, At, mmVars, InsidePCs, TypeOK
  <2>5. pc' \in [Actors -> ThreadPCs \cup MMPCs]
    BY <2>1 DEF Goto, TypeOK, Actors
  <2>6. TypeOK'
    BY <2>3, <2>4, <2>5 DEF TypeOK, Actors
  <2>7. Quiet(t)
    BY <1>a, <2>1, <2>2, <2>4 DEF Quiet
  <2> QED BY <2>6, <2>7, QuietStep
<1>2. CASE PollTest(t)
  <2>1. PICK l \in ThreadPCs \ InsidePCs : Goto(t, l)
    BY <1>2 DEF PollTest, ThreadPCs, InsidePCs
  <2>2. \A u \in Threads : id'[u] \in {id[u], 0}
    BY <1>a, <1>2 DEF PollTest
  <2>3. id' \in [Threads -> Nat]
    BY <1>a, <1>2 DEF PollTest
  <2>4. /\ UNCHANGED <<state, counter, barrier, armed, listed, scan, running, w>>
        /\ mach' \in [Machines -> {"INIT", "IDLE", "RUNNING", "SAFE"}]
        /\ polled' \in [Threads -> BOOLEAN] /\ pc[t] \notin InsidePCs
    BY <1>2 DEF PollTest, At, mmVars, InsidePCs, TypeOK
  <2>5. pc' \in [Actors -> ThreadPCs \cup MMPCs]
    BY <2>1 DEF Goto, TypeOK, Actors
  <2>6. TypeOK'
    BY <2>3, <2>4, <2>5 DEF TypeOK, Actors
  <2>7. Quiet(t)
    BY <1>a, <2>1, <2>2, <2>4 DEF Quiet
  <2> QED BY <2>6, <2>7, QuietStep
<1>3. CASE PollSafe(t)
  <2>1. TypeOK'
    BY <1>3 DEF PollSafe, At, Goto, TypeOK, ThreadPCs, mmVars
  <2>2. Quiet(t)
    BY <1>3 DEF PollSafe, At, Goto, Quiet, InsidePCs, ThreadPCs, mmVars, IdsArePast, TypeOK
  <2> QED BY <2>1, <2>2, QuietStep
<1>4. CASE PollSpinEnd(t)
  <2>1. TypeOK'
    BY <1>4 DEF PollSpinEnd, At, Goto, TypeOK, ThreadPCs, mmVars
  <2>2. Quiet(t)
    BY <1>4 DEF PollSpinEnd, At, Goto, Quiet, InsidePCs, ThreadPCs, mmVars, IdsArePast,
       TypeOK
  <2> QED BY <2>1, <2>2, QuietStep
<1>5. CASE PollSpinOut(t)
  <2>1. TypeOK'
    BY <1>5 DEF PollSpinOut, At, Goto, TypeOK, ThreadPCs, mmVars
  <2>2. Quiet(t)
    BY <1>5 DEF PollSpinOut, At, Goto, Quiet, InsidePCs, ThreadPCs, mmVars, IdsArePast,
       TypeOK
  <2> QED BY <2>1, <2>2, QuietStep
<1>6. CASE PollAssert(t)
  <2>1. TypeOK'
    BY <1>6 DEF PollAssert, At, Goto, TypeOK, ThreadPCs, mmVars
  <2>2. Quiet(t)
    BY <1>6 DEF PollAssert, At, Goto, Quiet, InsidePCs, ThreadPCs, mmVars, IdsArePast,
       TypeOK
  <2> QED BY <2>1, <2>2, QuietStep
<1>7. CASE PollAfter(t)
  <2>1. TypeOK'
    BY <1>7 DEF PollAfter, At, Goto, TypeOK, ThreadPCs, mmVars
  <2>2. Quiet(t)
    BY <1>7 DEF PollAfter, At, Goto, Quiet, InsidePCs, ThreadPCs, mmVars, IdsArePast, TypeOK
  <2> QED BY <2>1, <2>2, QuietStep
<1>8. CASE Restore(t)
  <2>1. PICK l \in ThreadPCs \ InsidePCs : Goto(t, l)
    BY <1>8 DEF Restore, ThreadPCs, InsidePCs
  <2>2. \A u \in Threads : id'[u] \in {id[u], 0}
    BY <1>a, <1>8 DEF Restore
  <2>3. id' \in [Threads -> Nat]
    BY <1>a, <1>8 DEF Restore
  <2>4. /\ UNCHANGED <<state, counter, barrier, armed, listed, scan, running, w>>
        /\ mach' \in [Machines -> {"INIT", "IDLE", "RUNNING", "SAFE"}]
        /\ polled' \in [Threads -> BOOLEAN] /\ pc[t] \notin InsidePCs
    BY <1>8 DEF Restore, At, mmVars, InsidePCs, TypeOK
  <2>5. pc' \in [Actors -> ThreadPCs \cup MMPCs]
    BY <2>1 DEF Goto, TypeOK, Actors
  <2>6. TypeOK'
    BY <2>3, <2>4, <2>5 DEF TypeOK, Actors
  <2>7. Quiet(t)
    BY <1>a, <2>1, <2>2, <2>4 DEF Quiet
  <2> QED BY <2>6, <2>7, QuietStep
<1>9. CASE BarrierTest(t)
  <2>1. TypeOK'
    BY <1>9 DEF BarrierTest, At, Goto, TypeOK, ThreadPCs, mmVars
  <2>2. Quiet(t)
    BY <1>9 DEF BarrierTest, At, Goto, Quiet, InsidePCs, ThreadPCs, mmVars, IdsArePast,
       TypeOK
  <2> QED BY <2>1, <2>2, QuietStep
<1> QED BY <1>1, <1>2, <1>3, <1>4, <1>5, <1>6, <1>7, <1>8, <1>9 DEF Life, Polling, Handling

-----------------------------------------------------------------------------
(* The steps at the barrier.                                               *)

Sleepers == Cardinality(InPC({"sleep"}))
Posters == Cardinality(InPC({"signal"}))
Inside == Cardinality(Those(Threads, InsidePCs))
One(cond) == IF cond THEN 1 ELSE 0

\* What one actor's move does to the numbers.
LEMMA Moves ==
  ASSUME TypeOK, NEW t \in Actors, NEW l, Goto(t, l)
  PROVE  /\ Sleepers \in Nat /\ Posters \in Nat /\ Inside \in Nat
         /\ Sleepers' \in Nat /\ Posters' \in Nat /\ Inside' \in Nat
         /\ Sleepers' = Sleepers + One(l = "sleep") - One(pc[t] = "sleep")
         /\ Posters' = Posters + One(l = "signal") - One(pc[t] = "signal")
         /\ Inside' = Inside + One(t \in Threads /\ l \in InsidePCs)
                             - One(t \in Threads /\ pc[t] \in InsidePCs)
<1>1. pc \in [Actors -> ThreadPCs \cup MMPCs] /\ Threads \subseteq Actors
  BY DEF TypeOK, Actors
<1>2. /\ Sleepers = Cardinality(Those(Actors, {"sleep"}))
      /\ Posters = Cardinality(Those(Actors, {"signal"}))
      /\ Sleepers' = Cardinality(Those(Actors, {"sleep"})')
      /\ Posters' = Cardinality(Those(Actors, {"signal"})')
  BY DEF Sleepers, Posters, InPC, Those, Actors
<1>3. /\ Sleepers \in Nat /\ Sleepers' \in Nat
      /\ Sleepers' = Sleepers + One(l = "sleep") - One(pc[t] = "sleep")
  BY <1>1, <1>2, CountMoves DEF One
<1>4. /\ Posters \in Nat /\ Posters' \in Nat
      /\ Posters' = Posters + One(l = "signal") - One(pc[t] = "signal")
  BY <1>1, <1>2, CountMoves DEF One
<1>5. /\ Inside \in Nat /\ Inside' \in Nat
      /\ Inside' = Inside + One(t \in Threads /\ l \in InsidePCs)
                          - One(t \in Threads /\ pc[t] \in InsidePCs)
  BY <1>1, CountMoves DEF One, Inside
<1> QED BY <1>3, <1>4, <1>5

\* A step of a thread at the barrier, and of whoever wakes another.
LEMMA BarrierSteps ==
  ASSUME IInv, NEW t \in Threads,
         \/ BarrierEnter(t) \/ BarrierRecheck(t) \/ BarrierCount(t) \/ BarrierWake(t)
         \/ BarrierLeave(t) \/ LoadWaiters(t, "woken", "leave")
  PROVE  IInv'
<1> USE SafepointAssumption DEF IInv
<1>1. t \in Actors /\ t # MM /\ MM \in Actors /\ Threads \subseteq Actors
  BY DEF Actors
<1>2. /\ barrier \in [tag : Nat, waiters : Nat, threads : Nat, sem : Nat]
      /\ pc \in [Actors -> ThreadPCs \cup MMPCs] /\ w \in [Actors -> Nat]
      /\ counter \in Nat /\ id \in [Threads -> Nat]
  BY DEF TypeOK, Actors
<1>3. PICK l \in {"recheck", "count", "sleep", "woken", "leave", "after", "claim"} : Goto(t, l)
  BY DEF BarrierEnter, BarrierRecheck, BarrierCount, BarrierWake, BarrierLeave, LoadWaiters
<1>4. pc'[t] = l /\ pc'[MM] = pc[MM] /\ \A u \in Actors : u # t => pc'[u] = pc[u]
  BY <1>1, <1>2, <1>3 DEF Goto
<1>5. /\ UNCHANGED <<mmVars, listed, mach, id, polled>>
      /\ pc[t] \in {"enter", "recheck", "count", "sleep", "leave", "woken"}
  BY DEF BarrierEnter, BarrierRecheck, BarrierCount, BarrierWake, BarrierLeave, LoadWaiters, At
<1>6. Placed' /\ CounterFits' /\ LockFits' /\ IdsArePast'
  BY <1>1, <1>2, <1>4, <1>5
     DEF Placed, CounterFits, LockFits, IdsArePast, mmVars, ThreadPCs
<1>7. /\ Sleepers \in Nat /\ Posters \in Nat /\ Inside \in Nat
      /\ Sleepers' \in Nat /\ Posters' \in Nat /\ Inside' \in Nat
      /\ Sleepers' = Sleepers + One(l = "sleep") - One(pc[t] = "sleep")
      /\ Posters' = Posters + One(l = "signal") - One(pc[t] = "signal")
      /\ Inside' = Inside + One(l \in InsidePCs) - One(pc[t] \in InsidePCs)
  BY <1>1, <1>3, Moves
<1>8. /\ Sleepers = barrier.waiters + barrier.sem + Posters
      /\ barrier.threads = Inside
  BY DEF WakeupsBalance, InsideCounted, Sleepers, Posters, Inside
<1>9. /\ pc[t] = "enter" => /\ l = "recheck" /\ w' = w
                            /\ barrier' = [barrier EXCEPT !.threads = barrier.threads + 1]
      /\ pc[t] = "recheck" => /\ l = "leave" \/ (l = "count" /\ id[t] # 0 /\ id[t] = barrier.tag)
                              /\ w' = w /\ barrier' = barrier
      /\ pc[t] = "count" => /\ l = "sleep" /\ w' = w
                            /\ barrier' = [barrier EXCEPT !.waiters = barrier.waiters + 1]
      /\ pc[t] = "sleep" => /\ l = "woken" /\ w' = w /\ barrier.sem > 0
                            /\ barrier' = [barrier EXCEPT !.sem = barrier.sem - 1]
      /\ pc[t] = "leave" => /\ l = "after" /\ w' = w
                            /\ barrier' = [barrier EXCEPT !.threads = barrier.threads - 1]
      /\ pc[t] = "woken" => /\ l = "leave" \/ (l = "claim" /\ barrier.waiters # 0)
                            /\ barrier' = barrier /\ w' = [w EXCEPT ![t] = barrier.waiters]
  BY <1>1, <1>2, <1>4 DEF BarrierEnter, BarrierRecheck, BarrierCount, BarrierWake, BarrierLeave,
     LoadWaiters, At, Goto
<1>10. /\ barrier' \in [tag : Nat, waiters : Nat, threads : Nat, sem : Nat]
       /\ barrier'.tag = barrier.tag
       /\ barrier'.threads = Inside'
       /\ Sleepers' = barrier'.waiters + barrier'.sem + Posters'
  <2>1. pc[t] = "leave" => Inside > 0
    BY <1>4, <1>7, <1>9 DEF One, InsidePCs
  <2> QED BY <1>2, <1>5, <1>7, <1>8, <1>9, <2>1 DEF One, InsidePCs
<1>11. w' \in [Actors -> Nat] /\ ClaimsFit'
  BY <1>1, <1>2, <1>4, <1>5, <1>9 DEF ClaimsFit
<1>12. TypeOK'
  <2>1. pc' \in [Actors -> ThreadPCs \cup MMPCs]
    BY <1>2, <1>3 DEF Goto, ThreadPCs
  <2> QED BY <1>5, <1>10, <1>11, <2>1 DEF TypeOK, Actors, mmVars
<1>13. TagFits'
  BY <1>4, <1>5, <1>10 DEF TagFits, mmVars
<1>14. InsideCounted' /\ WakeupsBalance'
  BY <1>10 DEF InsideCounted, WakeupsBalance, Sleepers, Posters, Inside
<1>15. BarrierEmptyBetween'
  <2> SUFFICES ASSUME pc[MM] \in {"idle", "arm"}
               PROVE  /\ barrier'.waiters = 0 /\ barrier'.sem = 0
                      /\ \A u \in Threads : pc'[u] \notin {"count", "sleep", "woken", "claim", "signal"}
    BY <1>4 DEF BarrierEmptyBetween
  <2>1. /\ barrier.waiters = 0 /\ barrier.sem = 0
        /\ \A u \in Threads : pc[u] \notin {"count", "sleep", "woken", "claim", "signal"}
    BY DEF BarrierEmptyBetween
  <2>2. id[t] = 0 \/ id[t] # barrier.tag
    BY <1>2 DEF TagFits, IdsArePast
  <2> QED BY <1>1, <1>2, <1>4, <1>5, <1>9, <2>1, <2>2
<1> QED BY <1>6, <1>11, <1>12, <1>13, <1>14, <1>15

\* The rest of wait_if_needed: the compare-and-swap and the post, of a woken
\* thread or of the memory-management thread.
LEMMA WakeSteps ==
  ASSUME IInv, NEW t \in Actors, ClaimWaiter(t) \/ Signal(t)
  PROVE  IInv'
<1> USE SafepointAssumption DEF IInv
<1>1. MM \in Actors /\ Threads \subseteq Actors /\ Actors = Threads \cup {MM} /\ MM \notin Threads
  BY DEF Actors
<1>2. /\ barrier \in [tag : Nat, waiters : Nat, threads : Nat, sem : Nat]
      /\ pc \in [Actors -> ThreadPCs \cup MMPCs] /\ w \in [Actors -> Nat]
      /\ counter \in Nat /\ id \in [Threads -> Nat]
  BY DEF TypeOK, Actors
<1>3. PICK l \in {"signal", "leave", "drain", "check"} :
        Goto(t, l) /\ (t = MM <=> l \in {"drain", "check"} \/ (t = MM /\ l = "signal"))
  BY <1>1 DEF ClaimWaiter, Signal, AfterWake
<1>4. pc'[t] = l /\ \A u \in Actors : u # t => pc'[u] = pc[u]
  BY <1>1, <1>2, <1>3 DEF Goto
<1>5. UNCHANGED <<mmVars, listed, mach, id, polled>> /\ pc[t] \in {"claim", "signal"} /\ w[t] > 0
  BY DEF ClaimWaiter, Signal, At, ClaimsFit
<1>7. /\ Sleepers \in Nat /\ Posters \in Nat /\ Inside \in Nat
      /\ Sleepers' \in Nat /\ Posters' \in Nat /\ Inside' \in Nat
      /\ Sleepers' = Sleepers + One(l = "sleep") - One(pc[t] = "sleep")
      /\ Posters' = Posters + One(l = "signal") - One(pc[t] = "signal")
      /\ Inside' = Inside + One(t \in Threads /\ l \in InsidePCs)
                          - One(t \in Threads /\ pc[t] \in InsidePCs)
  BY <1>3, Moves
<1>8. /\ Sleepers = barrier.waiters + barrier.sem + Posters
      /\ barrier.threads = Inside
  BY DEF WakeupsBalance, InsideCounted, Sleepers, Posters, Inside
<1>9. /\ pc[t] = "claim" =>
           \/ /\ l = "signal" /\ w' = w /\ barrier.waiters > 0
              /\ barrier' = [barrier EXCEPT !.waiters = barrier.waiters - 1]
           \/ l \in {"leave", "drain"} /\ barrier' = barrier /\ w' = [w EXCEPT ![t] = 0]
      /\ pc[t] = "signal" =>
           /\ l \in {"leave", "drain", "check"} /\ w' = [w EXCEPT ![t] = 0]
           /\ barrier' = [barrier EXCEPT !.sem = barrier.sem + 1]
  BY <1>1, <1>2, <1>4, <1>5 DEF ClaimWaiter, Signal, AfterWake, At, Goto
<1>10. /\ barrier' \in [tag : Nat, waiters : Nat, threads : Nat, sem : Nat]
       /\ barrier'.tag = barrier.tag
       /\ barrier'.threads = Inside'
       /\ Sleepers' = barrier'.waiters + barrier'.sem + Posters'
  <2>1. Inside' = Inside
    BY <1>1, <1>3, <1>5, <1>7 DEF One, InsidePCs
  <2> QED BY <1>2, <1>3, <1>5, <1>7, <1>8, <1>9, <2>1 DEF One
<1>11. w' \in [Actors -> Nat] /\ ClaimsFit'
  BY <1>2, <1>3, <1>4, <1>5, <1>9 DEF ClaimsFit
<1>12. TypeOK'
  <2>1. pc' \in [Actors -> ThreadPCs \cup MMPCs]
    BY <1>2, <1>3 DEF Goto, ThreadPCs, MMPCs
  <2> QED BY <1>5, <1>10, <1>11, <2>1 DEF TypeOK, Actors, mmVars
<1>13. Placed' /\ CounterFits' /\ LockFits' /\ IdsArePast'
  BY <1>1, <1>2, <1>3, <1>4, <1>5
     DEF Placed, CounterFits, OddPCs, LockFits, IdsArePast, mmVars, ThreadPCs, MMPCs
<1>14. TagFits'
  BY <1>1, <1>3, <1>4, <1>5, <1>10 DEF TagFits, mmVars
<1>15. InsideCounted' /\ WakeupsBalance'
  BY <1>10 DEF InsideCounted, WakeupsBalance, Sleepers, Posters, Inside
<1>16. BarrierEmptyBetween'
  <2>1. CASE pc[MM] \in {"idle", "arm"}
    BY <1>1, <1>5, <2>1 DEF BarrierEmptyBetween
  <2>2. CASE pc[MM] \notin {"idle", "arm"}
    BY <1>1, <1>3, <1>4, <2>2 DEF BarrierEmptyBetween
  <2> QED BY <2>1, <2>2
<1> QED BY <1>11, <1>12, <1>13, <1>14, <1>15, <1>16

ScanRecords == [proc : Nat, locked : BOOLEAN, todo : SUBSET Machines,
                seen : SUBSET Machines, total : Nat, still : Int]

\* The memory-management thread's steps that leave the barrier alone.
LEMMA PhaseSteps ==
  ASSUME IInv,
         \/ ArmCounter \/ ArmState \/ ArmCount \/ ScanLock \/ ScanUnlock \/ ScanAgain
         \/ Synchronized \/ DisarmState \/ DisarmCounter \/ DisarmPage
         \/ \E m \in Machines : ScanMachine(m) \/ ScanMachineAgain(m)
  PROVE  IInv'
<1>1. MM \in Actors /\ Threads \subseteq Actors /\ Actors = Threads \cup {MM} /\ MM \notin Threads
  BY SafepointAssumption DEF Actors
<1>2. /\ pc \in [Actors -> ThreadPCs \cup MMPCs]
      /\ counter \in Nat /\ counter <= 2 * MaxCycles
      /\ NProcs \in Nat /\ NProcs >= 1 /\ MaxCycles \in Nat
  BY SafepointAssumption DEF IInv, TypeOK, Actors
<1>s. /\ scan \in ScanRecords
      /\ scan.proc <= NProcs + 1
  <2>1. scan \in [proc : 0 .. NProcs + 1, locked : BOOLEAN, todo : SUBSET Machines,
                  seen : SUBSET Machines, total : Nat, still : Int]
    BY DEF IInv, TypeOK
  <2>2. 0 .. NProcs + 1 \subseteq Nat /\ \A p \in 0 .. NProcs + 1 : p <= NProcs + 1
    BY <1>2
  <2> QED BY <2>1, <2>2, Zenon DEF ScanRecords
<1>f. /\ scan.proc \in Nat /\ scan.total \in Nat /\ scan.still \in Int
      /\ scan.todo \subseteq Machines /\ scan.locked \in BOOLEAN
  BY <1>s DEF ScanRecords
<1>v. /\ state \in {"NOT_SYNCHRONIZED", "SYNCHRONIZING", "SYNCHRONIZED"}
      /\ armed \in BOOLEAN /\ running \subseteq Machines /\ listed \subseteq Machines
  BY DEF IInv, TypeOK
<1>3. UNCHANGED <<barrier, listed, mach, id, polled, w>>
  BY DEF ArmCounter, ArmState, ArmCount, ScanLock, ScanUnlock, ScanAgain, Synchronized,
         DisarmState, DisarmCounter, DisarmPage, ScanMachine, ScanMachineAgain, MMKeeps
<1>4. PICK l \in MMPCs :
        /\ pc' = [pc EXCEPT ![MM] = l]
        /\ \/ pc[MM] = "arm" /\ l = "arm_state" /\ counter' = counter + 1
           \/ pc[MM] = "disarm" /\ l = "disarm_page" /\ counter' = counter + 1
           \/ pc[MM] = "disarm_page" /\ l = "disarm_barrier" /\ counter' = counter
           \/ pc[MM] \in OddPCs /\ l \in OddPCs /\ counter' = counter
  <2> USE DEF MMPCs, OddPCs
  <2>1. CASE ArmCounter
    BY <2>1 DEF ArmCounter, At, Goto
  <2>2. CASE DisarmCounter
    BY <2>2 DEF DisarmCounter, At, Goto
  <2>3. CASE ArmState
    BY <2>3 DEF ArmState, At, Goto
  <2>4. CASE ArmCount
    BY <1>1, <1>2, <2>4 DEF ArmCount, At, Goto
  <2>5. CASE ScanLock \/ ScanUnlock \/ ScanAgain \/ \E m \in Machines : ScanMachine(m) \/ ScanMachineAgain(m)
    <3>1. pc[MM] = "scan" /\ pc' = pc /\ counter' = counter
      BY <2>5 DEF ScanLock, ScanUnlock, ScanAgain, ScanMachine, ScanMachineAgain, At
    <3>2. pc' = [pc EXCEPT ![MM] = "scan"]
      BY <1>1, <1>2, <3>1
    <3> QED BY <3>1, <3>2
  <2>6. CASE Synchronized
    BY <2>6 DEF Synchronized, At, Goto
  <2>7. CASE DisarmState
    BY <2>7 DEF DisarmState, At, Goto
  <2>8. CASE DisarmPage
    BY <2>8 DEF DisarmPage, At, Goto
  <2> QED BY <2>1, <2>2, <2>3, <2>4, <2>5, <2>6, <2>7, <2>8
<1>5. pc'[MM] = l /\ \A u \in Actors : u # MM => pc'[u] = pc[u]
  BY <1>1, <1>2, <1>4
<1>6. counter' \in Nat /\ counter' <= 2 * MaxCycles /\ counter <= counter' /\ CounterFits'
  <2>0. CounterFits
    BY DEF IInv
  <2>1. CASE counter' = counter
    BY <1>2, <1>4, <1>5, <2>0, <2>1 DEF CounterFits, OddPCs
  <2>2. CASE counter' = counter + 1 /\ pc[MM] = "arm"
    <3>1. PICK k \in Nat : counter = 2 * k
      BY <2>0, <2>2 DEF CounterFits, OddPCs
    <3>2. counter' = 2 * k + 1 /\ l = "arm_state"
      BY <1>2, <1>4, <2>2, <3>1
    <3>3. counter < 2 * MaxCycles
      BY <2>0, <2>2 DEF CounterFits
    <3> QED BY <1>2, <1>5, <2>2, <3>2, <3>3 DEF CounterFits, OddPCs
  <2>3. CASE counter' = counter + 1 /\ pc[MM] = "disarm"
    <3>1. PICK k \in Nat : counter = 2 * k + 1
      BY <2>0, <2>3 DEF CounterFits, OddPCs
    <3>2. k + 1 \in Nat /\ counter' = 2 * (k + 1)
      BY <2>3, <3>1
    <3>3. l = "disarm_page"
      BY <1>2, <1>4, <2>3
    <3>4. counter' \in Nat /\ counter' <= 2 * MaxCycles
      BY <1>2, <2>3, <3>1
    <3>5. pc'[MM] = "disarm_page"
      BY <1>5, <3>3
    <3>6. pc'[MM] \notin OddPCs /\ pc'[MM] # "arm"
      BY <3>5 DEF OddPCs
    <3>7. CounterFits'
      BY <3>2, <3>6 DEF CounterFits
    <3> QED BY <1>2, <2>3, <3>4, <3>7
  <2> QED BY <1>4, <2>1, <2>2, <2>3
<1>7. \A p \in Nat : Cardinality({m \in listed : Owner[m] = p}) \in Nat
  <2> TAKE p \in Nat
  <2>1. {m \in listed : Owner[m] = p} \subseteq Threads
    BY <1>v DEF Threads
  <2> QED BY <2>1, ActorsAreFinite, FS_Subset, FS_CardinalityType
<1>8. /\ scan' \in ScanRecords
      /\ scan'.proc <= NProcs + 1
      /\ LockFits'
      /\ state' \in {"NOT_SYNCHRONIZED", "SYNCHRONIZING", "SYNCHRONIZED"}
      /\ armed' \in BOOLEAN /\ running' \subseteq Machines
  <2>0. scan.locked => scan.proc <= NProcs /\ pc[MM] = "scan"
    BY DEF IInv, LockFits
  <2> USE DEF LockFits
  <2>1. CASE ArmCounter \/ DisarmCounter
    BY <1>2, <1>s, <1>f, <1>v, <1>4, <1>5, <2>0, <2>1 DEF ArmCounter, DisarmCounter, At, Goto
  <2>2. CASE ArmState
    <3>1. running' = {m \in listed : mach[m] = "RUNNING"}
      BY <2>2 DEF ArmState
    <3>2. scan' = [proc |-> 1, locked |-> FALSE, todo |-> {}, seen |-> {}, total |-> 0, still |-> 0]
      BY <2>2 DEF ArmState, NoScan
    <3>3. state' = "SYNCHRONIZING" /\ armed' = armed
      BY <2>2 DEF ArmState
    <3> QED BY <1>2, <1>s, <1>f, <1>v, <3>1, <3>2, <3>3 DEF ScanRecords
  <2>3. CASE ArmCount
    <3>0. UNCHANGED <<state, running>>
      BY <2>3 DEF ArmCount
    <3>1. CASE scan.proc <= NProcs
      <4>1. armed' = armed
        BY <2>3, <3>1 DEF ArmCount
      <4>2. PICK c \in Nat : scan' = [scan EXCEPT !.proc = scan.proc + 1, !.total = scan.total + c]
        BY <1>2, <1>s, <1>f, <1>v, <1>7, <2>3, <3>1 DEF ArmCount
      <4>3. scan.total + c \in Nat /\ scan.proc + 1 \in Nat /\ scan.proc + 1 <= NProcs + 1
        BY <1>2, <1>s, <1>f, <3>1 DEF ScanRecords
      <4>4. scan.locked = FALSE
        BY <1>2, <1>s, <1>f, <1>v, <2>0, <2>3 DEF ArmCount, At
      <4>5. scan' \in ScanRecords /\ scan'.proc = scan.proc + 1 /\ ~scan'.locked
        BY <1>s, <1>f, <4>2, <4>3, <4>4 DEF ScanRecords
      <4> QED BY <1>v, <3>0, <4>1, <4>3, <4>5
    <3>2. CASE scan.proc > NProcs
      <4>1. scan' = [scan EXCEPT !.proc = 1, !.still = scan.total] /\ armed' = TRUE
        BY <1>2, <1>s, <1>f, <2>3, <3>2 DEF ArmCount
      <4>2. pc[MM] = "arm_count"
        BY <2>3 DEF ArmCount, At
      <4>3. scan.total \in Int /\ ~scan.locked /\ 1 <= NProcs + 1
        BY <1>2, <1>s, <1>f, <2>0, <4>2 DEF ScanRecords
      <4>4. scan' \in ScanRecords /\ scan'.proc = 1 /\ ~scan'.locked
        BY <1>s, <1>f, <4>1, <4>3 DEF ScanRecords
      <4> QED BY <1>v, <3>0, <4>1, <4>3, <4>4
    <3> QED BY <1>2, <1>s, <1>f, <1>v, <2>0, <3>1, <3>2
  <2>4. CASE ScanLock
    BY <1>2, <1>s, <1>f, <1>v, <1>4, <1>5, <2>0, <2>4 DEF ScanLock, At, Goto, ScanRecords
  <2>5. CASE ScanUnlock
    <3>1. scan' = [scan EXCEPT !.locked = FALSE, !.proc = scan.proc + 1] /\ scan.locked
      BY <2>5 DEF ScanUnlock
    <3>2. UNCHANGED <<state, armed, running>>
      BY <2>5 DEF ScanUnlock
    <3>3. scan.proc + 1 \in Nat /\ scan.proc + 1 <= NProcs + 1
      BY <1>2, <1>s, <1>f, <2>0, <3>1
    <3>4. scan' \in ScanRecords /\ scan'.proc = scan.proc + 1 /\ ~scan'.locked
      BY <1>s, <1>f, <3>1, <3>3 DEF ScanRecords
    <3> QED BY <1>v, <3>2, <3>3, <3>4
  <2>6. CASE ScanAgain
    <3>1. scan' = [scan EXCEPT !.proc = 1, !.still = scan.total] /\ scan.proc > NProcs
      BY <2>6 DEF ScanAgain
    <3>2. UNCHANGED <<state, armed, running>>
      BY <2>6 DEF ScanAgain
    <3>3. scan.total \in Int /\ ~scan.locked /\ 1 <= NProcs + 1 /\ scan.locked \in BOOLEAN
      BY <1>2, <1>s, <1>f, <2>0, <3>1 DEF ScanRecords
    <3>4. scan' \in ScanRecords /\ scan'.proc = 1 /\ scan'.locked = scan.locked
      BY <1>s, <1>f, <3>1, <3>3 DEF ScanRecords
    <3> QED BY <1>v, <3>2, <3>3, <3>4
  <2>7. CASE Synchronized
    BY <1>2, <1>s, <1>f, <1>v, <1>4, <1>5, <2>0, <2>7 DEF Synchronized, At, Goto, ScanRecords
  <2>8. CASE DisarmState
    BY <1>2, <1>s, <1>f, <1>v, <2>8 DEF DisarmState, NoScan, ScanRecords
  <2>9. CASE DisarmPage
    BY <1>2, <1>s, <1>f, <1>v, <1>4, <1>5, <2>0, <2>9 DEF DisarmPage, At, Goto
  <2>10. CASE \E m \in Machines : ScanMachine(m) \/ ScanMachineAgain(m)
    <3>1. PICK m \in Machines : ScanMachine(m) \/ ScanMachineAgain(m)
      BY <2>10
    <3>2. UNCHANGED <<state, armed, running, pc>>
      BY <3>1 DEF ScanMachine, ScanMachineAgain
    <3>3. scan.todo \ {m} \subseteq Machines /\ {m} \subseteq Machines /\ scan.still - 1 \in Int
      BY <1>f
    <3>4. scan' \in ScanRecords /\ scan'.proc = scan.proc /\ scan'.locked = scan.locked
      <4>1. CASE scan' = [scan EXCEPT !.seen = {m}]
        BY <1>s, <1>f, <3>3, <4>1 DEF ScanRecords
      <4>2. CASE scan' = [scan EXCEPT !.todo = scan.todo \ {m}]
        BY <1>s, <1>f, <3>3, <4>2 DEF ScanRecords
      <4>3. CASE ScanMachineAgain(m)
        <5>1. PICK n \in {scan.still - 1, scan.still} :
                scan' = [scan EXCEPT !.todo = scan.todo \ {m}, !.seen = {}, !.still = n]
          BY <4>3 DEF ScanMachineAgain
        <5>2. n \in Int /\ {} \subseteq Machines
          BY <1>f, <3>3
        <5> QED BY <1>s, <1>f, <3>3, <5>1, <5>2 DEF ScanRecords
      <4> QED BY <3>1, <4>1, <4>2, <4>3 DEF ScanMachine
    <3> QED BY <1>s, <1>f, <1>v, <2>0, <3>2, <3>4
  <2> QED BY <2>1, <2>2, <2>3, <2>4, <2>5, <2>6, <2>7, <2>8, <2>9, <2>10
<1>9. TypeOK'
  <2>0. /\ barrier \in [tag : Nat, waiters : Nat, threads : Nat, sem : Nat]
        /\ mach \in [Machines -> {"INIT", "IDLE", "RUNNING", "SAFE"}]
        /\ id \in [Threads -> Nat] /\ polled \in [Threads -> BOOLEAN]
        /\ w \in [Threads \cup {MM} -> Nat] /\ listed \subseteq Machines
    BY DEF IInv, TypeOK
  <2>2. counter' \in 0 .. 2 * MaxCycles
    BY <1>2, <1>6
  <2>3. scan' \in [proc : 0 .. NProcs + 1, locked : BOOLEAN, todo : SUBSET Machines,
                   seen : SUBSET Machines, total : Nat, still : Int]
    <3>1. scan'.proc \in 0 .. NProcs + 1
      BY <1>2, <1>8 DEF ScanRecords
    <3> QED BY <1>8, <3>1, Zenon DEF ScanRecords
  <2>1. pc' \in [Actors -> ThreadPCs \cup MMPCs]
    BY <1>2, <1>4 DEF MMPCs
  <2> QED BY <1>3, <1>8, <2>0, <2>1, <2>2, <2>3 DEF TypeOK, Actors
<1>10. Placed' /\ IdsArePast' /\ TagFits' /\ ClaimsFit'
  <2>1. Placed'
    BY <1>1, <1>4, <1>5 DEF Placed, IInv
  <2>2. IdsArePast'
    BY <1>2, <1>3, <1>6 DEF IdsArePast, IInv, TypeOK
  <2>3. TagFits'
    BY <1>3, <1>4, <1>5 DEF TagFits, IInv, OddPCs
  <2>4. ClaimsFit'
    BY <1>1, <1>3, <1>4, <1>5 DEF ClaimsFit, IInv, OddPCs
  <2> QED BY <2>1, <2>2, <2>3, <2>4
<1>11. InsideCounted' /\ WakeupsBalance'
  <2>1. /\ Sleepers' = Sleepers /\ Posters' = Posters /\ Inside' = Inside
    <3>1. Goto(MM, l)
      BY <1>4 DEF Goto
    <3>2. l # "sleep" /\ l # "signal" /\ pc[MM] # "sleep" /\ pc[MM] # "signal"
      BY <1>4 DEF OddPCs
    <3>3. TypeOK
      BY DEF IInv
    <3>4. /\ Sleepers \in Nat /\ Posters \in Nat /\ Inside \in Nat
          /\ Sleepers' = Sleepers + One(l = "sleep") - One(pc[MM] = "sleep")
          /\ Posters' = Posters + One(l = "signal") - One(pc[MM] = "signal")
          /\ Inside' = Inside + One(MM \in Threads /\ l \in InsidePCs)
                              - One(MM \in Threads /\ pc[MM] \in InsidePCs)
      BY <1>1, <3>1, <3>3, Moves
    <3> QED BY <1>1, <3>2, <3>4 DEF One
  <2> QED BY <1>3, <2>1 DEF InsideCounted, WakeupsBalance, Sleepers, Posters, Inside, IInv
<1>12. BarrierEmptyBetween'
  BY <1>1, <1>3, <1>4, <1>5 DEF BarrierEmptyBetween, OddPCs, IInv
<1> QED BY <1>6, <1>8, <1>9, <1>10, <1>11, <1>12 DEF IInv

\* The memory-management thread's steps at the barrier: arm, disarm and the
\* test that ends the draining. The last step is where the counts pay: nobody
\* inside means that nobody sleeps and nobody is about to post.
LEMMA ArmSteps ==
  ASSUME IInv, ArmBarrier \/ DisarmBarrier \/ LoadWaiters(MM, "drain", "check") \/ DisarmCheck
  PROVE  IInv'
<1>1. MM \in Actors /\ Threads \subseteq Actors /\ Actors = Threads \cup {MM} /\ MM \notin Threads
  BY SafepointAssumption DEF Actors
<1>2. /\ pc \in [Actors -> ThreadPCs \cup MMPCs] /\ counter \in Nat /\ w \in [Actors -> Nat]
      /\ barrier \in [tag : Nat, waiters : Nat, threads : Nat, sem : Nat]
      /\ barrier.tag \in Nat /\ barrier.waiters \in Nat /\ barrier.threads \in Nat /\ barrier.sem \in Nat
  BY DEF IInv, TypeOK, Actors
<1>3. UNCHANGED <<mmVars, listed, mach, id, polled>>
  BY DEF ArmBarrier, DisarmBarrier, LoadWaiters, DisarmCheck, MMKeeps
<1>4. PICK l \in MMPCs :
        /\ pc' = [pc EXCEPT ![MM] = l]
        /\ \/ /\ pc[MM] = "idle" /\ l = "arm" /\ w' = w /\ counter < 2 * MaxCycles
              /\ barrier' = [barrier EXCEPT !.tag = counter + 1, !.waiters = 0]
           \/ /\ pc[MM] = "disarm_barrier" /\ l = "drain" /\ w' = w
              /\ barrier' = [barrier EXCEPT !.tag = 0]
           \/ /\ pc[MM] = "drain" /\ l = (IF barrier.waiters = 0 THEN "check" ELSE "claim")
              /\ w' = [w EXCEPT ![MM] = barrier.waiters] /\ barrier' = barrier
           \/ /\ pc[MM] = "check" /\ l = (IF barrier.threads > 0 THEN "drain" ELSE "idle")
              /\ w' = w /\ barrier' = barrier
  <2> USE DEF MMPCs
  <2>1. CASE ArmBarrier
    BY <2>1 DEF ArmBarrier, At, Goto, MMKeeps
  <2>2. CASE DisarmBarrier
    BY <2>2 DEF DisarmBarrier, At, Goto, MMKeeps
  <2>3. CASE LoadWaiters(MM, "drain", "check")
    BY <2>3 DEF LoadWaiters, At, Goto
  <2>4. CASE DisarmCheck
    BY <2>4 DEF DisarmCheck, At, Goto, MMKeeps
  <2> QED BY <2>1, <2>2, <2>3, <2>4
<1>5. pc'[MM] = l /\ \A u \in Actors : u # MM => pc'[u] = pc[u]
  BY <1>1, <1>2, <1>4
<1>6. /\ Sleepers \in Nat /\ Posters \in Nat /\ Inside \in Nat
      /\ Sleepers' = Sleepers /\ Posters' = Posters /\ Inside' = Inside
  <2>1. Goto(MM, l)
    BY <1>4 DEF Goto
  <2>2. l # "sleep" /\ l # "signal" /\ pc[MM] # "sleep" /\ pc[MM] # "signal"
    BY <1>4
  <2>3. TypeOK
    BY DEF IInv
  <2>4. /\ Sleepers \in Nat /\ Posters \in Nat /\ Inside \in Nat
        /\ Sleepers' = Sleepers + One(l = "sleep") - One(pc[MM] = "sleep")
        /\ Posters' = Posters + One(l = "signal") - One(pc[MM] = "signal")
        /\ Inside' = Inside + One(MM \in Threads /\ l \in InsidePCs)
                            - One(MM \in Threads /\ pc[MM] \in InsidePCs)
    BY <1>1, <2>1, <2>3, Moves
  <2> QED BY <1>1, <2>2, <2>4 DEF One
<1>7. /\ Sleepers = barrier.waiters + barrier.sem + Posters
      /\ barrier.threads = Inside
  BY DEF IInv, WakeupsBalance, InsideCounted, Sleepers, Posters, Inside
<1>8. pc[MM] = "idle" => barrier.waiters = 0 /\ barrier.sem = 0
  BY DEF IInv, BarrierEmptyBetween
<1>9. /\ barrier' \in [tag : Nat, waiters : Nat, threads : Nat, sem : Nat]
      /\ barrier'.waiters = barrier.waiters /\ barrier'.threads = barrier.threads
      /\ barrier'.sem = barrier.sem
  <2>1. CASE pc[MM] = "idle"
    <3>1. counter + 1 \in Nat /\ barrier' = [barrier EXCEPT !.tag = counter + 1, !.waiters = 0]
      BY <1>2, <1>4, <2>1
    <3> QED BY <1>2, <1>8, <2>1, <3>1
  <2>2. CASE pc[MM] = "disarm_barrier"
    BY <1>2, <1>4, <2>2
  <2>3. CASE barrier' = barrier
    BY <1>2, <2>3
  <2> QED BY <1>4, <2>1, <2>2, <2>3
<1>10. InsideCounted' /\ WakeupsBalance'
  BY <1>6, <1>7, <1>9 DEF InsideCounted, WakeupsBalance, Sleepers, Posters, Inside
<1>11. TypeOK'
  <2>1. pc' \in [Actors -> ThreadPCs \cup MMPCs] /\ w' \in [Actors -> Nat]
    BY <1>1, <1>2, <1>4
  <2> QED BY <1>3, <1>9, <2>1 DEF IInv, TypeOK, Actors, mmVars
<1>12. Placed' /\ IdsArePast' /\ ClaimsFit' /\ LockFits'
  <2>1. Placed'
    BY <1>1, <1>5 DEF Placed, IInv
  <2>2. IdsArePast' /\ LockFits'
    BY <1>3, <1>4, <1>5 DEF IdsArePast, LockFits, IInv, mmVars
  <2>3. ClaimsFit'
    BY <1>1, <1>2, <1>4, <1>5 DEF ClaimsFit, IInv
  <2> QED BY <2>1, <2>2, <2>3
<1>13. CounterFits'
  BY <1>3, <1>4, <1>5 DEF CounterFits, IInv, mmVars, OddPCs
<1>14. TagFits'
  BY <1>2, <1>3, <1>4, <1>5 DEF TagFits, IInv, mmVars
<1>15. BarrierEmptyBetween'
  <2>1. CASE pc[MM] = "idle"
    BY <1>1, <1>5, <1>9, <2>1 DEF BarrierEmptyBetween, IInv
  <2>2. CASE pc[MM] = "check" /\ l = "idle"
    <3>1. Inside = 0
      BY <1>2, <1>4, <1>6, <1>7, <2>2
    <3>2. Those(Threads, InsidePCs) = {}
      <4>1. IsFiniteSet(Those(Threads, InsidePCs))
        BY ActorsAreFinite, FS_Subset DEF Those
      <4> QED BY <3>1, <4>1, FS_EmptySet DEF Inside
    <3>3. \A u \in Threads : pc[u] \notin InsidePCs
      BY <3>2 DEF Those
    <3>4. InPC({"sleep"}) = {}
      BY <1>1, <2>2, <3>3 DEF InPC, Actors, InsidePCs
    <3>5. Sleepers = 0
      BY <3>4, FS_EmptySet DEF Sleepers
    <3>6. barrier.waiters = 0 /\ barrier.sem = 0
      BY <1>2, <1>6, <1>7, <3>5
    <3> QED BY <1>1, <1>5, <1>9, <3>3, <3>6 DEF BarrierEmptyBetween, InsidePCs
  <2>3. CASE pc[MM] # "idle" /\ ~(pc[MM] = "check" /\ l = "idle")
    BY <1>4, <1>5, <2>3 DEF BarrierEmptyBetween
  <2> QED BY <2>1, <2>2, <2>3
<1> QED BY <1>10, <1>11, <1>12, <1>13, <1>14, <1>15 DEF IInv

LEMMA NextIInv == IInv /\ [Next]_vars => IInv'
<1> SUFFICES ASSUME IInv, [Next]_vars PROVE IInv'
  OBVIOUS
<1>1. CASE ArmBarrier \/ Begin \/ End
  <2>1. MM \in Actors
    BY DEF Actors
  <2> QED BY <1>1, <2>1, PhaseSteps, ArmSteps, WakeSteps DEF Begin, End
<1>2. ASSUME NEW t \in Threads, Thread(t) PROVE IInv'
  <2>1. t \in Actors
    BY DEF Actors
  <2> QED BY <1>2, <2>1, BarrierSteps, WakeSteps, PollSteps DEF Thread, Barrier
<1>3. ASSUME NEW m \in Machines, Life(m) \/ PageFault(m) \/ Handling(m) PROVE IInv'
  BY <1>3, MachineSteps
<1>4. CASE UNCHANGED vars
  BY <1>4 DEF vars, IInv, TypeOK, Placed, CounterFits, IdsArePast, TagFits, ClaimsFit,
     InsideCounted, WakeupsBalance, BarrierEmptyBetween, LockFits, Those, InPC, Actors
<1> QED BY <1>1, <1>2, <1>3, <1>4 DEF Next

-----------------------------------------------------------------------------
(* The theorems.                                                            *)

\* What the lemmas above keep holds in every state there is.
THEOREM InvariantHolds == Spec => []IInv
BY InitIInv, NextIInv, PTL DEF Spec

\* The safepoint, the barrier and the threads keep their types; the barrier's
\* counts, which mm-thread.c decrements blindly, never drop below zero.
THEOREM TypeCorrect == Spec => []TypeOK
<1>1. IInv => TypeOK
  BY DEF IInv
<1> QED BY <1>1, InvariantHolds, PTL

\* Every thread asleep on the barrier's semaphore is owed exactly one post:
\* the compare-and-swap chain of wait_if_needed loses and doubles none.
THEOREM NoWakeupIsLost == Spec => []WakeupsBalance
<1>1. IInv => WakeupsBalance
  BY DEF IInv
<1> QED BY <1>1, InvariantHolds, PTL

\* wait_barrier_disarm leaves the barrier empty for the safepoint that
\* follows: wait_barrier_arm finds no waiter and no post of the last one.
THEOREM BarrierIsLeftEmpty == Spec => []BarrierEmptyBetween
<1>1. IInv => BarrierEmptyBetween
  BY DEF IInv
<1> QED BY <1>1, InvariantHolds, PTL

-----------------------------------------------------------------------------
(* Who stopped stays stopped, in a fixed population.                        *)

\* No machine comes or goes, and nobody reaches the safepoint by a fault.
FixedPopulation == Late = {} /\ ~Exits /\ ~PageFaults

AbsentPCs == {"unborn", "added", "exited", "joined", "fault", "handle", "handle_safe"}
AllListed == listed = Machines /\ \A m \in Machines : pc[m] \notin AbsentPCs

\* mm->state follows the memory-management thread.
StateFits ==
  /\ pc[MM] \in {"arm_count", "scan"} <=> state = "SYNCHRONIZING"
  /\ pc[MM] = "stopped" <=> state = "SYNCHRONIZED"

\* A machine that cannot be in MACH_RUNNING again before the disarm: m0 out of
\* the program, or in the loop of mm_synchronize_poll with the safepoint seen.
HeldPCs == {"loop", "spin", "assert", "wait", "enter", "recheck", "count", "sleep",
            "woken", "claim", "signal", "leave", "after"}
Held(m) == pc[m] = "left" \/ (polled[m] /\ pc[m] \in HeldPCs)
StoppersHeld ==
  state # "NOT_SYNCHRONIZED" => \A m \in running : mach[m] # "RUNNING" => Held(m)

\* What arm_safepoint has counted, and what the scan has looked at.
Before(p) == {m \in Machines : Owner[m] < p}
Looked == {m \in Machines : \/ Owner[m] < scan.proc
                            \/ scan.locked /\ Owner[m] = scan.proc /\ m \notin scan.todo}

TotalFits ==
  /\ pc[MM] = "arm_count" =>
       scan.proc >= 1 /\ scan.seen = {} /\ scan.total = Cardinality(Before(scan.proc))
  /\ pc[MM] = "scan" => scan.total = Cardinality(Machines)

\* n_threads has been lowered once for every machine of a set it has looked
\* at, and none of them, nor the one between its two loads, runs that ran when
\* the safepoint was armed.
StillFits ==
  pc[MM] = "scan" =>
    /\ scan.proc >= 1 /\ (scan.locked => \A m \in scan.todo : Owner[m] = scan.proc)
    /\ scan.seen \subseteq scan.todo /\ (scan.seen # {} => scan.locked)
    /\ \A m \in scan.seen \cap running : mach[m] # "RUNNING"
    /\ \E T \in SUBSET Looked :
         /\ scan.still = scan.total - Cardinality(T)
         /\ \A m \in T \cap running : mach[m] # "RUNNING"

FInv == AllListed /\ StateFits /\ StoppersHeld /\ TotalFits /\ StillFits /\ StoppedSinceArm

LEMMA InitFInv == FixedPopulation /\ Init => FInv
<1> SUFFICES ASSUME FixedPopulation, Init PROVE FInv
  OBVIOUS
<1>1. /\ state = "NOT_SYNCHRONIZED" /\ listed = Early \cup Main /\ running = {}
  BY DEF Init
<1>2. /\ pc[MM] = "idle" /\ \A t \in Threads : pc[t] \in {"run", "out", "unborn"}
      /\ \A m \in Machines : pc[m] # "unborn"
  <2>1. pc = [t \in Threads \cup {MM} |->
                CASE t = MM -> "idle" [] t \in Early \cup Foreign -> "run"
                  [] t \in Main -> "out" [] OTHER -> "unborn"]
    BY DEF Init
  <2>2. MM \notin Threads
    BY SafepointAssumption
  <2> DEFINE at(t) == CASE t = MM -> "idle" [] t \in Early \cup Foreign -> "run"
                        [] t \in Main -> "out" [] OTHER -> "unborn"
  <2>3. at(MM) = "idle"
    BY <2>2 DEF Threads, Machines
  <2>4. \A t \in Threads : at(t) \in {"run", "out", "unborn"}
    BY SafepointAssumption, Zenon
  <2>5. ASSUME NEW m \in Machines PROVE at(m) # "unborn"
    <3>1. m \in Early \cup Foreign \/ m \in Main
      BY DEF FixedPopulation, Machines
    <3>2. m # MM
      BY <2>2 DEF Threads
    <3>3. at(m) \in {"run", "out"}
      BY <3>1, <3>2, Zenon
    <3> QED BY <3>3
  <2>6. pc = [t \in Threads \cup {MM} |-> at(t)] /\ Machines \subseteq Threads
    BY <2>1 DEF Threads
  <2> HIDE DEF at
  <2> QED BY <2>3, <2>4, <2>5, <2>6
<1>3. AllListed
  BY <1>1, <1>2 DEF AllListed, FixedPopulation, Machines, Threads, AbsentPCs
<1> QED BY <1>1, <1>2, <1>3 DEF FInv, StateFits, StoppersHeld, TotalFits, StillFits, StoppedSinceArm

\* What no step of another thread than the memory-management one disturbs.
Aside ==
  /\ UNCHANGED <<state, scan, running, listed>> /\ pc'[MM] = pc[MM]
  /\ \A m \in Machines :
       /\ pc'[m] \notin AbsentPCs
       /\ state # "NOT_SYNCHRONIZED" =>
            /\ Held(m) /\ mach[m] # "RUNNING" => (Held(m) /\ mach[m] # "RUNNING")'
            /\ mach[m] = "RUNNING" /\ mach'[m] # "RUNNING" => Held(m)'

LEMMA AsideKeeps == ASSUME IInv, FInv, Aside PROVE FInv'
<1>1. AllListed' /\ StateFits'
  BY DEF FInv, Aside, AllListed, StateFits
<1>2. running \subseteq Machines
  BY DEF IInv, TypeOK
<1>3. /\ state' = state /\ scan' = scan /\ running' = running /\ pc'[MM] = pc[MM]
      /\ StoppersHeld /\ StillFits /\ TotalFits /\ StateFits /\ StoppedSinceArm
  BY DEF FInv, Aside
<1>4. \A m \in running : state # "NOT_SYNCHRONIZED" =>
        /\ mach[m] # "RUNNING" => mach'[m] # "RUNNING"
        /\ mach'[m] # "RUNNING" => Held(m)'
  BY <1>2, <1>3 DEF Aside, StoppersHeld
<1>5. StoppersHeld' /\ StoppedSinceArm' /\ TotalFits'
  BY <1>3, <1>4 DEF StoppersHeld, StoppedSinceArm, TotalFits, Before
<1>6. StillFits'
  <2>1. CASE pc[MM] = "scan"
    <3>1. state # "NOT_SYNCHRONIZED"
      BY <1>3, <2>1 DEF StateFits
    <3>2. PICK T \in SUBSET Looked :
            /\ scan.still = scan.total - Cardinality(T)
            /\ \A m \in T \cap running : mach[m] # "RUNNING"
      BY <1>3, <2>1 DEF StillFits
    <3>3. Looked' = Looked
      BY <1>3 DEF Looked
    <3>4. \A m \in T \cap running' : mach'[m] # "RUNNING"
      BY <1>3, <1>4, <3>1, <3>2
    <3>5. \A m \in scan'.seen \cap running' : mach'[m] # "RUNNING"
      BY <1>3, <1>4, <2>1, <3>1 DEF StillFits
    <3> QED BY <1>3, <2>1, <3>2, <3>3, <3>4, <3>5 DEF StillFits
  <2>2. CASE pc[MM] # "scan"
    BY <1>3, <2>2 DEF StillFits
  <2> QED BY <2>1, <2>2
<1> QED BY <1>1, <1>5, <1>6 DEF FInv

\* The steps of machines and threads, none of which stops a machine for
\* nothing or lets a stopped one run on.
LEMMA ThreadsAside ==
  ASSUME IInv, FInv, FixedPopulation, NEW t \in Threads, Thread(t)
  PROVE  Aside
<1>1. /\ pc \in [Actors -> ThreadPCs \cup MMPCs] /\ t \in Actors /\ t # MM /\ MM \in Actors
      /\ mach \in [Machines -> {"INIT", "IDLE", "RUNNING", "SAFE"}]
      /\ polled \in [Threads -> BOOLEAN] /\ Machines \subseteq Actors /\ Machines \subseteq Threads
  BY SafepointAssumption DEF IInv, TypeOK, Actors, Threads
<1>2. listed = Machines /\ \A m \in Machines : pc[m] \notin AbsentPCs
  BY DEF FInv, AllListed
<1>3. CASE BarrierTest(t)
  <2>1. pc[t] = "wait" /\ \E l \in {"after", "enter"} : pc' = [pc EXCEPT ![t] = l]
    BY <1>1, <1>3 DEF BarrierTest, At, Goto
  <2>2. UNCHANGED <<mmVars, listed, mach, polled>>
    BY <1>3 DEF BarrierTest
  <2> QED BY <1>1, <1>2, <2>1, <2>2 DEF Aside, Held, HeldPCs, AbsentPCs, mmVars
<1>4. CASE BarrierEnter(t)
  <2>1. pc[t] = "enter" /\ \E l \in {"recheck"} : pc' = [pc EXCEPT ![t] = l]
    BY <1>1, <1>4 DEF BarrierEnter, At, Goto
  <2>2. UNCHANGED <<mmVars, listed, mach, polled>>
    BY <1>4 DEF BarrierEnter
  <2> QED BY <1>1, <1>2, <2>1, <2>2 DEF Aside, Held, HeldPCs, AbsentPCs, mmVars
<1>5. CASE BarrierRecheck(t)
  <2>1. pc[t] = "recheck" /\ \E l \in {"count", "leave"} : pc' = [pc EXCEPT ![t] = l]
    BY <1>1, <1>5 DEF BarrierRecheck, At, Goto
  <2>2. UNCHANGED <<mmVars, listed, mach, polled>>
    BY <1>5 DEF BarrierRecheck
  <2> QED BY <1>1, <1>2, <2>1, <2>2 DEF Aside, Held, HeldPCs, AbsentPCs, mmVars
<1>6. CASE BarrierCount(t)
  <2>1. pc[t] = "count" /\ \E l \in {"sleep"} : pc' = [pc EXCEPT ![t] = l]
    BY <1>1, <1>6 DEF BarrierCount, At, Goto
  <2>2. UNCHANGED <<mmVars, listed, mach, polled>>
    BY <1>6 DEF BarrierCount
  <2> QED BY <1>1, <1>2, <2>1, <2>2 DEF Aside, Held, HeldPCs, AbsentPCs, mmVars
<1>7. CASE BarrierWake(t)
  <2>1. pc[t] = "sleep" /\ \E l \in {"woken"} : pc' = [pc EXCEPT ![t] = l]
    BY <1>1, <1>7 DEF BarrierWake, At, Goto
  <2>2. UNCHANGED <<mmVars, listed, mach, polled>>
    BY <1>7 DEF BarrierWake
  <2> QED BY <1>1, <1>2, <2>1, <2>2 DEF Aside, Held, HeldPCs, AbsentPCs, mmVars
<1>8. CASE BarrierLeave(t)
  <2>1. pc[t] = "leave" /\ \E l \in {"after"} : pc' = [pc EXCEPT ![t] = l]
    BY <1>1, <1>8 DEF BarrierLeave, At, Goto
  <2>2. UNCHANGED <<mmVars, listed, mach, polled>>
    BY <1>8 DEF BarrierLeave
  <2> QED BY <1>1, <1>2, <2>1, <2>2 DEF Aside, Held, HeldPCs, AbsentPCs, mmVars
<1>9. CASE LoadWaiters(t, "woken", "leave")
  <2>1. pc[t] = "woken" /\ \E l \in {"leave", "claim"} : pc' = [pc EXCEPT ![t] = l]
    BY <1>1, <1>9 DEF LoadWaiters, At, Goto
  <2>2. UNCHANGED <<mmVars, listed, mach, polled>>
    BY <1>9 DEF LoadWaiters
  <2> QED BY <1>1, <1>2, <2>1, <2>2 DEF Aside, Held, HeldPCs, AbsentPCs, mmVars
<1>10. CASE ClaimWaiter(t)
  <2>1. pc[t] = "claim" /\ \E l \in {"signal", "leave"} : pc' = [pc EXCEPT ![t] = l]
    BY <1>1, <1>10 DEF ClaimWaiter, At, Goto, AfterWake
  <2>2. UNCHANGED <<mmVars, listed, mach, polled>>
    BY <1>10 DEF ClaimWaiter
  <2> QED BY <1>1, <1>2, <2>1, <2>2 DEF Aside, Held, HeldPCs, AbsentPCs, mmVars
<1>11. CASE Signal(t)
  <2>1. pc[t] = "signal" /\ \E l \in {"leave"} : pc' = [pc EXCEPT ![t] = l]
    BY <1>1, <1>11 DEF Signal, At, Goto, AfterWake
  <2>2. UNCHANGED <<mmVars, listed, mach, polled>>
    BY <1>11 DEF Signal
  <2> QED BY <1>1, <1>2, <2>1, <2>2 DEF Aside, Held, HeldPCs, AbsentPCs, mmVars
<1>12. CASE PollSpinOut(t)
  <2>1. pc[t] = "spin" /\ \E l \in {"assert"} : pc' = [pc EXCEPT ![t] = l]
    BY <1>1, <1>12 DEF PollSpinOut, At, Goto
  <2>2. UNCHANGED <<mmVars, listed, mach, polled>>
    BY <1>12 DEF PollSpinOut
  <2> QED BY <1>1, <1>2, <2>1, <2>2 DEF Aside, Held, HeldPCs, AbsentPCs, mmVars
<1>13. CASE PollAssert(t)
  <2>1. pc[t] = "assert" /\ \E l \in {"wait"} : pc' = [pc EXCEPT ![t] = l]
    BY <1>1, <1>13 DEF PollAssert, At, Goto
  <2>2. UNCHANGED <<mmVars, listed, mach, polled>>
    BY <1>13 DEF PollAssert
  <2> QED BY <1>1, <1>2, <2>1, <2>2 DEF Aside, Held, HeldPCs, AbsentPCs, mmVars
<1>14. CASE Poll(t)
  BY <1>1, <1>2, <1>14 DEF Poll, At, Goto, mmVars, Aside, Held, HeldPCs, AbsentPCs
<1>15. CASE PollTest(t)
  BY <1>1, <1>2, <1>15 DEF PollTest, At, Goto, mmVars, Aside, Held, HeldPCs, AbsentPCs
<1>16. CASE PollSafe(t)
  BY <1>1, <1>2, <1>16 DEF PollSafe, At, Goto, mmVars, Aside, Held, HeldPCs, AbsentPCs
<1>17. CASE PollSpinEnd(t)
  BY <1>1, <1>2, <1>17 DEF PollSpinEnd, At, Goto, mmVars, Aside, Held, HeldPCs, AbsentPCs
<1>18. CASE PollAfter(t)
  BY <1>1, <1>2, <1>18 DEF PollAfter, At, Goto, mmVars, Aside, Held, HeldPCs, AbsentPCs
<1>19. CASE Restore(t)
  BY <1>1, <1>2, <1>19 DEF Restore, At, Goto, mmVars, Aside, Held, HeldPCs, AbsentPCs
<1> QED BY <1>3, <1>4, <1>5, <1>6, <1>7, <1>8, <1>9, <1>10, <1>11, <1>12, <1>13, <1>14,
   <1>15, <1>16, <1>17, <1>18, <1>19 DEF Thread, Barrier, Polling

LEMMA MachinesAside ==
  ASSUME IInv, FInv, FixedPopulation, NEW t \in Machines,
         Life(t) \/ PageFault(t) \/ Handling(t)
  PROVE  Aside
<1>1. /\ pc \in [Actors -> ThreadPCs \cup MMPCs] /\ t \in Actors /\ MM \in Actors /\ t # MM
      /\ mach \in [Machines -> {"INIT", "IDLE", "RUNNING", "SAFE"}]
      /\ polled \in [Threads -> BOOLEAN] /\ Machines \subseteq Actors /\ Machines \subseteq Threads
  BY SafepointAssumption DEF IInv, TypeOK, Actors, Threads
<1>2. listed = Machines /\ \A m \in Machines : pc[m] \notin AbsentPCs
  BY DEF FInv, AllListed
<1>3. pc[t] \notin AbsentPCs
  BY <1>2
<1>4. EnterMain(t) \/ LeaveMain(t)
  BY <1>3 DEF Life, Handling, FixedPopulation, AbsentPCs, AddMachine, StartMachine, ExitMachine,
     JoinMachine, PageFault, HandleCheck, HandleId, HandleSafe, At
<1>5. CASE EnterMain(t)
  BY <1>1, <1>2, <1>5 DEF EnterMain, At, Goto, mmVars, Aside, Held, HeldPCs, AbsentPCs
<1>6. CASE LeaveMain(t)
  BY <1>1, <1>2, <1>6 DEF LeaveMain, At, Goto, mmVars, Aside, Held, HeldPCs, AbsentPCs
<1> QED BY <1>4, <1>5, <1>6

\* The memory-management thread outside arm_safepoint's count and the scan.
LEMMA OutsideKeeps ==
  ASSUME IInv, FInv,
         \/ ArmBarrier \/ ArmCounter \/ DisarmCounter \/ DisarmPage \/ DisarmBarrier
         \/ LoadWaiters(MM, "drain", "check") \/ ClaimWaiter(MM) \/ Signal(MM) \/ DisarmCheck
  PROVE  FInv'
<1>1. /\ pc \in [Actors -> ThreadPCs \cup MMPCs] /\ MM \in Actors /\ MM \notin Machines
      /\ Machines \subseteq Actors
  BY SafepointAssumption DEF IInv, TypeOK, Actors, Threads
<1>2. UNCHANGED <<state, scan, running, listed, mach, polled>>
  BY DEF ArmBarrier, ArmCounter, DisarmCounter, DisarmPage, DisarmBarrier, LoadWaiters,
     ClaimWaiter, Signal, DisarmCheck, MMKeeps, mmVars
<1>3. PICK l \in MMPCs \ {"arm_count", "scan", "stopped"} :
        /\ pc[MM] \notin {"arm_count", "scan", "stopped"}
        /\ pc' = [pc EXCEPT ![MM] = l]
  BY DEF ArmBarrier, ArmCounter, DisarmCounter, DisarmPage, DisarmBarrier, LoadWaiters,
     ClaimWaiter, Signal, DisarmCheck, AfterWake, At, Goto, MMPCs
<1>4. /\ pc'[MM] \notin {"arm_count", "scan", "stopped"}
      /\ \A m \in Machines : pc'[m] = pc[m]
  BY <1>1, <1>3
<1>5. AllListed' /\ StateFits'
  BY <1>2, <1>3, <1>4 DEF FInv, AllListed, StateFits
<1>6. StoppersHeld' /\ StoppedSinceArm'
  <2>1. running \subseteq Machines
    BY DEF IInv, TypeOK
  <2> QED BY <1>2, <1>4, <2>1 DEF FInv, StoppersHeld, StoppedSinceArm, Held
<1>7. TotalFits' /\ StillFits'
  BY <1>4 DEF TotalFits, StillFits
<1> QED BY <1>5, <1>6, <1>7 DEF FInv

LEMMA BeforeIsFinite == \A p : IsFiniteSet(Before(p)) /\ Cardinality(Before(p)) \in Nat
<1> TAKE p
<1>1. Before(p) \subseteq Threads
  BY DEF Before, Threads
<1> QED BY <1>1, ActorsAreFinite, FS_Subset, FS_CardinalityType

\* One processor more: its machines are counted once.
LEMMA BeforeGrows ==
  ASSUME NEW p \in Nat
  PROVE  Cardinality(Before(p + 1))
           = Cardinality(Before(p)) + Cardinality({m \in Machines : Owner[m] = p})
<1> DEFINE A == Before(p)
           B == {m \in Machines : Owner[m] = p}
<1>1. \A m \in Machines : Owner[m] \in Nat
  BY SafepointAssumption DEF Procs
<1>2. Before(p + 1) = A \cup B
  BY <1>1 DEF Before
<1>3. A \cap B = {}
  BY <1>1 DEF Before
<1>4. IsFiniteSet(A) /\ Cardinality(A) \in Nat
  BY BeforeIsFinite
<1>5. IsFiniteSet(B) /\ Cardinality(B) \in Nat
  <2>1. B \subseteq Threads
    BY DEF Threads
  <2> QED BY <2>1, ActorsAreFinite, FS_Subset, FS_CardinalityType
<1> HIDE DEF A, B
<1>6. Cardinality(A \cup B) = Cardinality(A) + Cardinality(B) - Cardinality(A \cap B)
  BY <1>4, <1>5, FS_Union
<1>7. Cardinality(A \cap B) = 0
  BY <1>3, FS_EmptySet
<1>8. Cardinality(Before(p + 1)) = Cardinality(A) + Cardinality(B)
  <2>1. Cardinality(A) \in Nat /\ Cardinality(B) \in Nat
    BY <1>4, <1>5
  <2>2. Cardinality(A \cup B) = Cardinality(A) + Cardinality(B) - 0
    BY <1>6, <1>7
  <2>3. Cardinality(Before(p + 1)) = Cardinality(A) + Cardinality(B) - 0
    BY <1>2, <2>2
  <2> QED BY <2>1, <2>3
<1> QED BY <1>8 DEF A, B

\* arm_safepoint, the count of the machines and the end of the safepoint.
LEMMA CountKeeps ==
  ASSUME IInv, FInv, ArmState \/ ArmCount \/ DisarmState
  PROVE  FInv'
<1>1. /\ pc \in [Actors -> ThreadPCs \cup MMPCs] /\ MM \in Actors /\ MM \notin Machines
      /\ Machines \subseteq Actors /\ scan.proc \in Nat /\ scan.total \in Nat
      /\ NProcs \in Nat
  <2>1. /\ pc \in [Actors -> ThreadPCs \cup MMPCs] /\ MM \in Actors /\ MM \notin Machines
        /\ Machines \subseteq Actors /\ NProcs \in Nat
    BY SafepointAssumption DEF IInv, TypeOK, Actors, Threads
  <2>2. scan \in [proc : 0 .. NProcs + 1, locked : BOOLEAN, todo : SUBSET Machines,
                  seen : SUBSET Machines, total : Nat, still : Int]
    BY DEF IInv, TypeOK
  <2>3. scan.proc \in 0 .. NProcs + 1 /\ scan.total \in Nat
    BY <2>2
  <2> QED BY <2>1, <2>3
<1>2. /\ listed' = listed /\ mach' = mach /\ polled' = polled /\ listed = Machines
      /\ running \subseteq Machines
  BY DEF ArmState, ArmCount, DisarmState, MMKeeps, FInv, AllListed, IInv, TypeOK
<1>3. PICK l \in {"arm_count", "scan", "disarm"} : pc' = [pc EXCEPT ![MM] = l]
  <2>1. CASE ArmCount
    <3>1. pc[MM] = "arm_count" /\ (pc' = pc \/ pc' = [pc EXCEPT ![MM] = "scan"])
      BY <2>1 DEF ArmCount, At, Goto
    <3>2. pc' = pc => pc' = [pc EXCEPT ![MM] = "arm_count"]
      BY <1>1, <3>1
    <3> QED BY <3>1, <3>2
  <2>2. CASE ArmState \/ DisarmState
    BY <2>2 DEF ArmState, DisarmState, Goto
  <2> QED BY <2>1, <2>2
<1>4. pc'[MM] = l /\ \A m \in Machines : pc'[m] = pc[m]
  BY <1>1, <1>3
<1>5. AllListed'
  BY <1>2, <1>4 DEF FInv, AllListed
<1>6. CASE ArmState
  <2>1. /\ state' = "SYNCHRONIZING" /\ running' = {m \in listed : mach[m] = "RUNNING"}
        /\ scan' = [proc |-> 1, locked |-> FALSE, todo |-> {}, seen |-> {}, total |-> 0, still |-> 0]
        /\ pc'[MM] = "arm_count"
    BY <1>1, <1>6 DEF ArmState, Goto, NoScan
  <2>2. StateFits' /\ StoppersHeld' /\ StoppedSinceArm' /\ StillFits'
    BY <1>2, <2>1 DEF StateFits, StoppersHeld, StoppedSinceArm, StillFits
  <2>3. Before(1) = {}
    BY SafepointAssumption DEF Before, Procs
  <2>4. TotalFits'
    BY <2>1, <2>3, FS_EmptySet DEF TotalFits
  <2> QED BY <1>5, <2>2, <2>4 DEF FInv
<1>7. CASE ArmCount
  <2>1. pc[MM] = "arm_count" /\ state' = state /\ running' = running
    BY <1>7 DEF ArmCount, At
  <2>2. /\ state = "SYNCHRONIZING" /\ scan.proc >= 1 /\ scan.seen = {}
        /\ scan.total = Cardinality(Before(scan.proc))
    BY <2>1 DEF FInv, StateFits, TotalFits
  <2>3. StoppersHeld' /\ StoppedSinceArm'
    BY <1>2, <1>4, <2>1, <2>2 DEF FInv, StoppersHeld, StoppedSinceArm, Held
  <2>4. CASE scan.proc <= NProcs
    <3> DEFINE c == Cardinality({m \in Machines : Owner[m] = scan.proc})
    <3>1. scan' = [scan EXCEPT !.proc = scan.proc + 1, !.total = scan.total + c] /\ pc' = pc
      BY <1>2, <1>7, <2>4 DEF ArmCount
    <3>2. scan'.proc = scan.proc + 1 /\ scan'.total = scan.total + c /\ scan'.seen = scan.seen
      <4> HIDE DEF c
      <4>1. scan \in [proc : 0 .. NProcs + 1, locked : BOOLEAN, todo : SUBSET Machines,
                      seen : SUBSET Machines, total : Nat, still : Int]
        BY DEF IInv, TypeOK
      <4> QED BY <3>1, <4>1
    <3>3. Cardinality(Before(scan.proc + 1)) = scan.total + c
      BY <1>1, <2>2, BeforeGrows
    <3>4. TotalFits'
      BY <1>1, <2>1, <2>2, <3>1, <3>2, <3>3 DEF TotalFits
    <3>5. StateFits' /\ StillFits'
      BY <2>1, <2>2, <3>1 DEF StateFits, StillFits
    <3> QED BY <1>5, <2>3, <3>4, <3>5 DEF FInv
  <2>5. CASE scan.proc > NProcs
    <3>1. scan' = [scan EXCEPT !.proc = 1, !.still = scan.total] /\ pc'[MM] = "scan"
      BY <1>1, <1>7, <2>5 DEF ArmCount, Goto
    <3>2. /\ scan'.proc = 1 /\ scan'.still = scan.total /\ scan'.total = scan.total
          /\ scan'.locked = scan.locked /\ scan.locked = FALSE /\ scan'.seen = scan.seen
      <4>1. scan \in [proc : 0 .. NProcs + 1, locked : BOOLEAN, todo : SUBSET Machines,
                      seen : SUBSET Machines, total : Nat, still : Int]
        BY DEF IInv, TypeOK
      <4>2. scan.locked # TRUE
        BY <2>1 DEF IInv, LockFits
      <4> QED BY <3>1, <4>1, <4>2
    <3>3. Before(scan.proc) = Machines
      <4>1. \A m \in Machines : Owner[m] \in 1 .. NProcs
        BY SafepointAssumption DEF Procs
      <4> QED BY <1>1, <2>5, <4>1 DEF Before
    <3>4. TotalFits' /\ StateFits'
      BY <2>1, <2>2, <3>1, <3>2, <3>3 DEF TotalFits, StateFits
    <3>5. StillFits'
      <4>1. {} \in SUBSET Looked' /\ Cardinality({}) = 0
        BY FS_EmptySet
      <4>2. scan'.still = scan'.total - Cardinality({})
        BY <1>1, <3>2, <4>1
      <4> QED BY <2>2, <3>2, <4>1, <4>2 DEF StillFits
    <3> QED BY <1>5, <2>3, <3>4, <3>5 DEF FInv
  <2> QED BY <1>1, <2>4, <2>5
<1>8. CASE DisarmState
  <2>1. state' = "NOT_SYNCHRONIZED" /\ pc'[MM] = "disarm"
    BY <1>1, <1>8 DEF DisarmState, Goto
  <2> QED BY <1>5, <2>1 DEF FInv, StateFits, StoppersHeld, TotalFits, StillFits, StoppedSinceArm
<1> QED BY <1>6, <1>7, <1>8

\* The scan, and the safepoint that is reached: n_threads at zero means that
\* every machine has been looked at and was stopped.
LEMMA ScanKeeps ==
  ASSUME IInv, FInv,
         \/ ScanLock \/ ScanUnlock \/ ScanAgain \/ Synchronized
         \/ \E m \in Machines : ScanMachine(m) \/ ScanMachineAgain(m)
  PROVE  FInv'
<1>1. /\ scan \in ScanRecords /\ scan.proc \in Nat /\ scan.total \in Nat /\ scan.still \in Int
      /\ scan.locked \in BOOLEAN /\ NProcs \in Nat /\ running \subseteq Machines
      /\ pc \in [Actors -> ThreadPCs \cup MMPCs] /\ MM \in Actors /\ MM \notin Machines
      /\ Machines \subseteq Actors /\ \A m \in Machines : Owner[m] \in Nat /\ Owner[m] <= NProcs
  <2>1. scan \in [proc : 0 .. NProcs + 1, locked : BOOLEAN, todo : SUBSET Machines,
                  seen : SUBSET Machines, total : Nat, still : Int]
    BY DEF IInv, TypeOK
  <2>2. 0 .. NProcs + 1 \subseteq Nat /\ NProcs \in Nat
    BY SafepointAssumption
  <2>3. scan \in ScanRecords
    BY <2>1, <2>2, Zenon DEF ScanRecords
  <2>4. /\ running \subseteq Machines /\ pc \in [Actors -> ThreadPCs \cup MMPCs]
        /\ MM \in Actors /\ MM \notin Machines /\ Machines \subseteq Actors
    BY SafepointAssumption DEF IInv, TypeOK, Actors, Threads
  <2>5. \A m \in Machines : Owner[m] \in Nat /\ Owner[m] <= NProcs
    BY SafepointAssumption DEF Procs
  <2> QED BY <2>2, <2>3, <2>4, <2>5 DEF ScanRecords
<1>2. /\ listed' = listed /\ mach' = mach /\ polled' = polled /\ running' = running
      /\ listed = Machines /\ pc[MM] = "scan"
  BY DEF ScanLock, ScanUnlock, ScanAgain, Synchronized, ScanMachine, ScanMachineAgain, At, MMKeeps, FInv, AllListed
<1>3. /\ state = "SYNCHRONIZING" /\ scan.proc >= 1 /\ scan.total = Cardinality(Machines)
      /\ scan.locked => \A m \in scan.todo : Owner[m] = scan.proc
      /\ scan.seen \subseteq scan.todo /\ (scan.seen # {} => scan.locked)
      /\ \A m \in scan.seen \cap running : mach[m] # "RUNNING"
  BY <1>2 DEF FInv, StateFits, TotalFits, StillFits
<1>4. PICK T \in SUBSET Looked :
        /\ scan.still = scan.total - Cardinality(T)
        /\ \A m \in T \cap running : mach[m] # "RUNNING"
  BY <1>2 DEF FInv, StillFits
<1>5. IsFiniteSet(Machines) /\ IsFiniteSet(T) /\ Cardinality(T) \in Nat /\ T \subseteq Machines
  <2>1. Machines \subseteq Threads /\ T \subseteq Machines
    BY DEF Threads, Looked
  <2> QED BY <2>1, ActorsAreFinite, FS_Subset, FS_CardinalityType
<1>6. \A m \in Machines : pc'[m] = pc[m]
  BY <1>1 DEF ScanLock, ScanUnlock, ScanAgain, Synchronized, ScanMachine, ScanMachineAgain, Goto
<1>7. AllListed'
  BY <1>2, <1>6 DEF FInv, AllListed
<1>8. StoppersHeld'
  <2>1. state # "NOT_SYNCHRONIZED"
    BY <1>3
  <2> QED BY <1>1, <1>2, <1>6, <2>1 DEF FInv, StoppersHeld, Held
<1>9. ASSUME pc' = pc, state' = state, scan'.total = scan.total, scan'.proc \in Nat, scan'.proc >= 1,
             scan'.locked => \A m \in scan'.todo : Owner[m] = scan'.proc,
             scan'.seen \subseteq scan'.todo, scan'.seen # {} => scan'.locked,
             \A m \in scan'.seen \cap running : mach[m] # "RUNNING",
             NEW U \in SUBSET Looked', scan'.still = scan.total - Cardinality(U),
             \A m \in U \cap running : mach[m] # "RUNNING"
      PROVE  FInv'
  <2>1. StateFits' /\ TotalFits' /\ StoppedSinceArm'
    BY <1>2, <1>3, <1>9 DEF FInv, StateFits, TotalFits, StoppedSinceArm
  <2>2. StillFits'
    BY <1>2, <1>9 DEF StillFits
  <2> QED BY <1>7, <1>8, <2>1, <2>2 DEF FInv
<1>10. CASE ScanLock
  <2>1. /\ scan' = [scan EXCEPT !.locked = TRUE, !.todo = {m \in Machines : Owner[m] = scan.proc}]
        /\ ~scan.locked /\ pc' = pc /\ state' = state
    BY <1>2, <1>10 DEF ScanLock
  <2>2. /\ scan'.total = scan.total /\ scan'.proc = scan.proc /\ scan'.still = scan.still
        /\ scan'.locked = TRUE /\ scan'.todo = {m \in Machines : Owner[m] = scan.proc}
        /\ scan'.seen = {}
    BY <1>1, <1>3, <2>1 DEF ScanRecords
  <2>3. Looked' = Looked
    BY <2>1, <2>2 DEF Looked
  <2> QED BY <1>1, <1>3, <1>4, <1>9, <2>1, <2>2, <2>3
<1>11. CASE ScanUnlock
  <2>1. /\ scan' = [scan EXCEPT !.locked = FALSE, !.proc = scan.proc + 1]
        /\ scan.locked /\ scan.todo = {} /\ pc' = pc /\ state' = state
    BY <1>11 DEF ScanUnlock
  <2>2. /\ scan'.total = scan.total /\ scan'.proc = scan.proc + 1 /\ scan'.still = scan.still
        /\ scan'.locked = FALSE /\ scan'.seen = {}
    BY <1>1, <1>3, <2>1 DEF ScanRecords
  <2>3. Looked' = Looked
    BY <1>1, <2>1, <2>2 DEF Looked
  <2>4. scan'.proc \in Nat /\ scan'.proc >= 1
    BY <1>1, <2>2
  <2> QED BY <1>4, <1>9, <2>1, <2>2, <2>3, <2>4
<1>12. CASE ScanAgain
  <2>1. /\ scan' = [scan EXCEPT !.proc = 1, !.still = scan.total]
        /\ scan.proc > NProcs /\ pc' = pc /\ state' = state
    BY <1>12 DEF ScanAgain
  <2>2. /\ scan'.total = scan.total /\ scan'.proc = 1 /\ scan'.still = scan.total
        /\ scan'.locked = scan.locked /\ scan'.seen = scan.seen
    BY <1>1, <2>1 DEF ScanRecords
  <2>3. ~scan'.locked /\ scan'.seen = {}
    <3>1. scan.locked => scan.proc <= NProcs
      BY DEF IInv, LockFits
    <3>2. ~(scan.proc <= NProcs)
      BY <1>1, <2>1
    <3> QED BY <1>3, <2>2, <3>1, <3>2
  <2>4. {} \in SUBSET Looked' /\ Cardinality({}) = 0
    BY FS_EmptySet
  <2>5. scan'.still = scan.total - Cardinality({})
    BY <1>1, <2>2, <2>4
  <2> QED BY <1>1, <1>9, <2>1, <2>2, <2>3, <2>4, <2>5
<1>13. ASSUME NEW m \in Machines, ScanMachine(m) PROVE FInv'
  <2>1. scan.locked /\ scan.seen = {} /\ m \in scan.todo /\ pc' = pc /\ state' = state
    BY <1>13 DEF ScanMachine
  <2>2. CASE MayCountAsStopped(m)
    <3>1. scan' = [scan EXCEPT !.seen = {m}] /\ mach[m] # "RUNNING"
      BY <1>13, <2>2 DEF ScanMachine, MayCountAsStopped
    <3>2. /\ scan'.total = scan.total /\ scan'.proc = scan.proc /\ scan'.still = scan.still
          /\ scan'.locked = scan.locked /\ scan'.todo = scan.todo /\ scan'.seen = {m}
      BY <1>1, <3>1 DEF ScanRecords
    <3>3. Looked' = Looked
      BY <3>2 DEF Looked
    <3> QED BY <1>1, <1>3, <1>4, <1>9, <2>1, <3>1, <3>2, <3>3
  <2>3. CASE ~MayCountAsStopped(m)
    <3>1. scan' = [scan EXCEPT !.todo = scan.todo \ {m}]
      BY <1>13, <2>3 DEF ScanMachine
    <3>2. /\ scan'.total = scan.total /\ scan'.proc = scan.proc /\ scan'.still = scan.still
          /\ scan'.locked = scan.locked /\ scan'.todo = scan.todo \ {m} /\ scan'.seen = {}
      BY <1>1, <2>1, <3>1 DEF ScanRecords
    <3>3. T \in SUBSET Looked'
      BY <1>1, <1>3, <1>4, <2>1, <3>2 DEF Looked
    <3> QED BY <1>1, <1>3, <1>4, <1>9, <2>1, <3>2, <3>3
  <2> QED BY <2>2, <2>3
<1>15. ASSUME NEW m \in Machines, ScanMachineAgain(m) PROVE FInv'
  <2> DEFINE n == IF mach[m] # "INIT" THEN scan.still - 1 ELSE scan.still
  <2>1. /\ scan' = [scan EXCEPT !.todo = scan.todo \ {m}, !.seen = {}, !.still = n]
        /\ scan.locked /\ m \in scan.todo /\ m \in scan.seen /\ pc' = pc /\ state' = state
    BY <1>3, <1>15 DEF ScanMachineAgain
  <2>2. /\ scan'.total = scan.total /\ scan'.proc = scan.proc /\ scan'.still = n
        /\ scan'.locked = scan.locked /\ scan'.todo = scan.todo \ {m} /\ scan'.seen = {}
    <3> HIDE DEF n
    <3> QED BY <1>1, <2>1 DEF ScanRecords
  <2>3. m \notin Looked /\ Looked' = Looked \cup {m} /\ Owner[m] = scan.proc
    BY <1>1, <1>3, <2>1, <2>2 DEF Looked
  <2>4. CASE mach[m] # "INIT"
    <3>1. Cardinality(T \cup {m}) = Cardinality(T) + 1
      BY <1>5, <2>3, FS_AddElement
    <3>2. T \cup {m} \in SUBSET Looked' /\ scan'.still = scan.total - Cardinality(T \cup {m})
      BY <1>1, <1>4, <1>5, <2>2, <2>3, <2>4, <3>1
    <3>3. \A u \in (T \cup {m}) \cap running : mach[u] # "RUNNING"
      BY <1>3, <1>4, <2>1
    <3> QED BY <1>1, <1>3, <1>9, <2>1, <2>2, <3>2, <3>3
  <2>5. CASE mach[m] = "INIT"
    <3>1. T \in SUBSET Looked' /\ scan'.still = scan.total - Cardinality(T)
      BY <1>4, <2>2, <2>3, <2>5
    <3> QED BY <1>1, <1>3, <1>4, <1>9, <2>1, <2>2, <3>1
  <2> QED BY <2>4, <2>5
<1>14. CASE Synchronized
  <2>1. /\ state' = "SYNCHRONIZED" /\ pc' = [pc EXCEPT ![MM] = "stopped"]
        /\ scan.still = 0
    BY <1>14 DEF Synchronized, Goto
  <2>2. Cardinality(T) = Cardinality(Machines)
    BY <1>3, <1>4, <1>5, <2>1, <1>1
  <2>3. T = Machines
    BY <1>5, <2>2, FS_Subset
  <2>4. StoppedSinceArm'
    BY <1>1, <1>2, <1>4, <2>3 DEF StoppedSinceArm
  <2>5. pc'[MM] = "stopped"
    BY <1>1, <2>1
  <2>6. StateFits' /\ TotalFits' /\ StillFits'
    BY <2>1, <2>5 DEF StateFits, TotalFits, StillFits
  <2> QED BY <1>7, <1>8, <2>4, <2>6 DEF FInv
<1> QED BY <1>10, <1>11, <1>12, <1>13, <1>14, <1>15

LEMMA NextFInv == FixedPopulation /\ IInv /\ FInv /\ [Next]_vars => FInv'
<1> SUFFICES ASSUME FixedPopulation, IInv, FInv, [Next]_vars PROVE FInv'
  OBVIOUS
<1>1. CASE ArmBarrier \/ Begin \/ End
  BY <1>1, OutsideKeeps, CountKeeps, ScanKeeps DEF Begin, End
<1>2. ASSUME NEW t \in Threads, Thread(t) PROVE FInv'
  BY <1>2, ThreadsAside, AsideKeeps
<1>3. ASSUME NEW m \in Machines, Life(m) \/ PageFault(m) \/ Handling(m) PROVE FInv'
  BY <1>3, MachinesAside, AsideKeeps
<1>4. CASE UNCHANGED vars
  BY <1>4 DEF vars, FInv, AllListed, StateFits, StoppersHeld, Held, TotalFits, StillFits,
     StoppedSinceArm, Before, Looked
<1> QED BY <1>1, <1>2, <1>3, <1>4 DEF Next

\* A machine that ran when the safepoint was armed does not run while
\* mm_synchronize_begin has declared the world stopped, however the scans
\* of wait_all_threads_synchronized and the polls interleave.
THEOREM WorldStoppedSinceArm == FixedPopulation => (Spec => []StoppedSinceArm)
<1> SUFFICES ASSUME FixedPopulation PROVE Spec => []StoppedSinceArm
  OBVIOUS
<1>1. Init => FInv
  BY InitFInv
<1>2. IInv /\ FInv /\ [Next]_vars => FInv'
  BY NextFInv
<1>3. FInv => StoppedSinceArm
  BY DEF FInv
<1> QED BY <1>1, <1>2, <1>3, InvariantHolds, PTL DEF Spec

=============================================================================
