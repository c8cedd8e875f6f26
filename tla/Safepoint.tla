------------------------------ MODULE Safepoint ------------------------------
(***************************************************************************)
(* The safepoint of mm-thread.c: mm_synchronize_begin and _end on the      *)
(* memory-management thread, mm_synchronize_poll and mm_synchronize_handle *)
(* on the machines (OS threads that run coroutines), the wait barrier they *)
(* meet at, and the life of a machine in process.c and runtime.c.          *)
(*                                                                         *)
(* One action is one access to the shared state: a load, a store, an       *)
(* atomic read-modify-write, a semaphore operation, or the part of a       *)
(* critical section of proc->mutex nobody outside it can tell apart.       *)
(* Fences carry no state (the model is sequentially consistent).           *)
(***************************************************************************)
EXTENDS Integers, FiniteSets

CONSTANTS
  Early,       \* machines that run when the model starts
  Late,        \* machines to be created, added and started later
  Main,        \* the machines that are m0: at most one
  Foreign,     \* threads without a machine that poll
  NProcs,      \* nprocs
  Owner,       \* which processor a machine belongs to
  MM,          \* the memory-management thread
  MaxCycles,   \* bound: how often the safepoint is entered
  PageFaults,  \* whether machines also reach the safepoint by a page fault
  Exits,       \* whether a machine's entry function may return
  Debug        \* whether DCHECK is compiled in

Machines == Early \cup Late \cup Main
Threads == Machines \cup Foreign
Procs == 1..NProcs

ASSUME SafepointAssumption ==
  /\ NProcs \in Nat \ {0} /\ MaxCycles \in Nat
  /\ Owner \in [Machines -> Procs]
  /\ MM \notin Threads
  /\ IsFiniteSet(Threads) /\ Cardinality(Main) <= 1
  /\ Cardinality(Threads) = Cardinality(Early) + Cardinality(Late)
                              + Cardinality(Main) + Cardinality(Foreign)
  /\ {PageFaults, Exits, Debug} \subseteq BOOLEAN

VARIABLES
  state,     \* mm->state
  counter,   \* mm->safepoint_counter
  barrier,   \* mm->wait_barrier: [tag, waiters, threads, sem]
  armed,     \* whether the polling page is PROT_NONE
  listed,    \* the machines in the lists of the processors
  mach,      \* m->state of every machine
  pc,        \* where every thread is
  id,        \* safepoint_id of a polling thread (a local that is out of use is 0)
  polled,    \* retry > 0: this poll has seen a safepoint
  w,         \* the local of wait_if_needed
  scan,      \* begin's walk: [proc, locked, todo, seen, total, still]
  running,   \* history: machines in MACH_RUNNING when the safepoint was armed
  failed     \* the assertion that ended the process, or "none"

mmVars == <<state, counter, armed, scan, running>>
vars == <<state, counter, barrier, armed, listed, mach, pc, id, polled, w,
          scan, running, failed>>

Alive == failed = "none"
At(t, l) == Alive /\ pc[t] = l
Goto(t, l) == pc' = [pc EXCEPT ![t] = l]

NoScan == [proc |-> 0, locked |-> FALSE, todo |-> {}, seen |-> {}, total |-> 0, still |-> 0]

Init ==
  /\ state = "NOT_SYNCHRONIZED"
  /\ counter = 0
  /\ barrier = [tag |-> 0, waiters |-> 0, threads |-> 0, sem |-> 0]
  /\ armed = FALSE
  /\ listed = Early \cup Main
  /\ mach = [m \in Machines |-> IF m \in Early THEN "RUNNING"
                                ELSE IF m \in Main THEN "IDLE" ELSE "INIT"]
  /\ pc = [t \in Threads \cup {MM} |->
             CASE t = MM -> "idle" [] t \in Early \cup Foreign -> "run"
               [] t \in Main -> "out" [] OTHER -> "unborn"]
  /\ id = [t \in Threads |-> 0]
  /\ polled = [t \in Threads |-> FALSE]
  /\ w = [t \in Threads \cup {MM} |-> 0]
  /\ scan = NoScan
  /\ running = {}
  /\ failed = "none"

\* A GUARANTEE, or a DCHECK in a debug build: when cond is false the process
\* ends there; when it is true the thread goes on.
Guarantee(cond, name) == failed' = IF cond THEN failed ELSE name
DCheck(cond, name) == Guarantee(~Debug \/ cond, name)

-----------------------------------------------------------------------------
(* The life of a machine.                                                  *)

\* yalx_main: m0 enters the program, and leaves it when trampoline returns.
EnterMain(m) ==
  /\ At(m, "out")
  /\ mach' = [mach EXCEPT ![m] = "RUNNING"]
  /\ Goto(m, "run")
  /\ UNCHANGED <<mmVars, barrier, listed, id, polled, w, failed>>

LeaveMain(m) ==
  /\ m \in Main /\ At(m, "run")
  /\ mach' = [mach EXCEPT ![m] = "IDLE"]
  /\ Goto(m, "left")
  /\ UNCHANGED <<mmVars, barrier, listed, id, polled, w, failed>>

ProcUnlocked(p) == ~(scan.locked /\ scan.proc = p)

\* yalx_add_machine_to_processor, and the thread of yalx_mach_run_dummy.
AddMachine(m) ==
  /\ At(m, "unborn")
  /\ ProcUnlocked(Owner[m])
  /\ listed' = listed \cup {m}
  /\ Goto(m, "added")
  /\ UNCHANGED <<mmVars, barrier, mach, id, polled, w, failed>>

StartMachine(m) ==
  /\ At(m, "added")
  /\ mach' = [mach EXCEPT ![m] = "RUNNING"]
  /\ Goto(m, "run")
  /\ UNCHANGED <<mmVars, barrier, listed, id, polled, w, failed>>

\* mach_dummy_entry returns without touching mach->state; yalx_mach_join
\* takes the machine off its list.
ExitMachine(m) ==
  /\ Exits /\ m \notin Main /\ At(m, "run")
  /\ Goto(m, "exited")
  /\ UNCHANGED <<mmVars, barrier, listed, mach, id, polled, w, failed>>

JoinMachine(m) ==
  /\ At(m, "exited")
  /\ ProcUnlocked(Owner[m])
  /\ listed' = listed \ {m}
  /\ Goto(m, "joined")
  /\ UNCHANGED <<mmVars, barrier, mach, id, polled, w, failed>>

Life(m) == \/ EnterMain(m) \/ LeaveMain(m) \/ AddMachine(m) \/ StartMachine(m)
           \/ ExitMachine(m) \/ JoinMachine(m)

-----------------------------------------------------------------------------
(* The wait barrier.                                                       *)

\* wait_if_needed, called by the MM thread while it disarms and by a thread
\* that was woken: the load, the compare-and-swap, the signal.
LoadWaiters(t, from, empty) ==
  /\ At(t, from)
  /\ DCheck(barrier.tag = 0, "wait_if_needed")
  /\ w' = [w EXCEPT ![t] = barrier.waiters]
  /\ Goto(t, IF barrier.waiters = 0 THEN empty ELSE "claim")
  /\ UNCHANGED <<mmVars, barrier, listed, mach, id, polled>>

\* Where a thread goes after wait_if_needed did not return 0.
AfterWake(t) == IF t = MM THEN "drain" ELSE "leave"

\* Mutant: a store of w - 1 in place of the compare-and-swap.
ClaimWaiter_Store(t) ==
  /\ At(t, "claim")
  /\ barrier' = [barrier EXCEPT !.waiters = w[t] - 1]
  /\ Goto(t, "signal")
  /\ UNCHANGED <<mmVars, listed, mach, id, polled, w, failed>>

ClaimWaiter(t) ==
  /\ At(t, "claim")
  /\ IF barrier.waiters = w[t]
       THEN /\ barrier' = [barrier EXCEPT !.waiters = @ - 1]
            /\ Goto(t, "signal")
       ELSE /\ Goto(t, AfterWake(t))
            /\ UNCHANGED barrier
  /\ w' = IF barrier.waiters = w[t] THEN w ELSE [w EXCEPT ![t] = 0]
  /\ UNCHANGED <<mmVars, listed, mach, id, polled, failed>>

\* Mutant: the claimed waiter is not posted.
Signal_Lost(t) ==
  /\ At(t, "signal")
  /\ Goto(t, IF t = MM /\ w[t] = 1 THEN "check" ELSE AfterWake(t))
  /\ w' = [w EXCEPT ![t] = 0]
  /\ UNCHANGED <<mmVars, barrier, listed, mach, id, polled, failed>>

\* The MM thread's loop ends only on left = 0 and barrier_threads = 0; that
\* left was 0 because the last waiter was claimed leads to the same test.
Signal(t) ==
  /\ At(t, "signal")
  /\ barrier' = [barrier EXCEPT !.sem = @ + 1]
  /\ Goto(t, IF t = MM /\ w[t] = 1 THEN "check" ELSE AfterWake(t))
  /\ w' = [w EXCEPT ![t] = 0]
  /\ UNCHANGED <<mmVars, listed, mach, id, polled, failed>>

\* wait_barrier_wait.
BarrierTest(t) ==
  /\ At(t, "wait")
  /\ DCheck(barrier.tag # 0, "wait_barrier_wait")
  /\ Goto(t, IF barrier.tag # id[t] THEN "after" ELSE "enter")
  /\ UNCHANGED <<mmVars, barrier, listed, mach, id, polled, w>>

BarrierEnter(t) ==
  /\ At(t, "enter")
  /\ barrier' = [barrier EXCEPT !.threads = @ + 1]
  /\ Goto(t, "recheck")
  /\ UNCHANGED <<mmVars, listed, mach, id, polled, w, failed>>

BarrierRecheck(t) ==
  /\ At(t, "recheck")
  /\ Goto(t, IF id[t] # 0 /\ id[t] = barrier.tag THEN "count" ELSE "leave")
  /\ UNCHANGED <<mmVars, barrier, listed, mach, id, polled, w, failed>>

BarrierCount(t) ==
  /\ At(t, "count")
  /\ barrier' = [barrier EXCEPT !.waiters = @ + 1]
  /\ Goto(t, "sleep")
  /\ UNCHANGED <<mmVars, listed, mach, id, polled, w, failed>>

BarrierWake(t) ==
  /\ At(t, "sleep") /\ barrier.sem > 0
  /\ barrier' = [barrier EXCEPT !.sem = @ - 1]
  /\ Goto(t, "woken")
  /\ UNCHANGED <<mmVars, listed, mach, id, polled, w, failed>>

\* Mutant: the thread is never counted out.
BarrierLeave_Counted(t) ==
  /\ At(t, "leave")
  /\ Goto(t, "after")
  /\ UNCHANGED <<mmVars, barrier, listed, mach, id, polled, w, failed>>

BarrierLeave(t) ==
  /\ At(t, "leave")
  /\ barrier' = [barrier EXCEPT !.threads = @ - 1]
  /\ Goto(t, "after")
  /\ UNCHANGED <<mmVars, listed, mach, id, polled, w, failed>>

Barrier(t) == \/ BarrierTest(t) \/ BarrierEnter(t) \/ BarrierRecheck(t)
              \/ BarrierCount(t) \/ BarrierWake(t) \/ BarrierLeave(t)
              \/ LoadWaiters(t, "woken", "leave") \/ ClaimWaiter(t) \/ Signal(t)

-----------------------------------------------------------------------------
(* mm_synchronize_poll.                                                    *)

\* safepoint_id is read before the state.
Poll(t) ==
  /\ At(t, "run")
  /\ id' = [id EXCEPT ![t] = counter]
  /\ polled' = [polled EXCEPT ![t] = FALSE]
  /\ Goto(t, "loop")
  /\ UNCHANGED <<mmVars, barrier, listed, mach, w, failed>>

\* The while condition.
PollTest(t) ==
  /\ At(t, "loop")
  /\ Goto(t, IF state # "NOT_SYNCHRONIZED"
               THEN IF polled[t] THEN "spin" ELSE "cas"
               ELSE IF polled[t] THEN "restore" ELSE "run")
  /\ id' = IF state # "NOT_SYNCHRONIZED" \/ polled[t] THEN id ELSE [id EXCEPT ![t] = 0]
  /\ UNCHANGED <<mmVars, barrier, listed, mach, polled, w, failed>>

\* Mutant: the polling machine stays MACH_RUNNING.
PollSafe_Unmarked(t) ==
  /\ At(t, "cas")
  /\ polled' = [polled EXCEPT ![t] = TRUE]
  /\ Goto(t, "spin")
  /\ UNCHANGED <<mmVars, barrier, listed, mach, id, w, failed>>

\* The first turn makes the machine MACH_SAFE; a thread without a machine
\* only counts the turn.
PollSafe(t) ==
  /\ At(t, "cas")
  /\ mach' = IF t \in Machines THEN [mach EXCEPT ![t] = "SAFE"] ELSE mach
  /\ polled' = [polled EXCEPT ![t] = TRUE]
  /\ Goto(t, "spin")
  /\ UNCHANGED <<mmVars, barrier, listed, id, w, failed>>

\* The spin loop ends by "goto end", or runs out at any of its loads.
PollSpinEnd(t) ==
  /\ At(t, "spin")
  /\ state = "NOT_SYNCHRONIZED"
  /\ Goto(t, "restore")
  /\ UNCHANGED <<mmVars, barrier, listed, mach, id, polled, w, failed>>

PollSpinOut(t) ==
  /\ At(t, "spin")
  /\ state # "NOT_SYNCHRONIZED"
  /\ Goto(t, "assert")
  /\ UNCHANGED <<mmVars, barrier, listed, mach, id, polled, w, failed>>

PollAssert(t) ==
  /\ At(t, "assert")
  /\ DCheck(state = "SYNCHRONIZED", "poll before wait")
  /\ Goto(t, "wait")
  /\ UNCHANGED <<mmVars, barrier, listed, mach, id, polled, w>>

\* Behind the barrier; mm_synchronize_handle (polled FALSE) has no loop.
PollAfter(t) ==
  /\ At(t, "after")
  /\ DCheck(~polled[t] \/ state # "SYNCHRONIZED", "poll after wait")
  /\ Goto(t, IF polled[t] THEN "loop" ELSE "restore")
  /\ UNCHANGED <<mmVars, barrier, listed, mach, id, polled, w>>

Restore(t) ==
  /\ At(t, "restore")
  /\ mach' = IF t \in Machines THEN [mach EXCEPT ![t] = "RUNNING"] ELSE mach
  /\ polled' = [polled EXCEPT ![t] = FALSE] /\ id' = [id EXCEPT ![t] = 0]
  /\ Goto(t, "run")
  /\ UNCHANGED <<mmVars, barrier, listed, w, failed>>

Polling(t) == \/ Poll(t) \/ PollTest(t) \/ PollSafe(t) \/ PollSpinEnd(t)
              \/ PollSpinOut(t) \/ PollAssert(t) \/ PollAfter(t) \/ Restore(t)

-----------------------------------------------------------------------------
(* The polling page: a load of it while it is armed faults.                 *)

\* The signal handler diverts a machine of yalx_mach_run_dummy to
\* mm_synchronize_handle; for m0 that is not implemented and ends the process.
PageFault(m) ==
  /\ PageFaults /\ At(m, "run") /\ armed
  /\ Guarantee(m \notin Main, "not implemented")
  /\ Goto(m, "fault")
  /\ UNCHANGED <<mmVars, barrier, listed, mach, id, polled, w>>

HandleCheck(m) ==
  /\ At(m, "fault")
  /\ Guarantee(state = "SYNCHRONIZED", "handle")
  /\ Goto(m, "handle")
  /\ UNCHANGED <<mmVars, barrier, listed, mach, id, polled, w>>

HandleId(m) ==
  /\ At(m, "handle")
  /\ id' = [id EXCEPT ![m] = counter]
  /\ Goto(m, "handle_safe")
  /\ UNCHANGED <<mmVars, barrier, listed, mach, polled, w, failed>>

HandleSafe(m) ==
  /\ At(m, "handle_safe")
  /\ mach' = [mach EXCEPT ![m] = "SAFE"]
  /\ Goto(m, "wait")
  /\ UNCHANGED <<mmVars, barrier, listed, id, polled, w, failed>>

Handling(m) == HandleCheck(m) \/ HandleId(m) \/ HandleSafe(m)

-----------------------------------------------------------------------------
(* mm_synchronize_begin.                                                   *)

MMKeeps == UNCHANGED <<listed, mach, id, polled, w>>

\* wait_barrier_arm.
ArmBarrier ==
  /\ At(MM, "idle") /\ counter < 2 * MaxCycles
  /\ DCheck(barrier.tag = 0 /\ barrier.waiters = 0, "wait_barrier_arm")
  /\ barrier' = [barrier EXCEPT !.tag = counter + 1, !.waiters = 0]
  /\ Goto(MM, "arm")
  /\ MMKeeps /\ UNCHANGED mmVars

ArmCounter ==
  /\ At(MM, "arm")
  /\ counter' = counter + 1
  /\ Goto(MM, "arm_state")
  /\ MMKeeps /\ UNCHANGED <<state, barrier, armed, scan, running, failed>>

ArmState ==
  /\ At(MM, "arm_state")
  /\ state' = "SYNCHRONIZING"
  /\ running' = {m \in listed : mach[m] = "RUNNING"}
  /\ scan' = [NoScan EXCEPT !.proc = 1]
  /\ Goto(MM, "arm_count")
  /\ MMKeeps /\ UNCHANGED <<counter, barrier, armed, failed>>

\* n_threads, one processor under its lock at a time.
ArmCount ==
  /\ At(MM, "arm_count")
  /\ IF scan.proc <= NProcs
       THEN /\ scan' = [scan EXCEPT !.proc = @ + 1,
                          !.total = @ + Cardinality({m \in listed : Owner[m] = scan.proc})]
            /\ UNCHANGED <<armed, pc>>
       ELSE /\ armed' = TRUE
            /\ scan' = [scan EXCEPT !.proc = 1, !.still = scan.total]
            /\ Goto(MM, "scan")
  /\ MMKeeps /\ UNCHANGED <<state, counter, barrier, running, failed>>

\* wait_all_threads_synchronized: take a processor's lock, look at its
\* machines one by one, let go; after the last processor, again or done.
ScanLock ==
  /\ At(MM, "scan") /\ ~scan.locked /\ scan.proc <= NProcs
  /\ scan' = [scan EXCEPT !.locked = TRUE,
                          !.todo = {m \in listed : Owner[m] = scan.proc}]
  /\ MMKeeps /\ UNCHANGED <<state, counter, barrier, armed, running, pc, failed>>

\* Mutant: only machines that have not started are waited for.
MayCountAsStopped_Running(m) == mach[m] # "INIT"

MayCountAsStopped(m) == mach[m] # "RUNNING"

\* m->state is loaded twice: the first load passes over a machine that runs,
\* and the second over one that has not started.
ScanMachine(m) ==
  /\ At(MM, "scan") /\ scan.locked /\ scan.seen = {} /\ m \in scan.todo
  /\ scan' = IF MayCountAsStopped(m) THEN [scan EXCEPT !.seen = {m}]
                                     ELSE [scan EXCEPT !.todo = @ \ {m}]
  /\ MMKeeps /\ UNCHANGED <<state, counter, barrier, armed, running, pc, failed>>

ScanMachineAgain(m) ==
  /\ At(MM, "scan") /\ m \in scan.seen
  /\ scan' = [scan EXCEPT !.todo = @ \ {m}, !.seen = {},
                          !.still = IF mach[m] # "INIT" THEN @ - 1 ELSE @]
  /\ MMKeeps /\ UNCHANGED <<state, counter, barrier, armed, running, pc, failed>>

ScanUnlock ==
  /\ At(MM, "scan") /\ scan.locked /\ scan.todo = {}
  /\ scan' = [scan EXCEPT !.locked = FALSE, !.proc = @ + 1]
  /\ MMKeeps /\ UNCHANGED <<state, counter, barrier, armed, running, pc, failed>>

ScanAgain ==
  /\ At(MM, "scan") /\ scan.proc > NProcs /\ scan.still # 0
  /\ scan' = [scan EXCEPT !.proc = 1, !.still = scan.total]
  /\ MMKeeps /\ UNCHANGED <<state, counter, barrier, armed, running, pc, failed>>

Synchronized ==
  /\ At(MM, "scan") /\ scan.proc > NProcs /\ scan.still = 0
  /\ state' = "SYNCHRONIZED"
  /\ Goto(MM, "stopped")
  /\ MMKeeps /\ UNCHANGED <<counter, barrier, armed, scan, running, failed>>

Begin == \/ ArmCounter \/ ArmState \/ ArmCount \/ ScanLock \/ ScanUnlock
         \/ ScanAgain \/ Synchronized
         \/ \E m \in Machines : ScanMachine(m) \/ ScanMachineAgain(m)

-----------------------------------------------------------------------------
(* mm_synchronize_end.                                                     *)

DisarmState ==
  /\ At(MM, "stopped")
  /\ state' = "NOT_SYNCHRONIZED"
  /\ running' = {} /\ scan' = NoScan
  /\ Goto(MM, "disarm")
  /\ MMKeeps /\ UNCHANGED <<counter, barrier, armed, failed>>

DisarmCounter ==
  /\ At(MM, "disarm")
  /\ counter' = counter + 1
  /\ Goto(MM, "disarm_page")
  /\ MMKeeps /\ UNCHANGED <<state, barrier, armed, scan, running, failed>>

DisarmPage ==
  /\ At(MM, "disarm_page")
  /\ armed' = FALSE
  /\ Goto(MM, "disarm_barrier")
  /\ MMKeeps /\ UNCHANGED <<state, counter, barrier, scan, running, failed>>

\* wait_barrier_disarm: drop the tag, then wake waiters until none is left
\* and no thread is inside the barrier.
DisarmBarrier ==
  /\ At(MM, "disarm_barrier")
  /\ barrier' = [barrier EXCEPT !.tag = 0]
  /\ Goto(MM, "drain")
  /\ MMKeeps /\ UNCHANGED <<mmVars, failed>>

\* Mutant: disarm does not wait for the threads inside the barrier.
DisarmCheck_NoThreads ==
  /\ At(MM, "check")
  /\ Goto(MM, "idle")
  /\ MMKeeps /\ UNCHANGED <<mmVars, barrier, failed>>

DisarmCheck ==
  /\ At(MM, "check")
  /\ Goto(MM, IF barrier.threads > 0 THEN "drain" ELSE "idle")
  /\ MMKeeps /\ UNCHANGED <<mmVars, barrier, failed>>

End == \/ DisarmState \/ DisarmCounter \/ DisarmPage \/ DisarmBarrier
       \/ LoadWaiters(MM, "drain", "check") \/ ClaimWaiter(MM) \/ Signal(MM)
       \/ DisarmCheck

-----------------------------------------------------------------------------
Thread(t) == Barrier(t) \/ Polling(t)

Next ==
  \/ ArmBarrier \/ Begin \/ End
  \/ \E t \in Threads : Thread(t)
  \/ \E m \in Machines : Life(m) \/ PageFault(m) \/ Handling(m)

Spec == Init /\ [][Next]_vars

\* The MM thread finishes a safepoint it has begun; a thread that can go on
\* goes on; a machine that runs polls again (yalx_schedule does so at every
\* switch: a program that never yields is outside this assumption).
Fairness ==
  /\ WF_vars(Begin) /\ WF_vars(End)
  /\ \A t \in Threads : WF_vars(Thread(t))

FairSpec == Spec /\ Fairness

-----------------------------------------------------------------------------
ThreadPCs == {"unborn", "added", "out", "left", "exited", "joined", "run", "loop",
              "cas", "spin", "assert", "wait", "enter", "recheck", "count",
              "sleep", "woken", "claim", "signal", "leave", "after", "restore",
              "fault", "handle", "handle_safe"}
MMPCs == {"idle", "arm", "arm_state", "arm_count", "scan", "stopped", "disarm",
          "disarm_page", "disarm_barrier", "drain", "claim", "signal", "check"}

\* The safepoint, the barrier, the scan and the threads keep their types; the
\* barrier's counts never drop below zero.
TypeOK ==
  /\ state \in {"NOT_SYNCHRONIZED", "SYNCHRONIZING", "SYNCHRONIZED"}
  /\ counter \in 0 .. 2 * MaxCycles
  /\ barrier \in [tag : Nat, waiters : Nat, threads : Nat, sem : Nat]
  /\ armed \in BOOLEAN
  /\ listed \subseteq Machines
  /\ mach \in [Machines -> {"INIT", "IDLE", "RUNNING", "SAFE"}]
  /\ pc \in [Threads \cup {MM} -> ThreadPCs \cup MMPCs]
  /\ id \in [Threads -> Nat]
  /\ polled \in [Threads -> BOOLEAN]
  /\ w \in [Threads \cup {MM} -> Nat]
  /\ scan \in [proc : 0 .. NProcs + 1, locked : BOOLEAN, todo : SUBSET Machines,
               seen : SUBSET Machines, total : Nat, still : Int]
  /\ running \subseteq Machines

InPC(labels) == {t \in Threads \cup {MM} : pc[t] \in labels}

\* With a fixed population, a machine that was in MACH_RUNNING when the
\* safepoint was armed is not in MACH_RUNNING while the MM thread has the world
\* stopped, whatever the earlier safepoints left behind (mm_synchronize_begin against mm_synchronize_poll).
StoppedSinceArm ==
  state = "SYNCHRONIZED" => \A m \in running : mach[m] # "RUNNING"

\* Every thread that is asleep on the barrier's semaphore is owed exactly one
\* post: counted in waiters, claimed by somebody about to signal, or already
\* in the semaphore (the compare-and-swap chain of wait_if_needed).
WakeupsBalance ==
  Cardinality(InPC({"sleep"})) =
    barrier.waiters + barrier.sem + Cardinality(InPC({"signal"}))

\* When disarm is over the barrier is empty: nobody of the last safepoint can
\* be found by wait_barrier_arm or sleep through the next one.
BarrierEmptyBetween ==
  pc[MM] \in {"idle", "arm"} =>
    /\ barrier.waiters = 0 /\ barrier.sem = 0
    /\ \A t \in Threads : pc[t] \notin {"count", "sleep", "woken", "claim", "signal"}

\* A safepoint that was begun is reached, every scan of mm_synchronize_begin
\* ending in a stopped world, and one that was reached is left: what
\* mm_synchronize_end waits for in the barrier drains.
SafepointsEnd ==
  /\ pc[MM] = "scan" ~> pc[MM] = "stopped"
  /\ pc[MM] = "disarm_barrier" ~> pc[MM] = "idle"

\* Nobody who went to sleep on the barrier stays there.
SleepersReturn == \A t \in Threads : pc[t] = "sleep" ~> pc[t] = "run"

\* docs/runtime.md: the safepoint is there for "GC stop world".
StoppedWorld ==
  state = "SYNCHRONIZED" => \A m \in listed : mach[m] # "RUNNING"
=============================================================================
