----------------------------- MODULE Scheduler -----------------------------
(***************************************************************************)
(* Coroutines on the one machine that runs them (m0): scheduler.c, the     *)
(* pool of stacks in stack.c, and the assembly around them in              *)
(* boot-linux-x64.s (yield, spawn_co, coroutine_finalize_stub).  The body  *)
(* of current_co is commented out there (167-178, a breakpoint is left) as *)
(* on the other platforms; the model takes it to return what the comment   *)
(* says, thread_local_mach->running.                                       *)
(*                                                                         *)
(* Everything happens on one thread, so an action is what that thread does *)
(* up to the next point where another coroutine could have been running.   *)
(* A coroutine record is freed by yalx_schedule while the machine is still *)
(* on the stack of the coroutine, and only then left: "return" is the time *)
(* between.                                                                *)
(***************************************************************************)
EXTENDS Integers, Sequences, FiniteSets, SequencesExt

CONSTANTS
  C0,      \* the coroutine of main, whose stack never goes to the pool
  Co,      \* the other coroutine records malloc can give out
  Stacks,  \* the stacks malloc can give out, all of STACK_DEFAULT_SIZE
  S0,      \* the stack of C0, 1 MB
  Limits   \* stack_pool.limit in stacks, 10 MB over 8 KB in the code

\* Records and stacks are addresses of their own.
ASSUME SchedulerAssumption ==
  /\ C0 \notin Co
  /\ S0 \notin Stacks
  /\ Limits \subseteq Nat

VARIABLES
  state,   \* co->state; "none" when the record is not allocated
  waiting, \* mach->waiting_head
  running, \* mach->running
  stack,   \* co->stack
  pool,    \* mach->stack_pool
  limit,   \* how many stacks fit below stack_pool.limit
  on,      \* the stack the machine executes on
  freed,   \* stacks given back to free
  at       \* what the machine does: "run", "spawned", "dying", "return"

svars == <<state, waiting, running, stack, pool, limit, on, freed, at>>

\* co->stack of a record that is not allocated.
NoStack == "no_stack"

ASSUME NoStackAssumption == NoStack \notin Stacks \cup {S0}

All == Co \cup {C0}

SInit ==
  /\ state = [c \in All |-> IF c = C0 THEN "running" ELSE "none"]
  /\ waiting = <<>>
  /\ running = C0
  /\ stack = [c \in All |-> IF c = C0 THEN S0 ELSE NoStack]
  /\ pool = <<>>
  /\ limit \in Limits
  /\ on = S0
  /\ freed = {}
  /\ at = "run"

\* yalx_new_stack_from_pool: the first pooled stack, or a new one (freed ones
\* can be given out again).  NewStack holds of the stack it takes.
NewStack(s) ==
  IF pool # <<>>
    THEN s = Head(pool) /\ pool' = Tail(pool) /\ UNCHANGED freed
    ELSE /\ s \in Stacks \ {stack[c] : c \in All}
         /\ freed' = freed \ {s}
         /\ UNCHANGED pool

\* spawn_co: yalx_install_coroutine, which puts the new one at the head.
Install(c) ==
  /\ at = "run" /\ state[c] = "none"
  /\ \E s \in Stacks :
       /\ NewStack(s)
       /\ stack' = [stack EXCEPT ![c] = s]
  /\ state' = [state EXCEPT ![c] = "waiting"]
  /\ waiting' = <<c>> \o waiting
  /\ at' = "spawned"
  /\ UNCHANGED <<running, on, limit>>

\* -1, which spawn_co ignores: malloc has no record to give, and the stack is
\* lost, or, the pool being empty, no stack.
InstallFails ==
  /\ at = "run"
  /\ \/ \E s \in Stacks : NewStack(s)
     \/ pool = <<>> /\ UNCHANGED <<pool, freed>>
  /\ at' = "spawned"
  /\ UNCHANGED <<state, waiting, running, stack, on, limit>>

\* Mutant: main's coroutine dies like the others.
Die_Any ==
  /\ at = "run"
  /\ state' = [state EXCEPT ![running] = "dead"]
  /\ at' = "dying"
  /\ UNCHANGED <<waiting, running, stack, pool, freed, on, limit>>

\* The entry function returns into coroutine_finalize_stub.
Die ==
  /\ at = "run" /\ running # C0
  /\ state' = [state EXCEPT ![running] = "dead"]
  /\ at' = "dying"
  /\ UNCHANGED <<waiting, running, stack, pool, freed, on, limit>>

\* Mutant: the stack stays with the coroutine, and is pooled as well.
DeleteStackToPool_Kept(s) ==
  /\ pool' = <<s>> \o pool
  /\ UNCHANGED <<freed, stack>>

\* yalx_delete_stack_to_pool
DeleteStackToPool(s) ==
  /\ IF Len(pool) + 1 < limit
       THEN pool' = <<s>> \o pool /\ UNCHANGED freed
       ELSE freed' = freed \cup {s} /\ UNCHANGED pool
  /\ stack' = [stack EXCEPT ![running] = NoStack]

\* Mutant: the coroutine that yields goes first again.
Requeue_First(old) == <<old>> \o Tail(waiting)

\* QUEUE_INSERT_TAIL of the coroutine that yields, the head taken.
Requeue(old) == Append(Tail(waiting), old)

\* yalx_schedule: a dead coroutine's stack and record go first, then the head
\* of the queue runs and a live one that yields goes to its tail.
Schedule ==
  LET old == running
      dead == state[old] = "dead"
      left == IF dead THEN [state EXCEPT ![old] = "none"] ELSE state
      next1 == Head(waiting)
  IN  /\ at' = "return"
      /\ IF dead THEN DeleteStackToPool(stack[old]) ELSE UNCHANGED <<stack, pool, freed>>
      /\ IF waiting = <<>>
           THEN state' = left /\ UNCHANGED <<waiting, running>>
           ELSE /\ running' = next1
                /\ waiting' = IF dead THEN Tail(waiting) ELSE Requeue(old)
                /\ state' = [c \in All |-> CASE c = next1 -> "running"
                                            [] c = old /\ ~dead -> "waiting"
                                            [] OTHER -> left[c]]

Yield ==
  /\ at \in {"run", "spawned", "dying"}
  /\ Schedule
  /\ UNCHANGED <<on, limit>>

\* yield_sched: the stack pointer of mach->running is loaded.
SwitchStack ==
  /\ at = "return"
  /\ at' = "run"
  /\ on' = stack[running]
  /\ UNCHANGED <<state, waiting, running, stack, pool, freed, limit>>

SNext ==
  \/ \E c \in Co : Install(c)
  \/ InstallFails
  \/ Die
  \/ Yield
  \/ SwitchStack

SSpec == SInit /\ [][SNext]_svars

-----------------------------------------------------------------------------
\* A stack is in one place: held by one coroutine, in the pool once, or freed
\* (yalx_schedule gives away the stack of a coroutine it frees).
StacksHaveOneOwner ==
  /\ \A c, d \in All : stack[c] = stack[d] /\ c # d => stack[c] = NoStack
  /\ \A i \in DOMAIN pool :
       /\ \A j \in DOMAIN pool : pool[i] = pool[j] => i = j
       /\ pool[i] \notin freed \cup {stack[c] : c \in All}

\* mach->running is a live coroutine whenever the machine goes on, so a
\* coroutine that dies always has a successor (the dead branch of
\* yalx_schedule leaves mach->running alone when nothing waits), and the queue
\* holds each of the others once.
RunningIsAlive ==
  /\ state[running] \in {"running", "dead"}
  /\ at # "dying" => state[running] = "running"
  /\ ToSet(waiting) = {c \in All : state[c] = "waiting"} /\ IsInjective(waiting)

\* Whoever waits runs again (the order of yalx_schedule's queue).
WaitersRun == \A c \in All : state[c] = "waiting" ~> running = c
=============================================================================
