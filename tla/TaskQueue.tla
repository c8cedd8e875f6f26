----------------------------- MODULE TaskQueue -----------------------------
(***************************************************************************)
(* The work queue of the memory-management thread: daemon.c (task_queue)   *)
(* and the part of mm-thread.c that feeds and drains it.                   *)
(*                                                                         *)
(* Every routine in Routines is posted by a thread of its own with         *)
(* mm_thread_post_routine_to, yalx_mm_thread_shutdown posts STOP, one      *)
(* worker (mm_thread_entry) takes entries and runs them, and one more      *)
(* thread calls mm_thread_wait_inactive.  A critical section under         *)
(* q->mutex is one action; the condition variable is the worker's "sleep"  *)
(* state, which a notify, or (POSIX) nothing at all, ends.                 *)
(***************************************************************************)
EXTENDS Integers, Sequences

CONSTANTS
  Routines,   \* the tasks handed to mm_thread_post_routine_to
  STOP,       \* the task whose params spell "STOP"
  SENTINEL,   \* &q->tasks itself, which is a struct task_entry too
  SpuriousWakeups  \* whether a wait may end without a notify

ASSUME TaskQueueAssumption ==
  /\ STOP \notin Routines
  /\ SENTINEL \notin Routines \cup {STOP}
  /\ SpuriousWakeups \in BOOLEAN

VARIABLES
  tasks,      \* q->tasks: the circular list, without its head
  count,      \* q->count
  active,     \* mm->active
  pc,         \* where the worker is
  task,       \* the entry the worker holds
  post,       \* how far the post of each task has come
  observer,   \* the thread in mm_thread_wait_inactive: [pc, seen]
  posted,     \* history: the entries posted, in the order of the lock
  ran         \* history: the routines that ran to their end, in order

vars == <<tasks, count, active, pc, task, post, observer, posted, ran>>

Entries == Routines \cup {STOP}

\* A call through the sentinel's null run pointer ends the process.
Alive == pc # "crashed"

Init ==
  /\ tasks = <<>>
  /\ count = 0
  /\ active = 0
  /\ pc = "take"
  /\ task = SENTINEL
  /\ post = [t \in Entries |-> "idle"]
  /\ observer = [pc |-> "idle", seen |-> {}]
  /\ posted = <<>>
  /\ ran = <<>>

-----------------------------------------------------------------------------
(* Producers.                                                              *)

\* mm_thread_post_routine_to up to task_queue_post.
CountActive(t) ==
  /\ Alive
  /\ post[t] = "idle"
  /\ active' = active + 1
  /\ post' = [post EXCEPT ![t] = "counted"]
  /\ UNCHANGED <<tasks, count, pc, task, observer, posted, ran>>

\* Mutants: a post at the wrong end of the list, and one that wakes nobody.
task_queue_post_AtHead(t) ==
  /\ tasks' = <<t>> \o tasks
  /\ count' = count + 1
  /\ pc' = IF pc = "sleep" THEN "woken" ELSE pc
  /\ post' = [post EXCEPT ![t] = "posted"]
  /\ posted' = Append(posted, t)

task_queue_post_NoNotify(t) ==
  /\ tasks' = Append(tasks, t)
  /\ count' = count + 1
  /\ post' = [post EXCEPT ![t] = "posted"]
  /\ posted' = Append(posted, t)
  /\ UNCHANGED pc

\* The critical section of task_queue_post, notify included.
task_queue_post(t) ==
  /\ tasks' = Append(tasks, t)
  /\ count' = count + 1
  /\ pc' = IF pc = "sleep" THEN "woken" ELSE pc
  /\ post' = [post EXCEPT ![t] = "posted"]
  /\ posted' = Append(posted, t)

PostRoutine(t) ==
  /\ Alive
  /\ post[t] = "counted"
  /\ task_queue_post(t)
  /\ UNCHANGED <<active, task, observer, ran>>

\* yalx_mm_thread_shutdown: the stop task is not counted in mm->active.
Shutdown ==
  /\ Alive
  /\ post[STOP] = "idle"
  /\ task_queue_post(STOP)
  /\ UNCHANGED <<active, task, observer, ran>>

-----------------------------------------------------------------------------
(* The worker, mm_thread_entry.                                            *)

\* QUEUE_REMOVE of q->tasks.next: on an empty list that is the sentinel, and
\* removing it changes nothing.  q->count keeps its value.
RemoveHead ==
  /\ pc' = "taken"
  /\ IF tasks = <<>>
       THEN task' = SENTINEL /\ UNCHANGED tasks
       ELSE task' = Head(tasks) /\ tasks' = Tail(tasks)

\* task_queue_take when it does not wait, and when it waits.
Take ==
  /\ pc = "take" /\ count # 0
  /\ RemoveHead
  /\ UNCHANGED <<count, active, post, observer, posted, ran>>

TakeWait ==
  /\ pc = "take" /\ count = 0
  /\ pc' = "sleep"
  /\ UNCHANGED <<tasks, count, active, task, post, observer, posted, ran>>

\* pthread_cond_wait may return without a notify.
SpuriousWake ==
  /\ SpuriousWakeups
  /\ pc = "sleep"
  /\ pc' = "woken"
  /\ UNCHANGED <<tasks, count, active, task, post, observer, posted, ran>>

\* The wait is under an "if": the list is not looked at again.
TakeWoken ==
  /\ pc = "woken"
  /\ RemoveHead
  /\ UNCHANGED <<count, active, post, observer, posted, ran>>

\* The branch on task_is_stop, task->run and task_final.
Run ==
  /\ pc = "taken"
  /\ CASE task = STOP     -> pc' = "exit" /\ UNCHANGED ran
       [] task = SENTINEL -> pc' = "crashed" /\ UNCHANGED ran
       [] OTHER           -> pc' = "ran" /\ ran' = Append(ran, task)
  /\ UNCHANGED <<tasks, count, active, task, post, observer, posted>>

Finish ==
  /\ pc = "ran"
  /\ active' = active - 1
  /\ pc' = "take"
  /\ UNCHANGED <<tasks, count, task, post, observer, posted, ran>>

-----------------------------------------------------------------------------
(* mm_thread_wait_inactive.                                                *)

\* The caller waits for whatever has been posted when it calls.
StartWait ==
  /\ Alive
  /\ observer.pc = "idle"
  /\ observer' = [pc |-> "wait", seen |-> {t \in Routines : post[t] = "posted"}]
  /\ UNCHANGED <<tasks, count, active, pc, task, post, posted, ran>>

\* Mutant: an empty list is taken for an idle worker.
EndWait_ListEmpty ==
  /\ Alive
  /\ observer.pc = "wait" /\ tasks = <<>>
  /\ observer' = [observer EXCEPT !.pc = "done"]
  /\ UNCHANGED <<tasks, count, active, pc, task, post, posted, ran>>

EndWait ==
  /\ Alive
  /\ observer.pc = "wait" /\ active = 0
  /\ observer' = [observer EXCEPT !.pc = "done"]
  /\ UNCHANGED <<tasks, count, active, pc, task, post, posted, ran>>

-----------------------------------------------------------------------------
Worker == Take \/ TakeWait \/ TakeWoken \/ Run \/ Finish

Next ==
  \/ \E t \in Routines : CountActive(t) \/ PostRoutine(t)
  \/ Shutdown
  \/ Worker
  \/ SpuriousWake
  \/ StartWait \/ EndWait

Spec == Init /\ [][Next]_vars

-----------------------------------------------------------------------------
Ran == {ran[i] : i \in 1..Len(ran)}

\* The queue, the counter and the threads keep their types, and the number of
\* active tasks never drops below zero (task_queue_post, mm_thread_entry).
TypeOK ==
  /\ tasks \in Seq(Entries)
  /\ count \in Nat
  /\ active \in Nat
  /\ pc \in {"take", "sleep", "woken", "taken", "ran", "exit", "crashed"}
  /\ task \in Entries \cup {SENTINEL}
  /\ post \in [Entries -> {"idle", "counted", "posted"}]
  /\ observer \in [pc : {"idle", "wait", "done"}, seen : SUBSET Routines]
  /\ posted \in Seq(Entries)
  /\ ran \in Seq(Routines)

\* Routines run in the order in which they were posted, each once, and none
\* that was posted before STOP is skipped when the thread exits (the list of
\* daemon.c and the loop of mm_thread_entry).
RunInPostOrder ==
  LET stops == {i \in 1..Len(posted) : posted[i] = STOP}
  IN  /\ Len(ran) <= Len(posted)
      /\ ran = SubSeq(posted, 1, Len(ran))
      /\ pc = "exit" => stops = {Len(ran) + 1}

\* Whoever returns from mm_thread_wait_inactive sees every routine posted
\* before the call run to its end.
InactiveMeansDone ==
  observer.pc = "done" => observer.seen \subseteq Ran

\* A post is never lost on a worker that is asleep or about to sleep: once
\* something is posted the worker runs an entry or leaves.  (It may leave by
\* running the sentinel, see RemoveHead.)
PostWakesWorker ==
  posted # <<>> ~> (ran # <<>> \/ pc \in {"exit", "crashed"})
=============================================================================
