--------------------------- MODULE ServicesProofs ---------------------------
(***************************************************************************)
(* Proofs about the small services of the runtime: the queue of the        *)
(* memory-management thread, the scheduler with its pool of stacks, the    *)
(* objects made on first use and the pool of strings.                      *)
(***************************************************************************)
EXTENDS TaskQueue, Scheduler, LazyLoad, StringPool, FiniteSetTheorems, SequenceTheorems, TLAPS

-----------------------------------------------------------------------------
(* The queue of the memory-management thread.                               *)

\* How many entries have been taken off the list.
Gone == Len(posted) - Len(tasks)

\* The list holds the end of what was posted.
ListIsRest ==
  /\ Len(tasks) <= Len(posted)
  /\ \A i \in 1..Len(tasks) : tasks[i] = posted[Gone + i]

PostedOnce ==
  /\ \A i, j \in 1..Len(posted) : posted[i] = posted[j] => i = j
  /\ \A i \in 1..Len(posted) : post[posted[i]] = "posted"
  /\ \A t \in Entries : post[t] = "posted" => \E i \in 1..Len(posted) : posted[i] = t
  /\ post[STOP] # "counted"

RanIsBegin ==
  /\ Len(ran) <= Len(posted)
  /\ \A i \in 1..Len(ran) : ran[i] = posted[i]

\* The entry in the worker's hands, between what has run and what is listed.
HandFits ==
  /\ pc \in {"take", "sleep", "woken", "ran", "crashed"} => Len(ran) = Gone
  /\ pc = "taken" /\ task = SENTINEL => Len(ran) = Gone
  /\ pc = "taken" /\ task # SENTINEL => Gone = Len(ran) + 1 /\ task = posted[Gone]
  /\ pc = "exit" => Gone = Len(ran) + 1 /\ task = posted[Gone] /\ task = STOP
  /\ pc = "ran" => Len(ran) >= 1 /\ task = ran[Len(ran)]

\* What mm->active counts: the routines that are announced and not over.
Open == {t \in Routines : \/ post[t] = "counted"
                          \/ post[t] = "posted" /\ (t \notin Ran \/ (pc = "ran" /\ t = task))}

OpenCounted == IsFiniteSet(Open) /\ active = Cardinality(Open)

SeenArePosted == \A t \in observer.seen : post[t] = "posted"

QInv ==
  /\ TypeOK /\ ListIsRest /\ PostedOnce /\ RanIsBegin /\ HandFits /\ OpenCounted
  /\ SeenArePosted /\ InactiveMeansDone

LEMMA InitQInv == Init => QInv
<1> SUFFICES ASSUME Init PROVE QInv
  OBVIOUS
<1>1. Open = {}
  BY DEF Init, Open, Entries
<1>2. OpenCounted
  BY <1>1, FS_EmptySet DEF Init, OpenCounted
<1>3. TypeOK
  BY DEF Init, TypeOK
<1>4. ListIsRest /\ PostedOnce /\ RanIsBegin /\ HandFits /\ SeenArePosted
  BY DEF Init, ListIsRest, PostedOnce, RanIsBegin, HandFits, SeenArePosted, Gone, Entries
<1>5. InactiveMeansDone
  BY DEF Init, InactiveMeansDone
<1> QED BY <1>2, <1>3, <1>4, <1>5 DEF QInv

\* What is appended to the list and to the history.
LEMMA PostKeeps ==
  ASSUME QInv, NEW t \in Entries, task_queue_post(t), post[t] # "posted",
         UNCHANGED <<active, task, observer, ran>>, t # STOP => post[t] = "counted",
         pc # "crashed"
  PROVE  QInv'
<1> DEFINE n == Len(posted)
<1>1. /\ tasks \in Seq(Entries) /\ posted \in Seq(Entries) /\ ran \in Seq(Routines)
      /\ count \in Nat /\ post \in [Entries -> {"idle", "counted", "posted"}]
      /\ active \in Nat /\ task \in Entries \cup {SENTINEL}
      /\ observer \in [pc : {"idle", "wait", "done"}, seen : SUBSET Routines]
      /\ pc \in {"take", "sleep", "woken", "taken", "ran", "exit", "crashed"}
  BY DEF QInv, TypeOK
<1>2. /\ posted' = Append(posted, t) /\ tasks' = Append(tasks, t) /\ count' = count + 1
      /\ post' = [post EXCEPT ![t] = "posted"]
      /\ pc' = (IF pc = "sleep" THEN "woken" ELSE pc)
  BY DEF task_queue_post
<1>3. /\ posted' \in Seq(Entries) /\ Len(posted') = n + 1 /\ posted'[n + 1] = t
      /\ \A i \in 1..n : posted'[i] = posted[i]
      /\ tasks' \in Seq(Entries) /\ Len(tasks') = Len(tasks) + 1 /\ tasks'[Len(tasks) + 1] = t
      /\ \A i \in 1..Len(tasks) : tasks'[i] = tasks[i]
  BY <1>1, <1>2
<1>4. n \in Nat /\ Len(tasks) \in Nat /\ Len(tasks) <= n /\ Len(ran) \in Nat
  BY <1>1 DEF QInv, ListIsRest
<1>5. Gone' = Gone /\ Gone \in Nat
  BY <1>3, <1>4 DEF Gone
<1>6. TypeOK'
  BY <1>1, <1>2, <1>3 DEF TypeOK
<1>7. ListIsRest'
  <2>1. \A i \in 1..Len(tasks') : tasks'[i] = posted'[Gone + i]
    <3> TAKE i \in 1..Len(tasks')
    <3>1. CASE i \in 1..Len(tasks)
      <4>1. tasks[i] = posted[Gone + i] /\ Gone + i \in 1..n
        BY <1>4, <3>1 DEF QInv, ListIsRest, Gone
      <4> QED BY <1>3, <3>1, <4>1
    <3>2. CASE i = Len(tasks) + 1
      <4>1. Gone + i = n + 1
        BY <1>4, <3>2 DEF Gone
      <4> QED BY <1>3, <3>2, <4>1
    <3> QED BY <1>3, <1>4, <3>1, <3>2
  <2> QED BY <1>3, <1>4, <1>5, <2>1 DEF ListIsRest
<1>8. PostedOnce'
  <2>1. \A i \in 1..n : posted[i] # t
    BY DEF QInv, PostedOnce
  <2>2. \A i \in 1..n + 1 : i \in 1..n \/ i = n + 1
    BY <1>4
  <2>3. \A i, j \in 1..n : posted[i] = posted[j] => i = j
    BY DEF QInv, PostedOnce
  <2>4. \A i, j \in 1..Len(posted') : posted'[i] = posted'[j] => i = j
    BY <1>3, <2>1, <2>2, <2>3
  <2>5. \A i \in 1..n : posted[i] \in Entries /\ post[posted[i]] = "posted"
    BY <1>1 DEF QInv, PostedOnce
  <2>6. \A i \in 1..Len(posted') : post'[posted'[i]] = "posted"
    BY <1>1, <1>2, <1>3, <2>2, <2>5
  <2>7. \A u \in Entries : post'[u] = "posted" => \E i \in 1..Len(posted') : posted'[i] = u
    <3> SUFFICES ASSUME NEW u \in Entries, post'[u] = "posted"
                 PROVE  \E i \in 1..Len(posted') : posted'[i] = u
      OBVIOUS
    <3>1. CASE u = t
      <4>1. n + 1 \in 1..Len(posted')
        BY <1>3, <1>4
      <4> QED BY <1>3, <3>1, <4>1
    <3>2. CASE u # t
      <4>1. post[u] = "posted"
        BY <1>1, <1>2, <3>2
      <4>2. PICK i \in 1..n : posted[i] = u
        BY <4>1 DEF QInv, PostedOnce
      <4>3. i \in 1..Len(posted')
        BY <1>3, <1>4
      <4> QED BY <1>3, <4>2, <4>3
    <3> QED BY <3>1, <3>2
  <2>8. post'[STOP] # "counted"
    BY <1>1, <1>2 DEF QInv, PostedOnce, Entries
  <2> QED BY <2>4, <2>6, <2>7, <2>8 DEF PostedOnce
<1>9. RanIsBegin'
  BY <1>3, <1>4 DEF QInv, RanIsBegin
<1>10. HandFits'
  <2>1. Gone >= 1 /\ Gone = Len(ran) + 1 => Gone \in 1..n
    BY <1>4, <1>5 DEF Gone
  <2> QED BY <1>2, <1>3, <1>4, <1>5, <2>1 DEF QInv, HandFits
<1>11. t \notin Ran
  <2>1. \A i \in 1..Len(ran) : ran[i] = posted[i] /\ i \in 1..n
    BY <1>4 DEF QInv, RanIsBegin
  <2>2. \A i \in 1..n : posted[i] # t
    BY DEF QInv, PostedOnce
  <2> QED BY <2>1, <2>2 DEF Ran
<1>12. Open' = Open
  <2>1. Ran' = Ran /\ task' = task /\ (pc' = "ran" <=> pc = "ran")
    BY <1>1, <1>2 DEF Ran
  <2>2. \A u \in Routines : u \in Entries /\ u # STOP
    BY TaskQueueAssumption DEF Entries
  <2>3. \A u \in Routines : u # t => post'[u] = post[u]
    BY <1>1, <1>2, <2>2
  <2>4. t \in Routines => post'[t] = "posted" /\ post[t] = "counted"
    BY <1>1, <1>2, <2>2
  <2> QED BY <1>11, <2>1, <2>3, <2>4 DEF Open
<1>13. OpenCounted' /\ SeenArePosted' /\ InactiveMeansDone'
  <2>1. OpenCounted'
    BY <1>12 DEF QInv, OpenCounted
  <2>2. SeenArePosted'
    <3>1. \A u \in observer.seen : u \in Entries /\ post[u] = "posted"
      BY <1>1 DEF QInv, SeenArePosted, Entries
    <3> QED BY <1>1, <1>2, <3>1 DEF SeenArePosted
  <2>3. InactiveMeansDone'
    BY DEF QInv, InactiveMeansDone, Ran
  <2> QED BY <2>1, <2>2, <2>3
<1> QED BY <1>6, <1>7, <1>8, <1>9, <1>10, <1>13 DEF QInv

\* The worker takes the head of the list, or the sentinel.
LEMMA TakeKeeps ==
  ASSUME QInv, Take \/ TakeWoken
  PROVE  QInv'
<1> DEFINE n == Len(posted)
<1>1. /\ tasks \in Seq(Entries) /\ posted \in Seq(Entries) /\ ran \in Seq(Routines)
      /\ post \in [Entries -> {"idle", "counted", "posted"}]
      /\ Len(tasks) \in Nat /\ n \in Nat /\ Len(ran) \in Nat /\ Len(tasks) <= n
      /\ pc \in {"take", "woken"} /\ Len(ran) = Gone
  <2>1. pc \in {"take", "woken"}
    BY DEF Take, TakeWoken
  <2> QED BY <2>1 DEF QInv, TypeOK, ListIsRest, HandFits
<1>2. UNCHANGED <<count, active, post, observer, posted, ran>> /\ pc' = "taken"
  BY DEF Take, TakeWoken, RemoveHead
<1>3. \/ tasks = <<>> /\ task' = SENTINEL /\ tasks' = tasks
      \/ tasks # <<>> /\ task' = Head(tasks) /\ tasks' = Tail(tasks)
  BY DEF Take, TakeWoken, RemoveHead
<1>4. TypeOK'
  <2>1. CASE tasks = <<>>
    BY <1>1, <1>2, <1>3, <2>1 DEF QInv, TypeOK
  <2>2. CASE tasks # <<>>
    <3>1. Head(tasks) \in Entries /\ Tail(tasks) \in Seq(Entries)
      BY <1>1, <2>2
    <3>2. tasks' \in Seq(Entries) /\ task' \in Entries \cup {SENTINEL}
      BY <1>3, <2>2, <3>1
    <3> QED BY <1>2, <3>2 DEF QInv, TypeOK
  <2> QED BY <2>1, <2>2
<1>5. ListIsRest' /\ HandFits'
  <2>1. CASE tasks = <<>>
    <3>1. task' = SENTINEL /\ tasks' = tasks
      BY <1>3, <2>1
    <3> QED BY <1>1, <1>2, <3>1 DEF QInv, ListIsRest, HandFits, Gone
  <2>2. CASE tasks # <<>>
    <3>1. task' = tasks[1] /\ tasks' = Tail(tasks) /\ Len(tasks) >= 1
      BY <1>1, <1>3, <2>2
    <3>2. /\ Len(tasks') = Len(tasks) - 1
          /\ \A i \in 1..Len(tasks) - 1 : tasks'[i] = tasks[i + 1]
      BY <1>1, <3>1
    <3>3. Gone' = Gone + 1 /\ Gone \in Nat
      <4>1. Len(posted') = n /\ n - (Len(tasks) - 1) = (n - Len(tasks)) + 1 /\ n - Len(tasks) \in Nat
        BY <1>1, <1>2
      <4> QED BY <3>2, <4>1 DEF Gone
    <3>4. \A i \in 1..Len(tasks) : tasks[i] = posted[Gone + i]
      BY DEF QInv, ListIsRest
    <3>5. \A i \in 1..Len(tasks') : tasks'[i] = posted'[Gone' + i]
      <4> TAKE i \in 1..Len(tasks')
      <4>1. tasks'[i] = tasks[i + 1] /\ i + 1 \in 1..Len(tasks)
        BY <1>1, <3>2
      <4>2. tasks[i + 1] = posted[Gone + (i + 1)]
        BY <3>4, <4>1
      <4>3. Gone + (i + 1) = Gone' + i
        BY <3>3
      <4> QED BY <1>2, <4>1, <4>2, <4>3
    <3>6. ListIsRest'
      BY <1>1, <1>2, <3>2, <3>5 DEF ListIsRest
    <3>7. task' = posted[Gone + 1]
      BY <1>1, <3>1, <3>4
    <3>8. task' # SENTINEL
      BY <1>1, <3>1, TaskQueueAssumption DEF Entries
    <3> QED BY <1>1, <1>2, <3>3, <3>6, <3>7, <3>8 DEF HandFits
  <2> QED BY <2>1, <2>2
<1>6. PostedOnce' /\ RanIsBegin' /\ SeenArePosted' /\ InactiveMeansDone'
  BY <1>2 DEF QInv, PostedOnce, RanIsBegin, SeenArePosted, InactiveMeansDone, Ran
<1>7. OpenCounted'
  <2>1. Open' = Open
    BY <1>1, <1>2 DEF Open, Ran
  <2> QED BY <1>2, <2>1 DEF QInv, OpenCounted
<1> QED BY <1>4, <1>5, <1>6, <1>7 DEF QInv

\* The entry in the worker's hands runs: it is the next that was posted.
LEMMA RunKeeps ==
  ASSUME QInv, Run
  PROVE  QInv'
<1> DEFINE n == Len(posted)
<1>1. /\ tasks \in Seq(Entries) /\ posted \in Seq(Entries) /\ ran \in Seq(Routines)
      /\ Len(tasks) \in Nat /\ n \in Nat /\ Len(ran) \in Nat /\ Len(tasks) <= n
      /\ pc = "taken" /\ task \in Entries \cup {SENTINEL}
      /\ UNCHANGED <<tasks, count, active, task, post, observer, posted>>
  BY DEF QInv, TypeOK, ListIsRest, Run
<1>2. ListIsRest' /\ PostedOnce' /\ SeenArePosted' /\ Gone' = Gone
  BY <1>1 DEF QInv, ListIsRest, PostedOnce, SeenArePosted, Gone
<1>3. CASE task \notin Routines
  <2>1. ran' = ran /\ pc' \in {"exit", "crashed"} /\ (task = STOP <=> pc' = "exit")
    <3>1. task = STOP \/ task = SENTINEL
      BY <1>1, <1>3 DEF Entries
    <3>2. STOP # SENTINEL
      BY TaskQueueAssumption
    <3> QED BY <3>1, <3>2 DEF Run
  <2>2. TypeOK'
    BY <1>1, <2>1 DEF QInv, TypeOK
  <2>3. HandFits'
    BY <1>1, <1>2, <1>3, <2>1, TaskQueueAssumption DEF QInv, HandFits, Entries
  <2>4. Open' = Open
    BY <1>1, <2>1 DEF Open, Ran
  <2>5. RanIsBegin' /\ InactiveMeansDone' /\ OpenCounted'
    BY <1>1, <2>1, <2>4 DEF QInv, RanIsBegin, InactiveMeansDone, OpenCounted, Ran
  <2> QED BY <1>2, <2>2, <2>3, <2>5 DEF QInv
<1>4. CASE task \in Routines
  <2>1. ran' = Append(ran, task) /\ pc' = "ran" /\ task # SENTINEL /\ task # STOP
    BY <1>4, TaskQueueAssumption DEF Run
  <2>2. Gone = Len(ran) + 1 /\ task = posted[Gone]
    BY <1>1, <2>1 DEF QInv, HandFits
  <2>3. /\ Len(ran') = Len(ran) + 1 /\ ran'[Len(ran) + 1] = task
        /\ \A i \in 1..Len(ran) : ran'[i] = ran[i]
        /\ ran' \in Seq(Routines)
    BY <1>1, <1>4, <2>1
  <2>4. TypeOK'
    BY <1>1, <2>1, <2>3 DEF QInv, TypeOK
  <2>5. RanIsBegin'
    <3>1. Gone <= n
      BY <1>1 DEF Gone
    <3>2. \A i \in 1..Len(ran') : i \in 1..Len(ran) \/ i = Len(ran) + 1
      BY <1>1, <2>3
    <3> QED BY <1>1, <2>2, <2>3, <3>1, <3>2 DEF QInv, RanIsBegin
  <2>6. HandFits'
    BY <1>1, <1>2, <2>1, <2>2, <2>3 DEF HandFits
  <2>7. Ran' = Ran \cup {task}
    <3>1. 1..Len(ran') = 1..Len(ran) \cup {Len(ran) + 1}
      BY <1>1, <2>3
    <3> QED BY <2>3, <3>1 DEF Ran
  <2>8. Open' = Open
    <3>1. task \notin Ran
      <4>1. \A i \in 1..Len(ran) : ran[i] = posted[i] /\ i \in 1..n /\ Gone \in 1..n /\ i # Gone
        BY <1>1, <2>2 DEF QInv, RanIsBegin, Gone
      <4>2. \A i, j \in 1..n : posted[i] = posted[j] => i = j
        BY DEF QInv, PostedOnce
      <4> QED BY <2>2, <4>1, <4>2 DEF Ran
    <3> QED BY <1>1, <2>1, <2>7, <3>1 DEF Open
  <2>9. InactiveMeansDone' /\ OpenCounted'
    BY <1>1, <2>7, <2>8 DEF QInv, InactiveMeansDone, OpenCounted
  <2> QED BY <1>2, <2>4, <2>5, <2>6, <2>9 DEF QInv
<1> QED BY <1>3, <1>4

\* mm->active is counted down for a routine that is over, and for no other.
LEMMA FinishKeeps ==
  ASSUME QInv, Finish
  PROVE  QInv'
<1>1. /\ ran \in Seq(Routines) /\ posted \in Seq(Entries) /\ pc = "ran" /\ pc' = "take"
      /\ active' = active - 1 /\ active \in Nat
      /\ UNCHANGED <<tasks, count, task, post, observer, posted, ran>>
      /\ Len(ran) >= 1 /\ task = ran[Len(ran)] /\ Len(ran) <= Len(posted)
  BY DEF QInv, TypeOK, Finish, HandFits, RanIsBegin
<1>2. Len(ran) \in 1..Len(ran) /\ Len(ran) \in 1..Len(posted) /\ task \in Routines /\ task \in Ran
  BY <1>1 DEF Ran
<1>3. post[task] = "posted"
  BY <1>1, <1>2 DEF QInv, RanIsBegin, PostedOnce
<1>4. task \in Open /\ Open' = Open \ {task}
  BY <1>1, <1>2, <1>3 DEF Open, Ran
<1>5. IsFiniteSet(Open) /\ active = Cardinality(Open)
  BY DEF QInv, OpenCounted
<1>6. IsFiniteSet(Open') /\ Cardinality(Open') = Cardinality(Open) - 1
  BY <1>4, <1>5, FS_RemoveElement
<1>7. Cardinality(Open') \in Nat
  BY <1>6, FS_CardinalityType
<1>8. OpenCounted'
  BY <1>1, <1>5, <1>6 DEF OpenCounted
<1>9. active' \in Nat
  BY <1>1, <1>5, <1>6, <1>7
<1>10. TypeOK'
  BY <1>1, <1>9 DEF QInv, TypeOK
<1>11. /\ ListIsRest' /\ PostedOnce' /\ RanIsBegin' /\ SeenArePosted' /\ InactiveMeansDone'
  BY <1>1 DEF QInv, ListIsRest, PostedOnce, RanIsBegin, SeenArePosted, InactiveMeansDone, Gone, Ran
<1>12. HandFits'
  BY <1>1 DEF QInv, HandFits, Gone
<1> QED BY <1>8, <1>10, <1>11, <1>12 DEF QInv

LEMMA NextQInv == QInv /\ [Next]_vars => QInv'
<1> SUFFICES ASSUME QInv, [Next]_vars PROVE QInv'
  OBVIOUS
<1>0. /\ post \in [Entries -> {"idle", "counted", "posted"}] /\ Routines \subseteq Entries
      /\ STOP \in Entries /\ STOP \notin Routines /\ active \in Nat
      /\ observer \in [pc : {"idle", "wait", "done"}, seen : SUBSET Routines]
  BY TaskQueueAssumption DEF QInv, TypeOK, Entries
<1>1. ASSUME NEW t \in Routines, CountActive(t) PROVE QInv'
  <2>1. /\ post[t] = "idle" /\ post' = [post EXCEPT ![t] = "counted"] /\ active' = active + 1
        /\ UNCHANGED <<tasks, count, pc, task, observer, posted, ran>>
    BY <1>1 DEF CountActive
  <2>2. t \notin Open /\ Open' = Open \cup {t}
    BY <1>0, <2>1 DEF Open, Ran
  <2>3. IsFiniteSet(Open) /\ active = Cardinality(Open)
    BY DEF QInv, OpenCounted
  <2>4. IsFiniteSet(Open') /\ Cardinality(Open') = Cardinality(Open) + 1
    BY <2>2, <2>3, FS_AddElement
  <2>5. OpenCounted' /\ active' \in Nat
    BY <1>0, <2>1, <2>3, <2>4 DEF OpenCounted
  <2>6. TypeOK'
    BY <1>0, <2>1, <2>5 DEF QInv, TypeOK
  <2>7. PostedOnce'
    <3>1. \A i \in 1..Len(posted) : posted[i] \in Entries
      BY DEF QInv, TypeOK
    <3> QED BY <1>0, <2>1, <3>1 DEF QInv, PostedOnce
  <2>8. SeenArePosted'
    BY <1>0, <2>1 DEF QInv, SeenArePosted
  <2>9. ListIsRest' /\ RanIsBegin' /\ HandFits' /\ InactiveMeansDone'
    BY <2>1 DEF QInv, ListIsRest, RanIsBegin, HandFits, InactiveMeansDone, Gone, Ran
  <2> QED BY <2>5, <2>6, <2>7, <2>8, <2>9 DEF QInv
<1>2. ASSUME NEW t \in Routines, PostRoutine(t) PROVE QInv'
  BY <1>0, <1>2, PostKeeps DEF PostRoutine, Alive
<1>3. CASE Shutdown
  BY <1>0, <1>3, PostKeeps DEF Shutdown, Alive
<1>4. CASE Worker
  <2>1. CASE TakeWait
    <3>1. pc = "take" /\ pc' = "sleep"
          /\ UNCHANGED <<tasks, count, active, task, post, observer, posted, ran>>
      BY <2>1 DEF TakeWait
    <3>2. Open' = Open
      BY <3>1 DEF Open, Ran
    <3> QED BY <3>1, <3>2 DEF QInv, TypeOK, ListIsRest, PostedOnce, RanIsBegin, HandFits,
            OpenCounted, SeenArePosted, InactiveMeansDone, Gone, Ran
  <2> QED BY <1>4, <2>1, TakeKeeps, RunKeeps, FinishKeeps DEF Worker
<1>5. CASE SpuriousWake
  <2>1. pc = "sleep" /\ pc' = "woken"
        /\ UNCHANGED <<tasks, count, active, task, post, observer, posted, ran>>
    BY <1>5 DEF SpuriousWake
  <2>2. Open' = Open
    BY <2>1 DEF Open, Ran
  <2> QED BY <2>1, <2>2 DEF QInv, TypeOK, ListIsRest, PostedOnce, RanIsBegin, HandFits,
          OpenCounted, SeenArePosted, InactiveMeansDone, Gone, Ran
<1>6. CASE StartWait \/ EndWait
  <2>1. UNCHANGED <<tasks, count, active, pc, task, post, posted, ran>>
    BY <1>6 DEF StartWait, EndWait
  <2>2. Open' = Open
    BY <2>1 DEF Open, Ran
  <2>3. /\ observer' \in [pc : {"idle", "wait", "done"}, seen : SUBSET Routines]
        /\ SeenArePosted'
    BY <1>0, <1>6 DEF StartWait, EndWait, QInv, SeenArePosted
  <2>4. InactiveMeansDone'
    <3>1. CASE StartWait
      BY <3>1 DEF StartWait, InactiveMeansDone
    <3>2. CASE EndWait
      <4>1. active = 0 /\ observer'.seen = observer.seen
        BY <1>0, <3>2 DEF EndWait
      <4>2. Open = {}
        BY <4>1, FS_EmptySet DEF QInv, OpenCounted
      <4>3. \A t \in observer.seen : t \in Routines /\ post[t] = "posted"
        BY <1>0 DEF QInv, SeenArePosted
      <4>4. observer.seen \subseteq Ran
        BY <4>2, <4>3 DEF Open
      <4> QED BY <2>1, <4>1, <4>4 DEF InactiveMeansDone, Ran
    <3> QED BY <1>6, <3>1, <3>2
  <2>5. TypeOK'
    BY <2>1, <2>3 DEF QInv, TypeOK
  <2>6. ListIsRest' /\ PostedOnce' /\ RanIsBegin' /\ HandFits' /\ OpenCounted'
    BY <2>1, <2>2 DEF QInv, ListIsRest, PostedOnce, RanIsBegin, HandFits, OpenCounted, Gone
  <2> QED BY <2>3, <2>4, <2>5, <2>6 DEF QInv
<1>7. CASE UNCHANGED vars
  BY <1>7 DEF vars, QInv, TypeOK, ListIsRest, PostedOnce, RanIsBegin, HandFits, OpenCounted,
     Open, SeenArePosted, InactiveMeansDone, Gone, Ran
<1> QED BY <1>1, <1>2, <1>3, <1>4, <1>5, <1>6, <1>7 DEF Next

\* The order and the exit, from where the worker is.
LEMMA InOrder == QInv => RunInPostOrder
<1> SUFFICES ASSUME QInv PROVE RunInPostOrder
  OBVIOUS
<1>1. /\ posted \in Seq(Entries) /\ ran \in Seq(Routines) /\ Len(ran) \in Nat
      /\ Len(posted) \in Nat /\ Len(tasks) \in Nat /\ Len(tasks) <= Len(posted)
      /\ Len(ran) <= Len(posted) /\ \A i \in 1..Len(ran) : ran[i] = posted[i]
  BY DEF QInv, TypeOK, RanIsBegin, ListIsRest
<1>2. ran = SubSeq(posted, 1, Len(ran))
  <2> DEFINE s == SubSeq(posted, 1, Len(ran))
  <2>1. s \in Seq(Entries) /\ Len(s) = Len(ran) /\ \A i \in 1..Len(ran) : s[i] = posted[i]
    BY <1>1
  <2>2. ran \in Seq(Entries)
    BY <1>1 DEF Entries
  <2> HIDE DEF s
  <2>3. ran = s
    BY <1>1, <2>1, <2>2, SeqEqual
  <2> QED BY <2>3 DEF s
<1>3. ASSUME pc = "exit"
      PROVE  {i \in 1..Len(posted) : posted[i] = STOP} = {Len(ran) + 1}
  <2>1. posted[Len(ran) + 1] = STOP /\ Len(ran) + 1 \in 1..Len(posted)
    BY <1>1, <1>3 DEF QInv, HandFits, Gone
  <2>2. \A i, j \in 1..Len(posted) : posted[i] = posted[j] => i = j
    BY DEF QInv, PostedOnce
  <2> QED BY <2>1, <2>2
<1> QED BY <1>1, <1>2, <1>3 DEF RunInPostOrder

THEOREM QueueInvariant == Spec => []QInv
BY InitQInv, NextQInv, PTL DEF Spec

\* The queue, the counter and the threads keep their types: mm->active, which
\* the worker decrements without a look, never drops below zero.
THEOREM QueueTypeCorrect == Spec => []TypeOK
<1>1. QInv => TypeOK
  BY DEF QInv
<1> QED BY <1>1, QueueInvariant, PTL

\* For any number of routines: they run in the order of their posts, each
\* once, and none posted before STOP is skipped (task_queue_take).
THEOREM RoutinesRunInOrder == Spec => []RunInPostOrder
BY InOrder, QueueInvariant, PTL

\* Whoever returns from mm_thread_wait_inactive has seen mm->active at zero,
\* and with it every routine posted before the call run to its end.
THEOREM InactiveIsDone == Spec => []InactiveMeansDone
<1>1. QInv => InactiveMeansDone
  BY DEF QInv
<1> QED BY <1>1, QueueInvariant, PTL


-----------------------------------------------------------------------------
(* The scheduler and its pool of stacks.                                    *)

SchedulerTypeOK ==
  /\ state \in [All -> {"none", "waiting", "running", "dead"}]
  /\ waiting \in Seq(All)
  /\ running \in All
  /\ stack \in [All -> Stacks \cup {S0, NoStack}]
  /\ pool \in Seq(Stacks)
  /\ limit \in Nat
  /\ freed \subseteq Stacks
  /\ at \in {"run", "spawned", "dying", "return"}

\* One coroutine runs, or has died and not been left yet; main's never dies.
OneRuns ==
  /\ \A c \in All : state[c] \in {"running", "dead"} <=> c = running
  /\ state[running] = "dead" <=> at = "dying"
  /\ state[C0] \in {"running", "waiting"}

\* The queue holds the others once each.
QueueHoldsWaiters ==
  /\ \A i, j \in 1..Len(waiting) : waiting[i] = waiting[j] => i = j
  /\ \A i \in 1..Len(waiting) : state[waiting[i]] = "waiting"
  /\ \A c \in All : state[c] = "waiting" => \E i \in 1..Len(waiting) : waiting[i] = c

HeldOnce ==
  /\ \A c \in All : stack[c] = NoStack <=> state[c] = "none"
  /\ \A c \in All : stack[c] = S0 <=> c = C0
  /\ \A c, d \in All : stack[c] = stack[d] /\ c # d => stack[c] = NoStack
  /\ \A c \in All : stack[c] \notin freed

PooledOnce ==
  /\ \A i, j \in 1..Len(pool) : pool[i] = pool[j] => i = j
  /\ \A i \in 1..Len(pool) : pool[i] \notin freed
  /\ \A i \in 1..Len(pool), c \in All : stack[c] # pool[i]

StacksInv == HeldOnce /\ PooledOnce

SchedInv == SchedulerTypeOK /\ OneRuns /\ QueueHoldsWaiters /\ StacksInv

LEMMA InitSchedInv == SInit => SchedInv
<1> SUFFICES ASSUME SInit PROVE SchedInv
  OBVIOUS
<1>1. C0 \in All /\ C0 \notin Co /\ S0 # NoStack /\ NoStack \notin Stacks
  BY SchedulerAssumption, NoStackAssumption DEF All
<1>2. SchedulerTypeOK
  BY <1>1, SchedulerAssumption DEF SInit, SchedulerTypeOK
<1>3. OneRuns /\ QueueHoldsWaiters
  BY <1>1 DEF SInit, OneRuns, QueueHoldsWaiters
<1>4. StacksInv
  BY <1>1, SchedulerAssumption DEF SInit, StacksInv, HeldOnce, PooledOnce
<1> QED BY <1>2, <1>3, <1>4 DEF SchedInv

\* What is taken for a new coroutine is in no pool, not free, and nobody's.
LEMMA NewStackIsNew ==
  ASSUME SchedInv, NEW s \in Stacks, NewStack(s)
  PROVE  /\ pool' \in Seq(Stacks) /\ freed' \subseteq Stacks
         /\ \A i, j \in 1..Len(pool') : pool'[i] = pool'[j] => i = j
         /\ \A i \in 1..Len(pool') : pool'[i] \notin freed' \cup {s}
         /\ \A i \in 1..Len(pool'), c \in All : stack[c] # pool'[i]
         /\ s \notin freed' /\ freed' \subseteq freed
         /\ \A c \in All : stack[c] # s
<1>1. /\ pool \in Seq(Stacks) /\ freed \subseteq Stacks
      /\ \A i, j \in 1..Len(pool) : pool[i] = pool[j] => i = j
      /\ \A i \in 1..Len(pool) : pool[i] \notin freed
      /\ \A i \in 1..Len(pool), c \in All : stack[c] # pool[i]
  BY DEF SchedInv, SchedulerTypeOK, StacksInv, PooledOnce
<1>2. CASE pool # <<>>
  <2>1. s = pool[1] /\ pool' = Tail(pool) /\ freed' = freed /\ Len(pool) >= 1 /\ Len(pool) \in Nat
    BY <1>1, <1>2 DEF NewStack
  <2>2. /\ pool' \in Seq(Stacks) /\ Len(pool') = Len(pool) - 1
        /\ \A i \in 1..Len(pool') : pool'[i] = pool[i + 1] /\ i + 1 \in 1..Len(pool) /\ i + 1 # 1
    BY <1>1, <1>2, <2>1
  <2>3. 1 \in 1..Len(pool)
    BY <2>1
  <2>4. \A i, j \in 1..Len(pool') : pool'[i] = pool'[j] => i = j
    <3> TAKE i, j \in 1..Len(pool')
    <3> HAVE pool'[i] = pool'[j]
    <3>1. i + 1 = j + 1
      BY <1>1, <2>2
    <3> QED BY <2>1, <2>2, <3>1
  <2>5. \A i \in 1..Len(pool') : pool'[i] # s
    BY <1>1, <2>1, <2>2, <2>3
  <2> QED BY <1>1, <2>1, <2>2, <2>3, <2>4, <2>5
<1>3. CASE pool = <<>>
  <2>1. s \notin {stack[c] : c \in All} /\ freed' = freed \ {s} /\ pool' = pool
    BY <1>3 DEF NewStack
  <2> QED BY <1>1, <1>3, <2>1
<1> QED BY <1>2, <1>3

LEMMA InstallKeeps ==
  ASSUME SchedInv, NEW c \in Co, Install(c)
  PROVE  SchedInv'
<1>1. PICK s \in Stacks : NewStack(s) /\ stack' = [stack EXCEPT ![c] = s]
  BY DEF Install
<1>2. /\ at = "run" /\ state[c] = "none" /\ at' = "spawned"
      /\ state' = [state EXCEPT ![c] = "waiting"] /\ waiting' = <<c>> \o waiting
      /\ UNCHANGED <<running, on, limit>>
  BY DEF Install
<1>3. /\ state \in [All -> {"none", "waiting", "running", "dead"}] /\ waiting \in Seq(All)
      /\ running \in All /\ stack \in [All -> Stacks \cup {S0, NoStack}]
      /\ limit \in Nat /\ c \in All /\ c # C0 /\ C0 \in All /\ Len(waiting) \in Nat
  BY SchedulerAssumption DEF SchedInv, SchedulerTypeOK, All
<1>4. /\ pool' \in Seq(Stacks) /\ freed' \subseteq Stacks
      /\ \A i, j \in 1..Len(pool') : pool'[i] = pool'[j] => i = j
      /\ \A i \in 1..Len(pool') : pool'[i] \notin freed' \cup {s}
      /\ \A i \in 1..Len(pool'), d \in All : stack[d] # pool'[i]
      /\ s \notin freed' /\ freed' \subseteq freed
      /\ \A d \in All : stack[d] # s
  BY <1>1, NewStackIsNew
<1>5. /\ waiting' \in Seq(All) /\ Len(waiting') = Len(waiting) + 1 /\ waiting'[1] = c
      /\ \A i \in 1..Len(waiting) : waiting'[i + 1] = waiting[i]
  BY <1>2, <1>3
<1>6. \A i \in 1..Len(waiting') : i = 1 \/ (i - 1 \in 1..Len(waiting) /\ waiting'[i] = waiting[i - 1])
  <2> TAKE i \in 1..Len(waiting')
  <2>1. CASE i # 1
    <3>1. i - 1 \in 1..Len(waiting) /\ (i - 1) + 1 = i
      BY <1>3, <1>5, <2>1
    <3> QED BY <1>5, <3>1
  <2> QED BY <2>1
<1>7. SchedulerTypeOK'
  <2>1. /\ state' \in [All -> {"none", "waiting", "running", "dead"}]
        /\ stack' \in [All -> Stacks \cup {S0, NoStack}]
    BY <1>1, <1>2, <1>3
  <2> QED BY <1>2, <1>3, <1>4, <1>5, <2>1 DEF SchedulerTypeOK
<1>8. OneRuns'
  BY <1>2, <1>3 DEF SchedInv, OneRuns
<1>9. QueueHoldsWaiters'
  <2>1. \A i \in 1..Len(waiting) : waiting[i] # c /\ waiting[i] \in All /\ state[waiting[i]] = "waiting"
    BY <1>2, <1>3 DEF SchedInv, QueueHoldsWaiters
  <2>2. \A i \in 1..Len(waiting') : state'[waiting'[i]] = "waiting"
    <3> TAKE i \in 1..Len(waiting')
    <3>1. CASE i = 1
      BY <1>2, <1>3, <1>5, <3>1
    <3>2. CASE i # 1
      <4>1. waiting'[i] \in All /\ waiting'[i] # c /\ state[waiting'[i]] = "waiting"
        BY <1>6, <2>1, <3>2
      <4> QED BY <1>2, <1>3, <4>1
    <3> QED BY <3>1, <3>2
  <2>3. \A i, j \in 1..Len(waiting') : waiting'[i] = waiting'[j] => i = j
    <3> TAKE i, j \in 1..Len(waiting')
    <3> HAVE waiting'[i] = waiting'[j]
    <3>1. CASE i = 1 \/ j = 1
      BY <1>5, <1>6, <2>1, <3>1
    <3>2. CASE i # 1 /\ j # 1
      <4>1. i - 1 = j - 1
        BY <1>6, <3>2, SMTT(30) DEF SchedInv, QueueHoldsWaiters
      <4> QED BY <1>3, <1>5, <4>1
    <3> QED BY <3>1, <3>2
  <2>4. \A d \in All : state'[d] = "waiting" => \E i \in 1..Len(waiting') : waiting'[i] = d
    <3> TAKE d \in All
    <3> HAVE state'[d] = "waiting"
    <3>1. CASE d = c
      <4>1. 1 \in 1..Len(waiting')
        BY <1>3, <1>5
      <4> QED BY <1>5, <3>1, <4>1
    <3>2. CASE d # c
      <4>1. state[d] = "waiting"
        BY <1>2, <1>3, <3>2
      <4>2. PICK i \in 1..Len(waiting) : waiting[i] = d
        BY <4>1 DEF SchedInv, QueueHoldsWaiters
      <4>3. i + 1 \in 1..Len(waiting')
        BY <1>3, <1>5
      <4> QED BY <1>5, <4>2, <4>3
    <3> QED BY <3>1, <3>2
  <2> QED BY <2>2, <2>3, <2>4 DEF QueueHoldsWaiters
<1>10. HeldOnce'
  <2>1. s # S0 /\ s # NoStack
    BY SchedulerAssumption, NoStackAssumption
  <2>2. /\ \A d \in All : stack[d] = NoStack <=> state[d] = "none"
        /\ \A d \in All : stack[d] = S0 <=> d = C0
        /\ \A d, e \in All : stack[d] = stack[e] /\ d # e => stack[d] = NoStack
        /\ \A d \in All : stack[d] \notin freed
    BY DEF SchedInv, StacksInv, HeldOnce
  <2>3. stack'[c] = s /\ \A d \in All : d # c => stack'[d] = stack[d]
    BY <1>1, <1>3
  <2>4. state'[c] = "waiting" /\ \A d \in All : d # c => state'[d] = state[d]
    BY <1>2, <1>3
  <2> QED BY <1>3, <1>4, <2>1, <2>2, <2>3, <2>4 DEF HeldOnce
<1>11. PooledOnce'
  BY <1>1, <1>3, <1>4 DEF PooledOnce
<1> QED BY <1>7, <1>8, <1>9, <1>10, <1>11 DEF SchedInv, StacksInv

LEMMA InstallFailsKeeps ==
  ASSUME SchedInv, InstallFails
  PROVE  SchedInv'
<1>1. /\ at = "run" /\ at' = "spawned"
      /\ UNCHANGED <<state, waiting, running, stack, on, limit>>
  BY DEF InstallFails
<1>2. OneRuns' /\ QueueHoldsWaiters'
  BY <1>1 DEF SchedInv, OneRuns, QueueHoldsWaiters
<1>3. CASE \E s \in Stacks : NewStack(s)
  <2>1. PICK s \in Stacks : NewStack(s)
    BY <1>3
  <2>2. SchedulerTypeOK'
    BY <1>1, <2>1, NewStackIsNew DEF SchedInv, SchedulerTypeOK
  <2>3. HeldOnce'
    BY <1>1, <2>1, NewStackIsNew DEF SchedInv, StacksInv, HeldOnce
  <2>4. PooledOnce'
    BY <1>1, <2>1, NewStackIsNew DEF PooledOnce
  <2> QED BY <1>2, <2>2, <2>3, <2>4 DEF SchedInv, StacksInv
<1>4. CASE UNCHANGED <<pool, freed>>
  <2>1. SchedulerTypeOK'
    BY <1>1, <1>4 DEF SchedInv, SchedulerTypeOK
  <2>2. HeldOnce' /\ PooledOnce'
    BY <1>1, <1>4 DEF SchedInv, StacksInv, HeldOnce, PooledOnce
  <2> QED BY <1>2, <2>1, <2>2 DEF SchedInv, StacksInv
<1> QED BY <1>3, <1>4 DEF InstallFails

\* The coroutine that ends gives its stack to the pool, or back to free.
LEMMA DeadGivesStackUp ==
  ASSUME SchedInv, running # C0, DeleteStackToPool(stack[running]),
         state[running] # "none",
         state' \in [All -> {"none", "waiting", "running", "dead"}], state'[running] = "none",
         \A c \in All : c # running => (state'[c] = "none" <=> state[c] = "none")
  PROVE  /\ pool' \in Seq(Stacks) /\ freed' \subseteq Stacks
         /\ stack' \in [All -> Stacks \cup {S0, NoStack}] /\ StacksInv'
<1> DEFINE s == stack[running]
<1>1. /\ running \in All /\ stack \in [All -> Stacks \cup {S0, NoStack}]
      /\ pool \in Seq(Stacks) /\ freed \subseteq Stacks /\ Len(pool) \in Nat
  BY DEF SchedInv, SchedulerTypeOK
<1>2. /\ \A d \in All : stack[d] = NoStack <=> state[d] = "none"
      /\ \A d \in All : stack[d] = S0 <=> d = C0
      /\ \A d, e \in All : stack[d] = stack[e] /\ d # e => stack[d] = NoStack
      /\ \A d \in All : stack[d] \notin freed
  BY DEF SchedInv, StacksInv, HeldOnce
<1>3. /\ \A i, j \in 1..Len(pool) : pool[i] = pool[j] => i = j
      /\ \A i \in 1..Len(pool) : pool[i] \notin freed
      /\ \A i \in 1..Len(pool), c \in All : stack[c] # pool[i]
  BY DEF SchedInv, StacksInv, PooledOnce
<1>4. s \in Stacks /\ s # NoStack /\ s # S0 /\ S0 # NoStack
  BY <1>1, <1>2, NoStackAssumption
<1>5. \A i \in 1..Len(pool) : pool[i] # s
  BY <1>1, <1>3
<1>6. stack' = [stack EXCEPT ![running] = NoStack]
  BY DEF DeleteStackToPool
<1>7. /\ stack' \in [All -> Stacks \cup {S0, NoStack}] /\ stack'[running] = NoStack
      /\ \A d \in All : d # running => stack'[d] = stack[d] /\ (stack[d] = s => FALSE)
  BY <1>1, <1>2, <1>4, <1>6
<1>8. /\ \A d \in All : stack'[d] = NoStack <=> state'[d] = "none"
      /\ \A d \in All : stack'[d] = S0 <=> d = C0
      /\ \A d, e \in All : stack'[d] = stack'[e] /\ d # e => stack'[d] = NoStack
  BY <1>1, <1>2, <1>4, <1>7
<1>9. CASE pool' = <<s>> \o pool /\ freed' = freed
  <2>1. /\ pool' \in Seq(Stacks) /\ Len(pool') = Len(pool) + 1 /\ pool'[1] = s
        /\ \A i \in 1..Len(pool) : pool'[i + 1] = pool[i]
    BY <1>1, <1>4, <1>9
  <2>2. \A i \in 1..Len(pool') : i = 1 \/ (i - 1 \in 1..Len(pool) /\ pool'[i] = pool[i - 1])
    <3> TAKE i \in 1..Len(pool')
    <3>1. CASE i # 1
      <4>1. i - 1 \in 1..Len(pool) /\ (i - 1) + 1 = i
        BY <1>1, <2>1, <3>1
      <4> QED BY <2>1, <4>1
    <3> QED BY <3>1
  <2>3. \A i, j \in 1..Len(pool') : pool'[i] = pool'[j] => i = j
    <3> TAKE i, j \in 1..Len(pool')
    <3> HAVE pool'[i] = pool'[j]
    <3>1. CASE i = 1 \/ j = 1
      BY <1>5, <2>1, <2>2, <3>1
    <3>2. CASE i # 1 /\ j # 1
      <4>1. i - 1 = j - 1
        BY <1>3, <2>2, <3>2
      <4> QED BY <1>1, <2>1, <4>1
    <3> QED BY <3>1, <3>2
  <2>4. s \notin freed
    BY <1>1, <1>2
  <2>5. \A i \in 1..Len(pool') : pool'[i] \notin freed
    BY <1>3, <2>1, <2>2, <2>4
  <2>6. \A i \in 1..Len(pool'), d \in All : stack'[d] # pool'[i]
    <3> TAKE i \in 1..Len(pool'), d \in All
    <3>1. CASE d = running
      BY <1>7, <2>1, NoStackAssumption, <3>1
    <3>2. CASE d # running
      <4>1. stack'[d] = stack[d] /\ stack[d] # s
        BY <1>7, <3>2
      <4>2. CASE i = 1
        BY <2>1, <4>1, <4>2
      <4>3. CASE i # 1
        BY <1>3, <2>2, <4>1, <4>3
      <4> QED BY <4>2, <4>3
    <3> QED BY <3>1, <3>2
  <2>7. \A d \in All : stack'[d] \notin freed
    BY <1>1, <1>2, <1>7, NoStackAssumption
  <2> QED BY <1>1, <1>7, <1>8, <1>9, <2>1, <2>3, <2>5, <2>6, <2>7 DEF StacksInv, HeldOnce, PooledOnce
<1>10. CASE pool' = pool /\ freed' = freed \cup {s}
  <2>1. \A d \in All : stack'[d] \notin freed'
    BY <1>1, <1>2, <1>4, <1>7, <1>10, NoStackAssumption
  <2>2. \A i \in 1..Len(pool), d \in All : stack'[d] # pool[i]
    <3> TAKE i \in 1..Len(pool), d \in All
    <3>1. pool[i] # NoStack
      BY <1>1, NoStackAssumption
    <3> QED BY <1>3, <1>7, <3>1
  <2>3. freed' \subseteq Stacks /\ pool' \in Seq(Stacks)
    BY <1>1, <1>4, <1>10
  <2> QED BY <1>3, <1>5, <1>7, <1>8, <1>10, <2>1, <2>2, <2>3 DEF StacksInv, HeldOnce, PooledOnce
<1> QED BY <1>9, <1>10 DEF DeleteStackToPool

LEMMA YieldKeeps ==
  ASSUME SchedInv, Yield
  PROVE  SchedInv'
<1>1. /\ state \in [All -> {"none", "waiting", "running", "dead"}] /\ waiting \in Seq(All)
      /\ running \in All /\ stack \in [All -> Stacks \cup {S0, NoStack}]
      /\ pool \in Seq(Stacks) /\ freed \subseteq Stacks
      /\ limit \in Nat /\ C0 \in All /\ Len(waiting) \in Nat
  BY DEF SchedInv, SchedulerTypeOK, All
<1>2. /\ \A c \in All : state[c] \in {"running", "dead"} <=> c = running
      /\ state[running] = "dead" <=> at = "dying"
      /\ state[C0] \in {"running", "waiting"}
  BY DEF SchedInv, OneRuns
<1>3. /\ \A i, j \in 1..Len(waiting) : waiting[i] = waiting[j] => i = j
      /\ \A i \in 1..Len(waiting) : state[waiting[i]] = "waiting"
      /\ \A c \in All : state[c] = "waiting" => \E i \in 1..Len(waiting) : waiting[i] = c
  BY DEF SchedInv, QueueHoldsWaiters
<1>4. at' = "return" /\ limit' = limit
  BY DEF Yield, Schedule
<1>5. CASE waiting = <<>>
  <2>1. running = C0 /\ state[running] = "running"
    <3>1. state[C0] # "waiting"
      BY <1>1, <1>3, <1>5
    <3> QED BY <1>1, <1>2, <3>1
  <2>2. UNCHANGED <<state, waiting, running, stack, pool, freed>>
    BY <1>5, <2>1 DEF Yield, Schedule
  <2>3. SchedulerTypeOK'
    BY <1>1, <1>4, <2>2 DEF SchedulerTypeOK
  <2>4. OneRuns' /\ QueueHoldsWaiters'
    BY <1>2, <1>3, <1>4, <2>1, <2>2 DEF OneRuns, QueueHoldsWaiters
  <2>5. StacksInv'
    BY <2>2 DEF SchedInv, StacksInv, HeldOnce, PooledOnce
  <2> QED BY <2>3, <2>4, <2>5 DEF SchedInv
<1>6. CASE waiting # <<>>
  <2> DEFINE next1 == waiting[1]
             dead == state[running] = "dead"
  <2>1. 1 \in 1..Len(waiting) /\ Head(waiting) = next1 /\ next1 \in All /\ state[next1] = "waiting"
    BY <1>1, <1>3, <1>6
  <2>2. next1 # running
    BY <1>1, <1>2, <2>1
  <2>3. running' = next1
    BY <1>6, <2>1 DEF Yield, Schedule
  <2>4. /\ state' \in [All -> {"none", "waiting", "running", "dead"}]
        /\ state'[next1] = "running"
        /\ dead => state'[running] = "none"
        /\ ~dead => state'[running] = "waiting"
        /\ \A c \in All : c # next1 /\ c # running => state'[c] = state[c]
    <3>1. CASE dead
      <4>1. state' = [c \in All |-> CASE c = next1 -> "running"
                          [] c = running /\ ~dead -> "waiting"
                          [] OTHER -> [state EXCEPT ![running] = "none"][c]]
        BY <1>6, <2>1, <3>1 DEF Yield, Schedule
      <4> QED BY <1>1, <2>1, <2>2, <3>1, <4>1
    <3>2. CASE ~dead
      <4>1. state' = [c \in All |-> CASE c = next1 -> "running"
                          [] c = running /\ ~dead -> "waiting"
                          [] OTHER -> state[c]]
        BY <1>6, <2>1, <3>2 DEF Yield, Schedule
      <4> QED BY <1>1, <2>1, <2>2, <3>2, <4>1
    <3> QED BY <3>1, <3>2
  <2>5. OneRuns'
    <3>1. \A c \in All : state'[c] \in {"running", "dead"} <=> c = next1
      BY <1>1, <1>2, <2>1, <2>2, <2>4
    <3>2. state'[C0] \in {"running", "waiting"}
      <4>1. CASE C0 = next1
        BY <2>4, <4>1
      <4>2. CASE C0 # next1 /\ C0 = running
        BY <1>2, <2>4, <4>2
      <4>3. CASE C0 # next1 /\ C0 # running
        BY <1>1, <1>2, <2>4, <4>3
      <4> QED BY <4>1, <4>2, <4>3
    <3> QED BY <1>4, <2>3, <2>4, <3>1, <3>2 DEF OneRuns
  <2>6. /\ Tail(waiting) \in Seq(All) /\ Len(Tail(waiting)) = Len(waiting) - 1
        /\ \A i \in 1..Len(waiting) - 1 : Tail(waiting)[i] = waiting[i + 1]
    BY <1>1, <1>6
  <2>7. \A i \in 1..Len(waiting) - 1 : /\ i + 1 \in 1..Len(waiting)
                                       /\ waiting[i + 1] # next1 /\ waiting[i + 1] # running
                                       /\ waiting[i + 1] \in All
    <3> TAKE i \in 1..Len(waiting) - 1
    <3>1. i + 1 \in 1..Len(waiting) /\ i + 1 # 1
      BY <1>1
    <3>2. waiting[i + 1] # next1
      BY <1>3, <2>1, <3>1
    <3>3. waiting[i + 1] \in All /\ state[waiting[i + 1]] = "waiting"
      BY <1>1, <1>3, <3>1
    <3> QED BY <1>2, <3>1, <3>2, <3>3
  <2>8. \A c \in All : state[c] = "waiting" /\ c # next1
                          => \E i \in 1..Len(waiting) - 1 : waiting[i + 1] = c
    <3> TAKE c \in All
    <3> HAVE state[c] = "waiting" /\ c # next1
    <3>1. PICK i \in 1..Len(waiting) : waiting[i] = c
      BY <1>3
    <3>2. i - 1 \in 1..Len(waiting) - 1 /\ (i - 1) + 1 = i
      <4>1. i # 1
        BY <3>1
      <4> QED BY <1>1, <4>1
    <3> QED BY <3>1, <3>2
  <2>9. CASE dead
    <3>1. running # C0 /\ state[running] # "none"
      BY <1>2, <2>9
    <3>2. waiting' = Tail(waiting) /\ DeleteStackToPool(stack[running])
      BY <1>6, <2>9 DEF Yield, Schedule
    <3>3. \A c \in All : c # running => (state'[c] = "none" <=> state[c] = "none")
      BY <2>1, <2>2, <2>4
    <3>4. /\ pool' \in Seq(Stacks) /\ freed' \subseteq Stacks
          /\ stack' \in [All -> Stacks \cup {S0, NoStack}] /\ StacksInv'
      BY <2>4, <2>9, <3>1, <3>2, <3>3, DeadGivesStackUp
    <3>5. SchedulerTypeOK'
      BY <1>1, <1>4, <2>1, <2>3, <2>4, <2>6, <3>2, <3>4 DEF SchedulerTypeOK
    <3>6. QueueHoldsWaiters'
      <4>1. \A i, j \in 1..Len(waiting') : waiting'[i] = waiting'[j] => i = j
        <5> TAKE i, j \in 1..Len(waiting')
        <5> HAVE waiting'[i] = waiting'[j]
        <5>1. i + 1 = j + 1
          BY <1>3, <2>6, <2>7, <3>2
        <5> QED BY <1>1, <2>6, <3>2, <5>1
      <4>2. \A i \in 1..Len(waiting') : state'[waiting'[i]] = "waiting"
        BY <1>3, <2>4, <2>6, <2>7, <3>2
      <4>3. \A c \in All : state'[c] = "waiting" => state[c] = "waiting" /\ c # next1
        BY <2>4, <2>9
      <4>4. \A c \in All : state'[c] = "waiting" => \E i \in 1..Len(waiting') : waiting'[i] = c
        BY <2>6, <2>8, <3>2, <4>3
      <4> QED BY <4>1, <4>2, <4>4 DEF QueueHoldsWaiters
    <3> QED BY <2>5, <3>4, <3>5, <3>6 DEF SchedInv
  <2>10. CASE ~dead
    <3>1. waiting' = Append(Tail(waiting), running) /\ UNCHANGED <<stack, pool, freed>>
      BY <1>6, <2>10 DEF Yield, Schedule, Requeue
    <3>2. /\ waiting' \in Seq(All) /\ Len(waiting') = Len(waiting) /\ waiting'[Len(waiting)] = running
          /\ \A i \in 1..Len(waiting) - 1 : waiting'[i] = waiting[i + 1]
      <4>1. Len(Tail(waiting)) + 1 = Len(waiting)
        BY <1>1, <2>6
      <4> QED BY <1>1, <2>6, <3>1, <4>1
    <3>3. \A i \in 1..Len(waiting) : i = Len(waiting) \/ i \in 1..Len(waiting) - 1
      BY <1>1
    <3>4. SchedulerTypeOK'
      BY <1>1, <1>4, <2>1, <2>3, <2>4, <3>1, <3>2 DEF SchedulerTypeOK
    <3>5. QueueHoldsWaiters'
      <4>1. \A i, j \in 1..Len(waiting') : waiting'[i] = waiting'[j] => i = j
        <5> TAKE i, j \in 1..Len(waiting')
        <5> HAVE waiting'[i] = waiting'[j]
        <5>1. CASE i = Len(waiting) \/ j = Len(waiting)
          BY <2>7, <3>2, <3>3, <5>1
        <5>2. CASE i # Len(waiting) /\ j # Len(waiting)
          <6>1. i + 1 = j + 1
            BY <1>3, <2>7, <3>2, <3>3, <5>2
          <6> QED BY <1>1, <3>2, <6>1
        <5> QED BY <5>1, <5>2
      <4>2. \A i \in 1..Len(waiting') : state'[waiting'[i]] = "waiting"
        <5> TAKE i \in 1..Len(waiting')
        <5>1. CASE i = Len(waiting)
          BY <2>4, <2>10, <3>2, <5>1
        <5>2. CASE i \in 1..Len(waiting) - 1
          BY <1>3, <2>4, <2>7, <3>2, <5>2
        <5> QED BY <3>2, <3>3, <5>1, <5>2
      <4>3. \A c \in All : state'[c] = "waiting" => \E i \in 1..Len(waiting') : waiting'[i] = c
        <5> TAKE c \in All
        <5> HAVE state'[c] = "waiting"
        <5>1. CASE c = running
          BY <1>1, <2>1, <3>2, <5>1
        <5>2. CASE c # running
          <6>1. state[c] = "waiting" /\ c # next1
            BY <2>4, <5>2
          <6>2. PICK i \in 1..Len(waiting) - 1 : waiting[i + 1] = c
            BY <2>8, <6>1
          <6>3. i \in 1..Len(waiting')
            BY <1>1, <3>2
          <6> QED BY <3>2, <6>2, <6>3
        <5> QED BY <5>1, <5>2
      <4> QED BY <4>1, <4>2, <4>3 DEF QueueHoldsWaiters
    <3>6. \A c \in All : state'[c] = "none" <=> state[c] = "none"
      BY <1>2, <2>1, <2>2, <2>4, <2>10
    <3>7. StacksInv'
      BY <3>1, <3>6 DEF SchedInv, StacksInv, HeldOnce, PooledOnce
    <3> QED BY <2>5, <3>4, <3>5, <3>7 DEF SchedInv
  <2> QED BY <2>9, <2>10
<1> QED BY <1>5, <1>6

LEMMA NextSchedInv == SchedInv /\ [SNext]_svars => SchedInv'
<1> SUFFICES ASSUME SchedInv, [SNext]_svars PROVE SchedInv'
  OBVIOUS
<1>1. CASE Die
  <2>1. /\ at = "run" /\ running # C0 /\ at' = "dying"
        /\ state' = [state EXCEPT ![running] = "dead"]
        /\ UNCHANGED <<waiting, running, stack, pool, freed, on, limit>>
    BY <1>1 DEF Die
  <2>2. /\ state \in [All -> {"none", "waiting", "running", "dead"}] /\ running \in All
        /\ C0 \in All /\ state[running] \in {"running", "dead"} /\ waiting \in Seq(All)
    BY DEF SchedInv, SchedulerTypeOK, OneRuns, All
  <2>3. SchedulerTypeOK' /\ OneRuns'
    BY <2>1, <2>2 DEF SchedInv, SchedulerTypeOK, OneRuns
  <2>4. QueueHoldsWaiters'
    <3>1. \A i \in 1..Len(waiting) : waiting[i] # running /\ waiting[i] \in All
      BY <2>2 DEF SchedInv, QueueHoldsWaiters
    <3> QED BY <2>1, <2>2, <3>1 DEF SchedInv, QueueHoldsWaiters
  <2>5. StacksInv'
    BY <2>1, <2>2 DEF SchedInv, StacksInv, HeldOnce, PooledOnce
  <2> QED BY <2>3, <2>4, <2>5 DEF SchedInv
<1>2. CASE SwitchStack
  <2>1. at = "return" /\ at' = "run" /\ UNCHANGED <<state, waiting, running, stack, pool, freed, limit>>
    BY <1>2 DEF SwitchStack
  <2> QED BY <2>1 DEF SchedInv, SchedulerTypeOK, OneRuns, QueueHoldsWaiters, StacksInv,
          HeldOnce, PooledOnce
<1>3. CASE UNCHANGED svars
  BY <1>3 DEF svars, SchedInv, SchedulerTypeOK, OneRuns, QueueHoldsWaiters, StacksInv,
     HeldOnce, PooledOnce
<1> QED BY <1>1, <1>2, <1>3, InstallKeeps, InstallFailsKeeps, YieldKeeps DEF SNext

THEOREM SchedulerInvariant == SSpec => []SchedInv
BY InitSchedInv, NextSchedInv, PTL DEF SSpec

\* For any number of coroutines and stacks and any limit of the pool: no stack
\* is held twice, pooled twice, or pooled and held or freed at once, also when
\* malloc has no record for a new coroutine and its stack is lost
\* (yalx_install_coroutine, yalx_schedule, yalx_delete_stack_to_pool).
THEOREM StackOwners == SSpec => []StacksHaveOneOwner
<1>1. SchedInv => StacksHaveOneOwner
  <2> SUFFICES ASSUME SchedInv PROVE StacksHaveOneOwner
    OBVIOUS
  <2>1. DOMAIN pool = 1..Len(pool)
    BY DEF SchedInv, SchedulerTypeOK
  <2> QED BY <2>1 DEF SchedInv, StacksInv, HeldOnce, PooledOnce, StacksHaveOneOwner
<1> QED BY <1>1, SchedulerInvariant, PTL

\* mach->running is alive whenever the machine goes on and the queue holds
\* every other coroutine once: main's never dies, so somebody always waits
\* when a coroutine ends (yalx_schedule).
THEOREM RunningOneIsAlive == SSpec => []RunningIsAlive
<1>1. SchedInv => RunningIsAlive
  <2> SUFFICES ASSUME SchedInv PROVE RunningIsAlive
    OBVIOUS
  <2>1. DOMAIN waiting = 1..Len(waiting) /\ waiting \in Seq(All) /\ running \in All
    BY DEF SchedInv, SchedulerTypeOK
  <2>2. ToSet(waiting) = {c \in All : state[c] = "waiting"}
    BY <2>1 DEF ToSet, SchedInv, QueueHoldsWaiters
  <2>3. IsInjective(waiting)
    BY <2>1 DEF IsInjective, SchedInv, QueueHoldsWaiters
  <2> QED BY <2>1, <2>2, <2>3 DEF SchedInv, OneRuns, RunningIsAlive
<1> QED BY <1>1, SchedulerInvariant, PTL

-----------------------------------------------------------------------------
(* Objects made on first use.                                               *)

LoadFrames == [o : Lazies, at : {"check", "claim", "wait", "make", "init", "leave"},
               obj : Nat, todo : SUBSET Lazies]

LoadResults == [o : Lazies, v : Int]

LoadTypeOK ==
  /\ cell \in [Lazies -> Int]
  /\ frames \in [Loaders -> Seq(LoadFrames)]
  /\ next \in Nat \ {0}
  /\ result \in [Loaders -> Seq(LoadResults)]

\* Where a load is says what its cell holds: a maker's is pending, and the
\* object it constructs is in no cell yet.
FramesFit ==
  \A t \in Loaders : \A i \in 1..Len(frames[t]) :
    /\ frames[t][i].at \in {"make", "init"} => cell[frames[t][i].o] = PENDING
    /\ frames[t][i].at = "init" =>
         /\ 1 <= frames[t][i].obj /\ frames[t][i].obj < next
         /\ \A o \in Lazies : cell[o] # frames[t][i].obj
    /\ frames[t][i].at = "leave" => cell[frames[t][i].o] >= 1
    /\ frames[t][i].at = "wait" => cell[frames[t][i].o] # NULL

\* A lazy object is made by one load only, of all threads' and depths.
OneMakes ==
  \A t, u \in Loaders : \A i \in 1..Len(frames[t]), j \in 1..Len(frames[u]) :
    (t # u \/ i # j) =>
      /\ (frames[t][i].at \in {"make", "init"} /\ frames[u][j].at \in {"make", "init"})
           => frames[t][i].o # frames[u][j].o
      /\ (frames[t][i].at = "init" /\ frames[u][j].at = "init")
           => frames[t][i].obj # frames[u][j].obj

\* What a cell holds is nothing, the mark, or an object of its own that is built.
CellsFit ==
  /\ \A o \in Lazies : /\ cell[o] >= PENDING /\ cell[o] < next
                       /\ cell[o] >= 1 => cell[o] \in built
  /\ \A o, p \in Lazies : cell[o] >= 1 /\ cell[o] = cell[p] => o = p

ResultsFit ==
  \A t \in Loaders : \A i \in 1..Len(result[t]) :
    result[t][i].v >= 1 /\ cell[result[t][i].o] = result[t][i].v

LoadInv == LoadTypeOK /\ FramesFit /\ OneMakes /\ CellsFit /\ ResultsFit

LEMMA InitLoadInv == LInit => LoadInv
<1> SUFFICES ASSUME LInit PROVE LoadInv
  OBVIOUS
<1>1. LoadTypeOK
  BY DEF LInit, LoadTypeOK, NULL
<1>2. FramesFit /\ OneMakes /\ ResultsFit
  BY DEF LInit, FramesFit, OneMakes, ResultsFit
<1>3. CellsFit
  BY DEF LInit, CellsFit, NULL, PENDING
<1> QED BY <1>1, <1>2, <1>3 DEF LoadInv

\* The innermost load of a thread, and what is known of it.
LEMMA TopFits ==
  ASSUME LoadInv, NEW t \in Loaders, frames[t] # <<>>
  PROVE  /\ Len(frames[t]) \in 1..Len(frames[t]) /\ Top(t) = frames[t][Len(frames[t])]
         /\ Top(t) \in LoadFrames
         /\ Top(t).o \in Lazies /\ Top(t).obj \in Nat /\ Top(t).todo \subseteq Lazies
         /\ Top(t).at \in {"make", "init"} => cell[Top(t).o] = PENDING
         /\ Top(t).at = "init" => /\ 1 <= Top(t).obj /\ Top(t).obj < next
                                  /\ \A o \in Lazies : cell[o] # Top(t).obj
         /\ Top(t).at = "leave" => cell[Top(t).o] >= 1
         /\ Top(t).at = "wait" => cell[Top(t).o] # NULL
<1>1. frames[t] \in Seq(LoadFrames)
  BY DEF LoadInv, LoadTypeOK
<1>2. Len(frames[t]) \in 1..Len(frames[t]) /\ frames[t][Len(frames[t])] \in LoadFrames
  BY <1>1
<1>3. Top(t) = frames[t][Len(frames[t])]
  BY DEF Top
<1>4. Top(t) \in LoadFrames
  BY <1>2, <1>3
<1>5. Top(t).o \in Lazies /\ Top(t).obj \in Nat /\ Top(t).todo \subseteq Lazies
  BY <1>4 DEF LoadFrames
<1>6. /\ frames[t][Len(frames[t])].at \in {"make", "init"}
           => cell[frames[t][Len(frames[t])].o] = PENDING
      /\ frames[t][Len(frames[t])].at = "init" =>
           /\ 1 <= frames[t][Len(frames[t])].obj /\ frames[t][Len(frames[t])].obj < next
           /\ \A o \in Lazies : cell[o] # frames[t][Len(frames[t])].obj
      /\ frames[t][Len(frames[t])].at = "leave" => cell[frames[t][Len(frames[t])].o] >= 1
      /\ frames[t][Len(frames[t])].at = "wait" => cell[frames[t][Len(frames[t])].o] # NULL
  BY <1>2 DEF LoadInv, FramesFit
<1> QED BY <1>2, <1>3, <1>4, <1>5, <1>6

\* A frame of the set with a field changed is one of the set.
LEMMA FrameAt ==
  ASSUME NEW f \in LoadFrames, NEW a \in {"check", "claim", "wait", "make", "init", "leave"}
  PROVE  /\ [f EXCEPT !.at = a] \in LoadFrames /\ [f EXCEPT !.at = a].at = a
         /\ [f EXCEPT !.at = a].o = f.o /\ [f EXCEPT !.at = a].obj = f.obj
BY DEF LoadFrames

\* The innermost load of t changes, and no other.
LEMMA PutChangesTop ==
  ASSUME frames \in [Loaders -> Seq(LoadFrames)], NEW t \in Loaders, frames[t] # <<>>,
         NEW f \in LoadFrames, Put(t, f)
  PROVE  /\ frames' \in [Loaders -> Seq(LoadFrames)]
         /\ \A u \in Loaders : Len(frames'[u]) = Len(frames[u])
         /\ frames'[t][Len(frames[t])] = f
         /\ \A u \in Loaders : \A i \in 1..Len(frames[u]) :
              (u # t \/ i # Len(frames[t])) => frames'[u][i] = frames[u][i]
<1> DEFINE n == Len(frames[t])
<1>1. frames[t] \in Seq(LoadFrames) /\ n \in 1..n /\ n \in Nat /\ DOMAIN frames[t] = 1..n
  OBVIOUS
<1>2. frames' = [frames EXCEPT ![t] = [frames[t] EXCEPT ![n] = f]]
  BY DEF Put
<1>3. [frames[t] EXCEPT ![n] = f] \in Seq(LoadFrames)
  BY <1>1
<1>4. /\ Len([frames[t] EXCEPT ![n] = f]) = n /\ [frames[t] EXCEPT ![n] = f][n] = f
      /\ \A i \in 1..n : i # n => [frames[t] EXCEPT ![n] = f][i] = frames[t][i]
  BY <1>1
<1>5. /\ frames'[t] = [frames[t] EXCEPT ![n] = f]
      /\ \A u \in Loaders : u # t => frames'[u] = frames[u]
      /\ frames' \in [Loaders -> Seq(LoadFrames)]
  BY <1>2, <1>3
<1>6. \A u \in Loaders : Len(frames'[u]) = Len(frames[u])
  BY <1>4, <1>5
<1>7. ASSUME NEW u \in Loaders, NEW i \in 1..Len(frames[u]), u # t \/ i # n
      PROVE  frames'[u][i] = frames[u][i]
  <2>1. CASE u = t
    BY <1>4, <1>5, <1>7, <2>1
  <2>2. CASE u # t
    BY <1>5, <2>2
  <2> QED BY <2>1, <2>2
<1> QED BY <1>4, <1>5, <1>6, <1>7

\* The types of what the threads' loads hold.
LEMMA LoadTypes ==
  ASSUME LoadInv
  PROVE  /\ cell \in [Lazies -> Int] /\ next \in Nat /\ next >= 1
         /\ frames \in [Loaders -> Seq(LoadFrames)] /\ result \in [Loaders -> Seq(LoadResults)]
         /\ \A u \in Loaders : \A i \in 1..Len(frames[u]) :
              frames[u][i].o \in Lazies /\ frames[u][i].obj \in Nat
         /\ \A u \in Loaders : \A i \in 1..Len(result[u]) : result[u][i].o \in Lazies
<1>1. /\ cell \in [Lazies -> Int] /\ next \in Nat /\ next >= 1
      /\ frames \in [Loaders -> Seq(LoadFrames)] /\ result \in [Loaders -> Seq(LoadResults)]
  BY DEF LoadInv, LoadTypeOK
<1>2. ASSUME NEW u \in Loaders, NEW i \in 1..Len(frames[u])
      PROVE  frames[u][i].o \in Lazies /\ frames[u][i].obj \in Nat
  <2>1. frames[u] \in Seq(LoadFrames)
    BY <1>1
  <2>2. frames[u][i] \in LoadFrames
    BY <2>1
  <2> QED BY <2>2 DEF LoadFrames
<1>3. ASSUME NEW u \in Loaders, NEW i \in 1..Len(result[u])
      PROVE  result[u][i].o \in Lazies
  <2>1. result[u] \in Seq(LoadResults)
    BY <1>1
  <2>2. result[u][i] \in LoadResults
    BY <2>1
  <2> QED BY <2>2 DEF LoadResults
<1> QED BY <1>1, <1>2, <1>3

\* A load that makes nothing another makes keeps the makers apart.
LEMMA OneMakesStays ==
  ASSUME OneMakes, NEW t \in Loaders, NEW n \in Nat, NEW f \in LoadFrames,
         \A u \in Loaders : Len(frames'[u]) = Len(frames[u]),
         frames'[t][n] = f,
         \A u \in Loaders : \A i \in 1..Len(frames[u]) :
           (u # t \/ i # n) => frames'[u][i] = frames[u][i],
         f.at \in {"make", "init"} =>
           \A u \in Loaders : \A i \in 1..Len(frames[u]) :
             (u # t \/ i # n) /\ frames[u][i].at \in {"make", "init"} => frames[u][i].o # f.o,
         f.at = "init" =>
           \A u \in Loaders : \A i \in 1..Len(frames[u]) :
             (u # t \/ i # n) /\ frames[u][i].at = "init" => frames[u][i].obj # f.obj
  PROVE  OneMakes'
<1> SUFFICES ASSUME NEW u \in Loaders, NEW v \in Loaders,
                    NEW i \in 1..Len(frames[u]), NEW j \in 1..Len(frames[v]), u # v \/ i # j
             PROVE  /\ (frames'[u][i].at \in {"make", "init"} /\ frames'[v][j].at \in {"make", "init"})
                         => frames'[u][i].o # frames'[v][j].o
                    /\ (frames'[u][i].at = "init" /\ frames'[v][j].at = "init")
                         => frames'[u][i].obj # frames'[v][j].obj
  BY DEF OneMakes
<1>1. CASE u = t /\ i = n
  BY <1>1, SMTT(30)
<1>2. CASE v = t /\ j = n
  BY <1>2, SMTT(30)
<1>3. CASE (u # t \/ i # n) /\ (v # t \/ j # n)
  <2>1. frames'[u][i] = frames[u][i] /\ frames'[v][j] = frames[v][j]
    BY <1>3
  <2> QED BY <2>1 DEF OneMakes
<1> QED BY <1>1, <1>2, <1>3

LEMMA CheckKeeps ==
  ASSUME LoadInv, NEW t \in Loaders, Check(t)
  PROVE  LoadInv'
<1>1. /\ frames[t] # <<>> /\ Top(t).at = "check"
      /\ Put(t, [Top(t) EXCEPT !.at = IF cell[Top(t).o] \in {NULL, PENDING} THEN "claim" ELSE "leave"])
      /\ UNCHANGED <<cell, built, next, result>>
  BY DEF Check, In
<1>2. PICK f \in LoadFrames : /\ Put(t, f) /\ f.o = Top(t).o
                              /\ f.at = "claim" \/ (f.at = "leave" /\ cell[f.o] >= 1)
  <2>0. Top(t) \in LoadFrames /\ Top(t).o \in Lazies
    BY <1>1, TopFits
  <2>1. CASE cell[Top(t).o] \in {NULL, PENDING}
    <3>1. Put(t, [Top(t) EXCEPT !.at = "claim"])
      BY <1>1, <2>1
    <3>2. PICK f \in LoadFrames : f = [Top(t) EXCEPT !.at = "claim"]
      BY <2>0, FrameAt
    <3>3. f.at = "claim" /\ f.o = Top(t).o
      BY <2>0, <3>2, FrameAt
    <3> QED BY <3>1, <3>2, <3>3
  <2>2. CASE cell[Top(t).o] \notin {NULL, PENDING}
    <3>1. cell[Top(t).o] >= 1
      <4>1. cell[Top(t).o] \in Int /\ cell[Top(t).o] >= -1
        BY <2>0, LoadTypes DEF LoadInv, CellsFit, PENDING
      <4> QED BY <2>2, <4>1 DEF NULL, PENDING
    <3>2. Put(t, [Top(t) EXCEPT !.at = "leave"])
      BY <1>1, <2>2
    <3>3. PICK f \in LoadFrames : f = [Top(t) EXCEPT !.at = "leave"]
      BY <2>0, FrameAt
    <3>4. f.at = "leave" /\ f.o = Top(t).o
      BY <2>0, <3>3, FrameAt
    <3> QED BY <3>1, <3>2, <3>3, <3>4
  <2> QED BY <2>1, <2>2
<1> DEFINE n == Len(frames[t])
<1>3. /\ frames' \in [Loaders -> Seq(LoadFrames)]
      /\ \A u \in Loaders : Len(frames'[u]) = Len(frames[u])
      /\ frames'[t][n] = f
      /\ \A u \in Loaders : \A i \in 1..Len(frames[u]) :
           (u # t \/ i # n) => frames'[u][i] = frames[u][i]
  BY <1>1, <1>2, PutChangesTop DEF LoadInv, LoadTypeOK
<1>n. n \in Nat
  BY LoadTypes
<1> HIDE DEF n
<1>4. LoadTypeOK' /\ CellsFit' /\ ResultsFit'
  BY <1>1, <1>3 DEF LoadInv, LoadTypeOK, CellsFit, ResultsFit
<1>5. FramesFit'
  BY <1>1, <1>2, <1>3 DEF LoadInv, FramesFit
<1>6. OneMakes'
  <2>1. f.at \notin {"make", "init"}
    BY <1>2
  <2> QED BY <1>n, <1>3, <2>1, OneMakesStays DEF LoadInv
<1> QED BY <1>4, <1>5, <1>6 DEF LoadInv

LEMMA ClaimKeeps ==
  ASSUME LoadInv, NEW t \in Loaders, Claim(t)
  PROVE  LoadInv'
<1>1. /\ frames[t] # <<>> /\ UNCHANGED <<built, next, result>>
      /\ \/ /\ cell[Top(t).o] = NULL /\ cell' = [cell EXCEPT ![Top(t).o] = PENDING]
            /\ Put(t, [Top(t) EXCEPT !.at = "make"])
         \/ /\ cell[Top(t).o] # NULL /\ cell' = cell /\ Put(t, [Top(t) EXCEPT !.at = "wait"])
  BY DEF Claim, In
<1>2. PICK f \in LoadFrames :
        /\ Put(t, f) /\ f.o = Top(t).o /\ f.o \in Lazies
        /\ \/ cell[f.o] = NULL /\ cell' = [cell EXCEPT ![f.o] = PENDING] /\ f.at = "make"
           \/ cell[f.o] # NULL /\ cell' = cell /\ f.at = "wait"
  <2>1. Top(t) \in LoadFrames /\ Top(t).o \in Lazies
    BY <1>1, TopFits
  <2>2. CASE cell[Top(t).o] = NULL
    <3>1. Put(t, [Top(t) EXCEPT !.at = "make"]) /\ cell' = [cell EXCEPT ![Top(t).o] = PENDING]
      BY <1>1, <2>2
    <3>2. PICK f \in LoadFrames : f = [Top(t) EXCEPT !.at = "make"]
      BY <2>1, FrameAt
    <3>3. f.at = "make" /\ f.o = Top(t).o
      BY <2>1, <3>2, FrameAt
    <3> QED BY <2>1, <2>2, <3>1, <3>2, <3>3
  <2>3. CASE cell[Top(t).o] # NULL
    <3>1. Put(t, [Top(t) EXCEPT !.at = "wait"]) /\ cell' = cell
      BY <1>1, <2>3
    <3>2. PICK f \in LoadFrames : f = [Top(t) EXCEPT !.at = "wait"]
      BY <2>1, FrameAt
    <3>3. f.at = "wait" /\ f.o = Top(t).o
      BY <2>1, <3>2, FrameAt
    <3> QED BY <2>1, <2>3, <3>1, <3>2, <3>3
  <2> QED BY <2>2, <2>3
<1> DEFINE n == Len(frames[t])
<1>3. /\ frames' \in [Loaders -> Seq(LoadFrames)]
      /\ \A u \in Loaders : Len(frames'[u]) = Len(frames[u])
      /\ frames'[t][n] = f
      /\ \A u \in Loaders : \A i \in 1..Len(frames[u]) :
           (u # t \/ i # n) => frames'[u][i] = frames[u][i]
  BY <1>1, <1>2, PutChangesTop DEF LoadInv, LoadTypeOK
<1>n. n \in Nat
  BY LoadTypes
<1> HIDE DEF n
<1>4. \A u \in Loaders : \A i \in 1..Len(frames[u]) : frames[u][i].o \in Lazies
  BY LoadTypes
<1>5. /\ cell \in [Lazies -> Int] /\ next \in Nat /\ next >= 1
      /\ \A u \in Loaders : \A i \in 1..Len(result[u]) : result[u][i].o \in Lazies
  BY LoadTypes
<1>6. CASE cell[f.o] = NULL /\ cell' = [cell EXCEPT ![f.o] = PENDING] /\ f.at = "make"
  <2>1. /\ cell' \in [Lazies -> Int] /\ cell'[f.o] = -1 /\ cell[f.o] = 0
        /\ \A o \in Lazies : o # f.o => cell'[o] = cell[o]
    BY <1>2, <1>5, <1>6 DEF PENDING, NULL
  <2>2. LoadTypeOK'
    BY <1>1, <1>3, <2>1 DEF LoadInv, LoadTypeOK
  <2>3. CellsFit' /\ ResultsFit'
    <3>1. \A o \in Lazies : cell[o] >= -1 /\ cell[o] < next /\ (cell[o] >= 1 => cell[o] \in built)
      BY DEF LoadInv, CellsFit, PENDING
    <3>2. \A o, p \in Lazies : cell[o] >= 1 /\ cell[o] = cell[p] => o = p
      BY DEF LoadInv, CellsFit
    <3>3. CellsFit'
      <4>1. \A o \in Lazies : cell'[o] >= -1 /\ cell'[o] < next /\ (cell'[o] >= 1 => cell'[o] \in built)
        BY <1>5, <2>1, <3>1
      <4>2. \A o, p \in Lazies : cell'[o] >= 1 /\ cell'[o] = cell'[p] => o = p
        BY <1>5, <2>1, <3>2
      <4> QED BY <1>1, <4>1, <4>2 DEF CellsFit, PENDING
    <3>4. ASSUME NEW u \in Loaders, NEW i \in 1..Len(result[u])
          PROVE  result[u][i].v >= 1 /\ cell'[result[u][i].o] = result[u][i].v
      <4>1. result[u][i].v >= 1 /\ cell[result[u][i].o] = result[u][i].v
        BY DEF LoadInv, ResultsFit
      <4>2. result[u][i].o # f.o
        BY <2>1, <4>1
      <4> QED BY <1>5, <2>1, <4>1, <4>2
    <3>5. ResultsFit'
      BY <1>1, <3>4 DEF ResultsFit
    <3> QED BY <3>3, <3>5
  <2>4. \A u \in Loaders : \A i \in 1..Len(frames[u]) :
          frames[u][i].at \in {"make", "init", "leave"} => frames[u][i].o # f.o
    BY <1>2, <2>1 DEF LoadInv, FramesFit, PENDING
  <2>5. FramesFit'
    <3> SUFFICES ASSUME NEW u \in Loaders, NEW i \in 1..Len(frames[u])
                 PROVE  /\ frames'[u][i].at \in {"make", "init"} => cell'[frames'[u][i].o] = PENDING
                        /\ frames'[u][i].at = "init" =>
                             /\ 1 <= frames'[u][i].obj /\ frames'[u][i].obj < next
                             /\ \A o \in Lazies : cell'[o] # frames'[u][i].obj
                        /\ frames'[u][i].at = "leave" => cell'[frames'[u][i].o] >= 1
                        /\ frames'[u][i].at = "wait" => cell'[frames'[u][i].o] # NULL
      BY <1>1, <1>3 DEF FramesFit
    <3>1. CASE u = t /\ i = n
      BY <1>3, <1>6, <2>1, <3>1 DEF PENDING
    <3>2. CASE u # t \/ i # n
      <4>1. frames'[u][i] = frames[u][i] /\ frames[u][i].o \in Lazies
        BY <1>3, <1>4, <3>2
      <4>2. /\ frames[u][i].at \in {"make", "init"} => cell[frames[u][i].o] = PENDING
            /\ frames[u][i].at = "init" =>
                 /\ 1 <= frames[u][i].obj /\ frames[u][i].obj < next
                 /\ \A o \in Lazies : cell[o] # frames[u][i].obj
            /\ frames[u][i].at = "leave" => cell[frames[u][i].o] >= 1
            /\ frames[u][i].at = "wait" => cell[frames[u][i].o] # NULL
        BY DEF LoadInv, FramesFit
      <4>3. frames[u][i].at = "init" => \A o \in Lazies : cell'[o] # frames[u][i].obj
        BY <2>1, <4>2
      <4>4. frames[u][i].at = "wait" => cell'[frames[u][i].o] # NULL
        BY <2>1, <4>1, <4>2 DEF NULL
      <4> QED BY <2>1, <2>4, <4>1, <4>2, <4>3, <4>4
    <3> QED BY <3>1, <3>2
  <2>6. OneMakes'
    BY <1>n, <1>3, <1>6, <2>4, OneMakesStays DEF LoadInv
  <2> QED BY <2>2, <2>3, <2>5, <2>6 DEF LoadInv
<1>7. CASE cell[f.o] # NULL /\ cell' = cell /\ f.at = "wait"
  <2>1. LoadTypeOK' /\ CellsFit' /\ ResultsFit'
    BY <1>1, <1>3, <1>7 DEF LoadInv, LoadTypeOK, CellsFit, ResultsFit
  <2>2. FramesFit'
    BY <1>1, <1>2, <1>3, <1>7 DEF LoadInv, FramesFit
  <2>3. OneMakes'
    <3>1. f.at \notin {"make", "init"}
      BY <1>7
    <3> QED BY <1>n, <1>3, <3>1, OneMakesStays DEF LoadInv
  <2> QED BY <2>1, <2>2, <2>3 DEF LoadInv
<1> QED BY <1>2, <1>6, <1>7

LEMMA WaitKeeps ==
  ASSUME LoadInv, NEW t \in Loaders, Wait(t)
  PROVE  LoadInv'
<1>1. /\ frames[t] # <<>> /\ Top(t).at = "wait" /\ cell[Top(t).o] # PENDING
      /\ Put(t, [Top(t) EXCEPT !.at = "leave"])
      /\ UNCHANGED <<cell, built, next, result>>
  BY DEF Wait, In
<1>2. cell[Top(t).o] >= 1
  <2>1. cell[Top(t).o] \in Int /\ cell[Top(t).o] >= -1 /\ cell[Top(t).o] # NULL
    BY <1>1, TopFits, LoadTypes DEF LoadInv, CellsFit, PENDING
  <2> QED BY <1>1, <2>1 DEF NULL, PENDING
<1>3. PICK f \in LoadFrames : Put(t, f) /\ f.o = Top(t).o /\ f.at = "leave"
  BY <1>1, TopFits, FrameAt
<1> DEFINE n == Len(frames[t])
<1>4. /\ frames' \in [Loaders -> Seq(LoadFrames)]
      /\ \A u \in Loaders : Len(frames'[u]) = Len(frames[u])
      /\ frames'[t][n] = f
      /\ \A u \in Loaders : \A i \in 1..Len(frames[u]) :
           (u # t \/ i # n) => frames'[u][i] = frames[u][i]
  BY <1>1, <1>3, PutChangesTop DEF LoadInv, LoadTypeOK
<1>n. n \in Nat
  BY LoadTypes
<1> HIDE DEF n
<1>5. LoadTypeOK' /\ CellsFit' /\ ResultsFit'
  BY <1>1, <1>4 DEF LoadInv, LoadTypeOK, CellsFit, ResultsFit
<1>6. FramesFit'
  BY <1>1, <1>2, <1>3, <1>4 DEF LoadInv, FramesFit
<1>7. OneMakes'
  <2>1. f.at \notin {"make", "init"}
    BY <1>3
  <2> QED BY <1>n, <1>4, <2>1, OneMakesStays DEF LoadInv
<1> QED BY <1>5, <1>6, <1>7 DEF LoadInv

LEMMA MakeKeeps ==
  ASSUME LoadInv, NEW t \in Loaders, Make(t)
  PROVE  LoadInv'
<1>1. /\ frames[t] # <<>> /\ Top(t).at = "make" /\ next' = next + 1
      /\ Put(t, [Top(t) EXCEPT !.at = "init", !.obj = next])
      /\ UNCHANGED <<cell, built, result>>
  BY DEF Make, In
<1>2. /\ next \in Nat /\ next >= 1 /\ cell \in [Lazies -> Int]
      /\ \A o \in Lazies : cell[o] < next
  BY DEF LoadInv, LoadTypeOK, CellsFit
<1>3. PICK f \in LoadFrames : Put(t, f) /\ f.o = Top(t).o /\ f.at = "init" /\ f.obj = next
  <2>1. Top(t) \in LoadFrames
    BY <1>1, TopFits
  <2>2. ASSUME NEW g, g = [Top(t) EXCEPT !.at = "init", !.obj = next]
        PROVE  g \in LoadFrames /\ g.o = Top(t).o /\ g.at = "init" /\ g.obj = next
    BY <1>2, <2>1, <2>2 DEF LoadFrames
  <2> QED BY <1>1, <2>2
<1> DEFINE n == Len(frames[t])
<1>4. /\ frames' \in [Loaders -> Seq(LoadFrames)]
      /\ \A u \in Loaders : Len(frames'[u]) = Len(frames[u])
      /\ frames'[t][n] = f
      /\ \A u \in Loaders : \A i \in 1..Len(frames[u]) :
           (u # t \/ i # n) => frames'[u][i] = frames[u][i]
  BY <1>1, <1>3, PutChangesTop DEF LoadInv, LoadTypeOK
<1>5. /\ n \in 1..n /\ frames[t][n].at = "make" /\ frames[t][n].o = f.o /\ cell[f.o] = PENDING
  BY <1>1, <1>3, TopFits
<1>n. n \in Nat
  BY LoadTypes
<1> HIDE DEF n
<1>6. LoadTypeOK' /\ CellsFit' /\ ResultsFit'
  BY <1>1, <1>2, <1>4 DEF LoadInv, LoadTypeOK, CellsFit, ResultsFit
<1>7. \A u \in Loaders : \A i \in 1..Len(frames[u]) : frames[u][i].obj \in Nat
  BY LoadTypes
<1>8. FramesFit'
  <2> SUFFICES ASSUME NEW u \in Loaders, NEW i \in 1..Len(frames[u])
               PROVE  /\ frames'[u][i].at \in {"make", "init"} => cell[frames'[u][i].o] = PENDING
                      /\ frames'[u][i].at = "init" =>
                           /\ 1 <= frames'[u][i].obj /\ frames'[u][i].obj < next'
                           /\ \A o \in Lazies : cell[o] # frames'[u][i].obj
                      /\ frames'[u][i].at = "leave" => cell[frames'[u][i].o] >= 1
                      /\ frames'[u][i].at = "wait" => cell[frames'[u][i].o] # NULL
    BY <1>1, <1>4 DEF FramesFit
  <2>1. CASE u = t /\ i = n
    BY <1>1, <1>2, <1>3, <1>4, <1>5, <2>1
  <2>2. CASE u # t \/ i # n
    <3>1. frames'[u][i] = frames[u][i] /\ frames[u][i].obj \in Nat
      BY <1>4, <1>7, <2>2
    <3>2. frames[u][i].at = "init" => frames[u][i].obj < next + 1
      BY <1>2, <3>1 DEF LoadInv, FramesFit
    <3> QED BY <1>1, <3>1, <3>2 DEF LoadInv, FramesFit
  <2> QED BY <2>1, <2>2
<1>9. OneMakes'
  <2>1. \A u \in Loaders : \A i \in 1..Len(frames[u]) :
          frames[u][i].at = "init" => frames[u][i].obj # next
    BY <1>2, <1>7 DEF LoadInv, FramesFit
  <2>2. \A u \in Loaders : \A i \in 1..Len(frames[u]) :
          (u # t \/ i # n) /\ frames[u][i].at \in {"make", "init"} => frames[u][i].o # f.o
    <3> TAKE u \in Loaders
    <3> TAKE i \in 1..Len(frames[u])
    <3>1. n \in 1..Len(frames[t])
      BY <1>5 DEF n
    <3> HAVE (u # t \/ i # n) /\ frames[u][i].at \in {"make", "init"}
    <3>2. frames[u][i].o # frames[t][n].o
      BY <1>5, <3>1 DEF LoadInv, OneMakes
    <3> QED BY <1>5, <3>2
  <2> QED BY <1>n, <1>3, <1>4, <2>1, <2>2, OneMakesStays DEF LoadInv
<1> QED BY <1>6, <1>8, <1>9 DEF LoadInv

LEMMA PublishKeeps ==
  ASSUME LoadInv, NEW t \in Loaders, Publish(t)
  PROVE  LoadInv'
<1>1. /\ frames[t] # <<>> /\ Top(t).at = "init" /\ built' = built \cup {Top(t).obj}
      /\ cell' = [cell EXCEPT ![Top(t).o] = Top(t).obj]
      /\ Put(t, [Top(t) EXCEPT !.at = "leave"])
      /\ UNCHANGED <<next, result>>
  BY DEF Publish, In
<1>2. PICK f \in LoadFrames : Put(t, f) /\ f.o = Top(t).o /\ f.at = "leave" /\ f.obj = Top(t).obj
  BY <1>1, TopFits, FrameAt
<1> DEFINE n == Len(frames[t])
<1>3. /\ frames' \in [Loaders -> Seq(LoadFrames)]
      /\ \A u \in Loaders : Len(frames'[u]) = Len(frames[u])
      /\ frames'[t][n] = f
      /\ \A u \in Loaders : \A i \in 1..Len(frames[u]) :
           (u # t \/ i # n) => frames'[u][i] = frames[u][i]
  BY <1>1, <1>2, PutChangesTop DEF LoadInv, LoadTypeOK
<1>4. /\ n \in 1..Len(frames[t]) /\ frames[t][n].at = "init" /\ frames[t][n].o = f.o
      /\ frames[t][n].obj = f.obj /\ cell[f.o] = PENDING /\ f.o \in Lazies
      /\ 1 <= f.obj /\ f.obj < next /\ f.obj \in Nat /\ \A o \in Lazies : cell[o] # f.obj
  BY <1>1, <1>2, TopFits
<1>n. n \in Nat
  BY LoadTypes
<1> HIDE DEF n
<1>5. /\ cell \in [Lazies -> Int] /\ next \in Nat /\ next >= 1
      /\ \A u \in Loaders : \A i \in 1..Len(result[u]) : result[u][i].o \in Lazies
  BY LoadTypes
<1>6. /\ cell' \in [Lazies -> Int] /\ cell'[f.o] = f.obj /\ cell[f.o] = -1
      /\ \A o \in Lazies : o # f.o => cell'[o] = cell[o]
  BY <1>1, <1>2, <1>4, <1>5 DEF PENDING
<1>7. LoadTypeOK'
  BY <1>1, <1>3, <1>6 DEF LoadInv, LoadTypeOK
<1>8. CellsFit'
  <2>1. \A o \in Lazies : cell[o] >= -1 /\ cell[o] < next /\ (cell[o] >= 1 => cell[o] \in built)
    BY DEF LoadInv, CellsFit, PENDING
  <2>2. \A o, p \in Lazies : cell[o] >= 1 /\ cell[o] = cell[p] => o = p
    BY DEF LoadInv, CellsFit
  <2>3. built' = built \cup {f.obj}
    BY <1>1, <1>2
  <2> QED BY <1>1, <1>4, <1>5, <1>6, <2>1, <2>2, <2>3 DEF CellsFit, PENDING
<1>9. ResultsFit'
  BY <1>1, <1>5, <1>6 DEF LoadInv, ResultsFit
<1>10. \A u \in Loaders : \A i \in 1..Len(frames[u]) : frames[u][i].o \in Lazies /\ frames[u][i].obj \in Nat
  BY LoadTypes
<1>11. \A u \in Loaders : \A i \in 1..Len(frames[u]) : (u # t \/ i # n) =>
         /\ frames[u][i].at \in {"make", "init"} => frames[u][i].o # f.o
         /\ frames[u][i].at = "init" => frames[u][i].obj # f.obj
  BY <1>4 DEF LoadInv, OneMakes
<1>12. FramesFit'
  <2> SUFFICES ASSUME NEW u \in Loaders, NEW i \in 1..Len(frames[u])
               PROVE  /\ frames'[u][i].at \in {"make", "init"} => cell'[frames'[u][i].o] = PENDING
                      /\ frames'[u][i].at = "init" =>
                           /\ 1 <= frames'[u][i].obj /\ frames'[u][i].obj < next
                           /\ \A o \in Lazies : cell'[o] # frames'[u][i].obj
                      /\ frames'[u][i].at = "leave" => cell'[frames'[u][i].o] >= 1
                      /\ frames'[u][i].at = "wait" => cell'[frames'[u][i].o] # NULL
    BY <1>1, <1>3 DEF FramesFit
  <2>1. CASE u = t /\ i = n
    BY <1>2, <1>3, <1>4, <1>6, <2>1
  <2>2. CASE u # t \/ i # n
    <3>1. frames'[u][i] = frames[u][i] /\ frames[u][i].o \in Lazies
      BY <1>3, <1>10, <2>2
    <3>2. /\ frames[u][i].at \in {"make", "init"} => cell[frames[u][i].o] = PENDING
          /\ frames[u][i].at = "init" =>
               /\ 1 <= frames[u][i].obj /\ frames[u][i].obj < next
               /\ \A o \in Lazies : cell[o] # frames[u][i].obj
          /\ frames[u][i].at = "leave" => cell[frames[u][i].o] >= 1
          /\ frames[u][i].at = "wait" => cell[frames[u][i].o] # NULL
      BY DEF LoadInv, FramesFit
    <3>3. frames[u][i].at = "init" => \A o \in Lazies : cell'[o] # frames[u][i].obj
      BY <1>6, <1>11, <2>2, <3>2
    <3>4. frames[u][i].at \in {"make", "init"} => cell'[frames[u][i].o] = PENDING
      BY <1>6, <1>11, <2>2, <3>1, <3>2
    <3>5. frames[u][i].at = "wait" => cell'[frames[u][i].o] # NULL
      BY <1>4, <1>6, <3>1, <3>2 DEF NULL
    <3>6. frames[u][i].at = "leave" => cell'[frames[u][i].o] >= 1
      BY <1>4, <1>6, <3>1, <3>2
    <3> QED BY <3>1, <3>2, <3>3, <3>4, <3>5, <3>6
  <2> QED BY <2>1, <2>2
<1>13. OneMakes'
  <2>1. f.at \notin {"make", "init"}
    BY <1>2
  <2> QED BY <1>n, <1>3, <2>1, OneMakesStays DEF LoadInv
<1> QED BY <1>7, <1>8, <1>9, <1>12, <1>13 DEF LoadInv

\* A load begins with a frame at "check", of which nothing is asked.
LEMMA NewFrame ==
  ASSUME NEW o \in Lazies
  PROVE  Frame(o) \in LoadFrames /\ Frame(o).at = "check"
BY LazyLoadAssumption DEF Frame, LoadFrames, NULL

\* The frames that stay keep their lazy object, their place and their object;
\* one at "check" may be new, and the last of a thread may be gone.
LEMMA SameFramesKeep ==
  ASSUME LoadInv, UNCHANGED <<cell, built, next>>,
         frames' \in [Loaders -> Seq(LoadFrames)],
         \A u \in Loaders : \A i \in 1..Len(frames'[u]) :
           \/ frames'[u][i].at = "check"
           \/ /\ i \in 1..Len(frames[u]) /\ frames'[u][i].at = frames[u][i].at
              /\ frames'[u][i].o = frames[u][i].o /\ frames'[u][i].obj = frames[u][i].obj
  PROVE  FramesFit' /\ OneMakes' /\ CellsFit'
<1>1. FramesFit'
  BY SMTT(30) DEF LoadInv, FramesFit
<1>2. OneMakes'
  BY SMTT(30) DEF LoadInv, OneMakes
<1>3. CellsFit'
  BY DEF LoadInv, CellsFit
<1> QED BY <1>1, <1>2, <1>3

LEMMA LoadKeeps ==
  ASSUME LoadInv, NEW t \in Loaders, NEW o \in Lazies, Load(t, o)
  PROVE  LoadInv'
<1>1. /\ frames' = [frames EXCEPT ![t] = <<Frame(o)>>] /\ UNCHANGED <<cell, built, next, result>>
      /\ frames \in [Loaders -> Seq(LoadFrames)]
  BY DEF Load, LoadInv, LoadTypeOK
<1>2. /\ <<Frame(o)>> \in Seq(LoadFrames) /\ Len(<<Frame(o)>>) = 1 /\ <<Frame(o)>>[1] = Frame(o)
      /\ Frame(o).at = "check"
  BY NewFrame
<1>3. /\ frames' \in [Loaders -> Seq(LoadFrames)] /\ frames'[t] = <<Frame(o)>>
      /\ \A u \in Loaders : u # t => frames'[u] = frames[u]
  BY <1>1, <1>2
<1>4. \A u \in Loaders : \A i \in 1..Len(frames'[u]) :
        \/ frames'[u][i].at = "check"
        \/ /\ i \in 1..Len(frames[u]) /\ frames'[u][i].at = frames[u][i].at
           /\ frames'[u][i].o = frames[u][i].o /\ frames'[u][i].obj = frames[u][i].obj
  <2> TAKE u \in Loaders
  <2>1. CASE u = t
    <3> TAKE i \in 1..Len(frames'[u])
    <3>1. i = 1
      <4>1. Len(frames'[u]) = 1
        BY <1>2, <1>3, <2>1
      <4> QED BY <4>1
    <3> QED BY <1>2, <1>3, <2>1, <3>1
  <2>2. CASE u # t
    BY <1>3, <2>2
  <2> QED BY <2>1, <2>2
<1>5. LoadTypeOK' /\ ResultsFit'
  BY <1>1, <1>3 DEF LoadInv, LoadTypeOK, ResultsFit
<1> QED BY <1>1, <1>3, <1>4, <1>5, SameFramesKeep DEF LoadInv

LEMMA NestKeeps ==
  ASSUME LoadInv, NEW t \in Loaders, Nest(t)
  PROVE  LoadInv'
<1> DEFINE n == Len(frames[t])
<1>1. PICK o \in Top(t).todo :
        /\ frames[t] # <<>> /\ UNCHANGED <<cell, built, next, result>>
        /\ frames' = [frames EXCEPT ![t] = Append([frames[t] EXCEPT ![n].todo = @ \ {o}], Frame(o))]
  BY DEF Nest, In
<1>2. /\ frames \in [Loaders -> Seq(LoadFrames)] /\ frames[t] \in Seq(LoadFrames)
      /\ n \in 1..n /\ n \in Nat /\ frames[t][n] \in LoadFrames /\ DOMAIN frames[t] = 1..n
  BY <1>1 DEF LoadInv, LoadTypeOK
<1>3. o \in Lazies /\ Frame(o) \in LoadFrames /\ Frame(o).at = "check"
  BY <1>1, TopFits, NewFrame
<1> DEFINE f == [frames[t][n] EXCEPT !.todo = @ \ {o}]
           s == [frames[t] EXCEPT ![n] = f]
<1>4. f \in LoadFrames /\ f.at = frames[t][n].at /\ f.o = frames[t][n].o /\ f.obj = frames[t][n].obj
  BY <1>2 DEF LoadFrames
<1>5. frames' = [frames EXCEPT ![t] = Append(s, Frame(o))]
  BY <1>1
<1> HIDE DEF f
<1>6. /\ s \in Seq(LoadFrames) /\ Len(s) = n /\ s[n] = f
      /\ \A i \in 1..n : i # n => s[i] = frames[t][i]
  BY <1>2, <1>4
<1> HIDE DEF s
<1>7. /\ Append(s, Frame(o)) \in Seq(LoadFrames) /\ Len(Append(s, Frame(o))) = n + 1
      /\ Append(s, Frame(o))[n + 1] = Frame(o)
      /\ \A i \in 1..n : Append(s, Frame(o))[i] = s[i]
  <2> DEFINE g == Frame(o)
  <2>1. g \in LoadFrames
    BY <1>3
  <2> HIDE DEF g
  <2>2. /\ Append(s, g) \in Seq(LoadFrames) /\ Len(Append(s, g)) = n + 1
        /\ Append(s, g)[n + 1] = g /\ \A i \in 1..n : Append(s, g)[i] = s[i]
    <3>1. ASSUME NEW q \in Seq(LoadFrames), NEW h \in LoadFrames, NEW m \in Nat, m = Len(q)
          PROVE  /\ Append(q, h) \in Seq(LoadFrames) /\ Len(Append(q, h)) = m + 1
                 /\ Append(q, h)[m + 1] = h /\ \A i \in 1..m : Append(q, h)[i] = q[i]
      BY <3>1
    <3> QED BY <1>2, <1>6, <2>1, <3>1
  <2> QED BY <2>2 DEF g
<1>8. /\ frames' \in [Loaders -> Seq(LoadFrames)] /\ frames'[t] = Append(s, Frame(o))
      /\ \A u \in Loaders : u # t => frames'[u] = frames[u]
  BY <1>2, <1>5, <1>7
<1>9. \A u \in Loaders : \A i \in 1..Len(frames'[u]) :
        \/ frames'[u][i].at = "check"
        \/ /\ i \in 1..Len(frames[u]) /\ frames'[u][i].at = frames[u][i].at
           /\ frames'[u][i].o = frames[u][i].o /\ frames'[u][i].obj = frames[u][i].obj
  <2> TAKE u \in Loaders
  <2>1. CASE u = t
    <3> TAKE i \in 1..Len(frames'[u])
    <3>1. i = n + 1 \/ i \in 1..n
      BY <1>2, <1>7, <1>8, <2>1
    <3>2. CASE i = n + 1
      BY <1>3, <1>7, <1>8, <2>1, <3>2
    <3>3. CASE i \in 1..n
      <4>1. frames'[u][i] = s[i]
        BY <1>7, <1>8, <2>1, <3>3
      <4>2. CASE i = n
        BY <1>4, <1>6, <2>1, <3>3, <4>1, <4>2
      <4>3. CASE i # n
        BY <1>6, <2>1, <3>3, <4>1, <4>3
      <4> QED BY <4>2, <4>3
    <3> QED BY <3>1, <3>2, <3>3
  <2>2. CASE u # t
    BY <1>8, <2>2
  <2> QED BY <2>1, <2>2
<1>10. LoadTypeOK' /\ ResultsFit'
  BY <1>1, <1>8 DEF LoadInv, LoadTypeOK, ResultsFit
<1> QED BY <1>1, <1>8, <1>9, <1>10, SameFramesKeep DEF LoadInv

LEMMA LeaveKeeps ==
  ASSUME LoadInv, NEW t \in Loaders, Leave(t)
  PROVE  LoadInv'
<1> DEFINE n == Len(frames[t])
           r == [o |-> Top(t).o, v |-> cell[Top(t).o]]
<1>1. /\ frames[t] # <<>> /\ Top(t).at = "leave" /\ UNCHANGED <<cell, built, next>>
      /\ frames' = [frames EXCEPT ![t] = SubSeq(frames[t], 1, n - 1)]
      /\ result' = result \/ result' = [result EXCEPT ![t] = Append(result[t], r)]
  BY DEF Leave, In
<1>2. /\ frames \in [Loaders -> Seq(LoadFrames)] /\ frames[t] \in Seq(LoadFrames)
      /\ n \in 1..n /\ n \in Nat /\ cell \in [Lazies -> Int]
      /\ result \in [Loaders -> Seq(LoadResults)] /\ next \in Nat \ {0}
  BY <1>1 DEF LoadInv, LoadTypeOK
<1>3. /\ SubSeq(frames[t], 1, n - 1) \in Seq(LoadFrames) /\ Len(SubSeq(frames[t], 1, n - 1)) = n - 1
      /\ \A i \in 1..n - 1 : SubSeq(frames[t], 1, n - 1)[i] = frames[t][i]
  <2>1. ASSUME NEW s \in Seq(LoadFrames), NEW m \in Nat, m = Len(s), m >= 1
        PROVE  /\ SubSeq(s, 1, m - 1) \in Seq(LoadFrames) /\ Len(SubSeq(s, 1, m - 1)) = m - 1
               /\ \A i \in 1..m - 1 : SubSeq(s, 1, m - 1)[i] = s[i]
    BY <2>1
  <2>2. n >= 1
    BY <1>2
  <2> QED BY <1>2, <2>1, <2>2
<1>4. /\ frames' \in [Loaders -> Seq(LoadFrames)] /\ frames'[t] = SubSeq(frames[t], 1, n - 1)
      /\ \A u \in Loaders : u # t => frames'[u] = frames[u]
  BY <1>1, <1>2, <1>3
<1>5. \A u \in Loaders : \A i \in 1..Len(frames'[u]) :
        \/ frames'[u][i].at = "check"
        \/ /\ i \in 1..Len(frames[u]) /\ frames'[u][i].at = frames[u][i].at
           /\ frames'[u][i].o = frames[u][i].o /\ frames'[u][i].obj = frames[u][i].obj
  <2> TAKE u \in Loaders
  <2>1. CASE u = t
    <3> TAKE i \in 1..Len(frames'[u])
    <3>1. i \in 1..n - 1 /\ i \in 1..n
      BY <1>2, <1>3, <1>4, <2>1
    <3>2. frames'[u][i] = frames[u][i]
      BY <1>3, <1>4, <2>1, <3>1
    <3> QED BY <2>1, <3>1, <3>2
  <2>2. CASE u # t
    BY <1>4, <2>2
  <2> QED BY <2>1, <2>2
<1>6. /\ Top(t).o \in Lazies /\ cell[Top(t).o] >= 1
  BY <1>1, TopFits
<1>7. r \in LoadResults /\ r.v >= 1 /\ cell[r.o] = r.v
  BY <1>2, <1>6 DEF LoadResults
<1> HIDE DEF n, r
<1>8. result' \in [Loaders -> Seq(LoadResults)] /\ ResultsFit'
  <2>1. CASE result' = result
    BY <1>1, <1>2, <2>1 DEF LoadInv, ResultsFit
  <2>2. CASE result' = [result EXCEPT ![t] = Append(result[t], r)]
    <3>1. /\ Append(result[t], r) \in Seq(LoadResults)
          /\ Len(Append(result[t], r)) = Len(result[t]) + 1
          /\ Append(result[t], r)[Len(result[t]) + 1] = r
          /\ \A i \in 1..Len(result[t]) : Append(result[t], r)[i] = result[t][i]
          /\ Len(result[t]) \in Nat
      BY <1>2, <1>7
    <3>2. /\ result' \in [Loaders -> Seq(LoadResults)] /\ result'[t] = Append(result[t], r)
          /\ \A u \in Loaders : u # t => result'[u] = result[u]
      BY <1>2, <2>2, <3>1
    <3>3. ResultsFit'
      <4> SUFFICES ASSUME NEW u \in Loaders, NEW i \in 1..Len(result'[u])
                   PROVE  result'[u][i].v >= 1 /\ cell[result'[u][i].o] = result'[u][i].v
        BY <1>1 DEF ResultsFit
      <4>1. CASE u # t
        BY <3>2, <4>1 DEF LoadInv, ResultsFit
      <4>2. CASE u = t /\ i = Len(result[t]) + 1
        BY <1>7, <3>1, <3>2, <4>2
      <4>3. CASE u = t /\ i # Len(result[t]) + 1
        <5>1. i \in 1..Len(result[t])
          BY <3>1, <3>2, <4>3
        <5>2. result'[u][i] = result[t][i]
          BY <3>1, <3>2, <4>3, <5>1
        <5> QED BY <5>1, <5>2 DEF LoadInv, ResultsFit
      <4> QED BY <4>1, <4>2, <4>3
    <3> QED BY <3>2, <3>3
  <2> QED BY <1>1, <2>1, <2>2
<1>9. LoadTypeOK'
  BY <1>1, <1>2, <1>4, <1>8 DEF LoadTypeOK
<1> QED BY <1>1, <1>4, <1>5, <1>8, <1>9, SameFramesKeep DEF LoadInv

\* An exception takes the innermost loads away and leaves the cells alone.
LEMMA ThrowKeeps ==
  ASSUME LoadInv, NEW t \in Loaders, Throw(t)
  PROVE  LoadInv'
<1> DEFINE n == Len(frames[t])
<1>1. PICK k \in 0..n - 1 : frames' = [frames EXCEPT ![t] = SubSeq(frames[t], 1, k)]
  BY DEF Throw
<1>2. UNCHANGED <<cell, built, next, result>> /\ frames[t] # <<>>
  BY DEF Throw, In
<1>3. /\ frames \in [Loaders -> Seq(LoadFrames)] /\ frames[t] \in Seq(LoadFrames)
      /\ n \in Nat /\ k \in Nat /\ k < n
  BY <1>1, <1>2 DEF LoadInv, LoadTypeOK
<1>4. /\ SubSeq(frames[t], 1, k) \in Seq(LoadFrames) /\ Len(SubSeq(frames[t], 1, k)) = k
      /\ \A i \in 1..k : SubSeq(frames[t], 1, k)[i] = frames[t][i]
  <2>1. ASSUME NEW s \in Seq(LoadFrames), NEW m \in Nat, m <= Len(s)
        PROVE  /\ SubSeq(s, 1, m) \in Seq(LoadFrames) /\ Len(SubSeq(s, 1, m)) = m
               /\ \A i \in 1..m : SubSeq(s, 1, m)[i] = s[i]
    BY <2>1
  <2> QED BY <1>3, <2>1
<1>5. /\ frames' \in [Loaders -> Seq(LoadFrames)] /\ frames'[t] = SubSeq(frames[t], 1, k)
      /\ \A u \in Loaders : u # t => frames'[u] = frames[u]
  BY <1>1, <1>3, <1>4
<1>6. \A u \in Loaders : \A i \in 1..Len(frames'[u]) :
        \/ frames'[u][i].at = "check"
        \/ /\ i \in 1..Len(frames[u]) /\ frames'[u][i].at = frames[u][i].at
           /\ frames'[u][i].o = frames[u][i].o /\ frames'[u][i].obj = frames[u][i].obj
  <2> TAKE u \in Loaders
  <2>1. CASE u = t
    <3> TAKE i \in 1..Len(frames'[u])
    <3>1. i \in 1..k /\ i \in 1..n
      BY <1>3, <1>4, <1>5, <2>1
    <3>2. frames'[u][i] = frames[u][i]
      BY <1>4, <1>5, <2>1, <3>1
    <3> QED BY <2>1, <3>1, <3>2
  <2>2. CASE u # t
    BY <1>5, <2>2
  <2> QED BY <2>1, <2>2
<1>7. LoadTypeOK' /\ ResultsFit'
  BY <1>2, <1>5 DEF LoadInv, LoadTypeOK, ResultsFit
<1> QED BY <1>2, <1>5, <1>6, <1>7, SameFramesKeep DEF LoadInv

LEMMA NextLoadInv == LoadInv /\ [LNext]_lvars => LoadInv'
<1> SUFFICES ASSUME LoadInv, [LNext]_lvars PROVE LoadInv'
  OBVIOUS
<1>1. ASSUME NEW t \in Loaders, LStep(t) PROVE LoadInv'
  BY <1>1, CheckKeeps, ClaimKeeps, WaitKeeps, MakeKeeps, NestKeeps, PublishKeeps, ThrowKeeps, LeaveKeeps
     DEF LStep
<1>2. ASSUME NEW t \in Loaders, NEW o \in Lazies, Load(t, o) PROVE LoadInv'
  BY <1>2, LoadKeeps
<1>3. CASE UNCHANGED lvars
  <2>1. UNCHANGED <<cell, built, frames, next, result>>
    BY <1>3 DEF lvars
  <2>2. LoadTypeOK' /\ CellsFit' /\ ResultsFit'
    BY <2>1 DEF LoadInv, LoadTypeOK, CellsFit, ResultsFit
  <2>3. FramesFit' /\ OneMakes'
    BY <2>1 DEF LoadInv, FramesFit, OneMakes
  <2> QED BY <2>2, <2>3 DEF LoadInv
<1> QED BY <1>1, <1>2, <1>3 DEF LNext

THEOREM LazyInvariant == LSpec => []LoadInv
BY InitLoadInv, NextLoadInv, PTL DEF LSpec

\* For any number of threads and of lazy objects, whatever their constructors
\* ask for and whichever of them throw: two loads of one lazy object return one object, loads of two return
\* two, and what is returned is constructed (lazy_load_object, need_init).
THEOREM LoadsReturnOneObject == LSpec => []LoadsAgree
<1>1. LoadInv => LoadsAgree
  <2> SUFFICES ASSUME LoadInv, NEW r \in Returned, NEW q \in Returned
               PROVE  r.v \in built /\ (r.o = q.o <=> r.v = q.v)
    BY DEF LoadsAgree
  <2>1. \A x \in Returned : x \in LoadResults /\ x.v >= 1 /\ cell[x.o] = x.v
    <3> SUFFICES ASSUME NEW t \in Loaders, NEW i \in DOMAIN result[t]
                 PROVE  /\ result[t][i] \in LoadResults /\ result[t][i].v >= 1
                        /\ cell[result[t][i].o] = result[t][i].v
      BY DEF Returned
    <3>1. result[t] \in Seq(LoadResults)
      BY DEF LoadInv, LoadTypeOK
    <3>2. i \in 1..Len(result[t])
      BY <3>1
    <3> QED BY <3>1, <3>2 DEF LoadInv, ResultsFit
  <2>2. r.o \in Lazies /\ q.o \in Lazies
    BY <2>1 DEF LoadResults
  <2> QED BY <2>1, <2>2 DEF LoadInv, CellsFit
<1> QED BY <1>1, LazyInvariant, PTL

-----------------------------------------------------------------------------
(* The pool of strings.  An entry stands in the slot of its text, no text  *)
(* has two entries, and who is to fill an entry is the only one that has   *)
(* it: a second search would have read through its null.                   *)

\* What the comparison of hashes and bytes takes for granted: nobody asks for
\* a text that begins another one with the same hash.
HashTells == \A x, y \in Texts : Hash(x) = Hash(y) /\ IsPrefix(y, x) => x = y

Asks == [at : {"idle", "alone", "have", "made"}, text : Texts \cup {<<>>}, entry : Nat, str : Nat]

PoolTypeOK ==
  /\ slots \in Seq(SUBSET Nat) /\ Len(slots) >= 1
  /\ texts \in Seq(Texts) /\ value \in Seq(Nat) /\ Len(value) = Len(texts)
  /\ strings \in Nat /\ failures \in Nat
  /\ ask \in [Interners -> Asks]

SlotsFit ==
  \A i \in 1..Len(slots) :
    slots[i] = {e \in 1..Len(texts) : SlotOf(texts[e], Len(slots)) = i}

TextsOnce == \A d, e \in 1..Len(texts) : texts[d] = texts[e] => d = e

AsksFit ==
  \A t \in Interners : ask[t].at \in {"have", "made"} =>
    /\ ask[t].entry \in 1..Len(texts) /\ texts[ask[t].entry] = ask[t].text
    /\ ask[t].at = "made" =>
         /\ value[ask[t].entry] = 0 /\ ask[t].str \in 1..strings
         /\ \A e \in 1..Len(texts) : value[e] # ask[t].str

OneFills ==
  \A t, u \in Interners : t # u /\ ask[t].at \in {"have", "made"} /\ ask[u].at \in {"have", "made"} =>
    /\ ask[t].entry = ask[u].entry => value[ask[t].entry] # 0
    /\ ask[t].at = "made" /\ ask[u].at = "made" => ask[t].str # ask[u].str

ValuesOnce ==
  /\ \A e \in 1..Len(texts) : value[e] <= strings
  /\ \A d, e \in 1..Len(texts) : value[d] = value[e] /\ value[d] # 0 => d = e

GotFits ==
  \A p \in got : \/ \E e \in 1..Len(texts) : p = <<texts[e], value[e]>> /\ value[e] # 0
                 \/ p[2] \in loose

PoolCore ==
  /\ PoolTypeOK /\ SlotsFit /\ TextsOnce /\ AsksFit /\ OneFills /\ ValuesOnce /\ GotFits

LEMMA SlotInRange ==
  ASSUME NEW text \in Texts, NEW n \in Nat, n >= 1
  PROVE  SlotOf(text, n) \in 1..n
<1>1. Hash(text) \in Nat
  BY StringPoolAssumption
<1>2. Hash(text) % n \in 0..n - 1
  BY <1>1
<1> QED BY <1>2 DEF SlotOf

LEMMA InitPoolCore == PInit => PoolCore
<1> SUFFICES ASSUME PInit PROVE PoolCore
  OBVIOUS
<1>1. /\ texts = <<>> /\ value = <<>> /\ got = {} /\ strings = 0 /\ failures = 0 /\ ask = [t \in Interners |-> Idle]
      /\ slots = [i \in 1..FirstSlots |-> {}]
  BY DEF PInit
<1>2. slots \in Seq(SUBSET Nat) /\ Len(slots) >= 1 /\ \A i \in 1..Len(slots) : slots[i] = {}
  BY <1>1, StringPoolAssumption
<1>3. ask \in [Interners -> Asks]
  BY <1>1 DEF Idle, Asks
<1>4. PoolTypeOK
  <2>1. texts \in Seq(Texts) /\ value \in Seq(Nat) /\ Len(value) = Len(texts) /\ strings \in Nat
        /\ failures \in Nat
    BY <1>1
  <2> QED BY <1>2, <1>3, <2>1 DEF PoolTypeOK
<1>5. SlotsFit /\ TextsOnce /\ AsksFit /\ OneFills /\ ValuesOnce /\ GotFits
  <2>1. 1..Len(texts) = {}
    BY <1>1
  <2>2. \A t \in Interners : ask[t].at = "idle"
    BY <1>1 DEF Idle
  <2>3. SlotsFit
    BY <1>2, <2>1 DEF SlotsFit
  <2> QED BY <1>1, <2>1, <2>2, <2>3 DEF TextsOnce, AsksFit, OneFills, ValuesOnce, GotFits
<1> QED BY <1>4, <1>5 DEF PoolCore

\* A rehash puts every entry where the search will look for it.
LEMMA RehashFits ==
  ASSUME PoolTypeOK, SlotsFit, NEW n \in Nat, n >= 1
  PROVE  /\ Rehash(n) \in Seq(SUBSET Nat) /\ Len(Rehash(n)) = n
         /\ \A i \in 1..n : Rehash(n)[i] = {e \in 1..Len(texts) : SlotOf(texts[e], n) = i}
<1> DEFINE all == UNION {slots[j] : j \in 1..Len(slots)}
<1>1. all = 1..Len(texts)
  <2>1. ASSUME NEW e \in all PROVE e \in 1..Len(texts)
    BY <2>1 DEF SlotsFit
  <2>2. ASSUME NEW e \in 1..Len(texts) PROVE e \in all
    <3>1. texts[e] \in Texts /\ Len(slots) \in Nat /\ Len(slots) >= 1
      BY DEF PoolTypeOK
    <3>2. SlotOf(texts[e], Len(slots)) \in 1..Len(slots)
      BY <3>1, SlotInRange
    <3>3. e \in slots[SlotOf(texts[e], Len(slots))]
      BY <3>2 DEF SlotsFit
    <3> QED BY <3>2, <3>3
  <2> QED BY <2>1, <2>2
<1> HIDE DEF all
<1>2. Rehash(n) = [i \in 1..n |-> {e \in 1..Len(texts) : SlotOf(texts[e], n) = i}]
  BY <1>1 DEF Rehash, all
<1>3. Len(texts) \in Nat
  BY DEF PoolTypeOK
<1> QED BY <1>2, <1>3

\* A step that changes neither the texts nor the slots.
LEMMA SameTexts ==
  ASSUME PoolCore, texts' = texts, slots' = slots
  PROVE  SlotsFit' /\ TextsOnce'
BY DEF PoolCore, SlotsFit, TextsOnce

\* The search comes to the entry of the text.
LEMMA HitKeeps ==
  ASSUME PoolCore, HashTells, NEW t \in Interners, NEW text \in Texts,
         NEW e \in slots[SlotOf(text, Len(slots))], Matches(e, text), value[e] # 0,
         ask[t].at = "idle",
         ask' = [ask EXCEPT ![t] = [at |-> "have", text |-> text, entry |-> e, str |-> 0]],
         UNCHANGED <<slots, texts, value, strings, got, loose>>, failures' \in Nat
  PROVE  PoolCore'
<1>1. Len(slots) \in Nat /\ Len(slots) >= 1 /\ SlotOf(text, Len(slots)) \in 1..Len(slots)
  BY SlotInRange DEF PoolCore, PoolTypeOK
<1>2. e \in 1..Len(texts) /\ Len(texts) \in Nat
  BY <1>1 DEF PoolCore, SlotsFit, PoolTypeOK
<1>3. texts[e] = text
  <2>1. texts[e] \in Texts
    BY <1>2 DEF PoolCore, PoolTypeOK
  <2> QED BY <2>1 DEF HashTells, Matches
<1> DEFINE a == [at |-> "have", text |-> text, entry |-> e, str |-> 0]
<1>4. /\ ask' \in [Interners -> Asks] /\ ask'[t] = a
      /\ \A u \in Interners \ {t} : ask'[u] = ask[u]
  <2>1. a \in Asks
    BY <1>2 DEF Asks
  <2> HIDE DEF a
  <2> QED BY <2>1 DEF PoolCore, PoolTypeOK, a
<1>5. a.at = "have" /\ a.text = text /\ a.entry = e /\ a.str = 0
  OBVIOUS
<1> HIDE DEF a
<1>6. PoolTypeOK' /\ ValuesOnce' /\ GotFits'
  BY <1>4 DEF PoolCore, PoolTypeOK, ValuesOnce, GotFits
<1>7. AsksFit'
  BY <1>2, <1>3, <1>4, <1>5 DEF PoolCore, AsksFit
<1>8. OneFills'
  <2> SUFFICES ASSUME NEW u \in Interners, NEW v \in Interners, u # v,
                      ask'[u].at \in {"have", "made"}, ask'[v].at \in {"have", "made"}
               PROVE  /\ ask'[u].entry = ask'[v].entry => value[ask'[u].entry] # 0
                      /\ ask'[u].at = "made" /\ ask'[v].at = "made" => ask'[u].str # ask'[v].str
    BY DEF OneFills
  <2>1. CASE u = t
    BY <1>4, <1>5, <2>1
  <2>2. CASE v = t
    BY <1>4, <1>5, <2>2
  <2>3. CASE u # t /\ v # t
    BY <1>4, <2>3 DEF PoolCore, OneFills
  <2> QED BY <2>1, <2>2, <2>3
<1> QED BY <1>6, <1>7, <1>8, SameTexts DEF PoolCore

\* The text is not there: its entry is made, and this thread is to fill it.
LEMMA MissKeeps ==
  ASSUME PoolCore, NEW t \in Interners, NEW text \in Texts,
         \A e \in slots[SlotOf(text, Len(slots))] : ~Matches(e, text),
         NEW grown, grown = slots \/ grown = Rehash(2 * Len(slots)),
         texts' = Append(texts, text), value' = Append(value, 0),
         slots' = [grown EXCEPT ![SlotOf(text, Len(grown))] = @ \cup {Len(texts) + 1}],
         ask[t].at = "idle",
         ask' = [ask EXCEPT ![t] = [at |-> "have", text |-> text, entry |-> Len(texts) + 1,
                                    str |-> 0]],
         UNCHANGED <<strings, got, loose>>, failures' \in Nat
  PROVE  PoolCore'
<1> DEFINE new == Len(texts) + 1
           m == Len(grown)
           a == [at |-> "have", text |-> text, entry |-> new, str |-> 0]
<1>1. /\ texts \in Seq(Texts) /\ value \in Seq(Nat) /\ Len(value) = Len(texts)
      /\ Len(texts) \in Nat /\ strings \in Nat /\ Len(slots) \in Nat /\ Len(slots) >= 1
      /\ ask \in [Interners -> Asks]
  BY DEF PoolCore, PoolTypeOK
<1>2. /\ grown \in Seq(SUBSET Nat) /\ m \in Nat /\ m >= 1
      /\ \A i \in 1..m : grown[i] = {e \in 1..Len(texts) : SlotOf(texts[e], m) = i}
  <2>1. CASE grown = slots
    BY <1>1, <2>1 DEF PoolCore, PoolTypeOK, SlotsFit
  <2>2. CASE grown = Rehash(2 * Len(slots))
    <3>1. 2 * Len(slots) \in Nat /\ 2 * Len(slots) >= 1
      BY <1>1
    <3> QED BY <2>2, <3>1, RehashFits DEF PoolCore
  <2> QED BY <2>1, <2>2
<1>3. /\ texts' \in Seq(Texts) /\ value' \in Seq(Nat) /\ Len(texts') = new /\ Len(value') = new
      /\ texts'[new] = text /\ value'[new] = 0 /\ new \in Nat /\ new >= 1
      /\ \A e \in 1..Len(texts) : texts'[e] = texts[e] /\ value'[e] = value[e]
  BY <1>1
<1>4. 1..new = 1..Len(texts) \cup {new} /\ new \notin 1..Len(texts)
  BY <1>1
<1>5. /\ ask' \in [Interners -> Asks] /\ ask'[t] = a
      /\ \A u \in Interners \ {t} : ask'[u] = ask[u]
  <2>1. a \in Asks
    BY <1>3 DEF Asks
  <2> HIDE DEF a
  <2> QED BY <1>1, <2>1 DEF a
<1>6. a.at = "have" /\ a.text = text /\ a.entry = new /\ a.str = 0
  OBVIOUS
<1>7. \A e \in 1..Len(texts) : texts[e] # text
  <2> SUFFICES ASSUME NEW e \in 1..Len(texts), texts[e] = text PROVE FALSE
    OBVIOUS
  <2>1. SlotOf(text, Len(slots)) \in 1..Len(slots)
    BY <1>1, SlotInRange
  <2>2. e \in slots[SlotOf(text, Len(slots))]
    BY <2>1 DEF PoolCore, SlotsFit
  <2>3. IsPrefix(text, text)
    <3>1. Len(text) \in Nat
      BY StringPoolAssumption
    <3> QED BY <3>1 DEF IsPrefix
  <2> QED BY <2>2, <2>3 DEF Matches
<1>8. SlotOf(text, m) \in 1..m
  BY <1>2, SlotInRange
<1>9. slots' = [grown EXCEPT ![SlotOf(text, m)] = @ \cup {new}]
  OBVIOUS
<1> HIDE DEF new, m, a
<1>10. /\ slots' \in Seq(SUBSET Nat) /\ Len(slots') = m
       /\ \A i \in 1..m : slots'[i] = IF i = SlotOf(text, m) THEN grown[i] \cup {new} ELSE grown[i]
  <2> DEFINE s == SlotOf(text, m)
             x == grown[s] \cup {new}
             D == SUBSET Nat
  <2>1. x \in D /\ s \in 1..m /\ grown \in Seq(D)
    BY <1>2, <1>3, <1>8
  <2>2. Len(grown) = m
    BY DEF m
  <2>3. slots' = [grown EXCEPT ![s] = x]
    BY <1>9
  <2>4. x = grown[s] \cup {new}
    OBVIOUS
  <2> HIDE DEF x, s, D
  <2>6. /\ slots' \in Seq(D) /\ Len(slots') = m
        /\ \A i \in 1..m : slots'[i] = IF i = s THEN x ELSE grown[i]
    <3>1. s \in 1..Len(grown) /\ grown \in Seq(D) /\ x \in D
      BY <2>1, <2>2
    <3>2. /\ [grown EXCEPT ![s] = x] \in Seq(D) /\ Len([grown EXCEPT ![s] = x]) = Len(grown)
          /\ \A i \in 1..Len(grown) : [grown EXCEPT ![s] = x][i] = IF i = s THEN x ELSE grown[i]
      BY <3>1
    <3> QED BY <2>2, <2>3, <3>2
  <2> QED BY <2>4, <2>6 DEF s, D
<1>11. PoolTypeOK'
  BY <1>1, <1>2, <1>3, <1>5, <1>10 DEF PoolTypeOK
<1>12. SlotsFit'
  <2> SUFFICES ASSUME NEW i \in 1..m
               PROVE  slots'[i] = {e \in 1..new : SlotOf(texts'[e], m) = i}
    BY <1>3, <1>10 DEF SlotsFit, SlotOf
  <2>1. {e \in 1..new : SlotOf(texts'[e], m) = i} =
          {e \in 1..Len(texts) : SlotOf(texts[e], m) = i} \cup {e \in {new} : SlotOf(text, m) = i}
    BY <1>3, <1>4
  <2>2. grown[i] = {e \in 1..Len(texts) : SlotOf(texts[e], m) = i}
    BY <1>2
  <2>3. CASE i = SlotOf(text, m)
    <3>1. {e \in {new} : SlotOf(text, m) = i} = {new} /\ slots'[i] = grown[i] \cup {new}
      BY <1>10, <2>3
    <3> QED BY <2>1, <2>2, <3>1
  <2>4. CASE i # SlotOf(text, m)
    <3>1. {e \in {new} : SlotOf(text, m) = i} = {} /\ slots'[i] = grown[i]
      BY <1>10, <2>4
    <3> QED BY <2>1, <2>2, <3>1
  <2> QED BY <2>3, <2>4
<1>13. TextsOnce'
  BY <1>3, <1>4, <1>7 DEF PoolCore, TextsOnce
<1>14. AsksFit'
  <2> SUFFICES ASSUME NEW u \in Interners, ask'[u].at \in {"have", "made"}
               PROVE  /\ ask'[u].entry \in 1..new /\ texts'[ask'[u].entry] = ask'[u].text
                      /\ ask'[u].at = "made" =>
                           /\ value'[ask'[u].entry] = 0 /\ ask'[u].str \in 1..strings
                           /\ \A e \in 1..new : value'[e] # ask'[u].str
    BY <1>3 DEF AsksFit
  <2>1. CASE u = t
    BY <1>3, <1>5, <1>6, <2>1
  <2>2. CASE u # t
    BY <1>3, <1>4, <1>5, <2>2 DEF PoolCore, AsksFit
  <2> QED BY <2>1, <2>2
<1>15. OneFills'
  <2> SUFFICES ASSUME NEW u \in Interners, NEW v \in Interners, u # v,
                      ask'[u].at \in {"have", "made"}, ask'[v].at \in {"have", "made"}
               PROVE  /\ ask'[u].entry = ask'[v].entry => value'[ask'[u].entry] # 0
                      /\ ask'[u].at = "made" /\ ask'[v].at = "made" => ask'[u].str # ask'[v].str
    BY DEF OneFills
  <2>1. \A w \in Interners \ {t} : ask[w].at \in {"have", "made"} => ask[w].entry \in 1..Len(texts)
    BY DEF PoolCore, AsksFit
  <2>2. CASE u = t
    BY <1>4, <1>5, <1>6, <2>1, <2>2
  <2>3. CASE v = t
    BY <1>4, <1>5, <1>6, <2>1, <2>3
  <2>4. CASE u # t /\ v # t
    BY <1>3, <1>5, <2>1, <2>4 DEF PoolCore, OneFills
  <2> QED BY <2>2, <2>3, <2>4
<1>16. ValuesOnce'
  BY <1>1, <1>3, <1>4 DEF PoolCore, ValuesOnce
<1>17. GotFits'
  BY <1>3, <1>4 DEF PoolCore, GotFits
<1> QED BY <1>11, <1>12, <1>13, <1>14, <1>15, <1>16, <1>17 DEF PoolCore

\* A call ends or goes on; no value changes.
LEMMA AskKeeps ==
  ASSUME PoolCore, NEW t \in Interners, NEW a \in Asks, ask' = [ask EXCEPT ![t] = a],
         UNCHANGED <<slots, texts, value>>, failures' \in Nat,
         \/ a.at \in {"idle", "alone"} /\ strings' \in {strings, strings + 1}
         \/ /\ ask[t].at = "have" /\ value[ask[t].entry] = 0 /\ strings' = strings + 1
            /\ a.at = "made" /\ a.str = strings + 1
            /\ a.entry = ask[t].entry /\ a.text = ask[t].text
  PROVE  PoolTypeOK' /\ AsksFit' /\ OneFills' /\ ValuesOnce'
<1>1. /\ ask \in [Interners -> Asks] /\ strings \in Nat /\ value \in Seq(Nat)
      /\ Len(value) = Len(texts) /\ Len(texts) \in Nat
  BY DEF PoolCore, PoolTypeOK
<1>2. /\ ask' \in [Interners -> Asks] /\ ask'[t] = a /\ strings' \in Nat /\ strings <= strings'
      /\ \A u \in Interners \ {t} : ask'[u] = ask[u]
  BY <1>1
<1>3. PoolTypeOK'
  BY <1>2 DEF PoolCore, PoolTypeOK
<1>4. \A e \in 1..Len(texts) : value[e] \in Nat /\ value[e] <= strings
  BY <1>1 DEF PoolCore, ValuesOnce
<1>5. ValuesOnce'
  BY <1>1, <1>2, <1>4 DEF PoolCore, ValuesOnce
<1>6. AsksFit'
  <2> SUFFICES ASSUME NEW u \in Interners, ask'[u].at \in {"have", "made"}
               PROVE  /\ ask'[u].entry \in 1..Len(texts) /\ texts[ask'[u].entry] = ask'[u].text
                      /\ ask'[u].at = "made" =>
                           /\ value[ask'[u].entry] = 0 /\ ask'[u].str \in 1..strings'
                           /\ \A e \in 1..Len(texts) : value[e] # ask'[u].str
    BY DEF AsksFit
  <2>1. CASE u = t
    BY <1>1, <1>2, <1>4, <2>1 DEF PoolCore, AsksFit
  <2>2. CASE u # t
    BY <1>1, <1>2, <2>2 DEF PoolCore, AsksFit
  <2> QED BY <2>1, <2>2
<1>7. OneFills'
  <2> SUFFICES ASSUME NEW u \in Interners, NEW v \in Interners, u # v,
                      ask'[u].at \in {"have", "made"}, ask'[v].at \in {"have", "made"}
               PROVE  /\ ask'[u].entry = ask'[v].entry => value[ask'[u].entry] # 0
                      /\ ask'[u].at = "made" /\ ask'[v].at = "made" => ask'[u].str # ask'[v].str
    BY DEF OneFills
  <2>1. \A w \in Interners \ {t} : ask[w].at = "made" => ask[w].str \in 1..strings
    BY DEF PoolCore, AsksFit
  <2>2. CASE u = t
    BY <1>1, <1>2, <2>1, <2>2 DEF PoolCore, OneFills
  <2>3. CASE v = t
    BY <1>1, <1>2, <2>1, <2>3 DEF PoolCore, OneFills
  <2>4. CASE u # t /\ v # t
    BY <1>2, <2>4 DEF PoolCore, OneFills
  <2> QED BY <2>2, <2>3, <2>4
<1> QED BY <1>3, <1>5, <1>6, <1>7

\* What the invariant speaks of is as it was.
LEMMA SamePool ==
  ASSUME PoolCore, UNCHANGED <<slots, texts, value, ask, strings, got, loose>>,
         failures' \in Nat
  PROVE  PoolCore'
<1>1. PoolTypeOK' /\ AsksFit' /\ OneFills'
  BY DEF PoolCore, PoolTypeOK, AsksFit, OneFills
<1>2. ValuesOnce' /\ GotFits'
  BY DEF PoolCore, ValuesOnce, GotFits
<1> QED BY <1>1, <1>2, SameTexts DEF PoolCore

\* What a call of string_pool_ensure_space may do to the pool.
Searched(t, text) ==
  \/ UNCHANGED <<slots, texts, value, ask>>
  \/ /\ \E e \in slots[SlotOf(text, Len(slots))] :
          Matches(e, text) /\ value[e] # 0 /\ Obtain(t, "have", text, e)
     /\ UNCHANGED <<slots, texts, value, crashed>>
  \/ Obtain(t, "alone", text, 0) /\ failures' = failures + 1 /\ UNCHANGED <<slots, texts, value, crashed>>
  \/ /\ \A e \in slots[SlotOf(text, Len(slots))] : ~Matches(e, text)
     /\ Obtain(t, "have", text, Len(texts) + 1)
     /\ texts' = Append(texts, text) /\ value' = Append(value, 0)
     /\ \E grown \in {slots, Rehash(2 * Len(slots))} :
          slots' = [grown EXCEPT ![SlotOf(text, Len(grown))] = @ \cup {Len(texts) + 1}]
     /\ UNCHANGED crashed

LEMMA EnterSearches ==
  ASSUME PoolCore, NEW t \in Interners, Enter(t)
  PROVE  /\ \E text \in Texts : Searched(t, text)
         /\ ask[t].at = "idle" /\ ~crashed /\ UNCHANGED <<strings, got, loose>>
         /\ failures' \in {failures, failures + 1}
<1>1. PICK text \in Texts : EnsureSpace(t, text)
  BY DEF Enter
<1> DEFINE slot == slots[SlotOf(text, Len(slots))]
           empty == {e \in slot : value[e] = 0}
           hits == {e \in slot \ empty : Matches(e, text)}
<1>2. \/ UNCHANGED <<slots, texts, value, ask, failures>>
      \/ (\E e \in hits : Obtain(t, "have", text, e)) /\ UNCHANGED <<slots, texts, value, crashed, failures>>
      \/ hits = {} /\ empty = {} /\ NewEntry(t, text)
  BY <1>1 DEF EnsureSpace
<1>3. CASE (\E e \in hits : Obtain(t, "have", text, e)) /\ UNCHANGED <<slots, texts, value, crashed, failures>>
  <2>1. Searched(t, text)
    BY <1>3, Zenon DEF Searched
  <2> QED BY <1>3, <2>1 DEF Enter
<1>4. CASE hits = {} /\ empty = {} /\ NewEntry(t, text)
  <2>1. \A e \in slot : ~Matches(e, text)
    BY <1>4
  <2> DEFINE grown == IF (1 + Len(texts)) * 10 > 8 * Len(slots) THEN Rehash(2 * Len(slots)) ELSE slots
  <2>2. \/ Obtain(t, "alone", text, 0) /\ failures' = failures + 1 /\ UNCHANGED <<slots, texts, value, crashed>>
        \/ UNCHANGED <<slots, texts, value, ask>> /\ failures' \in {failures, failures + 1}
        \/ /\ Obtain(t, "have", text, Len(texts) + 1)
           /\ texts' = Append(texts, text) /\ value' = Append(value, 0)
           /\ slots' = [grown EXCEPT ![SlotOf(text, Len(grown))] = @ \cup {Len(texts) + 1}]
           /\ UNCHANGED <<crashed, failures>>
    BY <1>4 DEF NewEntry, Fail
  <2>3. grown \in {slots, Rehash(2 * Len(slots))}
    OBVIOUS
  <2> HIDE DEF grown, hits, empty
  <2>4. Searched(t, text)
    BY <2>1, <2>2, <2>3, Zenon DEF Searched
  <2> QED BY <2>2, <2>4 DEF Enter
<1> QED BY <1>2, <1>3, <1>4 DEF Enter, Searched

LEMMA EnterKeeps ==
  ASSUME PoolCore, HashTells, NEW t \in Interners, Enter(t)
  PROVE  PoolCore'
<1>1. PICK text \in Texts : Searched(t, text)
  BY EnterSearches
<1>2. /\ ask[t].at = "idle" /\ UNCHANGED <<strings, got, loose>>
      /\ failures \in Nat /\ failures' \in Nat
  BY EnterSearches DEF PoolCore, PoolTypeOK
<1>3. CASE UNCHANGED <<slots, texts, value, ask>>
  BY <1>2, <1>3, SamePool
<1>4. ASSUME NEW e \in slots[SlotOf(text, Len(slots))], Matches(e, text), value[e] # 0,
             Obtain(t, "have", text, e), UNCHANGED <<slots, texts, value>>
      PROVE  PoolCore'
  BY <1>2, <1>4, HitKeeps DEF Obtain
<1>5. CASE Obtain(t, "alone", text, 0) /\ UNCHANGED <<slots, texts, value>>
  <2> DEFINE a == [at |-> "alone", text |-> text, entry |-> 0, str |-> 0]
  <2>1. a \in Asks /\ a.at = "alone" /\ ask' = [ask EXCEPT ![t] = a]
    BY <1>5 DEF Asks, Obtain
  <2> HIDE DEF a
  <2>2. PoolTypeOK' /\ AsksFit' /\ OneFills' /\ ValuesOnce'
    BY <1>2, <1>5, <2>1, AskKeeps
  <2>3. GotFits'
    BY <1>2, <1>5 DEF PoolCore, GotFits
  <2> QED BY <1>5, <2>2, <2>3, SameTexts DEF PoolCore
<1>6. ASSUME \A e \in slots[SlotOf(text, Len(slots))] : ~Matches(e, text),
             Obtain(t, "have", text, Len(texts) + 1),
             texts' = Append(texts, text), value' = Append(value, 0),
             NEW grown \in {slots, Rehash(2 * Len(slots))},
             slots' = [grown EXCEPT ![SlotOf(text, Len(grown))] = @ \cup {Len(texts) + 1}]
      PROVE  PoolCore'
  <2>1. grown = slots \/ grown = Rehash(2 * Len(slots))
    OBVIOUS
  <2> QED BY <1>2, <1>6, <2>1, MissKeeps DEF Obtain
<1> QED BY <1>1, <1>3, <1>4, <1>5, <1>6 DEF Searched

\* A call is over or goes to make its string: what has been returned stays.
LEMMA OthersKeep ==
  ASSUME PoolCore, NEW t \in Interners,
         Found(t) \/ Missing(t) \/ Alone(t) \/ AllocateFails(t)
  PROVE  PoolCore'
<1>1. /\ ask \in [Interners -> Asks] /\ strings \in Nat /\ Idle.at = "idle"
      /\ UNCHANGED <<slots, texts, value>> /\ ask[t].at \in {"alone", "have"}
      /\ failures \in Nat /\ failures' \in Nat
  BY DEF PoolCore, PoolTypeOK, Idle, Found, Missing, Alone, AllocateFails, Fail
<1>2. Idle \in Asks
  BY DEF Idle, Asks
<1>3. CASE Found(t)
  <2>1. /\ ask' = [ask EXCEPT ![t] = Idle] /\ strings' = strings
        /\ got' = got \cup {<<ask[t].text, value[ask[t].entry]>>} /\ value[ask[t].entry] # 0
        /\ ask[t].at = "have" /\ loose' = loose
    BY <1>3 DEF Found, Return
  <2>2. ask[t].entry \in 1..Len(texts) /\ texts[ask[t].entry] = ask[t].text
    BY <2>1 DEF PoolCore, AsksFit
  <2>3. GotFits'
    BY <1>1, <2>1, <2>2 DEF PoolCore, GotFits
  <2>4. PoolTypeOK' /\ AsksFit' /\ OneFills' /\ ValuesOnce'
    BY <1>1, <1>2, <2>1, AskKeeps
  <2> QED BY <1>1, <2>3, <2>4, SameTexts DEF PoolCore
<1>4. CASE AllocateFails(t)
  <2>1. ask' = [ask EXCEPT ![t] = Idle] /\ strings' = strings /\ UNCHANGED <<got, loose>>
    BY <1>4 DEF AllocateFails
  <2>2. PoolTypeOK' /\ AsksFit' /\ OneFills' /\ ValuesOnce'
    BY <1>1, <1>2, <2>1, AskKeeps
  <2>3. GotFits'
    BY <1>1, <2>1 DEF PoolCore, GotFits
  <2> QED BY <1>1, <2>2, <2>3, SameTexts DEF PoolCore
<1>5. CASE Missing(t)
  <2> DEFINE a == [at |-> "made", text |-> ask[t].text, entry |-> ask[t].entry,
                   str |-> strings + 1]
  <2>1. /\ ask' = [ask EXCEPT ![t] = a] /\ strings' = strings + 1
        /\ UNCHANGED <<got, loose>> /\ value[ask[t].entry] = 0 /\ ask[t].at = "have"
    BY <1>1, <1>5 DEF Missing
  <2>2. /\ a \in Asks /\ a.at = "made" /\ a.str = strings + 1
        /\ a.entry = ask[t].entry /\ a.text = ask[t].text
    <3>1. ask[t].text \in Texts \cup {<<>>} /\ ask[t].entry \in Nat /\ strings + 1 \in Nat
      BY <1>1 DEF Asks
    <3> QED BY <3>1 DEF Asks
  <2> HIDE DEF a
  <2>3. PoolTypeOK' /\ AsksFit' /\ OneFills' /\ ValuesOnce'
    BY <1>1, <2>1, <2>2, AskKeeps
  <2>4. GotFits'
    BY <1>1, <2>1 DEF PoolCore, GotFits
  <2> QED BY <1>1, <2>3, <2>4, SameTexts DEF PoolCore
<1>6. CASE Alone(t)
  <2>1. /\ ask' = [ask EXCEPT ![t] = Idle] /\ strings' = strings + 1
        /\ got' = got \cup {<<ask[t].text, strings + 1>>} /\ loose' = loose \cup {strings + 1}
    BY <1>6 DEF Alone, Return
  <2>2. PoolTypeOK' /\ AsksFit' /\ OneFills' /\ ValuesOnce'
    BY <1>1, <1>2, <2>1, AskKeeps
  <2>3. GotFits'
    BY <1>1, <2>1 DEF PoolCore, GotFits
  <2> QED BY <1>1, <2>2, <2>3, SameTexts DEF PoolCore
<1> QED BY <1>3, <1>4, <1>5, <1>6

\* The string goes into the entry, which nobody else is to fill.
LEMMA FillKeeps ==
  ASSUME PoolCore, NEW t \in Interners, Fill(t)
  PROVE  PoolCore'
<1> DEFINE e == ask[t].entry
           s == ask[t].str
<1>1. /\ ask \in [Interners -> Asks] /\ strings \in Nat /\ value \in Seq(Nat)
      /\ Len(value) = Len(texts) /\ Len(texts) \in Nat
  BY DEF PoolCore, PoolTypeOK
<1>2. /\ ask' = [ask EXCEPT ![t] = Idle] /\ got' = got \cup {<<ask[t].text, s>>}
      /\ value' = [value EXCEPT ![e] = s] /\ ask[t].at = "made"
      /\ UNCHANGED <<slots, texts, strings, loose, failures>>
  BY DEF Fill, Return
<1>3. /\ e \in 1..Len(texts) /\ texts[e] = ask[t].text /\ value[e] = 0 /\ s \in 1..strings
      /\ \A d \in 1..Len(texts) : value[d] # s
  BY <1>2 DEF PoolCore, AsksFit
<1>4. Idle \in Asks /\ Idle.at = "idle"
  BY DEF Idle, Asks
<1>5. /\ ask' \in [Interners -> Asks] /\ ask'[t].at = "idle"
      /\ \A u \in Interners \ {t} : ask'[u] = ask[u]
  BY <1>1, <1>2, <1>4
<1> HIDE DEF e, s
<1>6. /\ value' \in Seq(Nat) /\ Len(value') = Len(texts) /\ value'[e] = s
      /\ \A d \in 1..Len(texts) : d # e => value'[d] = value[d]
  <2>1. s \in Nat /\ e \in 1..Len(value)
    BY <1>1, <1>3
  <2>2. /\ [value EXCEPT ![e] = s] \in Seq(Nat) /\ Len([value EXCEPT ![e] = s]) = Len(value)
        /\ \A d \in 1..Len(value) : [value EXCEPT ![e] = s][d] = IF d = e THEN s ELSE value[d]
    BY <1>1, <2>1
  <2> QED BY <1>1, <1>2, <1>3, <2>2
<1>7. PoolTypeOK'
  BY <1>2, <1>5, <1>6 DEF PoolCore, PoolTypeOK
<1>8. \A u \in Interners \ {t} : ask[u].at \in {"have", "made"} =>
        /\ ask[u].entry = e => FALSE
        /\ ask[u].at = "made" => ask[u].str # s
  <2> SUFFICES ASSUME NEW u \in Interners \ {t}, ask[u].at \in {"have", "made"}
               PROVE  ask[u].entry # e /\ (ask[u].at = "made" => ask[u].str # s)
    OBVIOUS
  <2> QED BY <1>2, <1>3 DEF PoolCore, OneFills, e, s
<1>9. AsksFit'
  <2> SUFFICES ASSUME NEW u \in Interners, ask'[u].at \in {"have", "made"}
               PROVE  /\ ask'[u].entry \in 1..Len(texts) /\ texts[ask'[u].entry] = ask'[u].text
                      /\ ask'[u].at = "made" =>
                           /\ value'[ask'[u].entry] = 0 /\ ask'[u].str \in 1..strings
                           /\ \A d \in 1..Len(texts) : value'[d] # ask'[u].str
    BY <1>2 DEF AsksFit
  <2>1. u # t /\ ask'[u] = ask[u]
    BY <1>5
  <2> QED BY <1>6, <1>8, <2>1 DEF PoolCore, AsksFit
<1>10. OneFills'
  <2> SUFFICES ASSUME NEW u \in Interners, NEW v \in Interners, u # v,
                      ask'[u].at \in {"have", "made"}, ask'[v].at \in {"have", "made"}
               PROVE  /\ ask'[u].entry = ask'[v].entry => value'[ask'[u].entry] # 0
                      /\ ask'[u].at = "made" /\ ask'[v].at = "made" => ask'[u].str # ask'[v].str
    BY DEF OneFills
  <2>1. u # t /\ v # t /\ ask'[u] = ask[u] /\ ask'[v] = ask[v]
    BY <1>5
  <2>2. ask[u].entry \in 1..Len(texts) /\ ask[u].entry # e
    BY <1>8, <2>1 DEF PoolCore, AsksFit
  <2> QED BY <1>6, <2>1, <2>2 DEF PoolCore, OneFills
<1>11. ValuesOnce'
  <2>1. \A d \in 1..Len(texts) : value'[d] <= strings
    BY <1>3, <1>6 DEF PoolCore, ValuesOnce
  <2>2. ASSUME NEW c \in 1..Len(texts), NEW d \in 1..Len(texts), value'[c] = value'[d],
               value'[c] # 0
        PROVE  c = d
    BY <1>3, <1>6, <2>2 DEF PoolCore, ValuesOnce
  <2> QED BY <1>2, <2>1, <2>2 DEF ValuesOnce
<1>12. GotFits'
  <2> SUFFICES ASSUME NEW p \in got'
               PROVE  \/ \E d \in 1..Len(texts) : p = <<texts[d], value'[d]>> /\ value'[d] # 0
                      \/ p[2] \in loose
    BY <1>2 DEF GotFits
  <2>1. CASE p \in got /\ p[2] \notin loose
    <3>1. PICK d \in 1..Len(texts) : p = <<texts[d], value[d]>> /\ value[d] # 0
      BY <2>1 DEF PoolCore, GotFits
    <3> QED BY <1>3, <1>6, <3>1
  <2>2. CASE p = <<ask[t].text, s>>
    BY <1>3, <1>6, <2>2
  <2> QED BY <1>2, <2>1, <2>2
<1> QED BY <1>2, <1>7, <1>9, <1>10, <1>11, <1>12, SameTexts DEF PoolCore

-----------------------------------------------------------------------------
\* A string outside the pool is there for a failed allocation, in no entry and
\* in nobody else's result.
LooseFits ==
  /\ \A x \in loose : x \in 1..strings /\ failures > 0
  /\ \A e \in 1..Len(texts) : value[e] \notin loose
  /\ \A t \in Interners : ask[t].at = "made" => ask[t].str \notin loose
  /\ \A t \in Interners : ask[t].at = "alone" => failures > 0
  /\ \A p, q \in got : p[2] = q[2] /\ p[2] \in loose => p[1] = q[1]

\* As long as no allocation has failed, somebody is to fill an empty entry.
EmptyFits ==
  failures = 0 => \A e \in 1..Len(texts) : value[e] = 0 =>
    \E t \in Interners : ask[t].at \in {"have", "made"} /\ ask[t].entry = e

CrashFits == crashed => failures > 0 \/ \E e \in 1..Len(texts) : value[e] = 0

PoolInv == PoolCore /\ LooseFits /\ EmptyFits /\ CrashFits

LEMMA InitPoolInv == PInit => PoolInv
<1> SUFFICES ASSUME PInit PROVE PoolInv
  OBVIOUS
<1>1. /\ texts = <<>> /\ got = {} /\ loose = {} /\ crashed = FALSE
      /\ \A t \in Interners : ask[t].at = "idle"
  BY DEF PInit, Idle
<1>2. 1..Len(texts) = {}
  BY <1>1
<1> QED BY <1>1, <1>2, InitPoolCore DEF PoolInv, LooseFits, EmptyFits, CrashFits

PStep(t) == Enter(t) \/ Found(t) \/ Missing(t) \/ Fill(t) \/ Alone(t) \/ AllocateFails(t)

LEMMA LooseKeeps ==
  ASSUME PoolInv, PoolCore', NEW t \in Interners, PStep(t)
  PROVE  LooseFits'
<1>1. /\ ask \in [Interners -> Asks] /\ strings \in Nat /\ failures \in Nat
      /\ value \in Seq(Nat) /\ Len(value) = Len(texts) /\ Len(texts) \in Nat
  BY DEF PoolInv, PoolCore, PoolTypeOK
<1>2. /\ \A x \in loose : x \in 1..strings /\ failures > 0
      /\ \A e \in 1..Len(texts) : value[e] \notin loose
      /\ \A u \in Interners : ask[u].at = "made" => ask[u].str \notin loose
      /\ \A u \in Interners : ask[u].at = "alone" => failures > 0
      /\ \A p, q \in got : p[2] = q[2] /\ p[2] \in loose => p[1] = q[1]
  BY DEF PoolInv, LooseFits
<1>3. CASE Enter(t)
  <2>1. PICK text \in Texts : Searched(t, text)
    BY <1>3, EnterSearches DEF PoolInv
  <2>2. UNCHANGED <<strings, got, loose>> /\ failures' \in {failures, failures + 1}
    BY <1>3, EnterSearches DEF PoolInv
  <2>3. \A e \in 1..Len(texts)' : value'[e] \notin loose
    <3>1. CASE UNCHANGED <<texts, value>>
      BY <1>2, <3>1
    <3>2. CASE texts' = Append(texts, text) /\ value' = Append(value, 0)
      <4>1. /\ Len(texts') = Len(texts) + 1
            /\ \A e \in 1..Len(texts) + 1 : value'[e] = IF e = Len(texts) + 1 THEN 0 ELSE value[e]
        BY <1>1, <3>2 DEF PoolInv, PoolCore, PoolTypeOK
      <4>2. 0 \notin loose
        BY <1>2
      <4> QED BY <1>1, <1>2, <4>1, <4>2
    <3> QED BY <2>1, <3>1, <3>2 DEF Searched
  <2>4. \A u \in Interners :
          \/ ask'[u] = ask[u]
          \/ ask'[u].at = "have"
          \/ ask'[u].at = "alone" /\ failures' = failures + 1
    <3> TAKE u \in Interners
    <3>1. CASE ask' = ask
      BY <3>1
    <3>2. ASSUME NEW e, Obtain(t, "have", text, e)
          PROVE  ask'[u] = ask[u] \/ ask'[u].at = "have"
      BY <1>1, <3>2 DEF Obtain
    <3>3. CASE Obtain(t, "alone", text, 0) /\ failures' = failures + 1
      BY <1>1, <3>3 DEF Obtain
    <3> QED BY <2>1, <3>1, <3>2, <3>3 DEF Searched
  <2> QED BY <1>1, <1>2, <2>2, <2>3, <2>4 DEF LooseFits
<1>4. CASE Found(t)
  <2>1. /\ ask' = [ask EXCEPT ![t] = Idle] /\ ask[t].at = "have"
        /\ got' = got \cup {<<ask[t].text, value[ask[t].entry]>>}
        /\ UNCHANGED <<texts, value, strings, loose, failures>>
    BY <1>4 DEF Found, Return
  <2>2. value[ask[t].entry] \notin loose
    BY <1>2, <2>1 DEF PoolInv, PoolCore, AsksFit
  <2>3. \A p, q \in got' : p[2] = q[2] /\ p[2] \in loose => p[1] = q[1]
    BY <1>2, <2>1, <2>2
  <2>4. \A u \in Interners : ask'[u] = ask[u] \/ ask'[u].at = "idle"
    BY <1>1, <2>1 DEF Idle
  <2> QED BY <1>2, <2>1, <2>3, <2>4 DEF LooseFits
<1>5. CASE Missing(t)
  <2>1. /\ ask'[t].at = "made" /\ ask'[t].str = strings + 1 /\ strings' = strings + 1
        /\ \A u \in Interners \ {t} : ask'[u] = ask[u]
        /\ UNCHANGED <<texts, value, got, loose, failures>>
    BY <1>1, <1>5 DEF Missing
  <2>2. strings + 1 \notin loose
    BY <1>1, <1>2
  <2> QED BY <1>1, <1>2, <2>1, <2>2 DEF LooseFits
<1>6. CASE Fill(t)
  <2>1. /\ ask' = [ask EXCEPT ![t] = Idle] /\ ask[t].at = "made"
        /\ got' = got \cup {<<ask[t].text, ask[t].str>>}
        /\ value' = [value EXCEPT ![ask[t].entry] = ask[t].str]
        /\ UNCHANGED <<texts, strings, loose, failures>>
    BY <1>6 DEF Fill, Return
  <2>2. ask[t].str \notin loose
    BY <1>2, <2>1
  <2>3. \A p, q \in got' : p[2] = q[2] /\ p[2] \in loose => p[1] = q[1]
    BY <1>2, <2>1, <2>2
  <2>4. \A u \in Interners : ask'[u] = ask[u] \/ ask'[u].at = "idle"
    BY <1>1, <2>1 DEF Idle
  <2>5. \A e \in 1..Len(texts) : value'[e] \in {value[e], ask[t].str}
    BY <1>1, <2>1
  <2> QED BY <1>2, <2>1, <2>2, <2>3, <2>4, <2>5 DEF LooseFits
<1>7. CASE Alone(t)
  <2>1. /\ ask' = [ask EXCEPT ![t] = Idle] /\ ask[t].at = "alone" /\ strings' = strings + 1
        /\ got' = got \cup {<<ask[t].text, strings + 1>>} /\ loose' = loose \cup {strings + 1}
        /\ UNCHANGED <<texts, value, failures>>
    BY <1>7 DEF Alone, Return
  <2>2. \A e \in 1..Len(texts) : value[e] # strings + 1
    BY <1>1 DEF PoolInv, PoolCore, ValuesOnce
  <2>3. \A u \in Interners : ask[u].at = "made" => ask[u].str # strings + 1
    BY <1>1 DEF PoolInv, PoolCore, AsksFit
  <2>4. \A p \in got : p[2] # strings + 1
    <3> SUFFICES ASSUME NEW p \in got, p[2] = strings + 1 PROVE FALSE
      OBVIOUS
    <3>1. p[2] \notin loose
      BY <1>1, <1>2
    <3>2. PICK e \in 1..Len(texts) : p = <<texts[e], value[e]>>
      BY <3>1 DEF PoolInv, PoolCore, GotFits
    <3> QED BY <2>2, <3>2
  <2>5. \A p, q \in got' : p[2] = q[2] /\ p[2] \in loose' => p[1] = q[1]
    BY <1>2, <2>1, <2>4
  <2>6. \A u \in Interners : ask'[u] = ask[u] \/ ask'[u].at = "idle"
    BY <1>1, <2>1 DEF Idle
  <2>7. \A x \in loose' : x \in 1..strings' /\ failures > 0
    BY <1>1, <1>2, <2>1
  <2> QED BY <1>2, <2>1, <2>2, <2>3, <2>5, <2>6, <2>7 DEF LooseFits
<1>8. CASE AllocateFails(t)
  <2>1. /\ ask' = [ask EXCEPT ![t] = Idle] /\ failures' = failures + 1
        /\ UNCHANGED <<texts, value, strings, got, loose>>
    BY <1>8 DEF AllocateFails, Fail
  <2>2. \A u \in Interners : ask'[u] = ask[u] \/ ask'[u].at = "idle"
    BY <1>1, <2>1 DEF Idle
  <2> QED BY <1>1, <1>2, <2>1, <2>2 DEF LooseFits
<1> QED BY <1>3, <1>4, <1>5, <1>6, <1>7, <1>8 DEF PStep

LEMMA EmptyKeeps ==
  ASSUME PoolInv, PoolCore', NEW t \in Interners, PStep(t)
  PROVE  EmptyFits'
<1>1. /\ ask \in [Interners -> Asks] /\ failures \in Nat
      /\ value \in Seq(Nat) /\ Len(value) = Len(texts) /\ Len(texts) \in Nat
  BY DEF PoolInv, PoolCore, PoolTypeOK
<1> SUFFICES ASSUME failures' = 0, NEW e \in 1..Len(texts'), value'[e] = 0
             PROVE  \E u \in Interners : ask'[u].at \in {"have", "made"} /\ ask'[u].entry = e
  BY DEF EmptyFits
<1>2. failures = 0
  <2>1. failures' \in {failures, failures + 1}
    BY EnterSearches DEF PoolInv, PStep, Found, Missing, Fill, Alone, AllocateFails, Fail
  <2> QED BY <1>1, <2>1
<1>3. ASSUME e \in 1..Len(texts), value[e] = 0
      PROVE  \E u \in Interners : ask[u].at \in {"have", "made"} /\ ask[u].entry = e
  BY <1>2, <1>3 DEF PoolInv, EmptyFits
<1>4. CASE Enter(t)
  <2>1. PICK text \in Texts : Searched(t, text)
    BY <1>4, EnterSearches DEF PoolInv
  <2>2. ask[t].at = "idle"
    BY <1>4, EnterSearches DEF PoolInv
  <2>3. CASE UNCHANGED <<texts, value>>
    <3>1. PICK u \in Interners : ask[u].at \in {"have", "made"} /\ ask[u].entry = e
      BY <1>3, <2>3
    <3>2. ask'[u] = ask[u]
      BY <1>1, <2>1, <2>2, <3>1 DEF Searched, Obtain
    <3> QED BY <3>1, <3>2
  <2>4. CASE texts' = Append(texts, text) /\ value' = Append(value, 0) /\ Obtain(t, "have", text, Len(texts) + 1)
    <3>1. Len(texts') = Len(texts) + 1
      BY <1>1, <2>4 DEF PoolInv, PoolCore, PoolTypeOK
    <3>2. /\ ask'[t].at = "have" /\ ask'[t].entry = Len(texts) + 1
          /\ \A u \in Interners \ {t} : ask'[u] = ask[u]
      BY <1>1, <2>4 DEF Obtain
    <3>3. CASE e = Len(texts) + 1
      BY <3>2, <3>3
    <3>4. CASE e # Len(texts) + 1
      <4>1. e \in 1..Len(texts) /\ value[e] = 0
        BY <1>1, <2>4, <3>1, <3>4
      <4>2. PICK u \in Interners : ask[u].at \in {"have", "made"} /\ ask[u].entry = e
        BY <1>3, <4>1
      <4> QED BY <2>2, <3>2, <4>2
    <3> QED BY <3>3, <3>4
  <2> QED BY <2>1, <2>3, <2>4 DEF Searched
<1>5. CASE Found(t) \/ Missing(t) \/ Alone(t)
  <2>1. PICK u \in Interners : ask[u].at \in {"have", "made"} /\ ask[u].entry = e
    BY <1>3, <1>5 DEF Found, Missing, Alone
  <2>2. CASE Missing(t)
    BY <1>1, <2>1, <2>2 DEF Missing
  <2>3. CASE Found(t) \/ Alone(t)
    <3>1. u # t
      BY <2>1, <2>3 DEF Found, Alone
    <3>2. ask'[u] = ask[u]
      BY <1>1, <2>3, <3>1 DEF Found, Alone, Return
    <3> QED BY <2>1, <3>2
  <2> QED BY <1>5, <2>2, <2>3
<1>6. CASE Fill(t)
  <2>1. /\ ask' = [ask EXCEPT ![t] = Idle] /\ ask[t].at = "made" /\ texts' = texts
        /\ value' = [value EXCEPT ![ask[t].entry] = ask[t].str]
    BY <1>6 DEF Fill, Return
  <2>2. ask[t].entry \in 1..Len(texts) /\ ask[t].str # 0
    BY <2>1 DEF PoolInv, PoolCore, AsksFit
  <2>3. e # ask[t].entry /\ value[e] = 0
    BY <1>1, <2>1, <2>2
  <2>4. PICK u \in Interners : ask[u].at \in {"have", "made"} /\ ask[u].entry = e
    BY <1>3, <2>1, <2>3
  <2>5. ask'[u] = ask[u]
    BY <1>1, <2>1, <2>3, <2>4
  <2> QED BY <2>4, <2>5
<1>7. CASE AllocateFails(t)
  BY <1>1, <1>7 DEF AllocateFails, Fail
<1> QED BY <1>4, <1>5, <1>6, <1>7 DEF PStep

\* Only a search or a rehash that meets an empty entry crashes, or an
\* allocation that failed.
LEMMA CrashKeeps ==
  ASSUME PoolInv, NEW t \in Interners, PStep(t)
  PROVE  CrashFits'
<1>1. Len(value) = Len(texts) /\ Len(texts) \in Nat /\ failures \in Nat /\ value \in Seq(Nat)
  BY DEF PoolInv, PoolCore, PoolTypeOK
<1>2. CASE Enter(t)
  <2>1. PICK text \in Texts : EnsureSpace(t, text)
    BY <1>2 DEF Enter
  <2>2. crashed = FALSE \/ ~crashed
    BY <1>2 DEF Enter
  <2>3. SlotOf(text, Len(slots)) \in 1..Len(slots)
    BY SlotInRange DEF PoolInv, PoolCore, PoolTypeOK
  <2>4. slots[SlotOf(text, Len(slots))] \subseteq 1..Len(texts)
    BY <2>3 DEF PoolInv, PoolCore, SlotsFit
  <2>5. \/ crashed' = crashed
        \/ failures' = failures + 1
        \/ /\ \E e \in slots[SlotOf(text, Len(slots))] : value[e] = 0
           /\ UNCHANGED <<texts, value>>
        \/ (\E e \in DOMAIN value : value[e] = 0) /\ UNCHANGED <<texts, value>>
    <3> DEFINE empty == {e \in slots[SlotOf(text, Len(slots))] : value[e] = 0}
    <3>1. \/ empty # {} /\ UNCHANGED <<texts, value>>
          \/ crashed' = crashed
          \/ NewEntry(t, text)
      BY <2>1 DEF EnsureSpace
    <3>2. NewEntry(t, text) =>
            \/ crashed' = crashed
            \/ failures' = failures + 1
            \/ (\E e \in DOMAIN value : value[e] = 0) /\ UNCHANGED <<texts, value>>
      BY DEF NewEntry, Fail
    <3> QED BY <3>1, <3>2
  <2>6. CASE crashed' = crashed
    BY <2>2, <2>6, Zenon DEF CrashFits
  <2>7. CASE failures' = failures + 1
    <3>1. failures' > 0
      BY <1>1, <2>7
    <3> QED BY <3>1, Zenon DEF CrashFits
  <2>8. CASE (\E e \in 1..Len(texts) : value[e] = 0) /\ UNCHANGED <<texts, value>>
    <3>1. \E e \in 1..Len(texts') : value'[e] = 0
      BY <2>8
    <3> QED BY <3>1, Zenon DEF CrashFits
  <2>9. DOMAIN value = 1..Len(texts)
    BY <1>1
  <2> QED BY <2>4, <2>5, <2>6, <2>7, <2>8, <2>9
<1>3. CASE Found(t) \/ Missing(t) \/ Fill(t) \/ Alone(t) \/ AllocateFails(t)
  BY <1>3 DEF Found, Missing, Fill, Alone, AllocateFails, CrashFits
<1> QED BY <1>2, <1>3 DEF PStep

LEMMA NextPoolInv == HashTells /\ PoolInv /\ [PNext]_pvars => PoolInv'
<1> SUFFICES ASSUME HashTells, PoolInv, [PNext]_pvars PROVE PoolInv'
  OBVIOUS
<1>1. CASE UNCHANGED pvars
  <2>1. UNCHANGED <<slots, texts, value, strings, ask, got, loose, crashed, failures>>
    BY <1>1 DEF pvars
  <2>2. PoolCore'
    BY <2>1, SamePool DEF PoolInv, PoolCore, PoolTypeOK
  <2> QED BY <2>1, <2>2 DEF PoolInv, LooseFits, EmptyFits, CrashFits
<1>2. ASSUME NEW t \in Interners, PStep(t)
      PROVE  PoolInv'
  <2>1. PoolCore'
    BY <1>2, EnterKeeps, OthersKeep, FillKeeps DEF PoolInv, PStep
  <2> QED BY <1>2, <2>1, LooseKeeps, EmptyKeeps, CrashKeeps DEF PoolInv
<1> QED BY <1>1, <1>2 DEF PNext, PStep

\* An entry of the pool stands in the slot its text hashes to, after every
\* rehash too, no text has two entries, a thread that is to fill an entry
\* shares it with nobody, and an entry nobody is to fill, or a string without
\* an entry, is there only after a failed allocation.
THEOREM PoolInvariant == HashTells => (PSpec => []PoolInv)
<1> SUFFICES ASSUME HashTells PROVE PSpec => []PoolInv
  OBVIOUS
<1>1. PoolInv /\ [PNext]_pvars => PoolInv'
  BY NextPoolInv
<1> QED BY <1>1, InitPoolInv, PTL DEF PSpec

\* For any number of threads, texts, rehashes and failed allocations, when no
\* text asked for begins another one with the same hash: yalx_new_string never
\* returns one string for two texts, and two strings for one text only if the
\* entry of one of them could not be allocated; an empty entry is in the hands
\* of one thread, and without a failed allocation nothing crashes but a search
\* or a rehash that comes between its insertion and the store of its string.
THEOREM TextsAreInternedOnce == HashTells => (PSpec => []InternedOnce)
<1>1. ASSUME PoolInv PROVE OneStringPerText
  <2>1. ASSUME NEW p \in got, NEW q \in got, p[2] \notin loose, q[2] \notin loose
        PROVE  p[1] = q[1] <=> p[2] = q[2]
    <3>1. PICK d \in 1..Len(texts) : p = <<texts[d], value[d]>> /\ value[d] # 0
      BY <1>1, <2>1 DEF PoolInv, PoolCore, GotFits
    <3>2. PICK e \in 1..Len(texts) : q = <<texts[e], value[e]>> /\ value[e] # 0
      BY <1>1, <2>1 DEF PoolInv, PoolCore, GotFits
    <3> QED BY <1>1, <3>1, <3>2 DEF PoolInv, PoolCore, TextsOnce, ValuesOnce
  <2>2. /\ \A p, q \in got : p[2] = q[2] /\ p[2] \in loose => p[1] = q[1]
        /\ \A x \in loose : failures > 0
    BY <1>1 DEF PoolInv, LooseFits
  <2>3. \A p, q \in got : p[2] = q[2] => p[1] = q[1]
    BY <2>1, <2>2
  <2>4. \A p, q \in got : p[1] = q[1] =>
          \/ p[2] = q[2]
          \/ failures > 0 /\ {p[2], q[2]} \cap loose # {}
    <3> SUFFICES ASSUME NEW p \in got, NEW q \in got, p[1] = q[1], p[2] # q[2]
                 PROVE  failures > 0 /\ {p[2], q[2]} \cap loose # {}
      OBVIOUS
    <3> QED BY <2>1, <2>2
  <2> QED BY <2>3, <2>4 DEF OneStringPerText
<1>2. ASSUME PoolInv PROVE EmptyIsInHand
  <2>1. Len(value) = Len(texts) /\ failures \in Nat
    BY <1>2 DEF PoolInv, PoolCore, PoolTypeOK
  <2>2. failures = 0 => \A e \in 1..Len(value) :
          value[e] = 0 => \E t \in Interners : Fills(t) /\ ask[t].entry = e
    BY <1>2, <2>1 DEF PoolInv, EmptyFits, Fills
  <2>3. \A t, u \in Interners : Fills(t) /\ Fills(u) /\ ask[t].entry = ask[u].entry => t = u
    BY <1>2 DEF PoolInv, PoolCore, OneFills, Fills
  <2>4. crashed => failures > 0 \/ \E t \in Interners : Fills(t)
    BY <1>2, <2>1, <2>2 DEF PoolInv, CrashFits
  <2> QED BY <2>2, <2>3, <2>4 DEF EmptyIsInHand
<1>3. PoolInv => InternedOnce
  BY <1>1, <1>2 DEF InternedOnce
<1> QED BY <1>3, PoolInvariant, PTL
=============================================================================
