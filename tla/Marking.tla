------------------------------- MODULE Marking -------------------------------
(***************************************************************************)
(* One marking phase, from ygc_mark_start to ygc_select_relocation_set:    *)
(* the workers of ygc-mark.c take committed stacks off their stripes and   *)
(* follow objects, the mutators run the load barrier of ygc.h, and both    *)
(* mark objects and heal references.  A page on which nothing is marked is *)
(* freed.                                                                  *)
(*                                                                         *)
(* A reference is an object and a colour: good (the marked colour of this  *)
(* cycle) or not (the remapped colour of the last one).  Coroutine stacks  *)
(* are not roots in the code, so a mutator starts with empty hands.        *)
(***************************************************************************)
EXTENDS Integers, Sequences, FiniteSets, SequencesExt

CONSTANTS
  Old,          \* the objects there are at the start
  New,          \* those the mutators may allocate
  Arrays,       \* which objects are arrays of references
  Width,        \* how many fields an object has
  RootSlots,    \* how many references yalx_*_visit_root finds
  Heaps,        \* what the roots and the fields of old objects may refer to
  PageOf,       \* the page of every old object; its granule gives the stripe
  NStripes,     \* YGC_MAX_MARKING_STRIPES
  NWorkers,     \* mark->job.n_workers
  Mutators,
  Ops,          \* how many loads, stores and allocations the mutators make
  Clears,       \* whether they store null
  Root, Null

Objects == Old \cup New
Workers == 0 .. NWorkers - 1
Threads == Workers \cup Mutators
Stripes == 0 .. NStripes - 1
Pages == {PageOf[o] : o \in Objects}
Slots == (Objects \X (1 .. Width)) \cup ({Root} \X (1 .. RootSlots))
OldSlots == {s \in Slots : s[1] \notin New}

ASSUME MarkingAssumption ==
  /\ NStripes \in Nat \ {0} /\ NWorkers \in Nat \ {0} /\ Width \in Nat \ {0}
  /\ RootSlots \in Nat /\ Ops \in Nat /\ Clears \in BOOLEAN
  /\ Mutators \cap Workers = {} /\ Arrays \subseteq Objects
  /\ Old \cap New = {} /\ Root \notin Objects /\ Null \notin Objects
  /\ PageOf \in [Objects -> Nat] /\ Heaps \subseteq [OldSlots -> Old \cup {Null}]
  \* ygc_mark_init makes n of 4 to 16 workers for 16 stripes: all are covered.
  /\ NWorkers <= NStripes /\ NWorkers * NWorkers >= NStripes

VARIABLES
  ref,         \* what every slot holds
  marked,      \* the live maps of the pages
  fresh,       \* what was allocated in this cycle
  committed,   \* stripe->committed_stacks
  stacks,      \* the stacks of each thread, ygc_tls_struct
  stripe,      \* the stripe a worker is at
  work,        \* the stack it took
  at,          \* the slot a thread looks at
  found,       \* the reference it read there
  holds,       \* the objects a mutator has references to
  ops,
  pc,
  phase,
  freed,       \* the pages the selection has freed
  failed       \* a null was marked: the process ended

threadVars == <<stripe, work, at, found, holds, ops>>
vars == <<ref, marked, fresh, committed, stacks, threadVars, pc, phase, freed, failed>>

Ref(o, good) == [obj |-> o, good |-> good]
NullRef == Ref(Null, TRUE)     \* ygc_is_good(0)
Good(s) == ref[s].good
StripeOf(o) == PageOf[o] % NStripes
NoStacks == [i \in Stripes |-> <<>>]

At(t, l) == ~failed /\ phase = "mark" /\ pc[t] = l
Goto(t, l) == pc' = [pc EXCEPT ![t] = l]
Move(t, from, to) == At(t, from) /\ Goto(t, to)

\* marking_entry: the stripes of a worker.
Mine(w) == IF NWorkers >= NStripes THEN w .. w
           ELSE {i \in Stripes : w * NWorkers <= i /\ i < (w + 1) * NWorkers}
FirstStripe(w) == IF NWorkers >= NStripes THEN w ELSE w * NWorkers

Init ==
  /\ \E h \in Heaps : ref = [s \in Slots |-> IF s \in OldSlots /\ h[s] # Null
                                              THEN Ref(h[s], FALSE) ELSE NullRef]
  /\ marked = {} /\ fresh = {}
  /\ committed = NoStacks
  /\ stacks = [t \in Threads |-> NoStacks]
  /\ stripe = [w \in Workers |-> FirstStripe(w)]
  /\ work = [w \in Workers |-> <<>>]
  /\ at = [t \in Threads |-> <<Root, 1>>]
  /\ found = [t \in Threads |-> NullRef]
  /\ holds = [m \in Mutators |-> {}]
  /\ ops = Ops
  /\ pc = [t \in Threads |-> IF t \in Workers THEN "take" ELSE "idle"]
  /\ phase = "relocate" /\ freed = {} /\ failed = FALSE

-----------------------------------------------------------------------------
\* ygc_mark_start, with the world stopped, and the commit of the collecting
\* thread's stacks behind it: the objects of the roots are marked, one stack
\* per stripe.
MarkStart ==
  LET roots == {s \in Slots : s[1] = Root /\ ref[s].obj # Null}
      objs == {ref[s].obj : s \in roots}
      stackOf(i) == SetToSeq({o \in objs : StripeOf(o) = i})
  IN
  /\ phase = "relocate" /\ phase' = "mark"
  /\ ref' = [s \in Slots |-> IF s \in roots THEN Ref(ref[s].obj, TRUE) ELSE ref[s]]
  /\ marked' = objs
  /\ committed' = [i \in Stripes |-> IF stackOf(i) = <<>> THEN <<>> ELSE <<stackOf(i)>>]
  /\ UNCHANGED <<fresh, stacks, threadVars, pc, freed, failed>>

-----------------------------------------------------------------------------
(* marking_mark_stripe.                                                    *)

TakeStack(w) ==
  LET i == stripe[w] IN
  /\ i \in Mine(w) /\ committed[i] # <<>>
  /\ Move(w, "take", "pop")
  /\ work' = [work EXCEPT ![w] = Head(committed[i])]
  /\ committed' = [committed EXCEPT ![i] = Tail(@)]
  /\ UNCHANGED <<ref, marked, fresh, stacks, stripe, at, found, holds, ops, phase, freed, failed>>

\* The stripe has no stack left: on to the next one, or out of the loop.
StripeDone(w) ==
  /\ stripe[w] \in Mine(w) => committed[stripe[w]] = <<>>
  /\ IF stripe[w] \in Mine(w)
       THEN Move(w, "take", "take") /\ stripe' = [stripe EXCEPT ![w] = @ + 1]
       ELSE Move(w, "take", "commit") /\ UNCHANGED stripe
  /\ UNCHANGED <<ref, marked, fresh, committed, stacks, work, at, found, holds, ops, phase,
                 freed, failed>>

\* Mutant: the top of the stack is read and not taken off.
PopObject_Keeps(w) ==
  /\ work[w] # <<>>
  /\ Move(w, "pop", "check")
  /\ at' = [at EXCEPT ![w] = <<Last(work[w]), 1>>]
  /\ UNCHANGED <<ref, marked, fresh, committed, stacks, stripe, work, found, holds, ops, phase,
                 freed, failed>>

PopObject(w) ==
  /\ work[w] # <<>>
  /\ Move(w, "pop", "check")
  /\ at' = [at EXCEPT ![w] = <<Last(work[w]), 1>>]
  /\ work' = [work EXCEPT ![w] = Front(@)]
  /\ UNCHANGED <<ref, marked, fresh, committed, stacks, stripe, found, holds, ops, phase,
                 freed, failed>>

StackDone(w) ==
  /\ work[w] = <<>>
  /\ Move(w, "pop", "take")
  /\ UNCHANGED <<ref, marked, fresh, committed, stacks, threadVars, phase, freed, failed>>

-----------------------------------------------------------------------------
(* The visit of an object's fields.                                        *)

NextField(w) ==
  /\ Goto(w, IF at[w][2] < Width THEN "check" ELSE "pop")
  /\ at' = IF at[w][2] < Width THEN [at EXCEPT ![w][2] = @ + 1] ELSE at

\* Mutant: every object is left at its first field that needs no work.
SkipField_Leaves(w) ==
  /\ Good(at[w])
  /\ Move(w, "check", "pop")
  /\ UNCHANGED <<ref, marked, fresh, committed, stacks, threadVars, phase, freed, failed>>

\* visit_object_pointer passes over a field that needs no work;
\* visit_object_pointers leaves the array at the first such element.
SkipField(w) ==
  /\ At(w, "check") /\ Good(at[w])
  /\ IF at[w][1] \in Arrays THEN Goto(w, "pop") /\ UNCHANGED at
                            ELSE NextField(w)
  /\ UNCHANGED <<ref, marked, fresh, committed, stacks, stripe, work, found, holds, ops,
                 phase, freed, failed>>

VisitField(w) ==
  /\ ~Good(at[w])
  /\ Move(w, "check", "load")
  /\ UNCHANGED <<ref, marked, fresh, committed, stacks, threadVars, phase, freed, failed>>

\* ygc_barrier_mark_on_field reads the field again; a null that has been stored
\* since counts as good, and ygc_barrier_mark asserts that it is not.
LoadField(w) ==
  /\ Move(w, "load", "mark")
  /\ found' = [found EXCEPT ![w] = ref[at[w]]]
  /\ failed' = (ref[at[w]].obj = Null)
  /\ UNCHANGED <<ref, marked, fresh, committed, stacks, stripe, work, at, holds, ops, phase,
                 freed>>

-----------------------------------------------------------------------------
(* ygc_barrier_mark and the self-heal, of workers and mutators.            *)

\* ygc_page_mark_object.
Mark(t) ==
  /\ Move(t, "mark", "push")
  /\ marked' = marked \cup {found[t].obj}
  /\ UNCHANGED <<ref, fresh, committed, stacks, threadVars, phase, freed, failed>>

\* ygc_marking_mark_object; a reference that was good already needs no heal.
Push(t) ==
  LET o == found[t].obj IN
  /\ At(t, "push")
  /\ stacks' = [stacks EXCEPT ![t][StripeOf(o)] = Append(@, o)]
  /\ IF found[t].good THEN NextField(t) ELSE Goto(t, "heal") /\ UNCHANGED at
  /\ UNCHANGED <<ref, marked, fresh, committed, stripe, work, found, holds, ops, phase,
                 freed, failed>>

\* Where a thread goes with the reference it has healed.
Healed(t) ==
  IF t \in Workers
    THEN NextField(t) /\ UNCHANGED holds
    ELSE /\ holds' = [holds EXCEPT ![t] = @ \cup {found[t].obj}]
         /\ Goto(t, "idle") /\ UNCHANGED at

\* Mutant: a plain store.
Heal_Store(t) ==
  /\ At(t, "heal")
  /\ ref' = [ref EXCEPT ![at[t]] = Ref(found[t].obj, TRUE)]
  /\ Healed(t)
  /\ UNCHANGED <<marked, fresh, committed, stacks, stripe, work, found, ops, phase, freed, failed>>

\* The compare-and-swap of ygc_barrier_self_heal_fast_on_good_or_null: what
\* is good or null by now is left alone.
Heal(t) ==
  /\ At(t, "heal")
  /\ ref' = [ref EXCEPT ![at[t]] = IF @ = found[t] THEN Ref(@.obj, TRUE) ELSE @]
  /\ Healed(t)
  /\ UNCHANGED <<marked, fresh, committed, stacks, stripe, work, found, ops, phase, freed, failed>>

-----------------------------------------------------------------------------
(* The mutators.                                                           *)

Operate(m) == At(m, "idle") /\ ops > 0 /\ ops' = ops - 1
Reached(m) == {s \in Slots : s[1] \in holds[m] \cup {Root}}

\* ygc_barrier_load_on_field: a reference that is good is used as it is,
LoadGood(m, s) ==
  /\ Operate(m) /\ s \in Reached(m)
  /\ Good(s) /\ ref[s].obj # Null
  /\ holds' = [holds EXCEPT ![m] = @ \cup {ref[s].obj}]
  /\ UNCHANGED <<ref, marked, fresh, committed, stacks, stripe, work, at, found, pc, phase,
                 freed, failed>>

\* Mutant: the barrier heals what it has not marked.
LoadBad_Unmarked(m, s) ==
  /\ Operate(m) /\ s \in Reached(m)
  /\ ~Good(s)
  /\ at' = [at EXCEPT ![m] = s]
  /\ found' = [found EXCEPT ![m] = ref[s]]
  /\ Goto(m, "heal")
  /\ UNCHANGED <<ref, marked, fresh, committed, stacks, stripe, work, holds, phase, freed, failed>>

\* any other is marked and healed first.
LoadBad(m, s) ==
  /\ Operate(m) /\ s \in Reached(m)
  /\ ~Good(s)
  /\ at' = [at EXCEPT ![m] = s]
  /\ found' = [found EXCEPT ![m] = ref[s]]
  /\ Goto(m, "mark")
  /\ UNCHANGED <<ref, marked, fresh, committed, stacks, stripe, work, holds, phase, freed, failed>>

\* A store has no barrier.
Store(m, s) ==
  /\ Operate(m) /\ s \in Reached(m)
  /\ \E r \in {Ref(o, TRUE) : o \in holds[m]} \cup (IF Clears THEN {NullRef} ELSE {}) :
       ref' = [ref EXCEPT ![s] = r]
  /\ UNCHANGED <<marked, fresh, committed, stacks, stripe, work, at, found, holds, pc, phase,
                 freed, failed>>

\* A new object has the colour of the phase.
Allocate(m, o) ==
  /\ Operate(m) /\ o \in New \ fresh
  /\ fresh' = fresh \cup {o}
  /\ holds' = [holds EXCEPT ![m] = @ \cup {o}]
  /\ UNCHANGED <<ref, marked, committed, stacks, stripe, work, at, found, pc, phase, freed, failed>>

Exit(m) ==
  /\ Move(m, "idle", "commit")
  /\ UNCHANGED <<ref, marked, fresh, committed, stacks, threadVars, phase, freed, failed>>

-----------------------------------------------------------------------------
(* ygc_thread_exit, of workers and mutators.                               *)

Uncommitted(t) == {i \in Stripes : stacks[t][i] # <<>>}

Commit(t, i) ==
  /\ At(t, "commit") /\ i \in Uncommitted(t)
  /\ \A j \in Uncommitted(t) : i <= j
  /\ committed' = [committed EXCEPT ![i] = <<stacks[t][i]>> \o @]
  /\ stacks' = [stacks EXCEPT ![t][i] = <<>>]
  /\ UNCHANGED <<ref, marked, fresh, threadVars, pc, phase, freed, failed>>

Exited(t) ==
  /\ Uncommitted(t) = {}
  /\ Move(t, "commit", "done")
  /\ UNCHANGED <<ref, marked, fresh, committed, stacks, threadVars, phase, freed, failed>>

\* The workers are joined; ygc_select_relocation_set frees the pages that are
\* older than the cycle and have nothing marked.
Select ==
  /\ ~failed /\ phase = "mark" /\ \A w \in Workers : pc[w] = "done"
  /\ phase' = "select"
  /\ freed' = {PageOf[o] : o \in Old} \ {PageOf[o] : o \in marked}
  /\ UNCHANGED <<ref, marked, fresh, committed, stacks, threadVars, pc, failed>>

-----------------------------------------------------------------------------
Barrier(t) ==
  \/ Mark(t) \/ Push(t) \/ Heal(t) \/ Exited(t)
  \/ \E i \in Stripes : Commit(t, i)

Work(w) ==
  \/ TakeStack(w) \/ StripeDone(w) \/ PopObject(w) \/ StackDone(w)
  \/ SkipField(w) \/ VisitField(w) \/ LoadField(w) \/ Barrier(w)

Mutate(m) ==
  \/ \E s \in Slots : LoadGood(m, s) \/ LoadBad(m, s) \/ Store(m, s)
  \/ \E o \in New : Allocate(m, o)
  \/ Exit(m) \/ Barrier(m)

Next ==
  \/ MarkStart \/ Select
  \/ \E w \in Workers : Work(w)
  \/ \E m \in Mutators : Mutate(m)

Spec == Init /\ [][Next]_vars

\* The workers are threads of a job that is joined; nothing is asked of the
\* mutators.
FairSpec ==
  /\ Spec
  /\ WF_vars(Select)
  /\ \A w \in Workers : WF_vars(Work(w))

-----------------------------------------------------------------------------
Refs == [obj : Objects \cup {Null}, good : BOOLEAN]

\* The heap, the stacks and the threads keep their types.
TypeOK ==
  /\ ref \in [Slots -> Refs] /\ found \in [Threads -> Refs]
  /\ marked \subseteq Objects /\ fresh \subseteq New
  /\ committed \in [Stripes -> Seq(Seq(Objects))]
  /\ stacks \in [Threads -> [Stripes -> Seq(Objects)]]
  /\ work \in [Workers -> Seq(Objects)]
  /\ at \in [Threads -> Slots \cup {<<Root, 1>>}]
  /\ holds \in [Mutators -> SUBSET Objects]
  /\ stripe \in [Workers -> Nat] /\ ops \in Nat /\ failed \in BOOLEAN
  /\ pc \in [Threads -> {"take", "pop", "check", "load", "mark", "push", "heal", "idle",
                         "commit", "done"}]
  /\ phase \in {"relocate", "mark", "select"} /\ freed \subseteq Pages

\* Nobody can get at an object that the selection would take for garbage: a
\* reference that is good, in the heap or in a mutator's hands, is to an
\* object that is marked or new (ygc_barrier_mark before the self-heal).
GoodMeansMarked ==
  LET safe == marked \cup fresh \cup {Null} IN
  /\ \A s \in Slots : Good(s) => ref[s].obj \in safe
  /\ \A m \in Mutators : holds[m] \subseteq safe

\* The objects whose fields have yet to be visited.
OnStacks ==
  (UNION {UNION {Range(stacks[t][i]) : i \in Stripes} : t \in Threads})
  \cup (UNION {UNION {Range(committed[i][j]) : j \in DOMAIN committed[i]} : i \in Stripes})
  \cup (UNION {Range(work[w]) : w \in Workers})

InHand ==
  {found[t].obj : t \in {u \in Threads : pc[u] = "push"}}
  \cup {at[w][1] : w \in {u \in Workers : pc[u] \in {"check", "load", "mark", "push", "heal"}}}

\* No work is forgotten: a marked object that is on no stack and in nobody's
\* hands has been followed, so none of its fields is left to mark, though
\* mutators store into it all the time.  (Arrays are left in the middle.)
FollowedToTheEnd ==
  \A o \in (marked \cap Old) \ (Arrays \cup OnStacks \cup InHand) :
    \A i \in 1 .. Width : Good(<<o, i>>)

\* Healing a reference never changes what it refers to, whatever a mutator
\* has stored there since the barrier read it.
HealKeepsReference ==
  [][(\E t \in Threads : pc[t] = "heal" /\ pc'[t] # "heal") =>
       \A s \in Slots : ref'[s].obj = ref[s].obj]_vars

\* Marking ends, however the mutators run.
MarkingEnds == phase = "mark" ~> phase = "select" \/ failed

\* What can be reached from the roots: every set that is closed has it.
Reachable(o) ==
  \A S \in SUBSET Objects :
    (\A s \in Slots : s[1] \in S \cup {Root} /\ ref[s].obj # Null => ref[s].obj \in S)
      => o \in S

\* The selection frees no page that houses a reachable object (relocate_object:
\* the object must be live).
ReachableSurvive == \A o \in Old : PageOf[o] \in freed => ~Reachable(o)
=============================================================================
