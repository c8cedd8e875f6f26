------------------------------ MODULE LazyLoad ------------------------------
(***************************************************************************)
(* Objects made on first use: lazy_load_object and need_init in runtime.c. *)
(* Any number of threads may ask for a lazy object at once; the constructor*)
(* of one may ask for others, on the same thread, before it returns.  A    *)
(* constructor may also leave by an exception: throw_it unwinds the loads  *)
(* around it up to the function that catches, and nobody resets the cells. *)
(***************************************************************************)
EXTENDS Integers, Sequences, FiniteSets

CONSTANTS
  Loaders,   \* threads that run compiled code
  Lazies,    \* lazy objects
  Needs(_),  \* the lazy objects the constructor of an object asks for
  MaxObjects \* bound on the objects allocated

ASSUME LazyLoadAssumption ==
  /\ \A o \in Lazies : Needs(o) \subseteq Lazies
  /\ MaxObjects \in Nat

VARIABLES
  cell,   \* *address: NULL, PENDING or the number of an object
  built,  \* the objects whose constructor has returned
  frames, \* per thread the loads that are not over, innermost last
  next,   \* the next object number
  result, \* per thread the objects its outermost loads returned, in order
  thrown  \* history: the lazy objects whose constructor an exception left

lvars == <<cell, built, frames, next, result, thrown>>

NULL == 0
PENDING == -1

\* A load of o in progress: at "check", "wait", "make", "init" or "leave";
\* todo are the loads its constructor still asks for.
Frame(o) == [o |-> o, at |-> "check", obj |-> NULL, todo |-> Needs(o)]

LInit ==
  /\ cell = [o \in Lazies |-> NULL]
  /\ built = {}
  /\ frames = [t \in Loaders |-> <<>>]
  /\ next = 1
  /\ result = [t \in Loaders |-> <<>>]
  /\ thrown = {}

Top(t) == frames[t][Len(frames[t])]

In(t, at) == frames[t] # <<>> /\ Top(t).at = at

Put(t, f) == frames' = [frames EXCEPT ![t][Len(frames[t])] = f]

\* Compiled code loads o; two loads per thread are enough for a second look.
Load(t, o) ==
  /\ frames[t] = <<>> /\ Len(result[t]) < 2
  /\ frames' = [frames EXCEPT ![t] = <<Frame(o)>>]
  /\ UNCHANGED <<cell, built, next, result, thrown>>

\* The acquire load: no bit above kPendingMask says need_init.
Check(t) ==
  /\ In(t, "check")
  /\ Put(t, [Top(t) EXCEPT !.at = IF cell[Top(t).o] \in {NULL, PENDING} THEN "claim" ELSE "leave"])
  /\ UNCHANGED <<cell, built, next, result, thrown>>

\* Mutant: an exchange in place of the compare-and-swap marks the cell again.
Claim_Exchange(t) ==
  /\ In(t, "claim")
  /\ cell' = [cell EXCEPT ![Top(t).o] = PENDING]
  /\ Put(t, [Top(t) EXCEPT !.at = IF cell[Top(t).o] = NULL THEN "make" ELSE "wait"])
  /\ UNCHANGED <<built, next, result, thrown>>

\* need_init: the compare-and-swap of NULL for kPendingMask.
Claim(t) ==
  /\ In(t, "claim")
  /\ IF cell[Top(t).o] = NULL
       THEN cell' = [cell EXCEPT ![Top(t).o] = PENDING] /\ Put(t, [Top(t) EXCEPT !.at = "make"])
       ELSE Put(t, [Top(t) EXCEPT !.at = "wait"]) /\ UNCHANGED cell
  /\ UNCHANGED <<built, next, result, thrown>>

\* The loop around sched_yield ends when the cell is not pending any more.
Wait(t) ==
  /\ In(t, "wait") /\ cell[Top(t).o] # PENDING
  /\ Put(t, [Top(t) EXCEPT !.at = "leave"])
  /\ UNCHANGED <<cell, built, next, result, thrown>>

\* yalx_heap_allocate
Make(t) ==
  /\ In(t, "make") /\ next <= MaxObjects
  /\ next' = next + 1
  /\ Put(t, [Top(t) EXCEPT !.at = "init", !.obj = next])
  /\ UNCHANGED <<cell, built, result, thrown>>

\* The constructor loads an object it needs.
Nest(t) ==
  /\ In(t, "init")
  /\ \E o \in Top(t).todo :
       frames' = [frames EXCEPT ![t] =
         Append([frames[t] EXCEPT ![Len(frames[t])].todo = @ \ {o}], Frame(o))]
  /\ UNCHANGED <<cell, built, next, result, thrown>>

\* Mutant: the object is published before its constructor has run.
Publish_Early(t) ==
  /\ In(t, "init")
  /\ IF cell[Top(t).o] = PENDING
       THEN cell' = [cell EXCEPT ![Top(t).o] = Top(t).obj] /\ UNCHANGED <<built, frames>>
       ELSE /\ Top(t).todo = {}
            /\ built' = built \cup {Top(t).obj}
            /\ Put(t, [Top(t) EXCEPT !.at = "leave"])
            /\ UNCHANGED cell
  /\ UNCHANGED <<next, result, thrown>>

\* The constructor returns and the object is stored with release.
Publish(t) ==
  /\ In(t, "init") /\ Top(t).todo = {}
  /\ built' = built \cup {Top(t).obj}
  /\ cell' = [cell EXCEPT ![Top(t).o] = Top(t).obj]
  /\ Put(t, [Top(t) EXCEPT !.at = "leave"])
  /\ UNCHANGED <<next, result, thrown>>

\* The constructor throws.  The load of number k + 1 is the outermost one
\* inside the catch: it and those within it are unwound, each with its cell
\* PENDING, and the constructor of number k, if there is one, goes on.
Throw(t) ==
  /\ In(t, "init")
  /\ \E k \in 0..Len(frames[t]) - 1 :
       /\ frames' = [frames EXCEPT ![t] = SubSeq(@, 1, k)]
       /\ thrown' = thrown \cup {frames[t][i].o : i \in k + 1..Len(frames[t])}
  /\ UNCHANGED <<cell, built, next, result>>

\* The last load of the cell, and the return; `result` notes outermost ones.
Leave(t) ==
  /\ In(t, "leave")
  /\ frames' = [frames EXCEPT ![t] = SubSeq(@, 1, Len(@) - 1)]
  /\ result' = IF Len(frames[t]) > 1 THEN result
               ELSE [result EXCEPT ![t] = Append(@, [o |-> Top(t).o, v |-> cell[Top(t).o]])]
  /\ UNCHANGED <<cell, built, next, thrown>>

LStep(t) ==
  Check(t) \/ Claim(t) \/ Wait(t) \/ Make(t) \/ Nest(t) \/ Publish(t) \/ Throw(t)
  \/ Leave(t)

LNext == \E t \in Loaders : LStep(t) \/ \E o \in Lazies : Load(t, o)

LSpec == LInit /\ [][LNext]_lvars

-----------------------------------------------------------------------------
Returned == UNION {{result[t][i] : i \in DOMAIN result[t]} : t \in Loaders}

\* Every load of a lazy object returns the same object, and one that is
\* constructed (the compare-and-swap in need_init, the release store).
LoadsAgree ==
  \A r, q \in Returned : r.v \in built /\ (r.o = q.o <=> r.v = q.v)

\* The lazy objects nobody will ever make: the constructor was left by an
\* exception, or it asks, on a thread that spins, for one of these.
Lost ==
  {o \in Lazies : \A S \in SUBSET Lazies :
     (/\ thrown \subseteq S
      /\ \A t \in Loaders : In(t, "wait") /\ Top(t).o \in S =>
           \A i \in 1..Len(frames[t]) - 1 : frames[t][i].o \in S)
     => o \in S}

\* A load that has begun ends, or spins in need_init for an object that is
\* lost to an exception: as long as no constructor needs its own object
\* again, directly or through others, threads that wait for each other's
\* objects never hang for another reason (runtime.c 845-854).
LoadsEnd ==
  \A t \in Loaders :
    frames[t] # <<>> ~> (frames[t] = <<>> \/ (In(t, "wait") /\ Top(t).o \in Lost))
=============================================================================
