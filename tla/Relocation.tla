----------------------------- MODULE Relocation -----------------------------
(***************************************************************************)
(* One page of the relocation set, from the start of the relocate phase    *)
(* until it is freed or pinned: the worker that visits its live objects    *)
(* (relocating_entry), the mutators whose load barrier relocates an object *)
(* first (ygc_relocate_object), the reference count and the pin of its     *)
(* forwarding (ygc-forwarding.c).                                          *)
(*                                                                         *)
(* The forwarding table is the atomic map of ForwardingMap, which the      *)
(* table of Forwarding implements; what happens around the table, from the *)
(* grab of the page to its drop, implements the map as well.               *)
(***************************************************************************)
EXTENDS Integers, FiniteSets

CONSTANTS
  Objects,      \* the objects whose bit is set in the page's live map
  Mutators,
  Worker,       \* the worker that claimed the page
  Copies,       \* chunks on other pages
  InPlace,      \* "where the object is"
  None,
  Loads,        \* how many stale references to the page the mutators load
  Remarks       \* how often threads marked an object that was marked

Threads == Mutators \cup {Worker}

ASSUME RelocationAssumption ==
  /\ IsFiniteSet(Mutators) /\ Worker \notin Mutators /\ IsFiniteSet(Objects)
  /\ Loads \in Nat /\ Remarks \in Nat
  /\ Copies \cap {InPlace, None} = {} /\ InPlace # None
  /\ Objects \cap (Copies \cup {None}) = {}   \* copies are on other pages

VARIABLES
  live,        \* page->live_map.live_objs: how often an object was marked
  refs,        \* fwd->refs
  pinned,      \* fwd->pinned
  freed,       \* how often the page was freed
  map,         \* the forwarding table
  content,     \* what the memory of each object and each copy holds
  pc,
  obj,         \* the object a thread relocates
  to,          \* the new place it has in hand
  retained,    \* whether a mutator grabbed the page
  todo,        \* the objects the worker has not visited
  used,        \* the chunks that were allocated
  loads,       \* the stale references that are left
  failed       \* the GUARANTEE that ended the process, or None

vars == <<live, refs, pinned, freed, map, content, pc, obj, to, retained, todo, used, loads, failed>>
page == <<live, refs, pinned, freed>>

At(t, l) == failed = None /\ pc[t] = l
Goto(t, l) == pc' = [pc EXCEPT ![t] = l]
Guarantee(cond, name) == failed' = IF cond THEN failed ELSE name

Init ==
  /\ live \in Cardinality(Objects) .. Cardinality(Objects) + Remarks
  /\ refs = 1 /\ pinned = FALSE /\ freed = 0
  /\ map = [k \in Objects |-> None]
  /\ content = [c \in Objects \cup Copies |-> IF c \in Objects THEN "object" ELSE "none"]
  /\ pc = [t \in Threads |-> IF t = Worker THEN "iterate" ELSE "idle"]
  /\ obj \in [Threads -> Objects]
  /\ to = [t \in Threads |-> None]
  /\ retained = [t \in Threads |-> FALSE]
  /\ todo = Objects
  /\ used = {} /\ loads = Loads /\ failed = None

-----------------------------------------------------------------------------
(* The reference count.                                                    *)

\* Mutant: a grab that revives a page whose last reference is gone.
Grab_Always(t, k) ==
  /\ At(t, "idle") /\ t # Worker /\ loads > 0
  /\ retained' = [retained EXCEPT ![t] = TRUE]
  /\ refs' = refs + 1
  /\ loads' = loads - 1
  /\ obj' = [obj EXCEPT ![t] = k]
  /\ Goto(t, "find")
  /\ UNCHANGED <<live, pinned, freed, map, content, to, todo, used, failed>>

\* forwarding_grab_page: the compare-and-swap loop adds one to a positive
\* count or gives up.
Grab(t, k) ==
  /\ At(t, "idle") /\ t # Worker /\ loads > 0
  /\ retained' = [retained EXCEPT ![t] = refs > 0]
  /\ refs' = IF refs > 0 THEN refs + 1 ELSE refs
  /\ loads' = loads - 1
  /\ obj' = [obj EXCEPT ![t] = k]
  /\ Goto(t, "find")
  /\ UNCHANGED <<live, pinned, freed, map, content, to, todo, used, failed>>

\* Mutant: the last reference goes without freeing the page.
DropPage_Leaks == refs' = refs - 1 /\ UNCHANGED <<live, freed, pinned>>

\* forwarding_drop_page.
DropPage ==
  /\ refs' = refs - 1
  /\ freed' = IF refs = 1 THEN freed + 1 ELSE freed
  /\ UNCHANGED <<live, pinned>>

Drop(t) ==
  /\ At(t, "drop")
  /\ DropPage
  /\ retained' = [retained EXCEPT ![t] = FALSE]
  /\ Goto(t, IF t = Worker THEN "end" ELSE "idle")
  /\ UNCHANGED <<map, content, obj, to, todo, used, loads, failed>>

-----------------------------------------------------------------------------
(* relocate_object and ygc_relocating_relocate_object.                     *)

Visit(k) ==
  /\ At(Worker, "iterate") /\ k \in todo
  /\ todo' = todo \ {k}
  /\ obj' = [obj EXCEPT ![Worker] = k]
  /\ Goto(Worker, "find")
  /\ UNCHANGED <<page, map, content, to, retained, used, loads, failed>>

Find(t) ==
  /\ At(t, "find")
  /\ to' = [to EXCEPT ![t] = map[obj[t]]]
  /\ Goto(t, IF map[obj[t]] # None THEN "pin" ELSE "live")
  /\ UNCHANGED <<page, map, content, obj, retained, todo, used, loads, failed>>

\* GUARANTEE(ygc_object_is_live(...)): the page is found in page_granules, from
\* where it is gone when it has been freed, and the object is marked in its live
\* map, as all Objects are (no page of the relocation set is allocating).
CheckLive(t) ==
  /\ At(t, "live")
  /\ Guarantee(freed = 0, "live")
  /\ Goto(t, "pinned?")
  /\ UNCHANGED <<page, map, content, obj, to, retained, todo, used, loads>>

ReadPinned(t) ==
  /\ At(t, "pinned?")
  /\ to' = IF pinned THEN [to EXCEPT ![t] = InPlace] ELSE to
  /\ Goto(t, IF pinned THEN "insert" ELSE "allocate")
  /\ UNCHANGED <<page, map, content, obj, retained, todo, used, loads, failed>>

\* Mutant: two threads may get one chunk.
Allocate_Shared(t, c) ==
  /\ At(t, "allocate")
  /\ used' = used \cup {c}
  /\ to' = [to EXCEPT ![t] = c]
  /\ Goto(t, "copy")
  /\ UNCHANGED <<page, map, content, obj, retained, todo, loads, failed>>

Allocate(t, c) ==
  /\ At(t, "allocate") /\ c \notin used
  /\ used' = used \cup {c}
  /\ to' = [to EXCEPT ![t] = c]
  /\ Goto(t, "copy")
  /\ UNCHANGED <<page, map, content, obj, retained, todo, loads, failed>>

AllocateFails(t) ==
  /\ At(t, "allocate")
  /\ to' = [to EXCEPT ![t] = InPlace]
  /\ Goto(t, "insert")
  /\ UNCHANGED <<page, map, content, obj, retained, todo, used, loads, failed>>

\* memcpy.  What a debug build does to the old object (dbg_free_zag) is left
\* out.
Copy(t) ==
  /\ At(t, "copy")
  /\ Guarantee(freed = 0, "mapped")
  /\ content' = [content EXCEPT ![to[t]] = content[obj[t]]]
  /\ Goto(t, "insert")
  /\ UNCHANGED <<page, map, obj, to, retained, todo, used, loads>>

\* Mutant: the copy in hand is published whoever was first.
Insert_Overwrites(t) ==
  /\ At(t, "insert")
  /\ map' = [map EXCEPT ![obj[t]] = to[t]]
  /\ Goto(t, "pin")
  /\ UNCHANGED <<page, content, obj, to, retained, todo, used, loads, failed>>

\* forwarding_insert: the first one decides, the others take its place.
Insert(t) ==
  /\ At(t, "insert")
  /\ IF map[obj[t]] = None
       THEN map' = [map EXCEPT ![obj[t]] = to[t]] /\ UNCHANGED to
       ELSE to' = [to EXCEPT ![t] = map[obj[t]]] /\ UNCHANGED map
  /\ Goto(t, "pin")
  /\ UNCHANGED <<page, content, obj, retained, todo, used, loads, failed>>

\* Mutant: the worker leaves the pin to the mutator that inserted.
Pin_Mutators(t) ==
  /\ At(t, "pin")
  /\ pinned' = (pinned \/ (to[t] = InPlace /\ t # Worker))
  /\ Goto(t, IF t = Worker THEN "iterate" ELSE IF retained[t] THEN "drop" ELSE "idle")
  /\ UNCHANGED <<live, refs, freed, map, content, obj, to, retained, todo, used, loads, failed>>

\* "In-place forwarding, pin page": whoever put the object there.
Pin(t) ==
  /\ At(t, "pin")
  /\ pinned' = (pinned \/ to[t] = InPlace)
  /\ Goto(t, IF t = Worker THEN "iterate" ELSE IF retained[t] THEN "drop" ELSE "idle")
  /\ UNCHANGED <<live, refs, freed, map, content, obj, to, retained, todo, used, loads, failed>>

-----------------------------------------------------------------------------
(* The rest of relocating_entry.                                           *)

\* The objects in the table.
Entries == {k \in Objects : map[k] # None}

\* An object that stayed is found where it was.
PlaceOf(k, v) == IF v = InPlace THEN k ELSE v

\* forwarding_verify: the page is there, no two entries have one place
\* (to_offset), and there are as many as live_objs says, which counts the calls
\* of ygc_page_mark_object and not the bits they set.
Verify ==
  /\ At(Worker, "iterate") /\ todo = {}
  /\ failed' = IF ~(refs > 0 /\ freed = 0) THEN "page"
               ELSE IF \E k, l \in Entries : k # l /\ PlaceOf(k, map[k]) = PlaceOf(l, map[l])
                 THEN "duplicate"
               ELSE IF Cardinality(Entries) # live THEN "entries" ELSE failed
  /\ Goto(Worker, "verified")
  /\ UNCHANGED <<page, map, content, obj, to, retained, todo, used, loads>>

Release ==
  /\ At(Worker, "verified")
  /\ Goto(Worker, IF pinned THEN "kept" ELSE "drop")
  /\ UNCHANGED <<page, map, content, obj, to, retained, todo, used, loads, failed>>

-----------------------------------------------------------------------------
Relocating(t) ==
  \/ Find(t) \/ CheckLive(t) \/ ReadPinned(t) \/ AllocateFails(t) \/ Copy(t)
  \/ Insert(t) \/ Pin(t) \/ Drop(t)
  \/ \E c \in Copies : Allocate(t, c)

Working == (\E k \in Objects : Visit(k)) \/ Verify \/ Release

Next ==
  \/ \E t \in Threads, k \in Objects : Grab(t, k)
  \/ \E t \in Threads : Relocating(t)
  \/ Working

Spec == Init /\ [][Next]_vars

\* A thread inside a barrier and the worker keep running.
FairSpec ==
  /\ Spec
  /\ \A t \in Threads : WF_vars(Relocating(t))
  /\ WF_vars(Working)

-----------------------------------------------------------------------------
\* The page, the table and the threads keep their types; the reference count
\* never drops below zero.
TypeOK ==
  /\ live \in Nat /\ refs \in Nat /\ pinned \in BOOLEAN /\ freed \in Nat
  /\ map \in [Objects -> Copies \cup {InPlace, None}]
  /\ content \in [Objects \cup Copies -> {"object", "none"}]
  /\ pc \in [Threads -> {"iterate", "idle", "find", "live", "pinned?", "allocate", "copy",
                         "insert", "pin", "drop", "verified", "kept", "end"}]
  /\ obj \in [Threads -> Objects]
  /\ to \in [Threads -> Copies \cup {InPlace, None}]
  /\ retained \in [Threads -> BOOLEAN]
  /\ todo \subseteq Objects /\ used \subseteq Copies /\ loads \in Nat

\* Who holds the page: the mutators that grabbed it, and the worker until it
\* drops it.
Holders == {t \in Mutators : retained[t]} \cup {t \in {Worker} : pc[t] # "end"}

\* forwarding_grab_page and forwarding_drop_page: the count is the number of
\* holders, and the page is freed once, when nobody holds it any more.
FreedOnceUnheld ==
  /\ refs = Cardinality(Holders)
  /\ freed = IF refs = 0 THEN 1 ELSE 0

\* A page that is freed houses nothing, though a mutator pins it only after it
\* inserted an object in place and the worker may look at the pin in between:
\* a mutator that comes too late to grab the page finds for every object of it
\* a copy elsewhere, and nobody copies from memory that is unmapped.  Of the
\* GUARANTEEs of relocate_object and forwarding_verify only the last can fail,
\* the one about the number of entries, and only where two threads marked one
\* object and live_objs counts it twice.
FreedPageIsEmpty ==
  /\ failed = None \/ (failed = "entries" /\ live # Cardinality(Objects))
  /\ freed > 0 => \A k \in Objects : map[k] \in Copies

\* The place a thread returns from the barrier is the object's one new place,
\* and it holds the object.
ReturnsTheObject ==
  \A t \in Threads : pc[t] = "pin" =>
    /\ to[t] = map[obj[t]] /\ to[t] # None
    /\ to[t] \in Copies => content[to[t]] = "object"

Resolving == {"find", "live", "pinned?", "allocate", "copy", "insert"}

Map == INSTANCE ForwardingMap WITH
  Indexes <- Objects,
  Offsets <- Copies,
  InPlace <- [k \in Objects |-> k],
  map <- [k \in Objects |-> PlaceOf(k, map[k])],
  op <- [t \in Threads |-> IF pc[t] \in Resolving THEN "resolve"
                           ELSE IF pc[t] = "pin" THEN "done" ELSE "idle"],
  key <- obj,
  result <- [t \in Threads |-> IF pc[t] = "pin" THEN PlaceOf(obj[t], to[t]) ELSE None]

\* ygc_relocate_object and the worker's visits, with the copying, the pin and
\* the freeing of the page between their steps, look like one atomic map from
\* objects to places: the first to decide fixes an object's place, nobody else
\* has that place, and everybody gets it, before the page is freed or after.
ImplementsMap == Map!Spec

\* In the end the page is freed or pinned, when no object was counted twice.
ReleasedOrPinned == live = Cardinality(Objects) => <>[](freed = 1 \/ pinned)
=============================================================================
