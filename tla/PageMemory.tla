----------------------------- MODULE PageMemory -----------------------------
(***************************************************************************)
(* How a page comes and goes (ygc_page_new, ygc_page_free): its addresses, *)
(* its memory, its place in ygc->pages and in the granule map, and the     *)
(* account of the resident size.  The managers are the modules             *)
(* VirtualMemory and PhysicalMemory; the section under ygc->mutex is one   *)
(* step, and the steps of several threads interleave.                      *)
(***************************************************************************)
EXTENDS Segments, FiniteSets, FiniteSetsExt

CONSTANTS
  Threads,
  Pages,       \* struct ygc_page
  Addresses,   \* the capacity of the virtual memory, in granules
  Memory,      \* the capacity of the physical memory
  Sizes,       \* what pages are asked for, in granules
  LargeSizes,  \* which of them are larger than MEDIUM_PAGE_SIZE
  Callers,     \* how many threads are in the virtual memory manager at once
  None

ASSUME PageMemoryAssumption ==
  /\ Addresses \in Nat \ {0} /\ Memory \in Nat \ {0} /\ Callers \in Nat \ {0}
  /\ Sizes \subseteq Nat \ {0} /\ LargeSizes \subseteq Sizes
  /\ None \notin Pages /\ None \notin [addr : Nat, size : Nat]

VARIABLES
  free, held, cut,                    \* of vmm, see VirtualMemory
  memory, unused, segments, size,     \* of pmm, see PhysicalMemory
  pages,       \* ygc->pages
  granules,    \* ygc->page_granules
  rss,         \* ygc->rss
  pc,
  at           \* the page each thread makes or frees

V == INSTANCE VirtualMemory WITH Capacity <- Addresses
P == INSTANCE PhysicalMemory WITH free <- memory, Capacity <- Memory

virtual == <<free, held, cut>>
physical == <<memory, unused, segments, size>>
maps == <<pages, granules>>
vars == <<virtual, physical, maps, rss, pc, at>>

Goto(t, l) == pc' = [pc EXCEPT ![t] = l]
Move(t, from, to) == pc[t] = from /\ Goto(t, to)
Busy(p) == \E t \in Threads : pc[t] # "idle" /\ at[t] = p
Start(t, p, l) == ~Busy(p) /\ Move(t, "idle", l) /\ at' = [at EXCEPT ![t] = p]
SizeOf(t) == held[at[t]].size

Init ==
  /\ V!Init /\ P!Init
  /\ pages = {}
  /\ granules = [g \in 0 .. Addresses - 1 |-> None]
  /\ rss = 0
  /\ pc = [t \in Threads |-> "idle"]
  /\ at \in [Threads -> Pages]

-----------------------------------------------------------------------------
(* ygc_page_new.                                                           *)

NewVirtual(t, p, n) ==
  /\ \/ V!TakeWhole(p, n) /\ Start(t, p, "physical")
     \/ V!ReadPiece(p, n) /\ Start(t, p, "cut")
  /\ UNCHANGED <<physical, maps, rss>>

NewVirtualCut(t) ==
  /\ Move(t, "cut", "physical")
  /\ V!CutPiece(at[t])
  /\ UNCHANGED <<physical, maps, rss, at>>

NewPhysical(t) ==
  /\ Move(t, "physical", "publish")
  /\ P!Allocate(at[t], SizeOf(t))
  /\ UNCHANGED <<virtual, maps, rss, at>>

\* Mutant: the addresses are lost.
NewPhysicalFails_Leaks(t) ==
  /\ Move(t, "physical", "idle")
  /\ SizeOf(t) >= unused
  /\ held' = [held EXCEPT ![at[t]] = None]
  /\ UNCHANGED <<free, cut, physical, maps, rss, at>>

\* There are addresses and no memory for them.
NewPhysicalFails(t) ==
  /\ Move(t, "physical", "idle")
  /\ SizeOf(t) >= unused
  /\ V!Free(at[t])
  /\ UNCHANGED <<physical, maps, rss, at>>

\* The list and page_granule_insert, under the mutex.
Publish(t) ==
  /\ Move(t, "publish", "count")
  /\ pages' = pages \cup {at[t]}
  /\ granules' = [g \in DOMAIN granules |->
                    IF g \in Units(held[at[t]]) THEN at[t] ELSE granules[g]]
  /\ UNCHANGED <<virtual, physical, rss, at>>

Count(t) ==
  /\ Move(t, "count", "idle")
  /\ rss' = rss + SizeOf(t)
  /\ UNCHANGED <<virtual, physical, maps, at>>

-----------------------------------------------------------------------------
(* ygc_page_free.                                                          *)

\* Mutant: nobody tells the granule map.
Unlink_NotMapped(t, p) ==
  /\ p \in pages /\ Start(t, p, "uncount")
  /\ pages' = pages \ {p}
  /\ UNCHANGED <<virtual, physical, granules, rss>>

\* The list and page_granule_remove, under the mutex.
Unlink(t, p) ==
  /\ p \in pages /\ Start(t, p, "uncount")
  /\ pages' = pages \ {p}
  /\ granules' = [g \in DOMAIN granules |->
                    IF g \in Units(held[p]) THEN None ELSE granules[g]]
  /\ UNCHANGED <<virtual, physical, rss>>

Uncount(t) ==
  /\ Move(t, "uncount", "addresses")
  /\ rss' = rss - SizeOf(t)
  /\ UNCHANGED <<virtual, physical, maps, at>>

FreeVirtual(t) ==
  /\ Move(t, "addresses", "memory")
  /\ V!Free(at[t])
  /\ UNCHANGED <<physical, maps, rss, at>>

FreePhysical(t) ==
  /\ Move(t, "memory", "idle")
  /\ P!Free(at[t])
  /\ UNCHANGED <<virtual, maps, rss, at>>

-----------------------------------------------------------------------------
Next ==
  \E t \in Threads :
    \/ \E p \in Pages, n \in Sizes : NewVirtual(t, p, n)
    \/ NewVirtualCut(t) \/ NewPhysical(t) \/ NewPhysicalFails(t)
    \/ Publish(t) \/ Count(t)
    \/ \E p \in Pages : Unlink(t, p)
    \/ Uncount(t) \/ FreeVirtual(t) \/ FreePhysical(t)

Spec == Init /\ [][Next]_vars

\* Neither threads nor pages differ but by name.
Symmetry == Permutations(Pages) \cup Permutations(Threads)

-----------------------------------------------------------------------------
\* The managers, the maps and the threads keep their types.
TypeOK ==
  /\ V!TypeOK /\ P!TypeOK
  /\ pages \subseteq Pages
  /\ granules \in [0 .. Addresses - 1 -> Pages \cup {None}]
  /\ rss \in Nat
  /\ pc \in [Threads -> {"idle", "cut", "physical", "publish", "count", "uncount",
                         "addresses", "memory"}]
  /\ at \in [Threads -> Pages]

\* No address is in two pages, or in a page and in the free list
\* (allocate_virtual_memory, release_virtual_memory).
AddressesDisjoint == V!Disjoint

\* No granule of memory is behind two pages, every page has all it asked for,
\* and the account of what is unused agrees with the free list
\* (allocate_physical_memory, free_physical_memory).
MemoryDisjoint == P!Disjoint /\ P!AccountAgrees

\* Every granule of a page leads to the page, and no other granule leads
\* anywhere, though addresses are reused while pages are being freed
\* (ygc_addr_in_page).
GranulesFindPages ==
  \A g \in DOMAIN granules :
    /\ granules[g] # None => granules[g] \in pages
    /\ \A p \in pages : g \in Units(held[p]) <=> granules[g] = p

Quiet == \A t \in Threads : pc[t] = "idle"

\* A page that could not be made, or was freed, gave everything back: when no
\* thread is at work the two free lists, the pages and the resident size add
\* up (ygc_page_new's failure path, ygc_page_free).
NothingLeaks ==
  Quiet =>
    LET inPages == MapThenSumSet(LAMBDA p : held[p].size, pages) IN
    /\ TotalSize(free) + inPages = Addresses
    /\ unused + inPages = Memory
    /\ rss = inPages
=============================================================================
