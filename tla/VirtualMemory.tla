--------------------------- MODULE VirtualMemory ---------------------------
(***************************************************************************)
(* The addresses of the heap (ygc-virtual-memory.c): ranges are taken for  *)
(* new pages and given back when pages are freed.  free_virtual_memory     *)
(* holds the mutex; allocate_virtual_memory does not take it, so a thread  *)
(* that cuts a segment reads its address in one step and moves it in       *)
(* another.  PageMemory composes these steps with the other managers.      *)
(***************************************************************************)
EXTENDS Segments, FiniteSets, FiniteSetsExt

CONSTANTS
  Pages,        \* the pages that hold a range, or are being made
  Callers,      \* how many threads are in the manager at once
  Capacity,     \* self->capacity, in granules
  LargeSizes,   \* the sizes of large pages, which are taken from the end
  None

VARIABLES
  free,     \* self->free
  held,     \* the range of each page, page->virtual_addr
  cut       \* the range a call is about to cut off a segment

Ranges == [addr : Nat, size : Nat]
Calls == {p \in Pages : cut[p] # None}
New(p) == held[p] = None /\ cut[p] = None /\ Cardinality(Calls) < Callers
Hold(p, x) == held' = [held EXCEPT ![p] = x]

\* probe_linear_memories finds the whole capacity in one piece.
Init ==
  /\ free = <<Segment(0, Capacity)>>
  /\ held = [p \in Pages |-> None]
  /\ cut = [p \in Pages |-> None]

\* find_fit_from_front for small and medium pages, from_end for large ones.
Fit(n) == IF n \in LargeSizes THEN FromEnd(free, n) ELSE FromFront(free, n)

\* What is cut off a larger segment: its front, or the range that begins n
\* behind its start.
Piece(i, n) ==
  Segment(IF n \in LargeSizes THEN free[i].addr + n ELSE free[i].addr, n)

\* The segment that fits is taken whole ...
TakeWhole(p, n) ==
  LET i == Fit(n) IN
  /\ New(p) /\ i # 0 /\ free[i].size = n
  /\ free' = RemoveAt(free, i)
  /\ Hold(p, free[i])
  /\ UNCHANGED cut

\* ... or a piece of it is the fit,
ReadPiece(p, n) ==
  LET i == Fit(n) IN
  /\ New(p) /\ i # 0 /\ free[i].size > n
  /\ cut' = [cut EXCEPT ![p] = [range |-> Piece(i, n), end |-> End(free[i])]]
  /\ UNCHANGED <<free, held>>

\* which is cut off it.  The segment is known by its end, which neither a cut
\* at its front nor a release in front of it moves.
CutPiece(p) ==
  LET i == SelectInSeq(free, LAMBDA s : End(s) = cut[p].end)
      n == cut[p].range.size
  IN
  /\ cut[p] # None
  /\ free' = IF i = 0 THEN free
             ELSE ReplaceAt(free, i, Segment(
                    IF n \in LargeSizes THEN free[i].addr ELSE free[i].addr + n,
                    free[i].size - n))
  /\ Hold(p, cut[p].range)
  /\ cut' = [cut EXCEPT ![p] = None]

\* free_virtual_memory.
Free(p) ==
  /\ held[p] # None /\ Cardinality(Calls) < Callers
  /\ free' = Release(free, held[p])
  /\ Hold(p, None)
  /\ UNCHANGED cut

-----------------------------------------------------------------------------
TypeOK ==
  /\ free \in Seq(Ranges)
  /\ held \in [Pages -> Ranges \cup {None}]
  /\ \A p \in Calls : cut[p].range \in Ranges /\ held[p] = None

Holders == {p \in Pages : held[p] # None}

\* No address is in two pages, or in a page and in the free list, which
\* stays in the order its searches and merges rely on
\* (allocate_virtual_memory, release_virtual_memory).
Disjoint ==
  /\ \A p, q \in Holders : p # q => Units(held[p]) \cap Units(held[q]) = {}
  /\ \A p \in Holders, i \in DOMAIN free : Units(held[p]) \cap Units(free[i]) = {}
  /\ Ordered(free)
=============================================================================
