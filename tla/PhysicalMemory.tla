--------------------------- MODULE PhysicalMemory ---------------------------
(***************************************************************************)
(* The memory behind the heap (ygc-physical-memory.c).  A page gets its    *)
(* memory in as many segments as it takes, so fragmentation does not hurt; *)
(* what must be right is the account of what is unused.  Both operations   *)
(* hold the mutex from end to end.  PageMemory composes them with the      *)
(* other managers.                                                         *)
(***************************************************************************)
EXTENDS Segments, FiniteSets, FiniteSetsExt

CONSTANTS
  Pages,      \* the owners of a struct physical_memory
  Capacity    \* self->capacity, in granules

VARIABLES
  free,       \* self->free
  unused,     \* self->unused_in_bytes
  segments,   \* mem->segments of each page
  size        \* mem->size_in_bytes

Init ==
  /\ free = <<Segment(0, Capacity)>>
  /\ unused = Capacity
  /\ segments = [p \in Pages |-> <<>>]
  /\ size = [p \in Pages |-> 0]

\* Mutant: what is left of a segment keeps its address.
Split_Stays(list, i, n) ==
  LET before == SubSeq(list, 1, i - 1)
      missing == n - TotalSize(before)
      last == list[i]
  IN [taken |-> Append(before, Segment(last.addr, missing)),
      left  |-> (IF last.size = missing THEN <<>>
                 ELSE <<Segment(last.addr, last.size - missing)>>)
                  \o SubSeq(list, i + 1, Len(list))]

\* The loop takes segments whole from the head of the list up to the i-th,
\* of which it takes what is still missing.
Split(list, i, n) ==
  LET before == SubSeq(list, 1, i - 1)
      missing == n - TotalSize(before)
      last == list[i]
  IN [taken |-> Append(before, Segment(last.addr, missing)),
      left  |-> (IF last.size = missing THEN <<>>
                 ELSE <<Segment(last.addr + missing, last.size - missing)>>)
                  \o SubSeq(list, i + 1, Len(list))]

\* The segment with which n granules are complete.
LastSegment(list, n) ==
  Min({i \in DOMAIN list : TotalSize(SubSeq(list, 1, i)) >= n})

\* allocate_physical_memory: the last granule is never given away.
Allocate(p, n) ==
  /\ segments[p] = <<>> /\ n < unused
  /\ LET s == Split(free, LastSegment(free, n), n) IN
       free' = s.left /\ segments' = [segments EXCEPT ![p] = s.taken]
  /\ unused' = unused - n
  /\ size' = [size EXCEPT ![p] = n]

\* free_physical_memory.
Free(p) ==
  /\ segments[p] # <<>>
  /\ free' = FoldLeft(Release, free, segments[p])
  /\ unused' = unused + size[p]
  /\ segments' = [segments EXCEPT ![p] = <<>>]
  /\ size' = [size EXCEPT ![p] = 0]

-----------------------------------------------------------------------------
Ranges == [addr : Nat, size : Nat \ {0}]

TypeOK ==
  /\ free \in Seq(Ranges)
  /\ unused \in 0 .. Capacity
  /\ segments \in [Pages -> Seq(Ranges)]
  /\ size \in [Pages -> Nat]

\* No granule of memory is behind two pages, or behind a page and free, and a
\* page has all it asked for, in however many segments
\* (allocate_physical_memory, free_physical_memory).
Disjoint ==
  /\ \A i, j \in DOMAIN free : i # j => Units(free[i]) \cap Units(free[j]) = {}
  /\ \A p \in Pages : \A i \in DOMAIN segments[p] :
       /\ \A j \in DOMAIN free : Units(segments[p][i]) \cap Units(free[j]) = {}
       /\ \A q \in Pages : \A j \in DOMAIN segments[q] :
            p # q \/ i # j => Units(segments[p][i]) \cap Units(segments[q][j]) = {}
  /\ \A p \in Pages : size[p] = TotalSize(segments[p])

\* The account agrees with the list.
AccountAgrees == unused = TotalSize(free)
=============================================================================
