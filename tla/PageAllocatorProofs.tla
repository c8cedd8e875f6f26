------------------------ MODULE PageAllocatorProofs ------------------------
(***************************************************************************)
(* Proofs about PageAllocator, for any threads, pages, sizes and alignment.*)
(*                                                                         *)
(* The chunks of a page all lie below its top and the swap of the top      *)
(* hands out what lies above it; what has to be added to make that         *)
(* inductive is that a thread only works on a page that exists, and that   *)
(* the thread that makes a page is the one PAGE_BUSY stands for.           *)
(***************************************************************************)
EXTENDS PageAllocator, TLAPS

-----------------------------------------------------------------------------
(* ROUND_UP.                                                               *)

\* A multiple leaves no rest.
LEMMA MultipleLeavesNone ==
  ASSUME NEW q \in Nat, NEW n \in Nat \ {0}
  PROVE  (n * q) % n = 0
BY SMTT(30)

\* Rounding up never goes back, and gives a multiple of the alignment.
LEMMA RoundUpBounds ==
  ASSUME NEW a \in Nat
  PROVE  RoundUp(a) \in Nat /\ RoundUp(a) >= a /\ RoundUp(a) % Align = 0
<1>1. PICK b \in Nat : b = a + Align - 1
  BY AllocatorAssumption
<1>2. b % Align \in Int /\ 0 <= b % Align /\ b % Align <= Align - 1
  BY <1>1, AllocatorAssumption, SMT
<1>3. RoundUp(a) = b - (b % Align)
  BY <1>1 DEF RoundUp
<1>4. PICK q \in Nat : b = Align * q + (b % Align)
  <2>1. b \div Align \in Nat /\ b = Align * (b \div Align) + (b % Align)
    BY AllocatorAssumption, SMTT(30)
  <2> QED BY <2>1
<1>5. Align * q \in Nat
  BY AllocatorAssumption, SMT
<1>6. RoundUp(a) = Align * q
  BY <1>2, <1>3, <1>4, <1>5
<1>7. RoundUp(a) % Align = 0
  BY <1>6, MultipleLeavesNone, AllocatorAssumption
<1>8. RoundUp(a) >= a
  BY <1>1, <1>2, <1>3, AllocatorAssumption
<1> QED BY <1>5, <1>6, <1>7, <1>8

-----------------------------------------------------------------------------
(* The inductive invariant.                                                *)

\* A thread that is past loading the page has one, and the shared page
\* exists.
PagesExist ==
  /\ shared \in Pages => shared \in pages
  /\ \A t \in Threads : pc[t] \in {"read", "bump", "publish"} => page[t] \in pages

\* The chunks lie below the top of their page and are not empty.
ChunksBelowTop ==
  \A c \in chunks : /\ c.page \in pages /\ c.to <= top[c.page] /\ c.from < c.to /\ c.to < Limit
                    /\ c.from % Align = 0

Makers == {t \in Threads : pc[t] \in {"new", "publish"}}

IInv == TypeOK /\ PagesExist /\ ChunksBelowTop /\ ChunksDisjoint /\ OneMaker

LEMMA InitIInv == Init => IInv
BY AllocatorAssumption
   DEF Init, IInv, TypeOK, PagesExist, ChunksBelowTop, ChunksDisjoint, OneMaker

-----------------------------------------------------------------------------
(* Handing out a chunk.                                                    *)

\* What moving the top of one page past a new chunk does.
LEMMA TakeChunk ==
  ASSUME IInv,
         NEW p \in Pages, NEW s \in Sizes, NEW a \in Nat,
         p \notin pages \/ a = top[p],
         pages' = pages \cup {p},
         top' = [top EXCEPT ![p] = RoundUp(a) + s],
         chunks' = IF Fits(a, s) THEN chunks \cup {Chunk(p, a, s)} ELSE chunks
  PROVE  /\ top' \in [Pages -> Nat] /\ pages' \subseteq Pages /\ chunks' \subseteq Chunks
         /\ ChunksBelowTop' /\ ChunksDisjoint'
<1>1. RoundUp(a) \in Nat /\ RoundUp(a) >= a /\ RoundUp(a) % Align = 0 /\ s \in Nat /\ s > 0 /\ Limit \in Nat
  BY RoundUpBounds, AllocatorAssumption
<1>2. PICK r \in Nat : r = RoundUp(a) /\ r >= a /\ r % Align = 0
  BY <1>1
<1>3. Chunk(p, a, s) = [page |-> p, from |-> r, to |-> r + s] /\ r + s \in Nat
  BY <1>1, <1>2 DEF Chunk
<1>4. /\ top \in [Pages -> Nat] /\ pages \subseteq Pages /\ chunks \subseteq Chunks
      /\ ChunksBelowTop /\ ChunksDisjoint
  BY DEF IInv, TypeOK
<1>5. top' = [top EXCEPT ![p] = r + s] /\ top' \in [Pages -> Nat] /\ pages' \subseteq Pages
  BY <1>2, <1>3, <1>4
<1>6. Chunk(p, a, s) \in Chunks
  BY <1>2, <1>3 DEF Chunks
<1>7. chunks' \subseteq Chunks
  BY <1>4, <1>6
<1>8. ASSUME NEW c \in chunks
      PROVE  /\ c \in Chunks /\ c.page \in pages' /\ c.to <= top'[c.page]
             /\ c.from < c.to /\ c.to < Limit /\ c.from % Align = 0
             /\ c.page = p => c.to <= r
  <2>1. c \in Chunks /\ c.page \in Pages /\ c.from \in Nat /\ c.to \in Nat
    BY <1>4 DEF Chunks
  <2>2. c.page \in pages /\ c.to <= top[c.page] /\ c.from < c.to /\ c.to < Limit
         /\ c.from % Align = 0
    BY <1>4 DEF ChunksBelowTop
  <2>3. CASE c.page = p
    <3>1. top[p] = a
      BY <2>2, <2>3
    <3>2. top'[c.page] = r + s
      BY <1>5, <2>3, <1>4
    <3> QED BY <2>1, <2>2, <2>3, <3>1, <3>2, <1>1, <1>2
  <2>4. CASE c.page # p
    <3>1. top'[c.page] = top[c.page]
      BY <1>5, <2>4, <1>4, <2>1
    <3> QED BY <2>1, <2>2, <2>4, <3>1
  <2> QED BY <2>3, <2>4
<1>9. CASE Fits(a, s)
  <2>1. chunks' = chunks \cup {Chunk(p, a, s)} /\ r + s < Limit
    BY <1>9, <1>2 DEF Fits
  <2>2. PICK n \in Chunks : n = Chunk(p, a, s)
    BY <1>6
  <2>3. n.page = p /\ n.from = r /\ n.to = r + s
    BY <2>2, <1>3
  <2>4. top'[p] = r + s
    BY <1>5, <1>4
  <2>5. ChunksBelowTop'
    BY <1>8, <2>1, <2>2, <2>3, <2>4, <1>1, <1>2 DEF ChunksBelowTop
  <2>6. ASSUME NEW c \in chunks', NEW d \in chunks', c.page = d.page, c # d
        PROVE  c.to <= d.from \/ d.to <= c.from
    <3>1. CASE c \in chunks /\ d \in chunks
      BY <2>6, <3>1, <1>4 DEF ChunksDisjoint
    <3>2. CASE c = n
      <4>1. d \in chunks
        BY <3>2, <2>6, <2>1, <2>2
      <4> QED BY <4>1, <1>8, <2>3, <2>6, <3>2
    <3>3. CASE d = n
      <4>1. c \in chunks
        BY <3>3, <2>6, <2>1, <2>2
      <4> QED BY <4>1, <1>8, <2>3, <2>6, <3>3
    <3> QED BY <3>1, <3>2, <3>3, <2>1, <2>2
  <2>7. ChunksDisjoint'
    BY <2>6 DEF ChunksDisjoint
  <2> QED BY <1>5, <1>7, <2>5, <2>7
<1>10. CASE ~Fits(a, s)
  <2>1. chunks' = chunks
    BY <1>10
  <2>2. ChunksBelowTop'
    BY <2>1, <1>8 DEF ChunksBelowTop
  <2>3. ChunksDisjoint'
    BY <2>1, <1>4 DEF ChunksDisjoint
  <2> QED BY <1>5, <1>7, <2>2, <2>3
<1> QED BY <1>9, <1>10

-----------------------------------------------------------------------------
(* Every step keeps the invariant.                                         *)

\* The steps that leave the pages and their chunks alone.
LEMMA QuietKeeps ==
  ASSUME ChunksBelowTop, ChunksDisjoint, UNCHANGED <<top, pages, chunks>>
  PROVE  ChunksBelowTop' /\ ChunksDisjoint'
BY DEF ChunksBelowTop, ChunksDisjoint

\* Who makes a page stays who it is when nobody starts or stops.
LEMMA MakersKept ==
  ASSUME OneMaker, UNCHANGED shared,
         \A t \in Threads : pc'[t] \in {"new", "publish"} <=> pc[t] \in {"new", "publish"}
  PROVE  OneMaker'
<1>1. {t \in Threads : pc'[t] \in {"new", "publish"}} = {t \in Threads : pc[t] \in {"new", "publish"}}
  OBVIOUS
<1> QED BY <1>1 DEF OneMaker

LEMMA NextIInv == IInv /\ [Next]_vars => IInv'
<1> SUFFICES ASSUME IInv, [Next]_vars PROVE IInv'
  OBVIOUS
<1> USE AllocatorAssumption
<1>0. TypeOK /\ PagesExist /\ ChunksBelowTop /\ ChunksDisjoint /\ OneMaker
  BY DEF IInv
<1>1. ASSUME NEW t \in Threads, NEW s \in Sizes, Begin(t, s) PROVE IInv'
  <2>1. TypeOK' /\ PagesExist'
    BY <1>0, <1>1 DEF Begin, Goto, TypeOK, PagesExist
  <2>2. ChunksBelowTop' /\ ChunksDisjoint'
    BY <1>0, <1>1, QuietKeeps DEF Begin
  <2>3. OneMaker'
    BY <1>0, <1>1, MakersKept DEF Begin, Goto, TypeOK
  <2> QED BY <2>1, <2>2, <2>3 DEF IInv
<1>2. ASSUME NEW t \in Threads, Load(t) PROVE IInv'
  <2>1. TypeOK' /\ PagesExist'
    BY <1>0, <1>2 DEF Load, Goto, TypeOK, PagesExist
  <2>2. ChunksBelowTop' /\ ChunksDisjoint'
    BY <1>0, <1>2, QuietKeeps DEF Load
  <2>3. OneMaker'
    BY <1>0, <1>2, MakersKept DEF Load, Goto, TypeOK
  <2> QED BY <2>1, <2>2, <2>3 DEF IInv
<1>3. ASSUME NEW t \in Threads, Read(t) PROVE IInv'
  <2>0. page[t] \in Pages
    BY <1>0, <1>3 DEF Read, TypeOK, PagesExist
  <2>1. TypeOK' /\ PagesExist'
    BY <1>0, <1>3, <2>0 DEF Read, Goto, TypeOK, PagesExist
  <2>2. ChunksBelowTop' /\ ChunksDisjoint'
    BY <1>0, <1>3, QuietKeeps DEF Read
  <2>3. OneMaker'
    BY <1>0, <1>3, MakersKept DEF Read, Goto, TypeOK
  <2> QED BY <2>1, <2>2, <2>3 DEF IInv
<1>4. ASSUME NEW t \in Threads, Bump(t) PROVE IInv'
  <2>0. /\ page[t] \in Pages /\ page[t] \in pages
        /\ addr[t] \in Nat /\ size[t] \in Sizes /\ addr[t] = top[page[t]]
    BY <1>0, <1>4 DEF Bump, TypeOK, PagesExist
  <2>1. /\ pages' = pages \cup {page[t]}
        /\ top' = [top EXCEPT ![page[t]] = RoundUp(addr[t]) + size[t]]
        /\ chunks' = IF Fits(addr[t], size[t])
                       THEN chunks \cup {Chunk(page[t], addr[t], size[t])} ELSE chunks
    BY <2>0, <1>4 DEF Bump
  <2>2. /\ top' \in [Pages -> Nat] /\ pages' \subseteq Pages /\ chunks' \subseteq Chunks
        /\ ChunksBelowTop' /\ ChunksDisjoint'
    BY <2>0, <2>1, TakeChunk
  <2>3. /\ pc[t] = "bump" /\ UNCHANGED <<shared, pages, page, size, addr, asked>>
        /\ pc' = [pc EXCEPT ![t] = IF Fits(addr[t], size[t]) THEN "idle" ELSE "claim"]
    BY <1>4 DEF Bump, Goto
  <2>4. TypeOK' /\ PagesExist'
    BY <1>0, <2>2, <2>3 DEF TypeOK, PagesExist
  <2>5. OneMaker'
    BY <1>0, <2>3, MakersKept DEF TypeOK
  <2> QED BY <2>2, <2>4, <2>5 DEF IInv
<1>5. ASSUME NEW t \in Threads, BumpFails(t) PROVE IInv'
  <2>0. page[t] \in Pages
    BY <1>0, <1>5 DEF BumpFails, TypeOK, PagesExist
  <2>1. TypeOK' /\ PagesExist'
    BY <1>0, <1>5, <2>0 DEF BumpFails, Goto, TypeOK, PagesExist
  <2>2. ChunksBelowTop' /\ ChunksDisjoint'
    BY <1>0, <1>5, QuietKeeps DEF BumpFails
  <2>3. OneMaker'
    BY <1>0, <1>5, MakersKept DEF BumpFails, TypeOK
  <2> QED BY <2>1, <2>2, <2>3 DEF IInv
<1>6. ASSUME NEW t \in Threads, Claim(t) PROVE IInv'
  <2>1. TypeOK' /\ PagesExist'
    BY <1>0, <1>6 DEF Claim, Goto, TypeOK, PagesExist
  <2>2. ChunksBelowTop' /\ ChunksDisjoint'
    BY <1>0, <1>6, QuietKeeps DEF Claim
  <2>3. CASE shared = page[t]
    <3>1. shared # Busy /\ shared' = Busy /\ pc' = [pc EXCEPT ![t] = "new"]
      BY <1>0, <1>6, <2>3 DEF Claim, Goto, TypeOK
    <3>2. Makers = {} /\ Makers' = {t}
      BY <1>0, <3>1 DEF Makers, OneMaker, TypeOK
    <3> QED BY <3>1, <3>2, <2>1, <2>2 DEF OneMaker, Makers, IInv
  <2>4. CASE shared # page[t]
    <3>1. OneMaker'
      BY <1>0, <1>6, <2>4, MakersKept DEF Claim, Goto, TypeOK
    <3> QED BY <3>1, <2>1, <2>2 DEF IInv
  <2> QED BY <2>3, <2>4
<1>7. ASSUME NEW t \in Threads, NEW p \in Pages, NewPage(t, p) PROVE IInv'
  <2>0. 0 \in Nat /\ size[t] \in Sizes /\ p \notin pages
    BY <1>0, <1>7 DEF NewPage, TypeOK
  <2>1. /\ pages' = pages \cup {p} /\ pc[t] = "new"
        /\ page' = [page EXCEPT ![t] = p] /\ pc' = [pc EXCEPT ![t] = "publish"]
        /\ UNCHANGED <<shared, size, addr, asked>>
    BY <1>7 DEF NewPage, Goto
  <2>2. /\ top' \in [Pages -> Nat] /\ pages' \subseteq Pages /\ chunks' \subseteq Chunks
        /\ ChunksBelowTop' /\ ChunksDisjoint'
    <3>1. CASE Fits(0, size[t])
      <4>1. /\ top' = [top EXCEPT ![p] = RoundUp(0) + size[t]]
            /\ chunks' = IF Fits(0, size[t])
                           THEN chunks \cup {Chunk(p, 0, size[t])} ELSE chunks
        BY <1>7, <3>1 DEF NewPage
      <4> QED BY <1>0, <2>0, <2>1, <4>1, TakeChunk DEF IInv
    <3>2. CASE ~Fits(0, size[t])
      <4>1. UNCHANGED <<top, chunks>>
        BY <1>7, <3>2 DEF NewPage
      <4> QED BY <1>0, <2>1, <4>1 DEF TypeOK, ChunksBelowTop, ChunksDisjoint
    <3> QED BY <3>1, <3>2
  <2>3. TypeOK' /\ PagesExist'
    BY <1>0, <2>1, <2>2 DEF TypeOK, PagesExist
  <2>4. OneMaker'
    BY <1>0, <2>1, MakersKept DEF TypeOK
  <2> QED BY <2>2, <2>3, <2>4 DEF IInv
<1>8. ASSUME NEW t \in Threads, NewPageFails(t) \/ Publish(t) PROVE IInv'
  <2>1. TypeOK' /\ PagesExist'
    BY <1>0, <1>8 DEF NewPageFails, Publish, Goto, TypeOK, PagesExist
  <2>2. ChunksBelowTop' /\ ChunksDisjoint'
    BY <1>0, <1>8, QuietKeeps DEF NewPageFails, Publish
  <2>3. /\ pc[t] \in {"new", "publish"} /\ pc' = [pc EXCEPT ![t] = "idle"] /\ shared' # Busy
    BY <1>0, <1>8 DEF NewPageFails, Publish, Goto, TypeOK, PagesExist
  <2>4. Makers = {t}
    BY <1>0, <2>3 DEF OneMaker, Makers
  <2>5. Makers' = {}
    BY <1>0, <2>3, <2>4 DEF Makers, TypeOK
  <2> QED BY <2>1, <2>2, <2>3, <2>5 DEF IInv, OneMaker, Makers
<1>9. CASE Retire
  <2>1. TypeOK' /\ PagesExist'
    BY <1>0, <1>9 DEF Retire, TypeOK, PagesExist
  <2>2. ChunksBelowTop' /\ ChunksDisjoint'
    BY <1>0, <1>9, QuietKeeps DEF Retire
  <2>3. OneMaker'
    BY <1>0, <1>9 DEF Retire, OneMaker
  <2> QED BY <2>1, <2>2, <2>3 DEF IInv
<1>10. CASE UNCHANGED vars
  BY <1>0, <1>10 DEF vars, IInv, TypeOK, PagesExist, ChunksBelowTop, ChunksDisjoint, OneMaker
<1> QED BY <1>1, <1>2, <1>3, <1>4, <1>5, <1>6, <1>7, <1>8, <1>9, <1>10 DEF Next, Allocate

-----------------------------------------------------------------------------
\* The invariant holds in every behaviour.
THEOREM InvariantHolds == Spec => []IInv
<1> QED BY InitIInv, NextIInv, PTL DEF Spec

\* Pages, tops and chunks keep their types.
THEOREM TypeCorrect == Spec => []TypeOK
<1>1. IInv => TypeOK
  BY DEF IInv
<1> QED BY <1>1, InvariantHolds, PTL

\* Two objects never share a byte.
THEOREM ObjectsAreDisjoint == Spec => []ChunksDisjoint
<1>1. IInv => ChunksDisjoint
  BY DEF IInv
<1> QED BY <1>1, InvariantHolds, PTL

\* Every object lies aligned in its page, below the top.
THEOREM ObjectsLieInPages == Spec => []ChunksInPage
<1>1. IInv => ChunksInPage
  BY DEF IInv, ChunksBelowTop, ChunksInPage
<1> QED BY <1>1, InvariantHolds, PTL

\* PAGE_BUSY stands for exactly one thread that makes a page.
THEOREM PageBusyIsALock == Spec => []OneMaker
<1>1. IInv => OneMaker
  BY DEF IInv
<1> QED BY <1>1, InvariantHolds, PTL
=============================================================================
