--------------------------- MODULE PageAllocator ---------------------------
(***************************************************************************)
(* The object allocator of ygc.c: threads take chunks off the end of one   *)
(* shared page (of their processor, or the medium page) with a             *)
(* compare-and-swap of page->top, and the thread that finds the page       *)
(* missing or full replaces it, with PAGE_BUSY in its place meanwhile.     *)
(* One action is one atomic operation on the shared page or on its top.    *)
(***************************************************************************)
EXTENDS Integers, FiniteSets

CONSTANTS
  Threads,
  Pages,       \* the pages ygc_page_new can return
  Limit,       \* the size of a page: page->limit - page->virtual_addr.addr
  Sizes,       \* the sizes of the objects asked for
  Align,       \* alignment_in_bytes
  Null,
  Busy,        \* PAGE_BUSY
  Requests     \* bound: the objects each thread asks for

ASSUME AllocatorAssumption ==
  /\ Limit \in Nat /\ Align \in Nat \ {0} /\ Requests \in Nat
  /\ Sizes \subseteq Nat \ {0}
  /\ Null \notin Pages /\ Busy \notin Pages /\ Null # Busy

\* SMALL_OBJECT_SIZE_LIMIT, MEDIUM_OBJECT_SIZE_LIMIT: an object fits a new page.
ASSUME FitAssumption == \A s \in Sizes : s < Limit

VARIABLES
  shared,      \* *shared_page
  top,         \* page->top, from the start of the page
  pages,       \* the pages that were created
  chunks,      \* the chunks handed out
  pc,
  page,        \* the page a thread works on
  size,        \* the size it wants
  addr,        \* the top it has read
  asked        \* how many objects it asked for

vars == <<shared, top, pages, chunks, pc, page, size, addr, asked>>

Chunks == [page : Pages, from : Nat, to : Nat]
Goto(t, l) == pc' = [pc EXCEPT ![t] = l]

\* ROUND_UP: the next multiple of the alignment.
RoundUp(a) == LET b == a + Align - 1 IN b - (b % Align)

\* The chunk of s bytes behind an old top a, and whether it is one.
Chunk(p, a, s) == [page |-> p, from |-> RoundUp(a), to |-> RoundUp(a) + s]
Fits(a, s) == RoundUp(a) + s < Limit

Init ==
  /\ shared = Null
  /\ top = [p \in Pages |-> 0] /\ pages = {} /\ chunks = {}
  /\ pc = [t \in Threads |-> "idle"]
  /\ page = [t \in Threads |-> Null]
  /\ size \in [Threads -> Sizes]
  /\ addr = [t \in Threads |-> 0]
  /\ asked = [t \in Threads |-> 0]

-----------------------------------------------------------------------------
\* ygc_allocate_object.
Begin(t, s) ==
  /\ pc[t] = "idle" /\ asked[t] < Requests
  /\ asked' = [asked EXCEPT ![t] = @ + 1]
  /\ size' = [size EXCEPT ![t] = s]
  /\ Goto(t, "load")
  /\ UNCHANGED <<shared, top, pages, chunks, page, addr>>

\* The page is loaded until it is not PAGE_BUSY.
Load(t) ==
  /\ pc[t] = "load" /\ shared # Busy
  /\ page' = [page EXCEPT ![t] = shared]
  /\ Goto(t, IF shared = Null THEN "claim" ELSE "read")
  /\ UNCHANGED <<shared, top, pages, chunks, size, addr, asked>>

-----------------------------------------------------------------------------
(* ygc_page_atomic_allocate.                                               *)

Read(t) ==
  /\ pc[t] = "read"
  /\ addr' = [addr EXCEPT ![t] = top[page[t]]]
  /\ Goto(t, "bump")
  /\ UNCHANGED <<shared, top, pages, chunks, page, size, asked>>

\* Mutant: a plain store of the new top.
Bump_Store(t) ==
  /\ pc[t] = "bump"
  /\ top' = [top EXCEPT ![page[t]] = RoundUp(addr[t]) + size[t]]
  /\ IF Fits(addr[t], size[t])
       THEN chunks' = chunks \cup {Chunk(page[t], addr[t], size[t])} /\ Goto(t, "idle")
       ELSE UNCHANGED chunks /\ Goto(t, "claim")
  /\ UNCHANGED <<shared, pages, page, size, addr, asked>>

\* The swap succeeds, and moves the top whether or not the object fits.
Bump(t) ==
  /\ pc[t] = "bump" /\ top[page[t]] = addr[t]
  /\ top' = [top EXCEPT ![page[t]] = RoundUp(addr[t]) + size[t]]
  /\ IF Fits(addr[t], size[t])
       THEN chunks' = chunks \cup {Chunk(page[t], addr[t], size[t])} /\ Goto(t, "idle")
       ELSE UNCHANGED chunks /\ Goto(t, "claim")
  /\ UNCHANGED <<shared, pages, page, size, addr, asked>>

BumpFails(t) ==
  /\ pc[t] = "bump" /\ top[page[t]] # addr[t]
  /\ addr' = [addr EXCEPT ![t] = top[page[t]]]
  /\ UNCHANGED <<shared, top, pages, chunks, pc, page, size, asked>>

-----------------------------------------------------------------------------
(* The page is missing or full.                                            *)

\* Mutant: the page is taken over whatever it has become.
Claim_Blind(t) ==
  /\ pc[t] = "claim"
  /\ shared' = Busy
  /\ Goto(t, "new")
  /\ UNCHANGED <<top, pages, chunks, page, size, addr, asked>>

\* One thread puts PAGE_BUSY in the place of the page all of them saw.
Claim(t) ==
  /\ pc[t] = "claim"
  /\ IF shared = page[t] THEN shared' = Busy /\ Goto(t, "new")
                         ELSE UNCHANGED shared /\ Goto(t, "load")
  /\ UNCHANGED <<top, pages, chunks, page, size, addr, asked>>

\* ygc_page_new, and ygc_page_allocate on a page nobody else has.
NewPage(t, p) ==
  /\ pc[t] = "new" /\ p \notin pages
  /\ pages' = pages \cup {p}
  /\ page' = [page EXCEPT ![t] = p]
  /\ IF Fits(0, size[t])
       THEN /\ top' = [top EXCEPT ![p] = RoundUp(0) + size[t]]
            /\ chunks' = chunks \cup {Chunk(p, 0, size[t])}
       ELSE UNCHANGED <<top, chunks>>
  /\ Goto(t, "publish")
  /\ UNCHANGED <<shared, size, addr, asked>>

\* Mutant: out of memory, and the page stays PAGE_BUSY.
NewPageFails_Stuck(t) ==
  /\ pc[t] = "new"
  /\ Goto(t, "idle")
  /\ UNCHANGED <<shared, top, pages, chunks, page, size, addr, asked>>

NewPageFails(t) ==
  /\ pc[t] = "new"
  /\ shared' = Null
  /\ Goto(t, "idle")
  /\ UNCHANGED <<top, pages, chunks, page, size, addr, asked>>

Publish(t) ==
  /\ pc[t] = "publish"
  /\ shared' = page[t]
  /\ Goto(t, "idle")
  /\ UNCHANGED <<top, pages, chunks, page, size, addr, asked>>

\* ygc_mark_start retires the page at a safepoint: nobody is inside.
Retire ==
  /\ shared # Null /\ \A t \in Threads : pc[t] = "idle"
  /\ shared' = Null
  /\ UNCHANGED <<top, pages, chunks, pc, page, size, addr, asked>>

-----------------------------------------------------------------------------
Allocate(t) ==
  \/ Load(t) \/ Read(t) \/ Bump(t) \/ BumpFails(t) \/ Claim(t)
  \/ NewPageFails(t) \/ Publish(t)
  \/ \E p \in Pages : NewPage(t, p)

Next ==
  \/ \E t \in Threads : Allocate(t) \/ \E s \in Sizes : Begin(t, s)
  \/ Retire

Spec == Init /\ [][Next]_vars

\* A thread that is allocating keeps running.
FairSpec == Spec /\ \A t \in Threads : WF_vars(Allocate(t))

-----------------------------------------------------------------------------
\* The pages, the shared slot and the threads keep their types.
TypeOK ==
  /\ shared \in Pages \cup {Null, Busy}
  /\ top \in [Pages -> Nat]
  /\ pages \subseteq Pages
  /\ chunks \subseteq Chunks
  /\ pc \in [Threads -> {"idle", "load", "read", "bump", "claim", "new", "publish"}]
  /\ page \in [Threads -> Pages \cup {Null}]
  /\ size \in [Threads -> Sizes]
  /\ addr \in [Threads -> Nat]
  /\ asked \in [Threads -> 0 .. Requests]

\* Two objects never share a byte, whoever allocated them
\* (allocate_object_from_shared_page).
ChunksDisjoint ==
  \A c, d \in chunks : c.page = d.page /\ c # d => c.to <= d.from \/ d.to <= c.from

\* Every chunk lies in its page and below its top, where marking and
\* relocation look for objects, and is aligned.
ChunksInPage ==
  \A c \in chunks :
    c.page \in pages /\ c.to <= top[c.page] /\ c.to < Limit /\ c.from % Align = 0

\* PAGE_BUSY is a lock: it stands for exactly one thread that makes a page.
OneMaker ==
  LET makers == {t \in Threads : pc[t] \in {"new", "publish"}}
  IN IF shared = Busy THEN \E t \in Threads : makers = {t} ELSE makers = {}

\* Every allocation returns an object or fails.
AllocationsEnd == \A t \in Threads : pc[t] # "idle" ~> pc[t] = "idle"
=============================================================================
