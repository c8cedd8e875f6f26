-------------------------- MODULE RelocationProofs --------------------------
(***************************************************************************)
(* Proofs about Relocation, for any mutators, objects, copies and loads.   *)
(*                                                                         *)
(* The safety of a page hangs on four facts that no single variable        *)
(* shows: who holds the page follows from where the threads are            *)
(* (PlacesFit), a thread that works on an object has the page or comes too *)
(* late for it (LateMeansFreed), what the worker has visited is in the     *)
(* table and, if it stayed in place, pinned (VisitsCount), and what a      *)
(* thread carries to the table is an object (CarriesObject).  That no two  *)
(* entries have one place, as forwarding_verify demands and the atomic map *)
(* promises, takes one more: copies are not shared (CopiesFit).            *)
(***************************************************************************)
EXTENDS Relocation, FiniteSetTheorems, TLAPS

-----------------------------------------------------------------------------
(* The inductive invariant.                                                *)

\* The worker is never idle, a mutator never iterates, and the page a mutator
\* grabbed is dropped before it is idle again.
PlacesFit ==
  /\ pc[Worker] \in Resolving \cup {"iterate", "pin", "verified", "kept", "drop", "end"}
  /\ ~retained[Worker]
  /\ \A t \in Mutators :
       /\ pc[t] \in Resolving \cup {"idle", "pin", "drop"}
       /\ pc[t] = "idle" => ~retained[t]
       /\ pc[t] = "drop" => retained[t]

\* A mutator that did not get the page came when it was freed already, and
\* finds its object in the table.
LateMeansFreed ==
  \A t \in Mutators : pc[t] \in Resolving /\ ~retained[t] => pc[t] = "find" /\ refs = 0

\* What the worker has visited is in the table, and pinned if it is in place;
\* the object it is at is the exception.
VisitsCount ==
  /\ \A k \in Objects \ todo :
       /\ map[k] # None \/ (k = obj[Worker] /\ pc[Worker] \in Resolving)
       /\ \/ map[k] = InPlace => pinned
          \/ k = obj[Worker] /\ pc[Worker] \in Resolving \cup {"pin"}
  /\ pc[Worker] \in {"verified", "kept", "drop", "end"} => todo = {}
  /\ pc[Worker] \in {"drop", "end"} => \A k \in Objects : map[k] # InPlace

\* An object is what a thread puts into the table, and what is found there.
CarriesObject ==
  /\ \A k \in Objects : content[k] = "object"
  /\ \A k \in Objects : map[k] \in Copies => content[map[k]] = "object"
  /\ \A t \in Threads :
       /\ pc[t] = "copy" => to[t] \in Copies
       /\ pc[t] = "insert" => /\ to[t] # None
                              /\ to[t] \in Copies => content[to[t]] = "object"

\* A thread has a copy that is not in the table.
InHand(t) == pc[t] \in {"copy", "insert"} /\ to[t] \in Copies

\* A copy in the table belongs to one object, and a copy in a thread's hand to
\* that thread and to no object yet.
CopiesFit ==
  /\ \A k \in Objects : map[k] \in Copies => map[k] \in used
  /\ \A k, l \in Objects : k # l /\ map[k] \in Copies => map[l] # map[k]
  /\ \A t \in Threads : InHand(t) => to[t] \in used /\ \A k \in Objects : map[k] # to[t]
  /\ \A t, u \in Threads : t # u /\ InHand(t) /\ InHand(u) => to[t] # to[u]

\* The one GUARANTEE that can fail, and when.
FailsOnCount == failed = None \/ (failed = "entries" /\ live # Cardinality(Objects))

IInv ==
  /\ TypeOK /\ PlacesFit /\ LateMeansFreed /\ VisitsCount /\ CarriesObject
  /\ FreedOnceUnheld /\ FailsOnCount /\ ReturnsTheObject

-----------------------------------------------------------------------------
(* The reference count.                                                    *)

\* The holders can be counted.
LEMMA HoldersFinite == IsFiniteSet(Holders)
<1>1. IsFiniteSet({t \in Mutators : retained[t]})
  BY RelocationAssumption, FS_Subset
<1>2. IsFiniteSet({t \in {Worker} : pc[t] # "end"})
  BY FS_Singleton, FS_Subset
<1> QED BY <1>1, <1>2, FS_Union DEF Holders

\* While anybody holds the page its count is positive and it is not freed.
LEMMA HeldMeansMapped ==
  ASSUME FreedOnceUnheld, NEW t \in Holders
  PROVE  refs > 0 /\ refs \in Nat /\ freed = 0
<1>1. Cardinality(Holders) # 0
  BY HoldersFinite, FS_EmptySet
<1>2. Cardinality(Holders) \in Nat
  BY HoldersFinite, FS_CardinalityType
<1> QED BY <1>1, <1>2 DEF FreedOnceUnheld

\* A page that is freed is held by nobody, and the worker is done with it.
LEMMA FreedMeansDone ==
  ASSUME FreedOnceUnheld, refs = 0 \/ freed # 0
  PROVE  pc[Worker] = "end" /\ refs = 0
<1>1. CASE pc[Worker] = "end"
  BY <1>1 DEF FreedOnceUnheld
<1>2. CASE pc[Worker] # "end"
  <2>1. Worker \in Holders
    BY <1>2 DEF Holders
  <2> QED BY <2>1, HeldMeansMapped
<1> QED BY <1>1, <1>2

\* The account stays right when nobody grabs or drops.
LEMMA HoldersKept ==
  ASSUME FreedOnceUnheld, UNCHANGED <<refs, freed, retained>>,
         pc'[Worker] = "end" <=> pc[Worker] = "end"
  PROVE  FreedOnceUnheld'
<1>1. Holders' = Holders
  BY DEF Holders
<1> QED BY <1>1 DEF FreedOnceUnheld

\* forwarding_grab_page counts the mutator if the page is still there.
LEMMA GrabCounts ==
  ASSUME IInv, NEW t \in Threads, NEW k \in Objects, Grab(t, k)
  PROVE  FreedOnceUnheld'
<1>0. /\ t \in Mutators /\ t # Worker /\ pc[t] = "idle" /\ ~retained[t]
      /\ pc'[Worker] = pc[Worker] /\ freed' = freed /\ refs \in Nat
      /\ retained \in [Threads -> BOOLEAN]
      /\ retained' = [retained EXCEPT ![t] = refs > 0]
      /\ refs' = IF refs > 0 THEN refs + 1 ELSE refs
  BY RelocationAssumption DEF IInv, PlacesFit, Grab, At, Goto, Threads, TypeOK
<1>1. CASE refs > 0
  <2>1. Holders' = Holders \cup {t} /\ t \notin Holders
    BY <1>0, <1>1 DEF Holders, Threads
  <2>2. Cardinality(Holders') = Cardinality(Holders) + 1
    BY <2>1, HoldersFinite, FS_AddElement
  <2> QED BY <1>0, <1>1, <2>2 DEF IInv, FreedOnceUnheld
<1>2. CASE ~(refs > 0)
  <2>1. Holders' = Holders
    BY <1>0, <1>2 DEF Holders, Threads
  <2> QED BY <1>0, <1>2, <2>1 DEF IInv, FreedOnceUnheld
<1> QED BY <1>1, <1>2

\* forwarding_drop_page: the thread that drops held the page.
LEMMA DropCounts ==
  ASSUME IInv, NEW t \in Threads, Drop(t)
  PROVE  refs' \in Nat /\ freed' \in Nat /\ FreedOnceUnheld'
<1>0. /\ pc[t] = "drop" /\ refs' = refs - 1 /\ freed' = IF refs = 1 THEN freed + 1 ELSE freed
      /\ retained' = [retained EXCEPT ![t] = FALSE] /\ retained \in [Threads -> BOOLEAN]
      /\ pc' = [pc EXCEPT ![t] = IF t = Worker THEN "end" ELSE "idle"]
      /\ pc \in [Threads -> {"iterate", "idle", "find", "live", "pinned?", "allocate", "copy",
                             "insert", "pin", "drop", "verified", "kept", "end"}]
  BY DEF IInv, Drop, DropPage, At, Goto, TypeOK
<1>1. t \in Holders /\ Holders' = Holders \ {t}
  BY <1>0, RelocationAssumption DEF Holders, Threads, IInv, PlacesFit
<1>2. Cardinality(Holders') = Cardinality(Holders) - 1
  BY <1>1, HoldersFinite, FS_RemoveElement
<1>3. refs > 0 /\ refs \in Nat /\ freed = 0
  BY <1>1, HeldMeansMapped DEF IInv
<1> QED BY <1>0, <1>2, <1>3 DEF IInv, FreedOnceUnheld

\* A thread between its look into the table and its entry has the page.
LEMMA ResolvingHolds ==
  ASSUME IInv, NEW t \in Threads, pc[t] \in Resolving \ {"find"}
  PROVE  t \in Holders /\ refs > 0 /\ freed = 0
<1>1. t \in Holders
  BY RelocationAssumption
     DEF IInv, PlacesFit, LateMeansFreed, Holders, Threads, Resolving, TypeOK
<1> QED BY <1>1, HeldMeansMapped DEF IInv

\* Once the worker has verified the table, it is full.
LEMMA VerifiedMeansFull ==
  ASSUME IInv, pc[Worker] \in {"verified", "kept", "drop", "end"}
  PROVE  \A k \in Objects : map[k] # None
BY DEF IInv, VisitsCount, Resolving

\* Who comes too late for the page finds every object in the table.
LEMMA FreedMeansFull ==
  ASSUME IInv, refs = 0 \/ freed # 0
  PROVE  \A k \in Objects : map[k] # None
BY FreedMeansDone, VerifiedMeansFull DEF IInv

-----------------------------------------------------------------------------
(* Copies are not shared.                                                  *)

\* Two objects in the table are in two places.
LEMMA PlacesDiffer ==
  ASSUME TypeOK, CopiesFit, NEW k \in Objects, NEW l \in Objects, k # l,
         map[k] # None, map[l] # None
  PROVE  PlaceOf(k, map[k]) # PlaceOf(l, map[l])
<1>1. map[k] \in Copies \cup {InPlace} /\ map[l] \in Copies \cup {InPlace}
  BY DEF TypeOK
<1>2. map[k] = map[l] => map[k] = InPlace
  BY <1>1 DEF CopiesFit
<1> QED BY <1>1, <1>2, RelocationAssumption DEF PlaceOf

LEMMA InitCopiesFit == Init => CopiesFit
BY RelocationAssumption DEF Init, CopiesFit, InHand, Threads

LEMMA NextCopiesFit == IInv /\ CopiesFit /\ [Next]_vars => CopiesFit'
<1> SUFFICES ASSUME IInv, CopiesFit, [Next]_vars PROVE CopiesFit'
  OBVIOUS
<1>0. TypeOK /\ CarriesObject
  BY DEF IInv
<1>1. ASSUME NEW t \in Threads, NEW k \in Objects, Grab(t, k) PROVE CopiesFit'
  BY <1>0, <1>1 DEF Grab, Goto, TypeOK, CopiesFit, InHand
<1>2. ASSUME NEW k \in Objects, Visit(k) PROVE CopiesFit'
  BY <1>0, <1>2 DEF Visit, Goto, TypeOK, CopiesFit, InHand
<1>3. ASSUME NEW t \in Threads, Find(t) PROVE CopiesFit'
  BY <1>0, <1>3 DEF Find, Goto, TypeOK, CopiesFit, InHand
<1>4. ASSUME NEW t \in Threads, CheckLive(t) PROVE CopiesFit'
  BY <1>0, <1>4 DEF CheckLive, Goto, TypeOK, CopiesFit, InHand
<1>5. ASSUME NEW t \in Threads, ReadPinned(t) PROVE CopiesFit'
  BY <1>0, <1>5, RelocationAssumption DEF ReadPinned, Goto, TypeOK, CopiesFit, InHand
<1>6. ASSUME NEW t \in Threads, NEW c \in Copies, Allocate(t, c) PROVE CopiesFit'
  BY <1>0, <1>6, RelocationAssumption DEF Allocate, Goto, TypeOK, CopiesFit, InHand
<1>7. ASSUME NEW t \in Threads, AllocateFails(t) PROVE CopiesFit'
  BY <1>0, <1>7, RelocationAssumption DEF AllocateFails, Goto, TypeOK, CopiesFit, InHand
<1>8. ASSUME NEW t \in Threads, Copy(t) PROVE CopiesFit'
  <2>1. /\ pc[t] = "copy" /\ pc' = [pc EXCEPT ![t] = "insert"]
        /\ map' = map /\ to' = to /\ used' = used
    BY <1>8 DEF Copy, At, Goto
  <2>2. \A u \in Threads : InHand(u)' <=> InHand(u)
    BY <1>0, <2>1 DEF InHand, TypeOK
  <2> QED BY <2>1, <2>2 DEF CopiesFit
<1>9. ASSUME NEW t \in Threads, Insert(t) PROVE CopiesFit'
  BY <1>0, <1>9 DEF Insert, At, Goto, TypeOK, CopiesFit, InHand
<1>10. ASSUME NEW t \in Threads, Pin(t) PROVE CopiesFit'
  BY <1>0, <1>10 DEF Pin, Goto, TypeOK, CopiesFit, InHand
<1>11. ASSUME NEW t \in Threads, Drop(t) PROVE CopiesFit'
  BY <1>0, <1>11 DEF Drop, Goto, TypeOK, CopiesFit, InHand
<1>12. CASE Verify \/ Release
  BY <1>0, <1>12 DEF Verify, Release, Goto, TypeOK, CopiesFit, InHand
<1>13. CASE UNCHANGED vars
  BY <1>13 DEF vars, CopiesFit, InHand
<1> QED BY <1>1, <1>2, <1>3, <1>4, <1>5, <1>6, <1>7, <1>8, <1>9, <1>10, <1>11, <1>12, <1>13
        DEF Next, Relocating, Working

-----------------------------------------------------------------------------
(* Every step keeps the invariant.                                         *)

LEMMA InitIInv == Init => IInv
<1> SUFFICES ASSUME Init PROVE IInv
  OBVIOUS
<1>1. Holders = {Worker}
  BY RelocationAssumption DEF Init, Holders, Threads
<1>2. Cardinality(Holders) = 1
  BY <1>1, FS_Singleton
<1>0. live \in Nat
  BY RelocationAssumption, FS_CardinalityType DEF Init
<1>3. TypeOK /\ PlacesFit /\ LateMeansFreed /\ VisitsCount /\ CarriesObject
  BY <1>0, RelocationAssumption
     DEF Init, TypeOK, PlacesFit, LateMeansFreed, VisitsCount, CarriesObject, Resolving, Threads
<1>4. FreedOnceUnheld /\ FailsOnCount /\ ReturnsTheObject
  BY <1>2, RelocationAssumption DEF Init, FreedOnceUnheld, FailsOnCount, ReturnsTheObject, Threads
<1> QED BY <1>3, <1>4 DEF IInv

LEMMA NextIInv == IInv /\ CopiesFit /\ [Next]_vars => IInv'
<1> SUFFICES ASSUME IInv, CopiesFit, [Next]_vars PROVE IInv'
  OBVIOUS
<1> USE RelocationAssumption DEF Threads
<1>0. /\ TypeOK /\ PlacesFit /\ LateMeansFreed /\ VisitsCount /\ CarriesObject
      /\ FreedOnceUnheld /\ FailsOnCount /\ ReturnsTheObject
  BY DEF IInv
<1>1. ASSUME NEW t \in Threads, NEW k \in Objects, Grab(t, k) PROVE IInv'
  <2>1. TypeOK'
    BY <1>0, <1>1 DEF Grab, At, Goto, page, TypeOK, PlacesFit, CarriesObject
  <2>2. PlacesFit'
    BY <1>0, <1>1 DEF Grab, At, Goto, page, TypeOK, PlacesFit, Resolving
  <2>3. LateMeansFreed'
    <3>1. /\ refs \in Nat /\ retained' = [retained EXCEPT ![t] = refs > 0]
          /\ retained \in [Threads -> BOOLEAN] /\ refs' = IF refs > 0 THEN refs + 1 ELSE refs
          /\ pc' = [pc EXCEPT ![t] = "find"]
      BY <1>0, <1>1 DEF Grab, Goto, TypeOK
    <3>2. CASE refs > 0
      <4>1. retained'[t] /\ \A u \in Threads \ {t} : retained'[u] = retained[u]
        BY <3>1, <3>2
      <4>2. \A u \in Mutators \ {t} : pc'[u] = pc[u]
        BY <1>0, <3>1 DEF TypeOK
      <4>3. refs # 0
        BY <3>1, <3>2
      <4> QED BY <1>0, <4>1, <4>2, <4>3 DEF LateMeansFreed
    <3>3. CASE ~(refs > 0)
      <4>1. refs' = 0 /\ refs = 0
        BY <3>1, <3>3
      <4>2. \A u \in Threads \ {t} : retained'[u] = retained[u] /\ pc'[u] = pc[u]
        BY <1>0, <3>1 DEF TypeOK
      <4>3. pc'[t] = "find"
        BY <1>0, <3>1 DEF TypeOK
      <4> QED BY <1>0, <4>1, <4>2, <4>3 DEF LateMeansFreed
    <3> QED BY <3>2, <3>3
  <2>4. VisitsCount'
    BY <1>0, <1>1 DEF Grab, At, Goto, page, TypeOK, PlacesFit, VisitsCount, Resolving
  <2>5. CarriesObject'
    BY <1>0, <1>1 DEF Grab, At, Goto, page, TypeOK, CarriesObject
  <2>6. FreedOnceUnheld'
    BY <1>1, GrabCounts
  <2>7. FailsOnCount'
    BY <1>0, <1>1 DEF Grab, At, Goto, page, TypeOK, FailsOnCount
  <2>8. ReturnsTheObject'
    BY <1>0, <1>1 DEF Grab, At, Goto, page, TypeOK, CarriesObject, ReturnsTheObject
  <2> QED BY <2>1, <2>2, <2>3, <2>4, <2>5, <2>6, <2>7, <2>8 DEF IInv
<1>2. ASSUME NEW k \in Objects, Visit(k) PROVE IInv'
  <2>1. TypeOK'
    BY <1>0, <1>2 DEF Visit, At, Goto, page, TypeOK, PlacesFit, CarriesObject
  <2>2. PlacesFit'
    BY <1>0, <1>2 DEF Visit, At, Goto, page, TypeOK, PlacesFit, Resolving
  <2>3. LateMeansFreed'
    BY <1>0, <1>2 DEF Visit, At, Goto, page, TypeOK, PlacesFit, LateMeansFreed, Resolving
  <2>4. VisitsCount'
    BY <1>0, <1>2 DEF Visit, At, Goto, page, TypeOK, PlacesFit, VisitsCount, Resolving
  <2>5. CarriesObject'
    BY <1>0, <1>2 DEF Visit, At, Goto, page, TypeOK, CarriesObject
  <2>6. FreedOnceUnheld'
    BY <1>0, <1>2, HoldersKept DEF Visit, At, Goto, page, TypeOK
  <2>7. FailsOnCount'
    BY <1>0, <1>2 DEF Visit, At, Goto, page, TypeOK, FailsOnCount
  <2>8. ReturnsTheObject'
    BY <1>0, <1>2 DEF Visit, At, Goto, page, TypeOK, CarriesObject, ReturnsTheObject
  <2> QED BY <2>1, <2>2, <2>3, <2>4, <2>5, <2>6, <2>7, <2>8 DEF IInv
<1>3. ASSUME NEW t \in Threads, Find(t) PROVE IInv'
  <2>1. TypeOK'
    BY <1>0, <1>3 DEF Find, At, Goto, page, TypeOK, PlacesFit, CarriesObject
  <2>2. PlacesFit'
    BY <1>0, <1>3 DEF Find, At, Goto, page, TypeOK, PlacesFit, Resolving
  <2>3. LateMeansFreed'
    BY <1>0, <1>3, FreedMeansFull DEF Find, At, Goto, page, TypeOK, LateMeansFreed, Resolving
  <2>4. VisitsCount'
    BY <1>0, <1>3 DEF Find, At, Goto, page, TypeOK, PlacesFit, VisitsCount, Resolving
  <2>5. CarriesObject'
    BY <1>0, <1>3 DEF Find, At, Goto, page, TypeOK, CarriesObject
  <2>6. FreedOnceUnheld'
    BY <1>0, <1>3, HoldersKept DEF Find, At, Goto, page, TypeOK
  <2>7. FailsOnCount'
    BY <1>0, <1>3 DEF Find, At, Goto, page, TypeOK, FailsOnCount
  <2>8. ReturnsTheObject'
    BY <1>0, <1>3 DEF Find, At, Goto, page, TypeOK, CarriesObject, ReturnsTheObject
  <2> QED BY <2>1, <2>2, <2>3, <2>4, <2>5, <2>6, <2>7, <2>8 DEF IInv
<1>4. ASSUME NEW t \in Threads, CheckLive(t) PROVE IInv'
  <2>1. TypeOK'
    BY <1>0, <1>4 DEF CheckLive, At, Goto, page, Guarantee, TypeOK, PlacesFit, CarriesObject
  <2>2. PlacesFit'
    BY <1>0, <1>4 DEF CheckLive, At, Goto, page, Guarantee, TypeOK, PlacesFit, Resolving
  <2>3. LateMeansFreed'
    BY <1>0, <1>4 DEF CheckLive, At, Goto, page, Guarantee, TypeOK, PlacesFit, LateMeansFreed, Resolving
  <2>4. VisitsCount'
    BY <1>0, <1>4 DEF CheckLive, At, Goto, page, Guarantee, TypeOK, PlacesFit, VisitsCount, Resolving
  <2>5. CarriesObject'
    BY <1>0, <1>4 DEF CheckLive, At, Goto, page, Guarantee, TypeOK, CarriesObject
  <2>6. FreedOnceUnheld'
    BY <1>0, <1>4, HoldersKept DEF CheckLive, At, Goto, page, Guarantee, TypeOK
  <2>7. FailsOnCount'
    BY <1>0, <1>4, ResolvingHolds DEF CheckLive, At, Guarantee, Resolving, FailsOnCount
  <2>8. ReturnsTheObject'
    BY <1>0, <1>4 DEF CheckLive, At, Goto, page, Guarantee, TypeOK, CarriesObject, ReturnsTheObject
  <2> QED BY <2>1, <2>2, <2>3, <2>4, <2>5, <2>6, <2>7, <2>8 DEF IInv
<1>5. ASSUME NEW t \in Threads, ReadPinned(t) PROVE IInv'
  <2>1. TypeOK'
    BY <1>0, <1>5 DEF ReadPinned, At, Goto, page, TypeOK, PlacesFit, CarriesObject
  <2>2. PlacesFit'
    BY <1>0, <1>5 DEF ReadPinned, At, Goto, page, TypeOK, PlacesFit, Resolving
  <2>3. LateMeansFreed'
    BY <1>0, <1>5 DEF ReadPinned, At, Goto, page, TypeOK, PlacesFit, LateMeansFreed, Resolving
  <2>4. VisitsCount'
    BY <1>0, <1>5 DEF ReadPinned, At, Goto, page, TypeOK, PlacesFit, VisitsCount, Resolving
  <2>5. CarriesObject'
    BY <1>0, <1>5 DEF ReadPinned, At, Goto, page, TypeOK, CarriesObject
  <2>6. FreedOnceUnheld'
    BY <1>0, <1>5, HoldersKept DEF ReadPinned, At, Goto, page, TypeOK
  <2>7. FailsOnCount'
    BY <1>0, <1>5 DEF ReadPinned, At, Goto, page, TypeOK, FailsOnCount
  <2>8. ReturnsTheObject'
    BY <1>0, <1>5 DEF ReadPinned, At, Goto, page, TypeOK, CarriesObject, ReturnsTheObject
  <2> QED BY <2>1, <2>2, <2>3, <2>4, <2>5, <2>6, <2>7, <2>8 DEF IInv
<1>6. ASSUME NEW t \in Threads, NEW c \in Copies, Allocate(t, c) PROVE IInv'
  <2>1. TypeOK'
    BY <1>0, <1>6 DEF Allocate, At, Goto, page, TypeOK, PlacesFit, CarriesObject
  <2>2. PlacesFit'
    BY <1>0, <1>6 DEF Allocate, At, Goto, page, TypeOK, PlacesFit, Resolving
  <2>3. LateMeansFreed'
    BY <1>0, <1>6 DEF Allocate, At, Goto, page, TypeOK, PlacesFit, LateMeansFreed, Resolving
  <2>4. VisitsCount'
    BY <1>0, <1>6 DEF Allocate, At, Goto, page, TypeOK, PlacesFit, VisitsCount, Resolving
  <2>5. CarriesObject'
    BY <1>0, <1>6 DEF Allocate, At, Goto, page, TypeOK, CarriesObject
  <2>6. FreedOnceUnheld'
    BY <1>0, <1>6, HoldersKept DEF Allocate, At, Goto, page, TypeOK
  <2>7. FailsOnCount'
    BY <1>0, <1>6 DEF Allocate, At, Goto, page, TypeOK, FailsOnCount
  <2>8. ReturnsTheObject'
    BY <1>0, <1>6 DEF Allocate, At, Goto, page, TypeOK, CarriesObject, ReturnsTheObject
  <2> QED BY <2>1, <2>2, <2>3, <2>4, <2>5, <2>6, <2>7, <2>8 DEF IInv
<1>7. ASSUME NEW t \in Threads, AllocateFails(t) PROVE IInv'
  <2>1. TypeOK'
    BY <1>0, <1>7 DEF AllocateFails, At, Goto, page, TypeOK, PlacesFit, CarriesObject
  <2>2. PlacesFit'
    BY <1>0, <1>7 DEF AllocateFails, At, Goto, page, TypeOK, PlacesFit, Resolving
  <2>3. LateMeansFreed'
    BY <1>0, <1>7 DEF AllocateFails, At, Goto, page, TypeOK, PlacesFit, LateMeansFreed, Resolving
  <2>4. VisitsCount'
    BY <1>0, <1>7 DEF AllocateFails, At, Goto, page, TypeOK, PlacesFit, VisitsCount, Resolving
  <2>5. CarriesObject'
    BY <1>0, <1>7 DEF AllocateFails, At, Goto, page, TypeOK, CarriesObject
  <2>6. FreedOnceUnheld'
    BY <1>0, <1>7, HoldersKept DEF AllocateFails, At, Goto, page, TypeOK
  <2>7. FailsOnCount'
    BY <1>0, <1>7 DEF AllocateFails, At, Goto, page, TypeOK, FailsOnCount
  <2>8. ReturnsTheObject'
    BY <1>0, <1>7 DEF AllocateFails, At, Goto, page, TypeOK, CarriesObject, ReturnsTheObject
  <2> QED BY <2>1, <2>2, <2>3, <2>4, <2>5, <2>6, <2>7, <2>8 DEF IInv
<1>8. ASSUME NEW t \in Threads, Copy(t) PROVE IInv'
  <2>1. TypeOK'
    BY <1>0, <1>8 DEF Copy, At, Goto, page, Guarantee, TypeOK, PlacesFit, CarriesObject
  <2>2. PlacesFit'
    BY <1>0, <1>8 DEF Copy, At, Goto, page, Guarantee, TypeOK, PlacesFit, Resolving
  <2>3. LateMeansFreed'
    BY <1>0, <1>8 DEF Copy, At, Goto, page, Guarantee, TypeOK, PlacesFit, LateMeansFreed, Resolving
  <2>4. VisitsCount'
    BY <1>0, <1>8 DEF Copy, At, Goto, page, Guarantee, TypeOK, PlacesFit, VisitsCount, Resolving
  <2>5. CarriesObject'
    BY <1>0, <1>8 DEF Copy, At, Goto, page, Guarantee, TypeOK, CarriesObject
  <2>6. FreedOnceUnheld'
    BY <1>0, <1>8, HoldersKept DEF Copy, At, Goto, page, Guarantee, TypeOK
  <2>7. FailsOnCount'
    BY <1>0, <1>8, ResolvingHolds DEF Copy, At, Guarantee, Resolving, FailsOnCount
  <2>8. ReturnsTheObject'
    BY <1>0, <1>8 DEF Copy, At, Goto, page, Guarantee, TypeOK, CarriesObject, ReturnsTheObject
  <2> QED BY <2>1, <2>2, <2>3, <2>4, <2>5, <2>6, <2>7, <2>8 DEF IInv
<1>9. ASSUME NEW t \in Threads, Insert(t) PROVE IInv'
  <2>1. TypeOK'
    BY <1>0, <1>9 DEF Insert, At, Goto, page, TypeOK, PlacesFit, CarriesObject
  <2>2. PlacesFit'
    BY <1>0, <1>9 DEF Insert, At, Goto, page, TypeOK, PlacesFit, Resolving
  <2>3. LateMeansFreed'
    BY <1>0, <1>9 DEF Insert, At, Goto, page, TypeOK, PlacesFit, LateMeansFreed, Resolving
  <2>4. VisitsCount'
    <3>0. /\ pc[t] = "insert" /\ pc' = [pc EXCEPT ![t] = "pin"] /\ to[t] # None
          /\ UNCHANGED <<pinned, obj, todo>> /\ obj[t] \in Objects
      BY <1>0, <1>9 DEF Insert, At, Goto, page, TypeOK, CarriesObject
    <3>1. CASE map[obj[t]] # None
      <4>1. map' = map
        BY <1>9, <3>1 DEF Insert
      <4> QED BY <1>0, <3>0, <3>1, <4>1 DEF TypeOK, VisitsCount, Resolving
    <3>2. CASE map[obj[t]] = None
      <4>1. map' = [map EXCEPT ![obj[t]] = to[t]]
        BY <1>9, <3>2 DEF Insert
      <4>2. pc[Worker] \notin {"verified", "kept", "drop", "end"}
        BY <3>0, <3>2, VerifiedMeansFull
      <4>3. ASSUME NEW k \in Objects \ todo'
            PROVE  /\ map'[k] # None \/ (k = obj'[Worker] /\ pc'[Worker] \in Resolving)
                   /\ \/ map'[k] = InPlace => pinned'
                      \/ k = obj'[Worker] /\ pc'[Worker] \in Resolving \cup {"pin"}
        BY <1>0, <3>0, <3>2, <4>1 DEF TypeOK, VisitsCount, Resolving
      <4> QED BY <1>0, <3>0, <4>2, <4>3 DEF TypeOK, VisitsCount
    <3> QED BY <3>1, <3>2
  <2>5. CarriesObject'
    BY <1>0, <1>9 DEF Insert, At, Goto, page, TypeOK, CarriesObject
  <2>6. FreedOnceUnheld'
    BY <1>0, <1>9, HoldersKept DEF Insert, At, Goto, page, TypeOK
  <2>7. FailsOnCount'
    BY <1>0, <1>9 DEF Insert, At, Goto, page, TypeOK, FailsOnCount
  <2>8. ReturnsTheObject'
    BY <1>0, <1>9 DEF Insert, At, Goto, page, TypeOK, CarriesObject, ReturnsTheObject
  <2> QED BY <2>1, <2>2, <2>3, <2>4, <2>5, <2>6, <2>7, <2>8 DEF IInv
<1>10. ASSUME NEW t \in Threads, Pin(t) PROVE IInv'
  <2>1. TypeOK'
    BY <1>0, <1>10 DEF Pin, At, Goto, page, TypeOK, PlacesFit, CarriesObject
  <2>2. PlacesFit'
    BY <1>0, <1>10 DEF Pin, At, Goto, page, TypeOK, PlacesFit, Resolving
  <2>3. LateMeansFreed'
    BY <1>0, <1>10 DEF Pin, At, Goto, page, TypeOK, PlacesFit, LateMeansFreed, Resolving
  <2>4. VisitsCount'
    <3>0. /\ pc[t] = "pin" /\ to[t] = map[obj[t]] /\ to[t] # None
          /\ pinned' = (pinned \/ to[t] = InPlace) /\ UNCHANGED <<map, obj, todo>>
          /\ pc' = [pc EXCEPT ![t] = IF t = Worker THEN "iterate"
                                     ELSE IF retained[t] THEN "drop" ELSE "idle"]
      BY <1>0, <1>10 DEF Pin, At, Goto, ReturnsTheObject
    <3>1. CASE t = Worker
      <4>1. pc'[Worker] = "iterate"
        BY <3>0, <3>1, <1>0 DEF TypeOK
      <4> QED BY <1>0, <3>0, <3>1, <4>1 DEF VisitsCount, Resolving
    <3>2. CASE t # Worker
      <4>1. pc'[Worker] = pc[Worker]
        BY <3>0, <3>2
      <4> QED BY <1>0, <3>0, <4>1 DEF VisitsCount, Resolving
    <3> QED BY <3>1, <3>2
  <2>5. CarriesObject'
    BY <1>0, <1>10 DEF Pin, At, Goto, page, TypeOK, CarriesObject
  <2>6. FreedOnceUnheld'
    BY <1>0, <1>10, HoldersKept DEF Pin, At, Goto, page, TypeOK
  <2>7. FailsOnCount'
    BY <1>0, <1>10 DEF Pin, At, Goto, page, TypeOK, FailsOnCount
  <2>8. ReturnsTheObject'
    BY <1>0, <1>10 DEF Pin, At, Goto, page, TypeOK, CarriesObject, ReturnsTheObject
  <2> QED BY <2>1, <2>2, <2>3, <2>4, <2>5, <2>6, <2>7, <2>8 DEF IInv
<1>11. ASSUME NEW t \in Threads, Drop(t) PROVE IInv'
  <2>0. refs' \in Nat /\ freed' \in Nat /\ FreedOnceUnheld'
    BY <1>11, DropCounts
  <2>1. TypeOK'
    BY <1>0, <1>11, <2>0 DEF Drop, At, Goto, DropPage, TypeOK
  <2>2. PlacesFit'
    BY <1>0, <1>11 DEF Drop, At, Goto, page, DropPage, TypeOK, PlacesFit, Resolving
  <2>3. LateMeansFreed'
    <3>1. /\ refs' = refs - 1 /\ refs' \in Nat /\ refs \in Nat
          /\ retained' = [retained EXCEPT ![t] = FALSE]
          /\ pc' = [pc EXCEPT ![t] = IF t = Worker THEN "end" ELSE "idle"]
      BY <1>0, <1>11, <2>0 DEF Drop, DropPage, Goto, TypeOK
    <3> QED BY <1>0, <3>1 DEF TypeOK, LateMeansFreed, Resolving
  <2>4. VisitsCount'
    BY <1>0, <1>11 DEF Drop, At, Goto, page, DropPage, TypeOK, PlacesFit, VisitsCount, Resolving
  <2>5. CarriesObject'
    BY <1>0, <1>11 DEF Drop, At, Goto, page, DropPage, TypeOK, CarriesObject
  <2>6. FreedOnceUnheld'
    BY <2>0
  <2>7. FailsOnCount'
    BY <1>0, <1>11 DEF Drop, At, Goto, page, DropPage, TypeOK, FailsOnCount
  <2>8. ReturnsTheObject'
    BY <1>0, <1>11 DEF Drop, At, Goto, page, DropPage, TypeOK, CarriesObject, ReturnsTheObject
  <2> QED BY <2>1, <2>2, <2>3, <2>4, <2>5, <2>6, <2>7, <2>8 DEF IInv
<1>12. ASSUME Verify PROVE IInv'
  <2>0. /\ pc[Worker] = "iterate" /\ todo = {} /\ failed = None
        /\ pc' = [pc EXCEPT ![Worker] = "verified"]
        /\ UNCHANGED <<page, map, content, obj, to, retained, todo, used, loads>>
    BY <1>12 DEF Verify, At, Goto
  <2>1. TypeOK'
    BY <1>0, <2>0 DEF page, TypeOK
  <2>2. PlacesFit'
    BY <1>0, <2>0 DEF TypeOK, PlacesFit, Resolving
  <2>3. LateMeansFreed'
    BY <1>0, <2>0 DEF page, TypeOK, PlacesFit, LateMeansFreed, Resolving
  <2>4. VisitsCount'
    BY <1>0, <2>0 DEF page, TypeOK, PlacesFit, VisitsCount, Resolving
  <2>5. CarriesObject'
    BY <1>0, <2>0 DEF TypeOK, CarriesObject
  <2>6. FreedOnceUnheld'
    BY <1>0, <2>0, HoldersKept DEF page, TypeOK
  <2>7. FailsOnCount'
    <3>1. Worker \in Holders
      BY <2>0 DEF Holders
    <3>2. refs > 0 /\ freed = 0
      BY <1>0, <3>1, HeldMeansMapped
    <3>3. Entries = Objects
      BY <1>0, <2>0 DEF Entries, VisitsCount, Resolving
    <3>4. \A k, l \in Entries : k # l => PlaceOf(k, map[k]) # PlaceOf(l, map[l])
      BY PlacesDiffer, <1>0, <3>3 DEF Entries
    <3>5. failed' = IF Cardinality(Entries) # live THEN "entries" ELSE failed
      BY <1>12, <3>2, <3>4 DEF Verify
    <3> QED BY <2>0, <3>3, <3>5 DEF FailsOnCount, page
  <2>8. ReturnsTheObject'
    BY <1>0, <2>0 DEF TypeOK, CarriesObject, ReturnsTheObject
  <2> QED BY <2>1, <2>2, <2>3, <2>4, <2>5, <2>6, <2>7, <2>8 DEF IInv
<1>13. ASSUME Release PROVE IInv'
  <2>1. TypeOK'
    BY <1>0, <1>13 DEF Release, At, Goto, page, TypeOK, PlacesFit, CarriesObject
  <2>2. PlacesFit'
    BY <1>0, <1>13 DEF Release, At, Goto, page, TypeOK, PlacesFit, Resolving
  <2>3. LateMeansFreed'
    BY <1>0, <1>13 DEF Release, At, Goto, page, TypeOK, PlacesFit, LateMeansFreed, Resolving
  <2>4. VisitsCount'
    BY <1>0, <1>13 DEF Release, At, Goto, page, TypeOK, PlacesFit, VisitsCount, Resolving
  <2>5. CarriesObject'
    BY <1>0, <1>13 DEF Release, At, Goto, page, TypeOK, CarriesObject
  <2>6. FreedOnceUnheld'
    BY <1>0, <1>13, HoldersKept DEF Release, At, Goto, page, TypeOK
  <2>7. FailsOnCount'
    BY <1>0, <1>13 DEF Release, At, Goto, page, TypeOK, FailsOnCount
  <2>8. ReturnsTheObject'
    BY <1>0, <1>13 DEF Release, At, Goto, page, TypeOK, CarriesObject, ReturnsTheObject
  <2> QED BY <2>1, <2>2, <2>3, <2>4, <2>5, <2>6, <2>7, <2>8 DEF IInv
<1>14. CASE UNCHANGED vars
  <2>1. FreedOnceUnheld'
    BY <1>0, <1>14, HoldersKept DEF vars
  <2> QED BY <1>0, <1>14, <2>1
      DEF vars, IInv, TypeOK, PlacesFit, LateMeansFreed, VisitsCount, CarriesObject, ReturnsTheObject, FailsOnCount
<1> QED BY <1>1, <1>2, <1>3, <1>4, <1>5, <1>6, <1>7, <1>8, <1>9, <1>10, <1>11, <1>12, <1>13, <1>14 DEF Next, Relocating, Working

-----------------------------------------------------------------------------
\* The invariant holds in every behaviour.
THEOREM InvariantHolds == Spec => [](IInv /\ CopiesFit)
<1>1. Init => IInv /\ CopiesFit
  BY InitIInv, InitCopiesFit
<1>2. (IInv /\ CopiesFit) /\ [Next]_vars => (IInv /\ CopiesFit)'
  BY NextIInv, NextCopiesFit
<1> QED BY <1>1, <1>2, PTL DEF Spec

\* The count never drops below zero, and everything else keeps its type.
THEOREM TypeCorrect == Spec => []TypeOK
<1>1. IInv => TypeOK
  BY DEF IInv
<1> QED BY <1>1, InvariantHolds, PTL

\* forwarding_grab_page and forwarding_drop_page: the count is the number of
\* holders, and the page is freed once, when nobody holds it any more.
THEOREM PageIsFreedOnceUnheld == Spec => []FreedOnceUnheld
<1>1. IInv => FreedOnceUnheld
  BY DEF IInv
<1> QED BY <1>1, InvariantHolds, PTL

\* Nobody needs a page that is freed: every object is in the table and on
\* another page, whoever of the worker and the mutators put it there, and of
\* the GUARANTEEs only that about the number of entries can fail, when an
\* object was counted twice as it was marked.
THEOREM FreedPageIsLeft == Spec => []FreedPageIsEmpty
<1>1. ASSUME IInv, freed > 0, NEW k \in Objects PROVE map[k] \in Copies
  <2>1. freed # 0
    BY <1>1 DEF IInv, TypeOK
  <2>2. pc[Worker] = "end" /\ map[k] # None
    BY <1>1, <2>1, FreedMeansDone, FreedMeansFull DEF IInv
  <2> QED BY <1>1, <2>2 DEF IInv, VisitsCount, TypeOK
<1>2. IInv => FreedPageIsEmpty
  BY <1>1 DEF IInv, FreedPageIsEmpty, FailsOnCount
<1> QED BY <1>2, InvariantHolds, PTL

\* What the barrier returns is the object's one new place, and houses it.
THEOREM BarrierReturnsTheObject == Spec => []ReturnsTheObject
<1>1. IInv => ReturnsTheObject
  BY DEF IInv
<1> QED BY <1>1, InvariantHolds, PTL

-----------------------------------------------------------------------------
(* What a step may never do.                                               *)

\* forwarding_insert: the place of an object is decided once; whoever comes
\* later takes it as it is.
THEOREM PlaceIsFinal == Spec => [][\A k \in Objects : map[k] # None => map'[k] = map[k]]_vars
<1>1. IInv /\ [Next]_vars => [\A k \in Objects : map[k] # None => map'[k] = map[k]]_vars
  BY DEF Next, Relocating, Working, Grab, Visit, Find, CheckLive, ReadPinned, Allocate,
         AllocateFails, Copy, Insert, Pin, Drop, Verify, Release, IInv, TypeOK, vars
<1> QED BY <1>1, InvariantHolds, PTL DEF Spec

\* A page that has been freed stays so: it is not grabbed, freed or pinned
\* again, though mutators still come with references to it.
THEOREM FreedIsForGood ==
  Spec => [][freed = 1 => refs' = 0 /\ freed' = 1 /\ pinned' = pinned]_vars
<1>1. IInv /\ [Next]_vars => [freed = 1 => refs' = 0 /\ freed' = 1 /\ pinned' = pinned]_vars
  <2> SUFFICES ASSUME IInv, [Next]_vars, freed = 1
               PROVE  refs' = 0 /\ freed' = 1 /\ pinned' = pinned
    OBVIOUS
  <2>1. refs = 0 /\ pc[Worker] = "end" /\ pinned \in BOOLEAN
    BY FreedMeansDone DEF IInv, TypeOK
  <2>2. ASSUME NEW t \in Threads, Drop(t) PROVE FALSE
    <3>1. t \in Holders
      BY <2>2, RelocationAssumption DEF Drop, At, IInv, PlacesFit, Holders, Threads
    <3> QED BY <3>1, <2>1, HeldMeansMapped DEF IInv
  <2>3. ASSUME NEW t \in Threads, NEW k \in Objects, Grab(t, k)
        PROVE  refs' = 0 /\ freed' = 1 /\ pinned' = pinned
    BY <2>1, <2>3 DEF Grab
  <2>4. ASSUME NEW t \in Threads, Pin(t)
        PROVE  refs' = 0 /\ freed' = 1 /\ pinned' = pinned
    <3>1. to[t] # InPlace
      BY <2>1, <2>4 DEF Pin, At, IInv, TypeOK, ReturnsTheObject, VisitsCount
    <3> QED BY <2>1, <2>4, <3>1 DEF Pin
  <2>5. UNCHANGED page => refs' = 0 /\ freed' = 1 /\ pinned' = pinned
    BY <2>1 DEF page
  <2>6. UNCHANGED vars => UNCHANGED page
    BY DEF vars, page
  <2> QED BY <2>2, <2>3, <2>4, <2>5, <2>6
         DEF Next, Relocating, Working, Visit, Find, CheckLive, ReadPinned, Allocate,
             AllocateFails, Copy, Insert, Verify, Release
<1> QED BY <1>1, InvariantHolds, PTL DEF Spec
-----------------------------------------------------------------------------
(* The barrier implements the map.                                         *)

\* The place another object has is not the place an object is given.
LEMMA PlaceIsNew ==
  ASSUME TypeOK, CopiesFit, NEW t \in Threads, pc[t] = "insert", to[t] # None,
         map[obj[t]] = None, NEW l \in Objects
  PROVE  PlaceOf(l, map[l]) # PlaceOf(obj[t], to[t])
<1>1. obj[t] \in Objects /\ to[t] \in Copies \cup {InPlace} /\ map[l] \in Copies \cup {InPlace, None}
  BY DEF TypeOK
<1>2. CASE to[t] = InPlace
  BY <1>1, <1>2, RelocationAssumption DEF PlaceOf
<1>3. CASE to[t] \in Copies
  <2>1. to[t] # InPlace /\ map[l] # to[t]
    BY <1>3, RelocationAssumption DEF CopiesFit, InHand
  <2> QED BY <1>1, <1>3, <2>1, RelocationAssumption DEF PlaceOf
<1> QED BY <1>1, <1>2, <1>3

\* The state of the map.
Places == [k \in Objects |-> PlaceOf(k, map[k])]
Ops == [t \in Threads |-> IF pc[t] \in Resolving THEN "resolve"
                         ELSE IF pc[t] = "pin" THEN "done" ELSE "idle"]
Answers == [t \in Threads |-> IF pc[t] = "pin" THEN PlaceOf(obj[t], to[t]) ELSE None]

LEMMA MapInit == Init => Map!Init
<1> SUFFICES ASSUME Init PROVE Map!Init
  OBVIOUS
<1>1. [k \in Objects |-> PlaceOf(k, map[k])] = [k \in Objects |-> None]
  BY RelocationAssumption DEF Init, PlaceOf
<1>2. \A t \in Threads : pc[t] \notin Resolving /\ pc[t] # "pin"
  BY DEF Init, Resolving
<1> QED BY <1>1, <1>2 DEF Init, Map!Init

LEMMA MapNext == IInv /\ CopiesFit /\ [Next]_vars => [Map!Next]_(Map!vars)
<1> SUFFICES ASSUME IInv, CopiesFit, [Next]_vars PROVE [Map!Next]_(Map!vars)
  OBVIOUS
<1>0. TypeOK /\ CarriesObject /\ PlacesFit /\ ReturnsTheObject
  BY DEF IInv
<1>1. ASSUME NEW t \in Threads, NEW k \in Objects,
             Grab(t, k) \/ (Visit(k) /\ t = Worker)
      PROVE  Map!Begin(t, k, "resolve")
  <2>1. /\ pc[t] \in {"idle", "iterate"} /\ pc' = [pc EXCEPT ![t] = "find"]
        /\ obj' = [obj EXCEPT ![t] = k] /\ map' = map /\ to' = to
    BY <1>1 DEF Grab, Visit, At, Goto
  <2>2. Ops[t] = "idle" /\ Ops' = [Ops EXCEPT ![t] = "resolve"]
    BY <1>0, <2>1 DEF Ops, Resolving, TypeOK
  <2>3. Answers' = Answers /\ Places' = Places
    BY <1>0, <2>1 DEF Answers, Places, TypeOK
  <2> QED BY <2>1, <2>2, <2>3 DEF Map!Begin, Ops, Answers, Places
<1>2. ASSUME NEW t \in Threads, Find(t) \/ Insert(t), map[obj[t]] # None
      PROVE  Map!Agree(t)
  <2>1. /\ pc[t] \in {"find", "insert"} /\ pc' = [pc EXCEPT ![t] = "pin"]
        /\ to' = [to EXCEPT ![t] = map[obj[t]]] /\ map' = map /\ obj' = obj
        /\ obj[t] \in Objects
    BY <1>0, <1>2 DEF Find, Insert, At, Goto, TypeOK
  <2>2. Ops[t] = "resolve" /\ Ops' = [Ops EXCEPT ![t] = "done"]
    BY <1>0, <2>1 DEF Ops, Resolving, TypeOK
  <2>3. Answers' = [Answers EXCEPT ![t] = Places[obj[t]]] /\ Places' = Places
    BY <1>0, <2>1 DEF Answers, Places, TypeOK
  <2>4. Places[obj[t]] # None
    BY <1>2, <2>1, RelocationAssumption DEF Places, PlaceOf
  <2> QED BY <2>1, <2>2, <2>3, <2>4 DEF Map!Agree, Ops, Answers, Places
<1>3. ASSUME NEW t \in Threads, Insert(t), map[obj[t]] = None
      PROVE  \E v \in Copies \cup {[k \in Objects |-> k][obj[t]]} : Map!Decide(t, v)
  <2>1. /\ pc[t] = "insert" /\ pc' = [pc EXCEPT ![t] = "pin"] /\ to[t] # None
        /\ map' = [map EXCEPT ![obj[t]] = to[t]] /\ to' = to /\ obj' = obj
        /\ obj[t] \in Objects
    BY <1>0, <1>3 DEF Insert, At, Goto, TypeOK, CarriesObject
  <2>0. PICK v : v = PlaceOf(obj[t], to[t])
    OBVIOUS
  <2>2. Ops[t] = "resolve" /\ Ops' = [Ops EXCEPT ![t] = "done"]
    BY <1>0, <2>1 DEF Ops, Resolving, TypeOK
  <2>3. Answers' = [Answers EXCEPT ![t] = v]
    BY <1>0, <2>0, <2>1 DEF Answers, TypeOK
  <2>4. Places' = [Places EXCEPT ![obj[t]] = v]
    BY <1>0, <2>0, <2>1 DEF Places, TypeOK
  <2>5. Places[obj[t]] = None
    BY <1>3, <2>1, RelocationAssumption DEF Places, PlaceOf
  <2>6. \A l \in Objects : Places[l] # v
    BY <1>0, <1>3, <2>0, <2>1, PlaceIsNew DEF Places
  <2>7. v \in Copies \cup {[k \in Objects |-> k][obj[t]]}
    BY <1>0, <2>0, <2>1 DEF PlaceOf, TypeOK
  <2>8. Map!Decide(t, v)
    BY <2>1, <2>2, <2>3, <2>4, <2>5, <2>6 DEF Map!Decide, Ops, Answers, Places
  <2> QED BY <2>7, <2>8
<1>4. ASSUME NEW t \in Threads, Pin(t) PROVE Map!Return(t)
  <2>1. /\ pc[t] = "pin" /\ map' = map /\ to' = to /\ obj' = obj
        /\ \E l \in {"iterate", "drop", "idle"} : pc' = [pc EXCEPT ![t] = l]
    BY <1>4 DEF Pin, At, Goto
  <2>2. Ops[t] = "done" /\ Ops' = [Ops EXCEPT ![t] = "idle"]
    BY <1>0, <2>1 DEF Ops, Resolving, TypeOK
  <2>3. Answers' = [Answers EXCEPT ![t] = None] /\ Places' = Places
    BY <1>0, <2>1 DEF Answers, Places, TypeOK
  <2> QED BY <2>1, <2>2, <2>3 DEF Map!Return, Ops, Answers, Places
<1>5. ASSUME NEW t \in Threads,
             \/ Find(t) /\ map[obj[t]] = None
             \/ CheckLive(t) \/ ReadPinned(t) \/ AllocateFails(t) \/ Copy(t)
             \/ \E c \in Copies : Allocate(t, c)
      PROVE  UNCHANGED Map!vars
  <2>1. /\ pc[t] \in Resolving /\ map' = map /\ obj' = obj
        /\ \E l \in Resolving : pc' = [pc EXCEPT ![t] = l]
        /\ \A u \in Threads \ {t} : to'[u] = to[u]
    BY <1>0, <1>5 DEF Find, CheckLive, ReadPinned, AllocateFails, Copy, Allocate, At, Goto,
                      Resolving, TypeOK
  <2>2. Ops' = Ops /\ Answers' = Answers /\ Places' = Places
    BY <1>0, <2>1 DEF Ops, Answers, Places, Resolving, TypeOK
  <2> QED BY <2>1, <2>2 DEF Map!vars, Ops, Answers, Places
<1>6. ASSUME NEW t \in Threads, Drop(t) \/ (t = Worker /\ (Verify \/ Release))
      PROVE  UNCHANGED Map!vars
  <2>1. /\ pc[t] \in {"drop", "iterate", "verified"}
        /\ map' = map /\ obj' = obj /\ to' = to
        /\ \E l \in {"end", "idle", "verified", "kept", "drop"} : pc' = [pc EXCEPT ![t] = l]
    BY <1>6 DEF Drop, Verify, Release, At, Goto
  <2>2. Ops' = Ops /\ Answers' = Answers /\ Places' = Places
    BY <1>0, <2>1 DEF Ops, Answers, Places, Resolving, TypeOK
  <2> QED BY <2>1, <2>2 DEF Map!vars, Ops, Answers, Places
<1>7. CASE UNCHANGED vars
  BY <1>7 DEF vars, Map!vars
<1>8. ASSUME Working PROVE [Map!Next]_(Map!vars)
  <2>1. Worker \in Threads
    BY DEF Threads
  <2> QED BY <1>1, <1>6, <1>8, <2>1 DEF Working, Map!Next
<1>9. ASSUME NEW t \in Threads, Relocating(t) PROVE [Map!Next]_(Map!vars)
  <2>1. CASE Insert(t) /\ map[obj[t]] = None
    BY <1>3, <2>1, Zenon DEF Map!Next
  <2>2. CASE (Find(t) \/ Insert(t)) /\ map[obj[t]] # None
    BY <1>2, <2>2 DEF Map!Next
  <2>3. CASE Pin(t)
    BY <1>4, <2>3 DEF Map!Next
  <2>4. CASE Drop(t)
    BY <1>6, <2>4
  <2>5. CASE \/ Find(t) /\ map[obj[t]] = None
             \/ CheckLive(t) \/ ReadPinned(t) \/ AllocateFails(t) \/ Copy(t)
             \/ \E c \in Copies : Allocate(t, c)
    BY <1>5, <2>5
  <2> QED BY <1>9, <2>1, <2>2, <2>3, <2>4, <2>5 DEF Relocating
<1> QED BY <1>1, <1>7, <1>8, <1>9 DEF Next, Map!Next

\* Relocation of a page is a linearizable map from objects to their places:
\* every step of a barrier or of the worker is an atomic decision, agreement,
\* begin or return of ForwardingMap, or invisible there.
THEOREM BarrierImplementsMap == Spec => ImplementsMap
<1>1. (IInv /\ CopiesFit) /\ [Next]_vars => [Map!Next]_(Map!vars)
  BY MapNext
<1> QED BY <1>1, InvariantHolds, MapInit, PTL DEF Spec, ImplementsMap, Map!Spec
=============================================================================
