-------------------------- MODULE ForwardingProofs --------------------------
(***************************************************************************)
(* Proofs about Forwarding for every number of threads, every table and    *)
(* every hash.  The safety results need one hypothesis the code does not   *)
(* establish for medium pages: that an object's index fits the bit field    *)
(* from_index of a forwarding_entry.                                       *)
(***************************************************************************)
EXTENDS Forwarding, FiniteSetTheorems, TLAPS

IndexesFit == \A k \in Indexes : Stored(k) = k

Full(p) == entries[p] # Empty

Inserting(t) == pc[t] \in {"insert", "scan"}
Searching(t) == pc[t] \in {"find", "offer", "insert", "scan"}

\* Only a resolve goes past find, and a thread that is about to insert has
\* something to insert.
OfferOK == \A t \in Threads :
  /\ pc[t] \in {"offer", "insert", "scan"} => op[t] = "resolve"
  /\ Inserting(t) => offset[t] \in AllOffsets

\* An entry sits on the probe sequence of its own index, behind nothing but
\* populated entries: whoever looks for the index gets there.
Chained(k, n) == \A m \in 0 .. n - 1 : Full(Slot(k, m))

ChainOK ==
  \A p \in Slots : Full(p) =>
    \E k \in Indexes, n \in Nat :
      entries[p].from = k /\ p = Slot(k, n) /\ Chained(k, n)

\* What a thread has probed is populated, by other indexes.
Probed(t, m) ==
  Full(Slot(key[t], m)) /\ entries[Slot(key[t], m)].from # key[t]

SearchOK ==
  \A t \in Threads : Searching(t) => \A m \in 0 .. probe[t] - 1 : Probed(t, m)

\* A new offset belongs to one entry or to one thread that still carries it.
OwnerOK ==
  /\ \A p \in Slots : Full(p) =>
       entries[p].to \in taken \/ entries[p].to = InPlace[entries[p].from]
  /\ \A t \in Threads : Inserting(t) =>
       /\ offset[t] \in taken \/ offset[t] = InPlace[key[t]]
       /\ offset[t] \in taken => \A p \in Slots : Full(p) => entries[p].to # offset[t]
       /\ offset[t] \in taken => \A u \in Threads \ {t} :
            Inserting(u) => offset[u] # offset[t]

TypeInv == TypeOK /\ OfferOK

IInv == /\ TypeInv /\ ChainOK /\ SearchOK /\ OwnerOK
        /\ NoDuplicateFrom /\ NoDuplicateTo /\ ResolversAgree

-----------------------------------------------------------------------------
LEMMA SlotType ==
  ASSUME NEW k \in Indexes, NEW n \in Nat
  PROVE  Slot(k, n) \in Slots
BY ForwardingAssumption DEF Slot, Slots

LEMMA StoredType == \A k \in Indexes : Stored(k) \in Nat
BY ForwardingAssumption DEF Stored

LEMMA EntryType ==
  ASSUME TypeOK, NEW p \in Slots, Full(p)
  PROVE  entries[p] \in Entries /\ entries[p].from \in Nat /\ entries[p].to \in AllOffsets
BY DEF TypeOK, Full, Entries, AllOffsets

LEMMA TypeInit == Init => TypeInv
BY ForwardingAssumption DEF Init, TypeInv, TypeOK, OfferOK, Inserting, PCs, AllOffsets

LEMMA TypeNext == TypeInv /\ [Next]_vars => TypeInv'
<1> SUFFICES ASSUME TypeInv, [Next]_vars PROVE TypeInv'
  OBVIOUS
<1> USE DEF TypeInv, TypeOK, OfferOK, Inserting, PCs
<1>1. CASE UNCHANGED vars
  BY <1>1 DEF vars
<1>2. ASSUME NEW t \in Threads, NEW k \in Indexes, NEW o \in {"resolve", "lookup"},
             Begin(t, k, o)
      PROVE TypeInv'
  BY <1>2 DEF Begin
<1>3. ASSUME NEW t \in Threads, Match(t) PROVE TypeInv'
  <2>1. Slot(key[t], probe[t]) \in Slots
    BY SlotType
  <2>2. At(t).to \in AllOffsets
    BY <1>3, <2>1, EntryType DEF Match, At, Full
  <2> QED BY <1>3, <2>2 DEF Match, Finish
<1>4. ASSUME NEW t \in Threads, Advance(t) PROVE TypeInv'
  BY <1>4 DEF Advance
<1>5. ASSUME NEW t \in Threads, FindMiss(t) PROVE TypeInv'
  BY <1>5 DEF FindMiss, Finish
<1>6. ASSUME NEW t \in Threads, NEW v \in Offsets \cup {InPlace[key[t]]}, Offer(t, v)
      PROVE TypeInv'
  BY <1>6 DEF Offer, AllOffsets
<1>7. ASSUME NEW t \in Threads, InsertWins(t) PROVE TypeInv'
  <2>1. [from |-> Stored(key[t]), to |-> offset[t]] \in Entries
    BY <1>7, StoredType DEF InsertWins, Entries, AllOffsets
  <2> QED BY <1>7, <2>1 DEF InsertWins, Finish
<1>8. ASSUME NEW t \in Threads, InsertLoses(t) PROVE TypeInv'
  BY <1>8 DEF InsertLoses
<1>9. ASSUME NEW t \in Threads, ScanEmpty(t) PROVE TypeInv'
  BY <1>9 DEF ScanEmpty
<1>10. ASSUME NEW t \in Threads, Return(t) PROVE TypeInv'
  BY <1>10 DEF Return
<1> QED BY <1>1, <1>2, <1>3, <1>4, <1>5, <1>6, <1>7, <1>8, <1>9, <1>10
        DEF Next, Step, FindHit, FindNext, ScanHit, ScanNext

\* Type correctness, whatever an index loses in its bit field.
THEOREM TypeCorrect == Spec => []TypeOK
<1>1. TypeInv => TypeOK
  BY DEF TypeInv
<1> QED BY TypeInit, TypeNext, <1>1, PTL DEF Spec

-----------------------------------------------------------------------------
\* What a step does to the table: nothing, or one compare-and-swap.
LEMMA TableStep ==
  ASSUME [Next]_vars
  PROVE  entries' = entries \/ \E t \in Threads : InsertWins(t)
BY DEF Next, Step, vars, Begin, FindHit, FindNext, FindMiss, Offer, InsertLoses, ScanHit,
       ScanNext, ScanEmpty, Return, Match, Advance

LEMMA Inserted ==
  ASSUME TypeInv, NEW t \in Threads, InsertWins(t), NEW s, s = Slot(key[t], probe[t])
  PROVE  /\ s \in Slots /\ ~Full(s) /\ Full(s)'
         /\ entries'[s].from = Stored(key[t])
         /\ entries'[s].to = offset[t]
         /\ \A p \in Slots : p # s => entries'[p] = entries[p]
<1> DEFINE e == [from |-> Stored(key[t]), to |-> offset[t]]
<1>1. s \in Slots
  BY SlotType DEF TypeInv, TypeOK
<1>2. e \in Entries
  BY StoredType DEF InsertWins, Entries, AllOffsets, TypeInv, TypeOK, OfferOK, Inserting
<1>3. e.from = Stored(key[t]) /\ e.to = offset[t]
  OBVIOUS
<1>4. entries' = [entries EXCEPT ![s] = e] /\ entries[s] = Empty
  BY DEF InsertWins, At
<1> HIDE DEF e
<1> QED BY <1>1, <1>2, <1>3, <1>4, ForwardingAssumption DEF Full, TypeInv, TypeOK

\* "Each entry is at most updated once" (the comment in forwarding_find).
LEMMA EntriesStay ==
  ASSUME TypeInv, [Next]_vars, NEW p \in Slots, Full(p)
  PROVE  entries'[p] = entries[p] /\ Full(p)'
<1>1. CASE entries' = entries
  BY <1>1 DEF Full
<1>2. ASSUME NEW t \in Threads, InsertWins(t) PROVE entries'[p] = entries[p]
  BY <1>2, Inserted
<1> QED BY <1>1, <1>2, TableStep DEF Full

\* Who gets to an empty entry, to report a miss or to win the
\* compare-and-swap, has not overlooked its index.
LEMMA NotThere ==
  ASSUME IndexesFit, TypeInv, ChainOK, SearchOK, NEW t \in Threads, Searching(t),
         At(t) = Empty, NEW q \in Slots, Full(q)
  PROVE  entries[q].from # key[t]
<1> SUFFICES ASSUME entries[q].from = key[t] PROVE FALSE
  OBVIOUS
<1>1. PICK n \in Nat : q = Slot(key[t], n) /\ Chained(key[t], n)
  BY DEF ChainOK
<1>2. probe[t] \in Nat
  BY DEF TypeInv, TypeOK
<1>3. ~Full(Slot(key[t], probe[t]))
  BY DEF At, Full
<1>4. \A m \in 0 .. probe[t] - 1 : entries[Slot(key[t], m)].from # key[t]
  BY DEF Probed, SearchOK
<1>5. CASE n < probe[t]
  BY <1>1, <1>2, <1>4, <1>5
<1>6. CASE n = probe[t]
  BY <1>1, <1>3, <1>6
<1>7. CASE n > probe[t]
  BY <1>1, <1>2, <1>3, <1>7 DEF Chained
<1> QED BY <1>2, <1>5, <1>6, <1>7

LEMMA ChainedStays ==
  ASSUME TypeInv, [Next]_vars, NEW k \in Indexes, NEW n \in Nat, Chained(k, n)
  PROVE  Chained(k, n)'
<1> SUFFICES ASSUME NEW m \in 0 .. n - 1 PROVE Full(Slot(k, m))'
  BY DEF Chained
<1>1. Full(Slot(k, m)) /\ Slot(k, m) \in Slots
  BY SlotType DEF Chained
<1> QED BY <1>1, EntriesStay DEF Full, Slot

LEMMA ChainNext ==
  ASSUME IndexesFit, TypeInv, ChainOK, SearchOK, [Next]_vars
  PROVE  ChainOK'
<1> SUFFICES ASSUME NEW p \in Slots, Full(p)'
             PROVE  (\E k \in Indexes, n \in Nat :
                       entries[p].from = k /\ p = Slot(k, n) /\ Chained(k, n))'
  BY DEF ChainOK, Slots
<1>1. CASE Full(p)
  <2>1. PICK k \in Indexes, n \in Nat :
               entries[p].from = k /\ p = Slot(k, n) /\ Chained(k, n)
    BY <1>1 DEF ChainOK
  <2>2. entries'[p].from = k /\ Chained(k, n)'
    BY <1>1, <2>1, EntriesStay, ChainedStays
  <2> QED BY <2>1, <2>2 DEF Slot
<1>2. CASE ~Full(p)
  <2>1. PICK t \in Threads : InsertWins(t)
    BY <1>2, TableStep DEF Full
  <2>2. PICK k \in Indexes, n \in Nat : k = key[t] /\ n = probe[t] /\ Stored(k) = k
    BY DEF TypeInv, TypeOK, IndexesFit
  <2>3. p = Slot(k, n) /\ entries'[p].from = k
    BY <1>2, <2>1, <2>2, Inserted DEF Full
  <2>4. Chained(k, n)
    BY <2>1, <2>2 DEF SearchOK, Searching, InsertWins, Chained, Probed
  <2>5. Chained(k, n)'
    BY <2>4, ChainedStays
  <2> QED BY <2>3, <2>5 DEF Slot
<1> QED BY <1>1, <1>2

\* How a step moves the search of a thread.
LEMMA SearchStep ==
  ASSUME TypeInv, [Next]_vars, NEW t \in Threads, Searching(t)'
  PROVE  \/ Searching(t) /\ key'[t] = key[t] /\ probe'[t] = probe[t]
         \/ probe'[t] = 0
         \/ Searching(t) /\ Advance(t)
<1> USE DEF TypeInv, TypeOK, Searching
<1> DEFINE Goal == \/ Searching(t) /\ key'[t] = key[t] /\ probe'[t] = probe[t]
                   \/ probe'[t] = 0
                   \/ Searching(t) /\ Advance(t)
<1>1. CASE UNCHANGED vars
  BY <1>1 DEF vars
<1>2. ASSUME NEW u \in Threads, NEW k \in Indexes, NEW o \in {"resolve", "lookup"},
             Begin(u, k, o)
      PROVE Goal
  BY <1>2 DEF Begin
<1>3. ASSUME NEW u \in Threads, Step(u) PROVE Goal
  <2>1. CASE Match(u)
    BY <2>1 DEF Match, Finish
  <2>2. CASE (FindNext(u) \/ ScanNext(u)) /\ t = u
    BY <2>2 DEF FindNext, ScanNext
  <2>3. CASE (FindNext(u) \/ ScanNext(u)) /\ t # u
    BY <2>3 DEF FindNext, ScanNext, Advance
  <2>4. CASE FindMiss(u)
    BY <2>4 DEF FindMiss, Finish
  <2>5. CASE InsertWins(u)
    BY <2>5 DEF InsertWins, Finish
  <2>6. CASE InsertLoses(u) \/ ScanEmpty(u) \/ \E v \in Offsets \cup {InPlace[key[u]]} : Offer(u, v)
    BY <2>6 DEF InsertLoses, ScanEmpty, Offer
  <2> QED BY <1>3, <2>1, <2>2, <2>3, <2>4, <2>5, <2>6 DEF Step, FindHit, ScanHit
<1>4. ASSUME NEW u \in Threads, Return(u) PROVE Goal
  BY <1>4 DEF Return
<1> QED BY <1>1, <1>2, <1>3, <1>4 DEF Next

LEMMA SearchNext ==
  ASSUME TypeInv, SearchOK, [Next]_vars
  PROVE  SearchOK'
<1> SUFFICES ASSUME NEW t \in Threads, Searching(t)', NEW m \in (0 .. probe[t] - 1)'
             PROVE  Probed(t, m)'
  BY DEF SearchOK
<1>t. key[t] \in Indexes /\ probe[t] \in Nat
  BY DEF TypeInv, TypeOK
<1>1. CASE Searching(t) /\ key'[t] = key[t] /\ probe'[t] = probe[t]
  <2>1. Probed(t, m)
    BY <1>1, <1>t DEF SearchOK
  <2>2. Slot(key[t], m) \in Slots
    BY <1>1, <1>t, SlotType
  <2> QED BY <1>1, <2>1, <2>2, EntriesStay DEF Probed, Full, Slot
<1>2. CASE probe'[t] = 0
  BY <1>2
<1>3. CASE Searching(t) /\ Advance(t)
  <2>1. probe'[t] = probe[t] + 1 /\ key'[t] = key[t] /\ entries' = entries
    BY <1>3 DEF Advance, TypeInv, TypeOK
  <2>2. m \in 0 .. probe[t] - 1 \/ m = probe[t]
    BY <1>t, <2>1
  <2>3. Probed(t, m)
    BY <1>3, <2>2 DEF SearchOK, Advance, At, Probed, Full
  <2> QED BY <2>1, <2>3 DEF Probed, Full, Slot
<1> QED BY <1>1, <1>2, <1>3, SearchStep

-----------------------------------------------------------------------------
LEMMA DuplicateFromNext ==
  ASSUME IndexesFit, TypeInv, ChainOK, SearchOK, NoDuplicateFrom, [Next]_vars
  PROVE  NoDuplicateFrom'
<1>1. CASE entries' = entries
  BY <1>1 DEF NoDuplicateFrom, Slots
<1>2. ASSUME NEW t \in Threads, InsertWins(t) PROVE NoDuplicateFrom'
  <2> DEFINE s == Slot(key[t], probe[t])
  <2>1. entries'[s].from = key[t]
    BY <1>2, Inserted DEF TypeInv, TypeOK, IndexesFit
  <2>2. \A p \in Slots : p # s /\ entries'[p] # Empty =>
          entries'[p] = entries[p] /\ entries[p] # Empty /\ entries[p].from # key[t]
    BY <1>2, Inserted, NotThere DEF Full, InsertWins, Searching
  <2> HIDE DEF s
  <2> QED BY <2>1, <2>2 DEF NoDuplicateFrom, Slots
<1> QED BY <1>1, <1>2, TableStep

LEMMA DuplicateToNext ==
  ASSUME IndexesFit, TypeInv, ChainOK, SearchOK, OwnerOK, NoDuplicateTo, [Next]_vars
  PROVE  NoDuplicateTo'
<1>1. CASE entries' = entries
  BY <1>1 DEF NoDuplicateTo, Slots
<1>2. ASSUME NEW t \in Threads, InsertWins(t) PROVE NoDuplicateTo'
  <2> DEFINE s == Slot(key[t], probe[t])
  <2>1. entries'[s].to = offset[t]
    BY <1>2, Inserted
  <2>2. ASSUME NEW p \in Slots, Full(p) PROVE entries[p].to # offset[t]
    <3>1. CASE offset[t] \in taken
      BY <1>2, <2>2, <3>1 DEF OwnerOK, Inserting, InsertWins
    <3>2. CASE offset[t] \notin taken
      <4>1. offset[t] = InPlace[key[t]] /\ key[t] \in Indexes
        BY <1>2, <3>2 DEF OwnerOK, Inserting, InsertWins, TypeInv, TypeOK
      <4>2. entries[p].from # key[t] /\ entries[p].from \in Indexes
        BY <1>2, <2>2, NotThere DEF ChainOK, InsertWins, Searching
      <4>3. entries[p].to = InPlace[entries[p].from] \/ entries[p].to \in Offsets
        BY <2>2 DEF OwnerOK, TypeInv, TypeOK
      <4> QED BY <4>1, <4>2, <4>3, OffsetsAssumption
    <3> QED BY <3>1, <3>2
  <2>3. \A p \in Slots : p # s /\ entries'[p] # Empty =>
          entries'[p] = entries[p] /\ entries[p].to # offset[t] /\ entries[p] # Empty
    BY <1>2, <2>2, Inserted DEF Full
  <2> HIDE DEF s
  <2> QED BY <2>1, <2>3 DEF NoDuplicateTo, Slots
<1> QED BY <1>1, <1>2, TableStep

\* A new offset is taken before it is in the table.
LEMMA OwnerNext ==
  ASSUME IndexesFit, TypeInv, ChainOK, SearchOK, OwnerOK, [Next]_vars
  PROVE  OwnerOK'
<1> USE DEF TypeInv, TypeOK, Inserting
<1>0. \A k \in Indexes : InPlace[k] \notin taken
  BY OffsetsAssumption
<1> DEFINE Quiet ==
      /\ entries' = entries /\ taken' = taken
      /\ \A u \in Threads : Inserting(u)' =>
           Inserting(u) /\ offset'[u] = offset[u] /\ key'[u] = key[u]
<1>1. CASE Quiet
  BY <1>1 DEF OwnerOK, Full, Slots
<1>2. ASSUME NEW t \in Threads, NEW v \in Offsets \cup {InPlace[key[t]]}, Offer(t, v)
      PROVE OwnerOK'
  <2>1. entries' = entries /\ key' = key /\ offset' = [offset EXCEPT ![t] = v]
        /\ pc' = [pc EXCEPT ![t] = "insert"] /\ v \notin taken
    BY <1>2 DEF Offer
  <2>2. taken' = taken \cup (Offsets \cap {v})
    BY <1>2 DEF Offer
  <2>3. v \in taken' \/ v = InPlace[key[t]]
    BY <2>2
  <2>4. ASSUME NEW p \in Slots, Full(p), v \in Offsets PROVE entries[p].to # v
    BY <2>1, <2>4, OffsetsAssumption DEF OwnerOK, ChainOK
  <2>5. ASSUME NEW u \in Threads \ {t}, Inserting(u), v \in Offsets PROVE offset[u] # v
    BY <2>1, <2>5, OffsetsAssumption DEF OwnerOK
  <2>6. ASSUME NEW u \in Threads, Inserting(u)', offset'[u] \in taken'
        PROVE  /\ \A p \in Slots : Full(p)' => entries'[p].to # offset'[u]
               /\ \A w \in Threads \ {u} : Inserting(w)' => offset'[w] # offset'[u]
    <3>1. CASE u = t
      <4>1. offset'[u] = v /\ v \in Offsets
        BY <2>1, <2>2, <2>6, <3>1
      <4> QED BY <2>1, <2>4, <2>5, <3>1, <4>1 DEF Full
    <3>2. CASE u # t
      <4>1. Inserting(u) /\ offset'[u] = offset[u]
        BY <2>1, <2>6, <3>2
      <4>2. CASE v \in Offsets
        <5>1. offset[u] # v
          BY <2>5, <3>2, <4>1, <4>2
        <5>2. offset[u] \in taken
          BY <2>2, <2>6, <4>1, <5>1
        <5> QED BY <2>1, <4>1, <5>1, <5>2 DEF OwnerOK, Full
      <4>3. CASE v \notin Offsets
        <5>1. taken' = taken /\ v = InPlace[key[t]]
          BY <2>2, <4>3
        <5>2. offset[u] # v
          BY <1>0, <2>6, <4>1, <5>1
        <5> QED BY <2>1, <2>6, <4>1, <5>1, <5>2 DEF OwnerOK, Full
      <4> QED BY <4>2, <4>3
    <3> QED BY <3>1, <3>2
  <2>7. \A u \in Threads : Inserting(u)' =>
          offset'[u] \in taken' \/ offset'[u] = InPlace[key'[u]]
    BY <2>1, <2>2, <2>3 DEF OwnerOK
  <2>8. \A p \in Slots : Full(p)' =>
          entries'[p].to \in taken' \/ entries'[p].to = InPlace[entries'[p].from]
    BY <2>1, <2>2 DEF OwnerOK, Full
  <2> QED BY <2>6, <2>7, <2>8 DEF OwnerOK, Slots
<1>3. ASSUME NEW t \in Threads, InsertWins(t) PROVE OwnerOK'
  <2> DEFINE s == Slot(key[t], probe[t])
  <2>1. /\ entries'[s].to = offset[t] /\ entries'[s].from = key[t]
        /\ \A p \in Slots : p # s => entries'[p] = entries[p]
    BY <1>3, Inserted DEF IndexesFit
  <2>2. /\ taken' = taken /\ offset' = offset /\ key' = key
        /\ \A u \in Threads : Inserting(u)' => Inserting(u) /\ u # t
    BY <1>3 DEF InsertWins, Finish
  <2>3. Inserting(t)
    BY <1>3 DEF InsertWins
  <2> HIDE DEF s
  <2>4. \A p \in Slots : Full(p)' =>
          entries'[p].to \in taken \/ entries'[p].to = InPlace[entries'[p].from]
    BY <2>1, <2>3 DEF OwnerOK, Full
  <2>5. ASSUME NEW u \in Threads, Inserting(u), u # t, offset[u] \in taken,
               NEW p \in Slots, Full(p)'
        PROVE entries'[p].to # offset[u]
    BY <2>1, <2>3, <2>5 DEF OwnerOK, Full
  <2> QED BY <2>2, <2>4, <2>5 DEF OwnerOK, Slots
<1>4. \/ Quiet
      \/ \E t \in Threads : InsertWins(t)
      \/ \E t \in Threads : \E v \in Offsets \cup {InPlace[key[t]]} : Offer(t, v)
  <2>1. CASE UNCHANGED vars
    BY <2>1 DEF vars
  <2>2. ASSUME NEW t \in Threads,
               \/ \E k \in Indexes, o \in {"resolve", "lookup"} : Begin(t, k, o)
               \/ Return(t)
        PROVE Quiet
    BY <2>2 DEF Begin, Return
  <2>3. ASSUME NEW t \in Threads,
               \/ FindHit(t) \/ FindNext(t) \/ FindMiss(t)
               \/ InsertLoses(t) \/ ScanHit(t) \/ ScanNext(t) \/ ScanEmpty(t)
        PROVE Quiet
    BY <2>3 DEF FindHit, FindNext, FindMiss, InsertLoses, ScanHit, ScanNext, ScanEmpty,
                Match, Advance, Finish
  <2> QED BY <2>1, <2>2, <2>3 DEF Next, Step
<1> QED BY <1>1, <1>2, <1>3, <1>4

LEMMA ResolversNext ==
  ASSUME IndexesFit, TypeInv, ResolversAgree, [Next]_vars
  PROVE  ResolversAgree'
<1> USE DEF TypeInv, TypeOK
<1> SUFFICES ASSUME NEW t \in Threads, pc'[t] = "done", op'[t] = "resolve"
             PROVE  \E p \in Slots : Full(p)' /\ entries'[p].from = key'[t]
                                             /\ entries'[p].to = result'[t]
  BY DEF ResolversAgree, Full, Slots
<1>1. CASE /\ pc[t] = "done" /\ op[t] = "resolve"
           /\ key'[t] = key[t] /\ result'[t] = result[t]
  <2>1. PICK p \in Slots : Full(p) /\ entries[p].from = key[t] /\ entries[p].to = result[t]
    BY <1>1 DEF ResolversAgree, Full
  <2> QED BY <1>1, <2>1, EntriesStay
<1>2. CASE Match(t)
  <2>1. Slot(key[t], probe[t]) \in Slots
    BY SlotType
  <2> QED BY <1>2, <2>1 DEF Match, At, Finish, Full
<1>3. CASE InsertWins(t)
  <2>1. PICK s \in Slots : s = Slot(key[t], probe[t])
    BY SlotType
  <2>2. Full(s)' /\ entries'[s].from = Stored(key[t]) /\ entries'[s].to = offset[t]
    BY <1>3, <2>1, Inserted
  <2>3. Stored(key[t]) = key[t]
    BY DEF IndexesFit
  <2>4. key'[t] = key[t] /\ result'[t] = offset[t]
    BY <1>3 DEF InsertWins, Finish
  <2> QED BY <2>2, <2>3, <2>4
<1>4. \/ /\ pc[t] = "done" /\ op[t] = "resolve"
         /\ key'[t] = key[t] /\ result'[t] = result[t]
      \/ Match(t) \/ InsertWins(t)
  <2> DEFINE Goal == \/ /\ pc[t] = "done" /\ op[t] = "resolve"
                        /\ key'[t] = key[t] /\ result'[t] = result[t]
                     \/ Match(t) \/ InsertWins(t)
  <2>1. CASE UNCHANGED vars
    BY <2>1 DEF vars
  <2>2. ASSUME NEW u \in Threads,
               \/ \E k \in Indexes, o \in {"resolve", "lookup"} : Begin(u, k, o)
               \/ Return(u)
        PROVE Goal
    BY <2>2 DEF Begin, Return
  <2>3. ASSUME NEW u \in Threads, Match(u) \/ InsertWins(u) PROVE Goal
    <3>1. CASE u = t
      BY <2>3, <3>1
    <3>2. CASE u # t
      BY <2>3, <3>2 DEF Match, InsertWins, Finish
    <3> QED BY <3>1, <3>2
  <2>4. ASSUME NEW u \in Threads,
               \/ FindNext(u) \/ ScanNext(u) \/ InsertLoses(u) \/ ScanEmpty(u)
               \/ \E v \in Offsets \cup {InPlace[key[u]]} : Offer(u, v)
        PROVE Goal
    BY <2>4 DEF FindNext, ScanNext, InsertLoses, ScanEmpty, Offer, Advance
  <2>5. ASSUME NEW u \in Threads, FindMiss(u) PROVE Goal
    BY <2>5 DEF FindMiss, Finish
  <2> QED BY <2>1, <2>2, <2>3, <2>4, <2>5 DEF Next, Step, FindHit, ScanHit
<1> QED BY <1>1, <1>2, <1>3, <1>4

LEMMA InvInit == Init => IInv
<1> SUFFICES ASSUME Init PROVE IInv
  OBVIOUS
<1>1. TypeInv
  BY TypeInit
<1>2. \A p \in Slots : ~Full(p)
  BY DEF Init, Full
<1>3. \A t \in Threads : pc[t] = "idle"
  BY DEF Init
<1> QED BY <1>1, <1>2, <1>3 DEF IInv, ChainOK, SearchOK, OwnerOK, NoDuplicateFrom,
           NoDuplicateTo, ResolversAgree, Searching, Inserting, Full

LEMMA InvNext ==
  ASSUME IndexesFit
  PROVE  IInv /\ [Next]_vars => IInv'
BY TypeNext, ChainNext, SearchNext, OwnerNext, DuplicateFromNext, DuplicateToNext,
   ResolversNext DEF IInv

LEMMA InvAlways ==
  ASSUME IndexesFit
  PROVE  Spec => []IInv
<1>1. IInv /\ [Next]_vars => IInv'
  BY InvNext
<1> QED BY InvInit, <1>1, PTL DEF Spec

\* However many threads insert into however full a table, an object gets one
\* entry (the GUARANTEE "Duplicated from index" of forwarding_verify), when its
\* index fits the field.
THEOREM OneEntryPerObject ==
  ASSUME IndexesFit
  PROVE  Spec => []NoDuplicateFrom
<1>1. IInv => NoDuplicateFrom
  BY DEF IInv
<1> QED BY InvAlways, <1>1, PTL

\* No two objects are relocated to one place (the GUARANTEE "Duplicated to
\* offset"), in-place relocations included.
THEOREM OneObjectPerOffset ==
  ASSUME IndexesFit
  PROVE  Spec => []NoDuplicateTo
<1>1. IInv => NoDuplicateTo
  BY DEF IInv
<1> QED BY InvAlways, <1>1, PTL

\* Objects and new offsets stand one to one in the table: the two GUARANTEEs
\* of forwarding_verify together.
THEOREM OneToOne ==
  ASSUME IndexesFit
  PROVE  Spec => []NoDuplicates
<1>1. IInv => NoDuplicates
  BY DEF IInv, NoDuplicates
<1> QED BY InvAlways, <1>1, PTL

\* The winner and the losers of the race to relocate an object all return the
\* one offset that is in the table.
THEOREM EverybodyAgrees ==
  ASSUME IndexesFit
  PROVE  Spec => []ResolversAgree
<1>1. IInv => ResolversAgree
  BY DEF IInv
<1> QED BY InvAlways, <1>1, PTL

-----------------------------------------------------------------------------
\* The map a table stands for.
LEMMA MapHit ==
  ASSUME NoDuplicateFrom, NEW k \in Indexes, NEW p \in Slots, Holds(k, p)
  PROVE  MapOf[k] = entries[p].to
<1>1. (CHOOSE q \in Slots : Holds(k, q)) = p
  BY DEF NoDuplicateFrom, Holds
<1> QED BY <1>1 DEF MapOf

LEMMA MapHitNext ==
  ASSUME NoDuplicateFrom', NEW k \in Indexes, NEW p \in Slots, Holds(k, p)'
  PROVE  MapOf'[k] = entries'[p].to
<1>1. (CHOOSE q \in Slots : Holds(k, q)') = p
  BY DEF NoDuplicateFrom, Holds, Slots
<1> QED BY <1>1 DEF MapOf, Slots

LEMMA MapMiss ==
  ASSUME NEW k \in Indexes, \A p \in Slots : ~Holds(k, p)
  PROVE  MapOf[k] = None
BY DEF MapOf

LEMMA MapSame ==
  ASSUME entries' = entries
  PROVE  MapOf' = MapOf
BY DEF MapOf, Holds, Slots

\* An offset of the table is no "None".
LEMMA OffsetIsReal ==
  ASSUME TypeInv, NEW p \in Slots, Full(p)
  PROVE  entries[p].to # None
BY EntryType, OffsetsAssumption, ForwardingAssumption DEF TypeInv, AllOffsets

\* The insertion decides the index of the thread, and no other.
LEMMA InsertDecides ==
  ASSUME IndexesFit, IInv, [Next]_vars, NEW t \in Threads, InsertWins(t)
  PROVE  Map!Decide(t, offset[t])
<1> USE DEF TypeInv, TypeOK
<1>0. TypeInv /\ ChainOK /\ SearchOK /\ OwnerOK /\ NoDuplicateFrom /\ NoDuplicateFrom'
  BY InvNext DEF IInv
<1>1. /\ key[t] \in Indexes /\ Stored(key[t]) = key[t] /\ op[t] = "resolve"
      /\ Inserting(t) /\ Searching(t) /\ At(t) = Empty
  BY <1>0 DEF IndexesFit, OfferOK, InsertWins, Inserting, Searching
<1>2. PICK s \in Slots : s = Slot(key[t], probe[t])
  BY <1>0, SlotType
<1>3. /\ ~Full(s) /\ Full(s)' /\ entries'[s].from = key[t] /\ entries'[s].to = offset[t]
      /\ \A p \in Slots : p # s => entries'[p] = entries[p]
  BY <1>0, <1>1, <1>2, Inserted
<1>4. \A p \in Slots : Full(p) => entries[p].from # key[t] /\ entries[p].to # offset[t]
  <2> SUFFICES ASSUME NEW p \in Slots, Full(p)
               PROVE  entries[p].from # key[t] /\ entries[p].to # offset[t]
    OBVIOUS
  <2>1. entries[p].from # key[t] /\ entries[p].from \in Indexes
    BY <1>0, <1>1, NotThere DEF ChainOK
  <2>2. CASE offset[t] \in taken
    BY <1>0, <1>1, <2>1, <2>2 DEF OwnerOK
  <2>3. CASE offset[t] \notin taken
    BY <1>0, <1>1, <2>1, <2>3, OffsetsAssumption DEF OwnerOK
  <2> QED BY <2>1, <2>2, <2>3
<1>5. MapOf[key[t]] = None
  BY <1>1, <1>4, MapMiss DEF Holds, Full
<1>6. \A k \in Indexes : MapOf[k] # offset[t]
  <2> SUFFICES ASSUME NEW k \in Indexes PROVE MapOf[k] # offset[t]
    OBVIOUS
  <2>1. CASE \E p \in Slots : Holds(k, p)
    BY <1>0, <1>4, <2>1, MapHit DEF Holds, Full
  <2>2. CASE \A p \in Slots : ~Holds(k, p)
    <3>1. offset[t] # None
      BY <1>0, <1>1, OffsetsAssumption, ForwardingAssumption DEF OfferOK, AllOffsets
    <3> QED BY <2>2, <3>1, MapMiss
  <2> QED BY <2>1, <2>2
<1>7. MapOf' = [MapOf EXCEPT ![key[t]] = offset[t]]
  <2>1. ASSUME NEW k \in Indexes PROVE MapOf'[k] = IF k = key[t] THEN offset[t] ELSE MapOf[k]
    <3>1. CASE k = key[t]
      <4>1. Holds(k, s)'
        BY <1>3, <3>1 DEF Holds, Full
      <4>2. MapOf'[k] = entries'[s].to
        BY <1>0, <4>1, MapHitNext
      <4> QED BY <1>3, <3>1, <4>2
    <3>2. CASE k # key[t]
      <4>1. \A p \in Slots : Holds(k, p)' <=> Holds(k, p)
        BY <1>3, <3>2 DEF Holds, Full
      <4>2. CASE \E p \in Slots : Holds(k, p)
        <5>1. PICK p \in Slots : Holds(k, p)
          BY <4>2
        <5>2. MapOf[k] = entries[p].to
          BY <1>0, <5>1, MapHit
        <5>3. MapOf'[k] = entries'[p].to
          BY <1>0, <4>1, <5>1, MapHitNext
        <5>4. entries'[p] = entries[p]
          BY <1>3, <5>1 DEF Holds, Full
        <5> QED BY <3>2, <5>2, <5>3, <5>4
      <4>3. CASE \A p \in Slots : ~Holds(k, p)
        BY <3>2, <4>1, <4>3 DEF MapOf
      <4> QED BY <4>2, <4>3
    <3> QED BY <3>1, <3>2
  <2> QED BY <2>1 DEF MapOf
<1>8. OpOf[t] = "resolve" /\ OpOf' = [OpOf EXCEPT ![t] = "done"]
  BY <1>0, <1>1 DEF OpOf, InsertWins, Finish
<1> QED BY <1>5, <1>6, <1>7, <1>8 DEF Map!Decide, InsertWins, Finish

LEMMA MapInit == Init => Map!Init
<1> SUFFICES ASSUME Init PROVE Map!Init
  OBVIOUS
<1>1. MapOf = [k \in Indexes |-> None]
  BY DEF Init, MapOf, Holds
<1>2. OpOf = [t \in Threads |-> "idle"]
  BY DEF Init, OpOf
<1> QED BY <1>1, <1>2 DEF Init, Map!Init

LEMMA MapNext ==
  ASSUME IndexesFit
  PROVE  IInv /\ [Next]_vars => [Map!Next]_(Map!vars)
<1> SUFFICES ASSUME IInv, [Next]_vars PROVE [Map!Next]_(Map!vars)
  OBVIOUS
<1> USE DEF TypeInv, TypeOK
<1>0. TypeInv /\ ChainOK /\ SearchOK /\ NoDuplicateFrom
  BY DEF IInv
<1>1. CASE UNCHANGED vars
  BY <1>1, MapSame DEF vars, Map!vars, OpOf
<1>2. ASSUME NEW t \in Threads, NEW k \in Indexes, NEW o \in {"resolve", "lookup"},
             Begin(t, k, o)
      PROVE Map!Begin(t, k, o)
  <2>1. MapOf' = MapOf
    BY <1>2, MapSame DEF Begin
  <2>2. OpOf[t] = "idle" /\ OpOf' = [OpOf EXCEPT ![t] = o]
    BY <1>0, <1>2 DEF Begin, OpOf
  <2> QED BY <1>2, <2>1, <2>2 DEF Begin, Map!Begin
<1>3. ASSUME NEW t \in Threads, FindHit(t) \/ ScanHit(t) PROVE Map!Agree(t)
  <2>1. Match(t) /\ pc[t] \in {"find", "scan"}
    BY <1>3 DEF FindHit, ScanHit
  <2>2. MapOf' = MapOf
    BY <2>1, MapSame DEF Match
  <2>3. OpOf[t] \in {"resolve", "lookup"} /\ OpOf' = [OpOf EXCEPT ![t] = "done"]
    BY <1>0, <2>1 DEF OpOf, Match, Finish
  <2>4. PICK p \in Slots : p = Slot(key[t], probe[t])
    BY <1>0, SlotType
  <2>5. Holds(key[t], p) /\ Full(p) /\ entries[p] = At(t) /\ key[t] \in Indexes
    BY <1>0, <2>1, <2>4 DEF Match, At, Holds, Full
  <2>6. MapOf[key[t]] = At(t).to /\ At(t).to # None
    BY <1>0, <2>5, MapHit, OffsetIsReal
  <2> QED BY <2>1, <2>2, <2>3, <2>6 DEF Map!Agree, Match, Finish
<1>4. ASSUME NEW t \in Threads, FindMiss(t) PROVE Map!Miss(t) \/ UNCHANGED Map!vars
  <2>1. MapOf' = MapOf
    BY <1>4, MapSame DEF FindMiss
  <2>2. CASE op[t] = "lookup"
    <3>1. OpOf[t] = "lookup" /\ OpOf' = [OpOf EXCEPT ![t] = "done"]
      BY <1>0, <1>4, <2>2 DEF OpOf, FindMiss, Finish
    <3>2. \A p \in Slots : ~Holds(key[t], p)
      BY <1>0, <1>4, NotThere DEF Holds, Full, FindMiss, Searching
    <3>3. MapOf[key[t]] = None
      BY <1>0, <3>2, MapMiss
    <3> QED BY <1>4, <2>1, <2>2, <3>1, <3>3 DEF Map!Miss, FindMiss, Finish
  <2>3. CASE op[t] # "lookup"
    <3>1. OpOf' = OpOf
      BY <1>0, <1>4, <2>3 DEF OpOf, FindMiss
    <3> QED BY <1>4, <2>1, <2>3, <3>1 DEF Map!vars, FindMiss
  <2> QED BY <2>2, <2>3
<1>5. ASSUME NEW t \in Threads,
             \/ FindNext(t) \/ ScanNext(t) \/ InsertLoses(t) \/ ScanEmpty(t)
             \/ \E v \in Offsets \cup {InPlace[key[t]]} : Offer(t, v)
      PROVE UNCHANGED Map!vars
  <2>1. MapOf' = MapOf
    BY <1>5, MapSame DEF FindNext, ScanNext, InsertLoses, ScanEmpty, Offer, Advance
  <2>2. OpOf' = OpOf /\ key' = key /\ result' = result
    BY <1>0, <1>5 DEF FindNext, ScanNext, InsertLoses, ScanEmpty, Offer, Advance, OpOf
  <2> QED BY <2>1, <2>2 DEF Map!vars
<1>6. ASSUME NEW t \in Threads, InsertWins(t)
      PROVE Map!Decide(t, offset[t]) /\ offset[t] \in Offsets \cup {InPlace[key[t]]}
  <2>1. offset[t] \in Offsets \cup {InPlace[key[t]]}
    BY <1>6 DEF IInv, OwnerOK, InsertWins, Inserting
  <2> QED BY <1>6, <2>1, InsertDecides
<1>7. ASSUME NEW t \in Threads, Return(t) PROVE Map!Return(t)
  <2>1. MapOf' = MapOf
    BY <1>7, MapSame DEF Return
  <2>2. OpOf[t] = "done" /\ OpOf' = [OpOf EXCEPT ![t] = "idle"]
    BY <1>0, <1>7 DEF Return, OpOf
  <2> QED BY <1>7, <2>1, <2>2 DEF Return, Map!Return
<1> QED BY <1>1, <1>2, <1>3, <1>4, <1>5, <1>6, <1>7 DEF Next, Step, Map!Next

\* The table is a linearizable map: every step of every thread is an atomic
\* decision, agreement, miss or return of ForwardingMap, or invisible there.
THEOREM TableImplementsMap ==
  ASSUME IndexesFit
  PROVE  Spec => ImplementsMap
<1>1. IInv /\ [Next]_vars => [Map!Next]_(Map!vars)
  BY MapNext
<1> QED BY InvAlways, MapInit, <1>1, PTL DEF Spec, ImplementsMap, Map!Spec

-----------------------------------------------------------------------------
\* The probe sequence of an index visits the whole table.
LEMMA SlotOnto ==
  ASSUME NEW k \in Indexes, NEW p \in Slots
  PROVE  \E m \in 0 .. NEntries - 1 : Slot(k, m) = p
<1> DEFINE h == Hash[k]  q == h \div NEntries  r == h % NEntries
<1>1. /\ h \in Nat /\ q \in Nat /\ r \in 0 .. NEntries - 1 /\ h = NEntries * q + r
      /\ p \in 0 .. NEntries - 1 /\ NEntries \in Nat \ {0}
  BY ForwardingAssumption DEF Slots
<1> HIDE DEF h, q, r
<1>2. CASE r <= p
  <2>1. h + (p - r) = NEntries * q + p
    BY <1>1
  <2>2. (NEntries * q + p) % NEntries = p
    BY <1>1
  <2>3. Slot(k, p - r) = p
    BY <2>1, <2>2 DEF Slot, h
  <2>4. p - r \in 0 .. NEntries - 1
    BY <1>1, <1>2
  <2> QED BY <2>3, <2>4
<1>3. CASE p < r
  <2>1. h + (p - r + NEntries) = NEntries * (q + 1) + p
    BY <1>1
  <2>2. (NEntries * (q + 1) + p) % NEntries = p
    BY <1>1
  <2>3. Slot(k, p - r + NEntries) = p
    BY <2>1, <2>2 DEF Slot, h
  <2>4. p - r + NEntries \in 0 .. NEntries - 1
    BY <1>1, <1>3
  <2> QED BY <2>3, <2>4
<1> QED BY <1>1, <1>2, <1>3

\* The table is never full.
LEMMA SomeSlotEmpty ==
  ASSUME ChainOK, NoDuplicateFrom
  PROVE  \E p \in Slots : ~Full(p)
<1> SUFFICES ASSUME \A p \in Slots : Full(p) PROVE FALSE
  OBVIOUS
<1> DEFINE f == [p \in Slots |-> entries[p].from]
<1>1. f \in [Slots -> Indexes]
  BY DEF ChainOK
<1>2. IsFiniteSet(Slots) /\ Cardinality(Slots) = NEntries
  BY FS_Interval, ForwardingAssumption DEF Slots
<1>3. IsFiniteSet(Indexes) /\ Cardinality(Indexes) \in Nat /\ Cardinality(Indexes) < NEntries
  BY FS_CardinalityType, TableAssumption, ForwardingAssumption
<1>4. \E p, q \in Slots : p # q /\ f[p] = f[q]
  <2> HIDE DEF f
  <2> QED BY <1>1, <1>2, <1>3, FS_PigeonHole
<1> QED BY <1>4 DEF NoDuplicateFrom, Full

\* A search that has not ended has not been round the table.
Bounded == \A t \in Threads : Searching(t) => probe[t] < NEntries

LEMMA SearchBounded == IInv => Bounded
<1> SUFFICES ASSUME IInv, NEW t \in Threads, Searching(t), ~(probe[t] < NEntries)
             PROVE  FALSE
  BY DEF Bounded
<1>1. key[t] \in Indexes /\ probe[t] \in Nat /\ NEntries \in Nat
  BY ForwardingAssumption DEF IInv, TypeInv, TypeOK
<1>2. PICK p \in Slots : ~Full(p)
  BY SomeSlotEmpty DEF IInv
<1>3. PICK m \in 0 .. NEntries - 1 : Slot(key[t], m) = p
  BY <1>1, SlotOnto
<1>4. Probed(t, m)
  BY <1>1, <1>3 DEF IInv, SearchOK
<1> QED BY <1>2, <1>3, <1>4 DEF Probed

LEMMA ProbesNext == TypeInv /\ ProbesEnd /\ Bounded' /\ [Next]_vars => ProbesEnd'
<1> SUFFICES ASSUME TypeInv, ProbesEnd, Bounded', [Next]_vars, NEW t \in Threads
             PROVE  probe'[t] < NEntries
  BY DEF ProbesEnd
<1> USE DEF TypeInv, TypeOK, ProbesEnd
<1>1. CASE Searching(t)'
  BY <1>1 DEF Bounded
<1>2. CASE ~Searching(t)'
  <2>1. probe'[t] = probe[t] \/ probe'[t] = 0
    <3>1. CASE UNCHANGED vars
      BY <3>1 DEF vars
    <3>2. ASSUME NEW u \in Threads,
                 \/ \E k \in Indexes, o \in {"resolve", "lookup"} : Begin(u, k, o)
                 \/ Return(u)
          PROVE probe'[t] = probe[t] \/ probe'[t] = 0
      BY <3>2 DEF Begin, Return
    <3>3. ASSUME NEW u \in Threads, FindNext(u) \/ ScanNext(u)
          PROVE probe'[t] = probe[t]
      BY <1>2, <3>3 DEF FindNext, ScanNext, Advance, Searching
    <3>4. ASSUME NEW u \in Threads,
                 \/ FindHit(u) \/ ScanHit(u) \/ FindMiss(u) \/ InsertWins(u)
                 \/ InsertLoses(u) \/ ScanEmpty(u)
                 \/ \E v \in Offsets \cup {InPlace[key[u]]} : Offer(u, v)
          PROVE probe'[t] = probe[t]
      BY <3>4 DEF FindHit, ScanHit, FindMiss, InsertWins, InsertLoses, ScanEmpty, Offer, Match
    <3> QED BY <3>1, <3>2, <3>3, <3>4 DEF Next, Step
  <2> QED BY <2>1, ForwardingAssumption
<1> QED BY <1>1, <1>2

\* The loops of forwarding_find and forwarding_insert are bounded by the size of
\* the table forwarding_new has made.
THEOREM ProbesAreBounded ==
  ASSUME IndexesFit
  PROVE  Spec => []ProbesEnd
<1>1. Init => ProbesEnd
  BY ForwardingAssumption DEF Init, ProbesEnd
<1>2. IInv => TypeInv /\ Bounded
  BY SearchBounded DEF IInv
<1> QED BY InvAlways, ProbesNext, <1>1, <1>2, PTL DEF Spec

=============================================================================
