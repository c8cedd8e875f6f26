----------------------------- MODULE Forwarding -----------------------------
(***************************************************************************)
(* The forwarding table of a page under relocation (ygc-forwarding.c): an  *)
(* open-addressing hash table that threads read and fill at the same time  *)
(* with loads and compare-and-swaps, and nothing else.                     *)
(*                                                                         *)
(* A thread performs forwarding_find and, for relocate_object, goes on     *)
(* with forwarding_insert from the position where find stopped.  One       *)
(* action is one load or one compare-and-swap of an entry.  The position   *)
(* of a thread is kept as the number of probes made since the hash: in the *)
(* code pos = (hash + probes) & (n_entries - 1).                           *)
(***************************************************************************)
EXTENDS Integers, FiniteSets

CONSTANTS
  Threads,
  Indexes,         \* from_index of the live objects of the page
  Offsets,         \* to_offset of the copies that can be allocated
  InPlace,         \* InPlace[k]: the offset of object k itself
  None,            \* "no offset"
  Empty,           \* an entry that is not populated
  NEntries,        \* fwd->n_entries
  Hash,            \* yalx_hash_uint32_to_uint32 of an index
  FromIndexLimit   \* 2^18: the bit field from_index keeps a value below it

Slots == 0 .. NEntries - 1
Entries == [from : Nat, to : Offsets \cup {InPlace[k] : k \in Indexes}]

ASSUME ForwardingAssumption ==
  /\ NEntries \in Nat \ {0} /\ FromIndexLimit \in Nat \ {0}
  /\ Indexes \subseteq Nat
  /\ Hash \in [Indexes -> Nat]
  /\ DOMAIN InPlace = Indexes
  /\ Empty \notin Entries
  /\ None \notin Offsets

\* A copy is not where an object of the page is, and no two objects are at
\* the same offset.
ASSUME OffsetsAssumption ==
  /\ \A k \in Indexes : InPlace[k] \notin Offsets \cup {None}
  /\ \A j, k \in Indexes : InPlace[j] = InPlace[k] => j = k

\* forwarding_new: two entries for each live object of the page, or more.
ASSUME TableAssumption ==
  IsFiniteSet(Indexes) /\ NEntries >= 2 * Cardinality(Indexes)

VARIABLES
  entries,    \* fwd->entries
  pc,         \* where each thread is
  op,         \* "resolve": find, then insert; "lookup": find alone
  key,        \* from_index the thread is busy with
  probe,      \* the number of probes behind its pos
  offset,     \* the offset it wants to insert
  result,     \* what its last operation returned
  taken       \* the offsets allocated so far

vars == <<entries, pc, op, key, probe, offset, result, taken>>

\* Mutant: forwarding_next masks the position and forgets to move it.
Slot_Still(k, n) == Hash[k] % NEntries

\* forwarding_first and forwarding_next.
Slot(k, n) == (Hash[k] + n) % NEntries

\* What the 18-bit field of an entry keeps of an index.
Stored(k) == k % FromIndexLimit

At(t) == entries[Slot(key[t], probe[t])]

Init ==
  /\ entries = [p \in Slots |-> Empty]
  /\ pc = [t \in Threads |-> "idle"]
  /\ op = [t \in Threads |-> "lookup"]
  /\ key \in [Threads -> Indexes]
  /\ probe = [t \in Threads |-> 0]
  /\ offset = [t \in Threads |-> None]
  /\ result = [t \in Threads |-> None]
  /\ taken = {}

Begin(t, k, o) ==
  /\ pc[t] = "idle"
  /\ pc' = [pc EXCEPT ![t] = "find"]
  /\ op' = [op EXCEPT ![t] = o]
  /\ key' = [key EXCEPT ![t] = k]
  /\ probe' = [probe EXCEPT ![t] = 0]
  /\ UNCHANGED <<entries, offset, result, taken>>

Finish(t, v) ==
  /\ pc' = [pc EXCEPT ![t] = "done"]
  /\ result' = [result EXCEPT ![t] = v]

\* One turn of the loop of forwarding_find, and of the inner loop of
\* forwarding_insert: a populated entry matches or sends the thread on.
Match(t) ==
  /\ At(t) # Empty /\ At(t).from = key[t]
  /\ Finish(t, At(t).to)
  /\ UNCHANGED <<entries, op, key, probe, offset, taken>>

Advance(t) ==
  /\ At(t) # Empty /\ At(t).from # key[t]
  /\ probe' = [probe EXCEPT ![t] = @ + 1]
  /\ UNCHANGED <<entries, pc, op, key, offset, result, taken>>

FindHit(t) == pc[t] = "find" /\ Match(t)
FindNext(t) == pc[t] = "find" /\ Advance(t)

\* forwarding_find stops at an empty entry: a lookup reports it, relocate_object
\* takes a copy and goes on.
FindMiss(t) ==
  /\ pc[t] = "find" /\ At(t) = Empty
  /\ IF op[t] = "lookup"
       THEN Finish(t, None)
       ELSE /\ pc' = [pc EXCEPT ![t] = "offer"]
            /\ UNCHANGED result
  /\ UNCHANGED <<entries, op, key, probe, offset, taken>>

\* Mutant: an allocation that may hand out a chunk twice.
Offer_Shared(t, v) ==
  /\ pc[t] = "offer"
  /\ pc' = [pc EXCEPT ![t] = "insert"]
  /\ offset' = [offset EXCEPT ![t] = v]
  /\ taken' = taken \cup (Offsets \cap {v})
  /\ UNCHANGED <<entries, op, key, probe, result>>

\* relocate_object allocates a copy, or falls back on the object's own place.
Offer(t, v) ==
  /\ pc[t] = "offer" /\ v \notin taken
  /\ pc' = [pc EXCEPT ![t] = "insert"]
  /\ offset' = [offset EXCEPT ![t] = v]
  /\ taken' = taken \cup (Offsets \cap {v})
  /\ UNCHANGED <<entries, op, key, probe, result>>

\* Mutant: a plain store.
InsertWins_Store(t) ==
  /\ pc[t] = "insert"
  /\ entries' = [entries EXCEPT ![Slot(key[t], probe[t])] =
                   [from |-> Stored(key[t]), to |-> offset[t]]]
  /\ Finish(t, offset[t])
  /\ UNCHANGED <<op, key, probe, offset, taken>>

\* The compare-and-swap of forwarding_insert.
InsertWins(t) ==
  /\ pc[t] = "insert" /\ At(t) = Empty
  /\ entries' = [entries EXCEPT ![Slot(key[t], probe[t])] =
                   [from |-> Stored(key[t]), to |-> offset[t]]]
  /\ Finish(t, offset[t])
  /\ UNCHANGED <<op, key, probe, offset, taken>>

\* Mutant: the entry that was in the way is not looked at.
InsertLoses_Skips(t) ==
  /\ pc[t] = "insert" /\ At(t) # Empty
  /\ probe' = [probe EXCEPT ![t] = @ + 1]
  /\ UNCHANGED <<entries, pc, op, key, offset, result, taken>>

InsertLoses(t) ==
  /\ pc[t] = "insert" /\ At(t) # Empty
  /\ pc' = [pc EXCEPT ![t] = "scan"]
  /\ UNCHANGED <<entries, op, key, probe, offset, result, taken>>

\* The loop behind it: the next empty or matching entry.
ScanHit(t) == pc[t] = "scan" /\ Match(t)
ScanNext(t) == pc[t] = "scan" /\ Advance(t)

ScanEmpty(t) ==
  /\ pc[t] = "scan" /\ At(t) = Empty
  /\ pc' = [pc EXCEPT ![t] = "insert"]
  /\ UNCHANGED <<entries, op, key, probe, offset, result, taken>>

\* The locals of the call are gone.
Return(t) ==
  /\ pc[t] = "done"
  /\ pc' = [pc EXCEPT ![t] = "idle"]
  /\ op' = [op EXCEPT ![t] = "lookup"]
  /\ probe' = [probe EXCEPT ![t] = 0]
  /\ offset' = [offset EXCEPT ![t] = None]
  /\ result' = [result EXCEPT ![t] = None]
  /\ UNCHANGED <<entries, key, taken>>

Step(t) ==
  \/ FindHit(t) \/ FindNext(t) \/ FindMiss(t)
  \/ \E v \in Offsets \cup {InPlace[key[t]]} : Offer(t, v)
  \/ InsertWins(t) \/ InsertLoses(t)
  \/ ScanHit(t) \/ ScanNext(t) \/ ScanEmpty(t)

Next == \E t \in Threads :
  \/ \E k \in Indexes, o \in {"resolve", "lookup"} : Begin(t, k, o)
  \/ Step(t)
  \/ Return(t)

Spec == Init /\ [][Next]_vars

-----------------------------------------------------------------------------
PCs == {"idle", "find", "offer", "insert", "scan", "done"}

AllOffsets == Offsets \cup {InPlace[k] : k \in Indexes}

\* The table, the threads and what they carry keep their types; no probe and no
\* entry leaves the ranges of ygc-forwarding.c.
TypeOK ==
  /\ entries \in [Slots -> Entries \cup {Empty}]
  /\ pc \in [Threads -> PCs]
  /\ op \in [Threads -> {"resolve", "lookup"}]
  /\ key \in [Threads -> Indexes]
  /\ probe \in [Threads -> Nat]
  /\ offset \in [Threads -> AllOffsets \cup {None}]
  /\ result \in [Threads -> AllOffsets \cup {None}]
  /\ taken \subseteq Offsets

\* The GUARANTEEs of forwarding_verify: no object has two entries.
NoDuplicateFrom ==
  \A p, q \in Slots : entries[p] # Empty /\ entries[q] # Empty
                        /\ entries[p].from = entries[q].from => p = q

\* No two objects share a new offset.
NoDuplicateTo ==
  \A p, q \in Slots : entries[p] # Empty /\ entries[q] # Empty
                        /\ entries[p].to = entries[q].to => p = q

\* Both: objects and their new offsets stand one to one.
NoDuplicates == NoDuplicateFrom /\ NoDuplicateTo

\* Whoever has resolved an object, winner or loser of the race, holds the
\* offset that is in the table.
ResolversAgree ==
  \A t \in Threads : pc[t] = "done" /\ op[t] = "resolve" =>
    \E p \in Slots : /\ entries[p] # Empty
                     /\ entries[p].from = key[t]
                     /\ entries[p].to = result[t]

\* No probe sequence comes back to where it began: the table of
\* forwarding_new, at least twice as large as the page's live objects, always
\* has an empty entry to stop at.
ProbesEnd == \A t \in Threads : probe[t] < NEntries

\* The map of ForwardingMap that the table stands for.
Holds(k, p) == entries[p] # Empty /\ entries[p].from = k

MapOf == [k \in Indexes |->
            IF \E p \in Slots : Holds(k, p)
              THEN entries[CHOOSE p \in Slots : Holds(k, p)].to
              ELSE None]

OpOf == [t \in Threads |-> IF pc[t] \in {"idle", "done"} THEN pc[t] ELSE op[t]]

Map == INSTANCE ForwardingMap WITH map <- MapOf, op <- OpOf

\* The lock-free table implements the atomic map: every step of find, insert
\* and relocate_object is a step of the map or a stutter.
ImplementsMap == Map!Spec
=============================================================================
