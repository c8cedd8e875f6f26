----------------------------- MODULE StringPool -----------------------------
(***************************************************************************)
(* The pool of short strings: yalx_new_string in yalx-string.c over one    *)
(* stripe of the pool in heap.c (string_pool_ensure_space and _rehash).    *)
(*                                                                         *)
(* The stripe's mutex covers the search and the insertion of an empty      *)
(* entry; the string itself is made and put into the entry afterwards,     *)
(* without the mutex.  Whoever meets the entry in between reads through    *)
(* its null pointer: that ends the process ("crashed").  Without memory for *)
(* an entry the string stays outside the pool.                             *)
(***************************************************************************)
EXTENDS Integers, Sequences, FiniteSets, SequencesExt

CONSTANTS
  Interners,   \* threads that call yalx_new_string
  Texts,       \* what they ask for: sequences of characters
  Hash(_),     \* yalx_str_hash
  FirstSlots,  \* 1 << slots_shift at the start
  MaxEntries,  \* bound on the entries
  MaxFailures  \* bound on the allocations that fail

ASSUME StringPoolAssumption ==
  /\ Texts \subseteq Seq(Nat) /\ \A text \in Texts : Hash(text) \in Nat
  /\ FirstSlots \in Nat \ {0}

VARIABLES
  slots,   \* pool->slots: per slot the numbers of its entries, whose order in
           \* the list is theirs: both insertions are at the tail
  texts,   \* per entry, in order of insertion, the bytes of its string
  value,   \* per entry the string it points to, 0 for NULL
  strings, \* how many strings have been made
  ask,     \* per thread: [at, text, entry, str]; "alone" is without an entry
  got,     \* history: <<text, string>> of every call that has returned
  loose,   \* history: the strings that were returned without an entry
  crashed, \* a null pointer was followed
  failures \* how many allocations have failed

pvars == <<slots, texts, value, strings, ask, got, loose, crashed, failures>>

Idle == [at |-> "idle", text |-> <<>>, entry |-> 0, str |-> 0]

PInit ==
  /\ slots = [i \in 1..FirstSlots |-> {}]
  /\ texts = <<>>
  /\ value = <<>>
  /\ strings = 0
  /\ ask = [t \in Interners |-> Idle]
  /\ got = {}
  /\ loose = {}
  /\ crashed = FALSE
  /\ failures = 0

SlotOf(text, n) == (Hash(text) % n) + 1

\* Mutant: the bytes alone.
Matches_Bytes(e, text) == IsPrefix(text, texts[e])

\* The comparison of a full hash, then of the bytes asked for.
Matches(e, text) == Hash(texts[e]) = Hash(text) /\ IsPrefix(text, texts[e])

\* string_pool_rehash into n slots.
Rehash(n) ==
  [i \in 1..n |-> {e \in UNION {slots[j] : j \in 1..Len(slots)} : SlotOf(texts[e], n) = i}]

\* malloc, or the heap, has nothing to give.
Fail == failures < MaxFailures /\ failures' = failures + 1

\* What string_pool_ensure_space returns: an entry, or NULL.
Obtain(t, at, text, e) ==
  ask' = [ask EXCEPT ![t] = [at |-> at, text |-> text, entry |-> e, str |-> 0]]

\* The text is in no entry of its slot: the node and, when the table is full,
\* the new slots may be missing (that of the slots is not checked), and a
\* rehash reads every value.
NewEntry(t, text) ==
  LET full == (1 + Len(texts)) * 10 > 8 * Len(slots)
      new == Len(texts) + 1
      grown == IF full THEN Rehash(2 * Len(slots)) ELSE slots
      readsNull == full /\ \E e \in DOMAIN value : value[e] = 0
  IN  \/ /\ Fail /\ Obtain(t, "alone", text, 0)
         /\ UNCHANGED <<slots, texts, value, crashed>>
      \/ /\ crashed' = TRUE
         /\ \/ readsNull /\ UNCHANGED failures
            \/ full /\ Fail
         /\ UNCHANGED <<slots, texts, value, ask>>
      \/ /\ ~readsNull /\ Obtain(t, "have", text, new)
         /\ texts' = Append(texts, text)
         /\ value' = Append(value, 0)
         /\ slots' = [grown EXCEPT ![SlotOf(text, Len(grown))] = @ \cup {new}]
         /\ UNCHANGED <<crashed, failures>>

\* The search stops at the first match, so only what it passes is read.
EnsureSpace(t, text) ==
  LET slot == slots[SlotOf(text, Len(slots))]
      empty == {e \in slot : value[e] = 0}
      hits == {e \in slot \ empty : Matches(e, text)}
  IN  \/ /\ \E e \in empty : \A h \in hits : e < h
         /\ crashed' = TRUE /\ UNCHANGED <<slots, texts, value, ask, failures>>
      \/ /\ \E e \in hits : (\A d \in hits \cup empty : e <= d) /\ Obtain(t, "have", text, e)
         /\ UNCHANGED <<slots, texts, value, crashed, failures>>
      \/ hits = {} /\ empty = {} /\ NewEntry(t, text)

\* yalx_ensure_space_kpool, under the mutex of the stripe.
Enter(t) ==
  /\ ~crashed /\ ask[t].at = "idle" /\ Len(texts) < MaxEntries
  /\ \E text \in Texts : EnsureSpace(t, text)
  /\ UNCHANGED <<strings, got, loose>>

Return(t, s) ==
  /\ got' = got \cup {<<ask[t].text, s>>}
  /\ ask' = [ask EXCEPT ![t] = Idle]

\* space->value is there: it is the result.
Found(t) ==
  /\ ~crashed /\ ask[t].at = "have" /\ value[ask[t].entry] # 0
  /\ Return(t, value[ask[t].entry])
  /\ UNCHANGED <<slots, texts, value, strings, loose, crashed, failures>>

\* It is not: yalx_new_string_direct, then the store into the entry.
Missing(t) ==
  /\ ~crashed /\ ask[t].at = "have" /\ value[ask[t].entry] = 0
  /\ ask' = [ask EXCEPT ![t] =
       [at |-> "made", text |-> @.text, entry |-> @.entry, str |-> strings + 1]]
  /\ strings' = strings + 1
  /\ UNCHANGED <<slots, texts, value, got, loose, crashed, failures>>

\* There is no entry: the string is made and returned.
Alone(t) ==
  /\ ~crashed /\ ask[t].at = "alone"
  /\ strings' = strings + 1
  /\ loose' = loose \cup {strings + 1}
  /\ Return(t, strings + 1)
  /\ UNCHANGED <<slots, texts, value, crashed, failures>>

\* Mutant: the string is returned and not stored.
Fill_NotStored(t) ==
  /\ ~crashed /\ ask[t].at = "made"
  /\ Return(t, ask[t].str)
  /\ UNCHANGED <<slots, texts, value, strings, loose, crashed, failures>>

Fill(t) ==
  /\ ~crashed /\ ask[t].at = "made"
  /\ value' = [value EXCEPT ![ask[t].entry] = ask[t].str]
  /\ Return(t, ask[t].str)
  /\ UNCHANGED <<slots, texts, strings, loose, crashed, failures>>

\* The heap is exhausted: the caller gets NULL, an empty entry stays empty.
AllocateFails(t) ==
  /\ ~crashed
  /\ \/ ask[t].at = "alone"
     \/ ask[t].at = "have" /\ value[ask[t].entry] = 0
  /\ Fail
  /\ ask' = [ask EXCEPT ![t] = Idle]
  /\ UNCHANGED <<slots, texts, value, strings, got, loose, crashed>>

PNext ==
  \E t \in Interners :
    Enter(t) \/ Found(t) \/ Missing(t) \/ Fill(t) \/ Alone(t) \/ AllocateFails(t)

PSpec == PInit /\ [][PNext]_pvars

-----------------------------------------------------------------------------
\* Different bytes never give one string, and equal bytes give one string
\* unless there was no memory for the entry.
OneStringPerText ==
  /\ \A p, q \in got : p[2] = q[2] => p[1] = q[1]
  /\ \A p, q \in got : p[1] = q[1] => \/ p[2] = q[2]
                                      \/ /\ failures > 0
                                         /\ {p[2], q[2]} \cap loose # {}

\* t has an entry that is still empty.
Fills(t) == ask[t].at \in {"have", "made"} /\ value[ask[t].entry] = 0

\* An empty entry is in the hands of the one thread that will fill it, so
\* without a failed allocation only a second thread can follow its null: the
\* window in which the pool crashes is from the insertion of an entry to the
\* store of its string.
EmptyIsInHand ==
  /\ failures = 0 => \A e \in 1..Len(value) :
       value[e] = 0 => \E t \in Interners : Fills(t) /\ ask[t].entry = e
  /\ \A t, u \in Interners : Fills(t) /\ Fills(u) /\ ask[t].entry = ask[u].entry => t = u
  /\ crashed => failures > 0 \/ \E t \in Interners : Fills(t)

\* Equal bytes give the same string and different bytes different strings,
\* however calls and rehashes interleave, up to the crash of a search that
\* meets an entry before its string is stored, or an allocation that fails
\* (yalx_new_string; it takes a hash that tells a text from the texts it is a
\* prefix of).
InternedOnce == OneStringPerText /\ EmptyIsInHand
=============================================================================
