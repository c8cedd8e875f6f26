--------------------------- MODULE ForwardingMap ---------------------------
(***************************************************************************)
(* What a forwarding table promises while a page is being relocated: a     *)
(* partial map from the objects of the page to their new offsets.  Any     *)
(* number of threads resolve an object; the first one to decide fixes its  *)
(* new offset for good, and everybody else gets that offset.  A lookup     *)
(* reads the map.  Both take effect at one instant.                        *)
(***************************************************************************)
CONSTANTS
  Threads,
  Indexes,    \* the objects, by their index in the page
  Offsets,    \* where an object may be copied to
  InPlace,    \* InPlace[k]: the offset object k has already
  None        \* no offset

VARIABLES
  map,        \* the new offset of each object, or None
  op,         \* per thread: "idle", "resolve", "lookup" or "done"
  key,        \* per thread: the object asked for
  result      \* per thread: the answer of its last operation

vars == <<map, op, key, result>>

Init ==
  /\ map = [k \in Indexes |-> None]
  /\ op = [t \in Threads |-> "idle"]
  /\ key \in [Threads -> Indexes]
  /\ result = [t \in Threads |-> None]

Begin(t, k, o) ==
  /\ op[t] = "idle"
  /\ op' = [op EXCEPT ![t] = o]
  /\ key' = [key EXCEPT ![t] = k]
  /\ UNCHANGED <<map, result>>

\* The object has an offset: that is the answer.
Agree(t) ==
  /\ op[t] \in {"resolve", "lookup"}
  /\ map[key[t]] # None
  /\ op' = [op EXCEPT ![t] = "done"]
  /\ result' = [result EXCEPT ![t] = map[key[t]]]
  /\ UNCHANGED <<map, key>>

\* It has none: a resolve gives it one that no other object has, ...
Decide(t, v) ==
  /\ op[t] = "resolve"
  /\ map[key[t]] = None
  /\ \A k \in Indexes : map[k] # v
  /\ map' = [map EXCEPT ![key[t]] = v]
  /\ op' = [op EXCEPT ![t] = "done"]
  /\ result' = [result EXCEPT ![t] = v]
  /\ UNCHANGED key

\* ... a lookup says so.
Miss(t) ==
  /\ op[t] = "lookup"
  /\ map[key[t]] = None
  /\ op' = [op EXCEPT ![t] = "done"]
  /\ result' = [result EXCEPT ![t] = None]
  /\ UNCHANGED <<map, key>>

Return(t) ==
  /\ op[t] = "done"
  /\ op' = [op EXCEPT ![t] = "idle"]
  /\ result' = [result EXCEPT ![t] = None]
  /\ UNCHANGED <<map, key>>

Next == \E t \in Threads :
  \/ \E k \in Indexes, o \in {"resolve", "lookup"} : Begin(t, k, o)
  \/ Agree(t) \/ Miss(t) \/ Return(t)
  \/ \E v \in Offsets \cup {InPlace[key[t]]} : Decide(t, v)

Spec == Init /\ [][Next]_vars
=============================================================================
