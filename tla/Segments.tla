------------------------------ MODULE Segments ------------------------------
(***************************************************************************)
(* The free lists of the memory managers (memory_segment): a list of       *)
(* address ranges in the order of their addresses, counted in granules.    *)
(* Requests are rounded up to granules before they get here.               *)
(***************************************************************************)
EXTENDS Integers, Sequences, SequencesExt

Segment(addr, size) == [addr |-> addr, size |-> size]
End(s) == s.addr + s.size
Units(s) == s.addr .. End(s) - 1

TotalSize(list) == FoldLeft(LAMBDA sum, s : sum + s.size, 0, list)

\* What both find_fit functions look for, from the front and from the end.
FromFront(list, n) == SelectInSeq(list, LAMBDA s : s.size >= n)
FromEnd(list, n) == SelectLastInSeq(list, LAMBDA s : s.size >= n)

\* Mutant: what cannot be merged goes to the tail.
Release_Tail(list, x) ==
  LET i == SelectInSeq(list, LAMBDA s : End(x) = s.addr)
  IN IF i = 0 THEN Append(list, x)
     ELSE ReplaceAt(list, i, Segment(x.addr, x.size + list[i].size))

\* A range that is put back grows the segment behind it, or goes where its
\* address belongs.
Release(list, x) ==
  LET i == SelectInSeq(list, LAMBDA s : End(x) = s.addr \/ s.addr > x.addr)
  IN IF i = 0 THEN Append(list, x)
     ELSE IF End(x) = list[i].addr
            THEN ReplaceAt(list, i, Segment(x.addr, x.size + list[i].size))
     ELSE InsertAt(list, i, x)

\* The segments stand in the order of their addresses and do not overlap.
Ordered(list) == \A i \in 1 .. Len(list) - 1 : End(list[i]) <= list[i + 1].addr
=============================================================================
