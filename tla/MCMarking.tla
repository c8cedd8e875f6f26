----------------------------- MODULE MCMarking -----------------------------
(* An object a, which the root refers to, and an array b.                  *)
EXTENDS Marking

CONSTANTS a, b, c, n, m1

MCPageOf == [o \in Objects |-> CASE o = a -> 0 [] o = b -> 1 [] OTHER -> 3]
MCHeaps ==
  {h \in [OldSlots -> Old \cup {Null}] :
     /\ h[<<Root, 1>>] = a
     /\ \A i \in 1 .. Width : h[<<b, i>>] # b}

\* A chain of three objects, each on a page of its own.
ChainPageOf == [o \in Objects |-> CASE o = a -> 0 [] o = b -> 1 [] OTHER -> 2]
Chain ==
  {[s \in OldSlots |-> CASE s[1] = Root -> a [] s[1] = a -> b [] s[1] = b -> c
                         [] OTHER -> Null]}
=============================================================================
