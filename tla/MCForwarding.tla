---------------------------- MODULE MCForwarding ----------------------------
(* Hashes that collide, so that probe sequences overlap and wrap around.   *)
EXTENDS Forwarding, TLC

CONSTANTS o1, o2, o3, home0, home1, t1, t2, t3

MCHash == [k \in Indexes |-> NEntries - 1]
MCInPlace == [k \in Indexes |-> IF k = 0 THEN home0 ELSE home1]
Symmetry == Permutations(Threads) \cup Permutations(Offsets)
=============================================================================
