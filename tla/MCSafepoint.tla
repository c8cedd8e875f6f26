---------------------------- MODULE MCSafepoint ----------------------------
(* Small populations of machines on one processor.                        *)
EXTENDS Safepoint, TLC

CONSTANTS m1, m2, m3, f1

OneProc == [m \in Machines |-> 1]
=============================================================================
