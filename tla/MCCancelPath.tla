---------------------------- MODULE MCCancelPath ----------------------------
(* A small instance of CancelPath: a call that reaches a leaf behind a       *)
(* sub-coordinator, and a submit that shares the isolate of that leaf.       *)
EXTENDS CancelPath

CONSTANTS c1, c2, t1, t2, own, sub, leafA, own2, slot0

MCTokenOf == [c \in Calls |-> IF c = c1 THEN t1 ELSE t2]
MCCallOf == [s \in Streams |-> IF s = own2 THEN c2 ELSE c1]
MCUp == [s \in Streams |-> CASE s = sub -> own
                             [] s = leafA -> sub
                             [] OTHER -> NoStream]
MCSlotOf == [l \in Leaves |-> slot0]
=============================================================================
