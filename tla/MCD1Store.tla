----------------------------- MODULE MCD1Store ------------------------------
(* Small instances of D1Store: one job and two dispatchers.                 *)
EXTENDS D1Store

CONSTANTS j1, w1, w2

MCRetryMax == [j \in Jobs |-> 2]

\* One run at a time of a dispatcher, or a second beside one whose lease lapsed.
MCInFlightLimit == [w \in Workers |-> IF w = w1 THEN 2 ELSE 1]
=============================================================================
