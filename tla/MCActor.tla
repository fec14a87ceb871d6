------------------------------ MODULE MCActor ------------------------------
(* Instances of Actor: two handles, two submits of the first. *)
EXTENDS Actor

CONSTANTS A, B, a1, a2, b1

MCHandleOf == (a1 :> A @@ a2 :> A @@ b1 :> B)

MCRetries == (a1 :> 0 @@ a2 :> 1 @@ b1 :> 0)
=============================================================================
