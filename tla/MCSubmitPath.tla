---------------------------- MODULE MCSubmitPath ----------------------------
(***************************************************************************)
(* Three calls: one of the pool's owner and one of an HTTP request, each    *)
(* with a retry, and one of a request to a public handler.  The failures:   *)
(* an error of the user's, one whose message names two causes, one of the   *)
(* platform that is retried and one that is told by its name.               *)
(***************************************************************************)
EXTENDS SubmitPath

CONSTANTS own, posted, open

MCRetries == [c \in Calls |-> IF c = open THEN 0 ELSE 1]

MCFailures ==
  {Thrown("TypeError", {}), Thrown("Error", {"memory", "gone"}),
   Thrown("Error", {"quota"}), Thrown("DataCloneError", {})}
=============================================================================
