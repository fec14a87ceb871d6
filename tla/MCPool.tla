------------------------------- MODULE MCPool -------------------------------
(* A small instance of Pool: calls of every kind, in pairs.                  *)
EXTENDS Pool

CONSTANTS stream, ordered, narrow, none, never, submit, pipe, reduce, scatter, pmap, map

Shape ==
  (stream :> <<"stream", 4, 2>>) @@ (ordered :> <<"ordered", 4, 2>>)
  @@ (narrow :> <<"ordered", 2, 1>>) @@ (none :> <<"stream", 2, 0>>)
  @@ (never :> <<"ordered", 2, 0>>) @@ (submit :> <<"pipe", 1, 0>>)
  @@ (pipe :> <<"pipe", 3, 0>>) @@ (reduce :> <<"reduce", 4, 0>>)
  @@ (scatter :> <<"scatter", 5, 3>>) @@ (pmap :> <<"pmap", 3, 0>>)
  @@ (map :> <<"map", 0, 0>>)

MCKind == [c \in Calls |-> Shape[c][1]]
MCSize == [c \in Calls |-> Shape[c][2]]
MCWidth == [c \in Calls |-> Shape[c][3]]
MCLoads == {{stream, narrow}, {stream, reduce}, {ordered, submit},
            {ordered, scatter}, {pipe, reduce, pmap}, {none, never, map, submit}}
=============================================================================
