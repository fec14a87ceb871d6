-------------------------- MODULE MCLoaderOnlyPool --------------------------
(* Small instances of LoaderOnlyPool: three items for two permits, of which  *)
(* the last one's function hangs and the first one's may be tried twice.     *)
EXTENDS LoaderOnlyPool

MCCalls == 1 .. Size
MCRetries == [c \in Calls |-> IF c = 1 THEN 1 ELSE 0]
=============================================================================
