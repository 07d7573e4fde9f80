--------------------------- MODULE MCOttlForward ---------------------------
(***************************************************************************)
(* An instance of OttlForward for TLC: two calls, one of two blocks and    *)
(* one of one, and a process that may answer each block twice.             *)
(***************************************************************************)
EXTENDS OttlForward

MCBlocks == [ c \in Calls |-> IF c = "c1" THEN <<"t1", "t2">> ELSE <<"t3">> ]
=============================================================================
