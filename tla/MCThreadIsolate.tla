--------------------------- MODULE MCThreadIsolate -------------------------
(* ThreadIsolate with the first thread in a group of its own.              *)
EXTENDS ThreadIsolate

CONSTANT t1

MCGroupOf == [t \in Threads |-> IF t = t1 THEN 1 ELSE 2]
=============================================================================
