--------------------------- MODULE MCServerQueue ---------------------------
(* ServerQueue with symmetric streams and servers.                         *)
EXTENDS ServerQueue, TLC

Symmetry == Permutations(Streams) \cup Permutations(Servers)
=============================================================================
