----------------------------- MODULE MCFreqCtr -----------------------------
(* FreqCtr with symmetric threads.                                         *)
EXTENDS FreqCtr, TLC

Symmetry == Permutations(Updaters)
=============================================================================
