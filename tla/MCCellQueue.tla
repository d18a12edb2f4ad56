---------------------------- MODULE MCCellQueue ----------------------------
(* Small instances of CellQueue for TLC.                                   *)
EXTENDS CellQueue, TLC

\* Circuits of one kind are alike, and so are connections.
Symmetric == Permutations(Origins) \cup Permutations(Circuits \ Origins)
             \cup Permutations(Conns)
=============================================================================
