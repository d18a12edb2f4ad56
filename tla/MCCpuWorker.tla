---------------------------- MODULE MCCpuWorker ----------------------------
(* Small instances of CpuWorker for TLC.                                   *)
EXTENDS CpuWorker, TLC

CONSTANTS c1, c2, c3, o1, o2

\* Three circuits over two connections.  All have the same circuit id: c1 and
\* c2 one after the other on one connection, c3 on the other.
MCTagOf == (c1 :> <<o1, 1>>) @@ (c2 :> <<o1, 1>>) @@ (c3 :> <<o2, 1>>)

Symmetric == Permutations(Workers)
=============================================================================
