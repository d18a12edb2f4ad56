----------------------------- MODULE MCEventDns -----------------------------
(* Small instances of EventDns for TLC.                                    *)
EXTENDS EventDns, TLC

CONSTANTS n1, n2

MCConf == <<n1, n2>>

Symmetric == Permutations(Users)
=============================================================================
