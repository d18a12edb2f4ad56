---------------------------- MODULE MCRendezvous ----------------------------
EXTENDS Rendezvous
CONSTANTS s1, i1, i2
MCStreams == <<s1>>
MCCCircs == 1 .. 3
MCSCircs == 4 .. 7
MCIntroRelays == {i1, i2}
RelaySymmetry == Permutations(MCIntroRelays)
=============================================================================
