----------------------------- MODULE MCDnsCache -----------------------------
(* Small instances of DnsCache for TLC.                                    *)
EXTENDS DnsCache, TLC

CONSTANTS s1, s2, s3, s4, a1, ip, c1, c2

\* Two circuits share the address a1; s2 asks for the address only.
MCAddrOf == (s1 :> a1) @@ (s2 :> a1) @@ (s3 :> a1) @@ (s4 :> ip)
MCCircOf == (s1 :> c1) @@ (s2 :> c1) @@ (s3 :> c2) @@ (s4 :> c2)
=============================================================================
