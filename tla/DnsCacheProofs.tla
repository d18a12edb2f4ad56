--------------------------- MODULE DnsCacheProofs ---------------------------
(***************************************************************************)
(* Proofs about DnsCache, for every set of streams, addresses and circuits *)
(* and every number of requests out at once.                               *)
(*                                                                         *)
(* Good(d, ...) is the inductive invariant of the cache d, given the       *)
(* streams marked for close (cl), the circuits (ci) and the streams ended  *)
(* by their clients (en).  The functions of dns.c take a cache to a cache; *)
(* each gets a lemma that it keeps Good unless it fails an assertion, and  *)
(* that it never fails the assertions of dns_found_answer and              *)
(* connection_dns_remove.                                                  *)
(***************************************************************************)
EXTENDS DnsCache, FiniteSetTheorems, SequenceTheorems, FunctionTheorems, TLAPS

----------------------------------------------------------------------------
(* Queues: filtering.                                                    *)

\* In a finite set of integers, the elements are ranked 1, 2, ... without gaps:
\* what makes Keep well defined.
LEMMA RankBijective ==
  ASSUME NEW P \in SUBSET Int, IsFiniteSet(P)
  PROVE  /\ Cardinality(P) \in Nat
         /\ \A i \in P : Rank(P, i) \in 1..Cardinality(P)
         /\ \A i, j \in P : Rank(P, i) = Rank(P, j) => i = j
         /\ \A k \in 1..Cardinality(P) : \E i \in P : Rank(P, i) = k
<1> DEFINE n == Cardinality(P)
           below(i) == {j \in P : j <= i}
<1>1. n \in Nat
  BY FS_CardinalityType
<1>2. ASSUME NEW i \in P
      PROVE  /\ IsFiniteSet(below(i)) /\ Rank(P, i) = Cardinality(below(i))
             /\ Rank(P, i) \in 1..n
  <2>1. below(i) \subseteq P /\ i \in below(i)
    OBVIOUS
  <2>2. IsFiniteSet(below(i)) /\ Cardinality(below(i)) <= n
    BY <2>1, FS_Subset
  <2>3. Cardinality(below(i)) \in Nat /\ Cardinality(below(i)) # 0
    BY <2>1, <2>2, FS_CardinalityType, FS_EmptySet
  <2>4. Rank(P, i) = Cardinality(below(i))
    BY DEF Rank
  <2> QED
    BY <1>1, <2>2, <2>3, <2>4
<1>3. ASSUME NEW i \in P, NEW j \in P, i < j
      PROVE  Rank(P, i) # Rank(P, j)
  <2>1. below(i) \subseteq below(j) /\ below(i) # below(j)
    <3>1. j \in below(j) /\ j \notin below(i)
      BY <1>3
    <3>2. ASSUME NEW x \in below(i) PROVE x \in below(j)
      <4>1. x \in Int /\ i \in Int /\ j \in Int /\ x <= i
        OBVIOUS
      <4> QED
        BY <1>3, <4>1
    <3> QED
      BY <3>1, <3>2
  <2>2. IsFiniteSet(below(j))
    BY <1>2
  <2>3. Cardinality(below(i)) # Cardinality(below(j))
    BY <2>1, <2>2, FS_Subset
  <2> QED
    BY <1>2, <2>3
<1>4. \A i, j \in P : Rank(P, i) = Rank(P, j) => i = j
  <2> SUFFICES ASSUME NEW i \in P, NEW j \in P, i # j
               PROVE  Rank(P, i) # Rank(P, j)
    OBVIOUS
  <2>1. i < j \/ j < i
    OBVIOUS
  <2> QED
    BY <1>3, <2>1
<1>5. ASSUME NEW k \in 1..n PROVE \E i \in P : Rank(P, i) = k
  <2> DEFINE f == [i \in P |-> Rank(P, i)]
             R == {Rank(P, i) : i \in P}
  <2>1. f \in Bijection(P, R)
    BY <1>4 DEF Bijection, Injection, IsInjective, Surjection
  <2>2. IsFiniteSet(R) /\ Cardinality(R) = n
    BY <2>1, FS_Bijection DEF ExistsBijection
  <2>3. R \subseteq 1..n
    BY <1>2
  <2>4. IsFiniteSet(1..n) /\ Cardinality(1..n) = n
    BY <1>1, FS_Interval
  <2>5. R = 1..n
    BY <2>2, <2>3, <2>4, FS_Subset
  <2> QED
    BY <2>5
<1> QED
  BY <1>1, <1>2, <1>4, <1>5

\* No element occurs twice.
Distinct(q) == \A i, j \in DOMAIN q : q[i] = q[j] => i = j

\* Keep(q, S) has exactly the elements of q that are in S, each as often as q.
LEMMA KeepProperties ==
  ASSUME NEW X, NEW q \in Seq(X), NEW S, NEW L, L = Keep(q, S)
  PROVE  /\ L \in Seq(X)
         /\ \A k \in DOMAIN L : L[k] \in S /\ \E i \in DOMAIN q : q[i] = L[k]
         /\ \A i \in DOMAIN q : q[i] \in S => \E k \in DOMAIN L : L[k] = q[i]
         /\ Distinct(q) => Distinct(L)
<1> DEFINE P == Places(q, S)
           n == Cardinality(P)
           nth(k) == CHOOSE i \in P : Rank(P, i) = k
<1>1. DOMAIN q = 1..Len(q) /\ Len(q) \in Nat
  BY LenProperties
<1>2. P \subseteq 1..Len(q) /\ IsFiniteSet(P) /\ P \in SUBSET Int
  <2>1. P \subseteq 1..Len(q)
    BY <1>1 DEF Places
  <2>2. IsFiniteSet(1..Len(q))
    BY <1>1, FS_Interval
  <2> QED
    BY <2>1, <2>2, FS_Subset
<1>3. \A i \in P : i \in DOMAIN q /\ q[i] \in S /\ q[i] \in X
  BY <1>1, LenProperties DEF Places
<1>a. \A i \in DOMAIN q : q[i] \in S => i \in P
  BY DEF Places
<1> HIDE DEF P
<1>4. /\ n \in Nat
      /\ \A i \in P : Rank(P, i) \in 1..n
      /\ \A i, j \in P : Rank(P, i) = Rank(P, j) => i = j
      /\ \A k \in 1..n : \E i \in P : Rank(P, i) = k
  BY <1>2, RankBijective
<1>5. \A k \in 1..n : nth(k) \in P /\ Rank(P, nth(k)) = k
  BY <1>4
<1>6. L = [k \in 1..n |-> q[nth(k)]]
  BY DEF Keep, P
<1> HIDE DEF nth, n
<1>7. DOMAIN L = 1..n /\ \A k \in 1..n : L[k] = q[nth(k)]
  BY <1>6
<1>8. L \in Seq(X)
  BY <1>3, <1>4, <1>5, <1>6, SeqDef
<1>9. ASSUME NEW i \in DOMAIN q, q[i] \in S
      PROVE  \E k \in DOMAIN L : L[k] = q[i]
  <2>1. i \in P
    BY <1>9, <1>a
  <2>2. Rank(P, i) \in 1..n /\ nth(Rank(P, i)) = i
    BY <1>4, <1>5, <2>1
  <2> QED
    BY <1>7, <2>2
<1>10. ASSUME Distinct(q),
              NEW k \in DOMAIN L, NEW l \in DOMAIN L,
              L[k] = L[l]
       PROVE  k = l
  <2>1. nth(k) = nth(l)
    BY <1>3, <1>5, <1>7, <1>10 DEF Distinct
  <2> QED
    BY <1>5, <1>7, <2>1
<1>11. \A k \in DOMAIN L :
         L[k] \in S /\ \E i \in DOMAIN q : q[i] = L[k]
  BY <1>3, <1>5, <1>7
<1> QED
  BY <1>8, <1>9, <1>10, <1>11 DEF Distinct

USE DnsCacheAssumption

----------------------------------------------------------------------------
(* The inductive invariant.                                                *)

EntryStates == {"none", "pending", "valid", "failed"}
ConnStates == {"none", "resolving", "resolvefailed", "exit", "freed"}
Crashes == {"no", "assert", "overdue", "double free"}

States ==
  [entry : [Addresses -> EntryStates],
   expired : SUBSET Addresses,
   waiting : [Addresses -> Seq(Streams)],
   conn : [Streams -> ConnStates],
   resolving_streams : SUBSET Streams,
   told : [Streams -> 0 .. 1],
   crashed : Crashes]

\* The waiting list of each address: its resolving streams, once each, and none
\* unless the entry is pending.
Lists(en, wa, co) ==
  \A a \in Addresses :
    /\ ToSet(wa[a]) = {s \in Streams : AddrOf[s] = a /\ co[s] = "resolving"}
    /\ IsInjective(wa[a])
    /\ wa[a] # << >> => en[a] = "pending"

\* The streams on the circuits' resolving_streams and those marked for close.
\* A marked stream keeps its state until it is closed, unless it was cancelled.
Marks(co, re, cl, ci) ==
  \A s \in Streams :
    /\ co[s] = "resolving" /\ s \notin cl => s \in re
    /\ s \in re => co[s] = "resolving" /\ ci[CircOf[s]] = "open"
    /\ s \in cl => co[s] \in {"resolving", "resolvefailed"}
    /\ co[s] = "resolvefailed" => s \in cl

\* Who has been told, and who was marked for close for which reason.
Answers(co, to, cl, ci, ed) ==
  \A s \in Streams :
    /\ co[s] \in {"none", "resolving", "resolvefailed"} => to[s] = 0
    /\ s \in cl => s \in ed \/ ci[CircOf[s]] # "open"
    /\ co[s] = "freed" /\ ci[CircOf[s]] = "open" /\ s \notin ed => to[s] = 1

Good(d, cl, ci, ed) ==
  /\ d \in States
  /\ d.crashed # "assert"
  /\ d.crashed = "no" =>
       /\ Lists(d.entry, d.waiting, d.conn)
       /\ Marks(d.conn, d.resolving_streams, cl, ci)
       /\ Answers(d.conn, d.told, cl, ci, ed)

\* eventdns owes an answer for each pending entry.
Owed(d, as) ==
  d.crashed = "no" =>
    \A a \in Addresses : d.entry[a] = "pending" => as[a] > 0

St(en, ex, wa, co, re, to, cr) ==
  [entry |-> en, expired |-> ex, waiting |-> wa, conn |-> co,
   resolving_streams |-> re, told |-> to, crashed |-> cr]

\* The parts of a cache have the types States gives them.
LEMMA Fields ==
  ASSUME NEW d \in States
  PROVE  /\ d.entry \in [Addresses -> EntryStates]
         /\ d.expired \in SUBSET Addresses
         /\ d.waiting \in [Addresses -> Seq(Streams)]
         /\ d.conn \in [Streams -> ConnStates]
         /\ d.resolving_streams \in SUBSET Streams
         /\ d.told \in [Streams -> 0 .. 1]
         /\ d.crashed \in Crashes
BY DEF States

\* The fields of Uncache.
LEMMA UncacheIs ==
  ASSUME NEW d, NEW en, NEW ex, NEW wa, NEW co, NEW re, NEW to, NEW cr,
         d = St(en, ex, wa, co, re, to, cr), NEW A, NEW x, x = Uncache(d, A)
  PROVE  x = St([a \in Addresses |-> IF a \in A THEN "none" ELSE en[a]],
                ex \ A,
                [a \in Addresses |-> IF a \in A THEN << >> ELSE wa[a]],
                co, re, to, cr)
BY DEF Uncache, St

GoodNow(d) == Good(d, closeable, circ, ended)

\* No entry of x is pending that is not pending in d.
NoNewPending(d, x) ==
  \A a \in Addresses : x.entry[a] = "pending" => d.entry[a] = "pending"

----------------------------------------------------------------------------
(* Streams that leave waiting lists.                                       *)

\* W and M are the streams that wait for an address of A, those that are marked
\* for close in M.
Leaving(d, A, W, M) ==
  /\ W \cup M = {s \in Streams : AddrOf[s] \in A /\ d.conn[s] = "resolving"}
  /\ W \cap closeable = {} /\ M \subseteq closeable

\* The states and the answers of the streams after that.
LeftConn(d, W, M, co) ==
  /\ co \in [Streams -> ConnStates]
  /\ \A s \in Streams :
       /\ s \in W => co[s] \in {"freed", "exit"}
       /\ s \in M => co[s] = "resolvefailed"
       /\ s \notin W \cup M => co[s] = d.conn[s]

LeftTold(d, W, to) ==
  /\ to \in [Streams -> 0 .. 1]
  /\ \A s \in Streams : to[s] = IF s \in W THEN 1 ELSE d.told[s]

Left(d, A, W, M, co, to, x) ==
  x = St([a \in Addresses |-> IF a \in A THEN "none" ELSE d.entry[a]],
         d.expired \ A,
         [a \in Addresses |-> IF a \in A THEN << >> ELSE d.waiting[a]],
         co, d.resolving_streams \ (W \cup M), to, d.crashed)

\* The empty list.
LEMMA EmptyList ==
  << >> \in Seq(Streams) /\ ToSet(<< >>) = {} /\ IsInjective(<< >>)
<1>1. << >> \in Seq(Streams) /\ Len(<< >>) = 0
  BY EmptySeq
<1>2. DOMAIN << >> = 1..0
  BY <1>1, LenProperties
<1>3. \A i \in DOMAIN << >> : FALSE
  BY <1>2
<1> QED
  BY <1>1, <1>3 DEF ToSet, IsInjective

\* The entries A go with their waiting lists: the streams that are not marked
\* have their answer, the others are left to be closed.
LEMMA LeaveGood ==
  ASSUME NEW d, GoodNow(d), d.crashed = "no", NEW A \in SUBSET Addresses, NEW W,
         NEW M, Leaving(d, A, W, M), NEW co, LeftConn(d, W, M, co), NEW to,
         LeftTold(d, W, to), NEW x, Left(d, A, W, M, co, to, x)
  PROVE  GoodNow(x) /\ x.crashed = "no" /\ NoNewPending(d, x)
<1>1. /\ d \in States /\ Lists(d.entry, d.waiting, d.conn)
      /\ Marks(d.conn, d.resolving_streams, closeable, circ)
      /\ Answers(d.conn, d.told, closeable, circ, ended)
  BY DEF GoodNow, Good
<1>2. /\ x.entry = [a \in Addresses |-> IF a \in A THEN "none" ELSE d.entry[a]]
      /\ x.waiting = [a \in Addresses |-> IF a \in A THEN << >> ELSE d.waiting[a]]
      /\ x.conn = co /\ x.resolving_streams = d.resolving_streams \ (W \cup M)
      /\ x.told = to /\ x.crashed = "no"
  BY DEF St, Left
<1>3. /\ d.entry \in [Addresses -> EntryStates]
      /\ d.expired \in SUBSET Addresses
      /\ d.waiting \in [Addresses -> Seq(Streams)]
      /\ d.conn \in [Streams -> ConnStates]
      /\ d.resolving_streams \in SUBSET Streams
      /\ d.told \in [Streams -> 0 .. 1]
  BY <1>1, Fields
<1>4. x \in States
  <2>1. x.entry \in [Addresses -> EntryStates]
    BY <1>2, <1>3 DEF EntryStates
  <2>2. x.waiting \in [Addresses -> Seq(Streams)]
    <3> DEFINE q(a) == IF a \in A THEN << >> ELSE d.waiting[a]
    <3>1. ASSUME NEW a \in Addresses PROVE q(a) \in Seq(Streams)
      <4>1. << >> \in Seq(Streams) /\ d.waiting[a] \in Seq(Streams)
        BY <1>3, EmptyList
      <4> QED
        BY <4>1
    <3> HIDE DEF q
    <3>2. [a \in Addresses |-> q(a)] \in [Addresses -> Seq(Streams)]
      BY <3>1
    <3> QED
      BY <1>2, <3>2 DEF q
  <2>3. co \in [Streams -> ConnStates] /\ to \in [Streams -> 0 .. 1]
    BY DEF LeftConn, LeftTold
  <2>4. "no" \in Crashes
    BY DEF Crashes
  <2> QED
    BY <1>2, <1>3, <2>1, <2>2, <2>3, <2>4 DEF States, St, Left
<1>5. Lists(x.entry, x.waiting, x.conn)
  <2> SUFFICES ASSUME NEW a \in Addresses
               PROVE  /\ ToSet(x.waiting[a]) =
                           {s \in Streams : AddrOf[s] = a /\ x.conn[s] = "resolving"}
                      /\ IsInjective(x.waiting[a])
                      /\ x.waiting[a] # << >> => x.entry[a] = "pending"
    BY DEF Lists
  <2>1. CASE a \in A
    <3>1. x.waiting[a] = << >>
      BY <1>2, <2>1
    <3>2. ToSet(x.waiting[a]) = {} /\ IsInjective(x.waiting[a])
      BY <3>1, EmptyList
    <3>3. ASSUME NEW s \in Streams, AddrOf[s] = a PROVE co[s] # "resolving"
      BY <2>1, <3>3 DEF Leaving, LeftConn
    <3>4. {s \in Streams : AddrOf[s] = a /\ x.conn[s] = "resolving"} = {}
      BY <1>2, <3>3
    <3> QED
      BY <3>1, <3>2, <3>4
  <2>2. CASE a \notin A
    <3>1. x.waiting[a] = d.waiting[a] /\ x.entry[a] = d.entry[a]
      BY <1>2, <2>2
    <3>2. ASSUME NEW s \in Streams, AddrOf[s] = a PROVE co[s] = d.conn[s]
      BY <2>2, <3>2 DEF Leaving, LeftConn
    <3>3. /\ ToSet(d.waiting[a]) =
               {s \in Streams : AddrOf[s] = a /\ d.conn[s] = "resolving"}
          /\ IsInjective(d.waiting[a])
          /\ d.waiting[a] # << >> => d.entry[a] = "pending"
      BY <1>1 DEF Lists
    <3>4. {s \in Streams : AddrOf[s] = a /\ d.conn[s] = "resolving"}
            = {s \in Streams : AddrOf[s] = a /\ x.conn[s] = "resolving"}
      BY <1>2, <3>2
    <3> QED
      BY <3>1, <3>3, <3>4
  <2> QED
    BY <2>1, <2>2
<1>6. Marks(x.conn, x.resolving_streams, closeable, circ)
  <2> SUFFICES ASSUME NEW s \in Streams
               PROVE  /\ co[s] = "resolving" /\ s \notin closeable =>
                           s \in x.resolving_streams
                      /\ s \in x.resolving_streams =>
                           co[s] = "resolving" /\ circ[CircOf[s]] = "open"
                      /\ s \in closeable => co[s] \in {"resolving", "resolvefailed"}
                      /\ co[s] = "resolvefailed" => s \in closeable
    BY <1>2 DEF Marks
  <2> QED
    BY <1>1, <1>2 DEF Marks, Leaving, LeftConn
<1>7. Answers(x.conn, x.told, closeable, circ, ended)
  <2> SUFFICES ASSUME NEW s \in Streams
               PROVE  /\ co[s] \in {"none", "resolving", "resolvefailed"} =>
                           to[s] = 0
                      /\ s \in closeable => s \in ended \/ circ[CircOf[s]] # "open"
                      /\ co[s] = "freed" /\ circ[CircOf[s]] = "open"
                           /\ s \notin ended => to[s] = 1
    BY <1>2 DEF Answers
  <2> QED
    BY <1>1 DEF Answers, Leaving, LeftConn, LeftTold
<1>8. NoNewPending(d, x)
  BY <1>2, <1>3 DEF NoNewPending
<1> QED
  BY <1>2, <1>4, <1>5, <1>6, <1>7, <1>8 DEF GoodNow, Good

\* A failed assertion changes nothing else.
LEMMA CrashGood ==
  ASSUME NEW d, GoodNow(d), NEW v \in {"overdue", "double free"}, NEW x,
         x = [d EXCEPT !.crashed = v]
  PROVE  GoodNow(x) /\ x.crashed = v
<1>1. d \in States
  BY DEF GoodNow, Good
<1>2. x = St(d.entry, d.expired, d.waiting, d.conn, d.resolving_streams, d.told, v)
  BY <1>1 DEF States, St
<1>3. v \in Crashes /\ v # "assert" /\ v # "no"
  BY DEF Crashes
<1>4. x \in States
  BY <1>1, <1>2, <1>3, Fields DEF States, St
<1>5. x.crashed = v
  BY <1>2 DEF St
<1> QED
  BY <1>3, <1>4, <1>5 DEF GoodNow, Good

\* purge_expired_resolves keeps the invariant or fails its own assertion.
LEMMA PurgeGood ==
  ASSUME NEW d, GoodNow(d), d.crashed = "no", NEW x, x = Purge(d)
  PROVE  /\ GoodNow(x) /\ x.crashed \in {"no", "overdue"}
         /\ x.crashed = "no" =>
              NoNewPending(d, x) /\ \A s \in Streams : d.conn[s] = "none" =>
                                                    x.conn[s] = "none"
<1> DEFINE A == d.expired
           W == UNION {ToSet(d.waiting[a]) : a \in A}
<1>1. /\ d \in States /\ Lists(d.entry, d.waiting, d.conn)
      /\ Answers(d.conn, d.told, closeable, circ, ended)
  BY DEF GoodNow, Good
<1>2. /\ A \in SUBSET Addresses /\ d.conn \in [Streams -> ConnStates]
      /\ d.told \in [Streams -> 0 .. 1]
  BY <1>1, Fields
<1>3. W = {s \in Streams : AddrOf[s] \in A /\ d.conn[s] = "resolving"}
  BY <1>1, <1>2 DEF Lists
<1>4. CASE W \cap closeable # {}
  <2>1. x = [d EXCEPT !.crashed = "overdue"]
    BY <1>4 DEF Purge
  <2> QED
    BY <2>1, CrashGood
<1>5. CASE W \cap closeable = {}
  <2>1. x = Uncache(Dismiss(d, W, Streams), A)
    BY <1>5 DEF Purge
  <2> HIDE DEF W, A
  <2> DEFINE co == [s \in Streams |-> IF s \in W THEN "freed" ELSE d.conn[s]]
             to == [s \in Streams |-> IF s \in W \cap Streams THEN d.told[s] + 1
                                      ELSE d.told[s]]
             re == d.resolving_streams \ W
             M == {}
  <2>2. Dismiss(d, W, Streams) = St(d.entry, A, d.waiting, co, re, to, d.crashed)
    <3>1. ASSUME NEW y, y = Dismiss(d, W, Streams)
          PROVE  y = St(d.entry, d.expired, d.waiting, co, re, to, d.crashed)
      BY <1>1, <3>1 DEF Dismiss, States, St
    <3> QED
      BY <3>1 DEF A
  <2>3. LeftConn(d, W, M, co)
    BY <1>2 DEF LeftConn, ConnStates
  <2>4. LeftTold(d, W, to)
    <3>1. \A s \in Streams : to[s] = IF s \in W THEN 1 ELSE d.told[s]
      BY <1>1, <1>3 DEF Answers
    <3>2. to \in [Streams -> 0 .. 1]
      BY <1>2, <3>1
    <3> QED
      BY <3>1, <3>2 DEF LeftTold
  <2>5. Leaving(d, A, W, M)
    BY <1>3, <1>5 DEF Leaving
  <2>6. re = d.resolving_streams \ (W \cup M)
    OBVIOUS
  <2>9. \A s \in Streams : d.conn[s] = "none" => co[s] = "none"
    BY <1>3
  <2> HIDE DEF co, to, re, M
  <2>7. x = St([a \in Addresses |-> IF a \in A THEN "none" ELSE d.entry[a]],
               A \ A,
               [a \in Addresses |-> IF a \in A THEN << >> ELSE d.waiting[a]],
               co, re, to, d.crashed)
    BY <2>1, <2>2, UncacheIs
  <2>8. GoodNow(x) /\ x.crashed = "no" /\ NoNewPending(d, x)
    <3>1. Left(d, A, W, M, co, to, x)
      BY <2>6, <2>7 DEF A, Left
    <3>2. GoodNow(d) /\ d.crashed = "no" /\ A \in SUBSET Addresses
      BY <1>2
    <3> QED
      BY ONLY <2>3, <2>4, <2>5, <3>1, <3>2, LeaveGood
  <2>10. x.conn = co
    BY <2>7 DEF St
  <2> QED
    BY <2>8, <2>9, <2>10
<1> QED
  BY <1>4, <1>5

\* dns_cancel_pending_resolve keeps the invariant.
LEMMA CancelPendingGood ==
  ASSUME NEW d, GoodNow(d), d.crashed = "no", NEW b \in Addresses, NEW x,
         x = CancelPending(d, b)
  PROVE  /\ GoodNow(x) /\ x.crashed = "no" /\ NoNewPending(d, x)
         /\ \A s \in Streams : d.conn[s] = "none" => x.conn[s] = "none"
<1> DEFINE A == {b}
           W == ToSet(d.waiting[b]) \ closeable
           M == ToSet(d.waiting[b]) \cap closeable
           f == [d EXCEPT !.conn = [s \in Streams |->
                                      IF s \in M THEN "resolvefailed" ELSE @[s]],
                          !.resolving_streams = @ \ M]
<1>1. /\ d \in States /\ Lists(d.entry, d.waiting, d.conn)
      /\ Marks(d.conn, d.resolving_streams, closeable, circ)
      /\ Answers(d.conn, d.told, closeable, circ, ended)
  BY DEF GoodNow, Good
<1>2. /\ A \in SUBSET Addresses /\ d.conn \in [Streams -> ConnStates]
      /\ d.told \in [Streams -> 0 .. 1] /\ d.resolving_streams \in SUBSET Streams
  BY <1>1, Fields
<1>3. ToSet(d.waiting[b])
        = {s \in Streams : AddrOf[s] \in A /\ d.conn[s] = "resolving"}
  BY <1>1 DEF Lists
<1>4. CASE d.entry[b] # "pending" \/ d.waiting[b] = << >>
  <2>1. x = d
    BY <1>4 DEF CancelPending
  <2> QED
    BY <2>1 DEF NoNewPending
<1>5. CASE ~(d.entry[b] # "pending" \/ d.waiting[b] = << >>)
  <2>1. x = Uncache(Dismiss(f, W, d.resolving_streams), A)
    BY <1>5 DEF CancelPending
  <2>2. /\ Leaving(d, A, W, M) /\ W \subseteq d.resolving_streams
        /\ M \subseteq Streams /\ W \cap M = {}
        /\ \A s \in W : d.told[s] = 0
        /\ \A s \in Streams : d.conn[s] = "none" => s \notin W \cup M
    BY <1>1, <1>3 DEF Leaving, Marks, Answers
  <2> HIDE DEF W, A, M
  <2> DEFINE cf == [s \in Streams |-> IF s \in M THEN "resolvefailed" ELSE d.conn[s]]
             rf == d.resolving_streams \ M
             co == [s \in Streams |-> IF s \in W THEN "freed" ELSE cf[s]]
             to == [s \in Streams |-> IF s \in W \cap d.resolving_streams
                                      THEN d.told[s] + 1 ELSE d.told[s]]
             re == rf \ W
             fl == f
  <2>3. fl = St(d.entry, d.expired, d.waiting, cf, rf, d.told, d.crashed)
    <3>1. ASSUME NEW y, y = [d EXCEPT !.conn = [s \in Streams |->
                                      IF s \in M THEN "resolvefailed" ELSE @[s]],
                                      !.resolving_streams = @ \ M]
          PROVE  y = St(d.entry, d.expired, d.waiting, cf, rf, d.told, d.crashed)
      BY <1>1, <3>1 DEF States, St
    <3> QED
      BY <3>1
  <2>4. LeftConn(d, W, M, co)
    BY <1>2, <2>2 DEF LeftConn, ConnStates
  <2>5. cf \in [Streams -> ConnStates] /\ rf \in SUBSET Streams
    BY <1>2 DEF ConnStates
  <2>6. LeftTold(d, W, to)
    <3>1. \A s \in Streams : to[s] = IF s \in W THEN 1 ELSE d.told[s]
      BY <2>2
    <3>2. to \in [Streams -> 0 .. 1]
      BY <1>2, <3>1
    <3> QED
      BY <3>1, <3>2 DEF LeftTold
  <2>7. re = d.resolving_streams \ (W \cup M)
    OBVIOUS
  <2>8. \A s \in Streams : d.conn[s] = "none" => co[s] = "none"
    BY <2>2
  <2>9. x = Uncache(Dismiss(fl, W, d.resolving_streams), A)
    BY <2>1
  <2> HIDE DEF cf, rf, fl
  <2>10. fl \in States
    BY <1>1, <2>3, <2>5, Fields DEF States, St
  <2>11. /\ fl.entry = d.entry /\ fl.expired = d.expired /\ fl.waiting = d.waiting
         /\ fl.conn = cf /\ fl.resolving_streams = rf /\ fl.told = d.told
         /\ fl.crashed = d.crashed
    BY <2>3 DEF St
  <2>12. Dismiss(fl, W, d.resolving_streams)
           = St(d.entry, d.expired, d.waiting, co, re, to, d.crashed)
    <3>1. ASSUME NEW y, y = Dismiss(fl, W, d.resolving_streams)
          PROVE  y = St(fl.entry, fl.expired, fl.waiting,
                        [s \in Streams |-> IF s \in W THEN "freed" ELSE fl.conn[s]],
                        fl.resolving_streams \ W,
                        [s \in Streams |-> IF s \in W \cap d.resolving_streams
                                           THEN fl.told[s] + 1 ELSE fl.told[s]],
                        fl.crashed)
      BY <2>10, <3>1 DEF Dismiss, States, St
    <3>2. ASSUME NEW y, y = Dismiss(fl, W, d.resolving_streams)
          PROVE  y = St(d.entry, d.expired, d.waiting, co, re, to, d.crashed)
      BY <2>11, <3>1, <3>2
    <3> QED
      BY <3>2
  <2> HIDE DEF co, to, re
  <2>13. x = St([a \in Addresses |-> IF a \in A THEN "none" ELSE d.entry[a]],
                d.expired \ A,
                [a \in Addresses |-> IF a \in A THEN << >> ELSE d.waiting[a]],
                co, re, to, d.crashed)
    BY <2>9, <2>12, UncacheIs
  <2>14. GoodNow(x) /\ x.crashed = "no" /\ NoNewPending(d, x)
    <3>1. Left(d, A, W, M, co, to, x)
      BY <2>7, <2>13 DEF Left
    <3>2. Leaving(d, A, W, M)
      BY <2>2
    <3>3. GoodNow(d) /\ d.crashed = "no" /\ A \in SUBSET Addresses
      BY <1>2
    <3> QED
      BY ONLY <2>4, <2>6, <3>1, <3>2, <3>3, LeaveGood
  <2>15. x.conn = co
    BY <2>13 DEF St
  <2> QED
    BY <2>8, <2>14, <2>15
<1> QED
  BY <1>4, <1>5

----------------------------------------------------------------------------
(* A new stream.                                                           *)

Finished(d, s, co, to, x) ==
  /\ LeftConn(d, {s}, {}, co) /\ LeftTold(d, {s}, to)
  /\ x = St(d.entry, d.expired, d.waiting, co, d.resolving_streams \ {s}, to,
            d.crashed)

\* A stream that does not wait gets its answer at once.
LEMMA FinishGood ==
  ASSUME NEW d, GoodNow(d), d.crashed = "no", NEW s \in Streams,
         d.conn[s] = "none", NEW co, NEW to, NEW x, Finished(d, s, co, to, x)
  PROVE  GoodNow(x) /\ NoNewPending(d, x)
<1>1. /\ d \in States /\ Lists(d.entry, d.waiting, d.conn)
      /\ Marks(d.conn, d.resolving_streams, closeable, circ)
      /\ Answers(d.conn, d.told, closeable, circ, ended)
  BY DEF GoodNow, Good
<1>2. /\ x.entry = d.entry /\ x.waiting = d.waiting /\ x.conn = co
      /\ x.resolving_streams = d.resolving_streams \ {s} /\ x.told = to
      /\ x.crashed = "no"
  BY DEF Finished, St
<1>3. /\ co \in [Streams -> ConnStates] /\ to \in [Streams -> 0 .. 1]
      /\ co[s] \in {"freed", "exit"} /\ to[s] = 1
      /\ \A y \in Streams : y # s => co[y] = d.conn[y] /\ to[y] = d.told[y]
  BY DEF Finished, LeftConn, LeftTold
<1>4. x \in States
  <2>1. d.resolving_streams \ {s} \in SUBSET Streams
    BY <1>1, Fields
  <2> QED
    BY <1>1, <1>3, <2>1, Fields DEF Finished, States, St
<1>5. Lists(x.entry, x.waiting, x.conn)
  <2>1. \A y \in Streams : co[y] = "resolving" <=> d.conn[y] = "resolving"
    BY <1>3
  <2>2. ASSUME NEW a \in Addresses
        PROVE  {y \in Streams : AddrOf[y] = a /\ d.conn[y] = "resolving"}
                 = {y \in Streams : AddrOf[y] = a /\ co[y] = "resolving"}
    BY <2>1
  <2> QED
    BY <1>1, <1>2, <2>2 DEF Lists
<1>6. Marks(x.conn, x.resolving_streams, closeable, circ)
  BY <1>1, <1>2, <1>3 DEF Marks
<1>7. Answers(x.conn, x.told, closeable, circ, ended)
  BY <1>1, <1>2, <1>3 DEF Answers
<1>8. NoNewPending(d, x)
  BY <1>2 DEF NoNewPending
<1> QED
  BY <1>2, <1>4, <1>5, <1>6, <1>7, <1>8 DEF GoodNow, Good

\* The stream is refused: it is told and freed.
LEMMA DismissGood ==
  ASSUME NEW d, GoodNow(d), d.crashed = "no", NEW s \in Streams,
         d.conn[s] = "none", NEW x, x = Dismiss(d, {s}, {s})
  PROVE  GoodNow(x) /\ NoNewPending(d, x)
<1> DEFINE co == [y \in Streams |-> IF y \in {s} THEN "freed" ELSE d.conn[y]]
           to == [y \in Streams |-> IF y \in {s} \cap {s} THEN d.told[y] + 1
                                    ELSE d.told[y]]
<1>1. d \in States /\ Answers(d.conn, d.told, closeable, circ, ended)
  BY DEF GoodNow, Good
<1>2. d.conn \in [Streams -> ConnStates] /\ d.told \in [Streams -> 0 .. 1]
  BY <1>1, Fields
<1>3. x = St(d.entry, d.expired, d.waiting, co, d.resolving_streams \ {s}, to,
             d.crashed)
  BY <1>1 DEF Dismiss, States, St
<1>4. LeftConn(d, {s}, {}, co)
  BY <1>2 DEF LeftConn, ConnStates
<1>5. LeftTold(d, {s}, to)
  <2>1. d.told[s] = 0
    BY <1>1 DEF Answers
  <2>2. \A y \in Streams : to[y] = IF y \in {s} THEN 1 ELSE d.told[y]
    BY <2>1
  <2>3. to \in [Streams -> 0 .. 1]
    BY <1>2, <2>2
  <2> QED
    BY <2>2, <2>3 DEF LeftTold
<1> HIDE DEF co, to
<1>6. Finished(d, s, co, to, x)
  BY <1>3, <1>4, <1>5 DEF Finished
<1> QED
  BY <1>6, FinishGood

\* The address is known: the stream is answered, or connects.
LEMMA AnsweredGood ==
  ASSUME NEW d, GoodNow(d), d.crashed = "no", NEW s \in Streams,
         d.conn[s] = "none", NEW x \in Answered(d, s)
  PROVE  GoodNow(x) /\ NoNewPending(d, x)
<1>1. PICK r \in {"freed", "exit"} :
        x = [d EXCEPT !.conn[s] = r, !.told[s] = @ + 1,
                      !.resolving_streams = @ \ {s}]
  BY DEF Answered
<1> DEFINE co == [d.conn EXCEPT ![s] = r]
           to == [d.told EXCEPT ![s] = d.told[s] + 1]
<1>2. d \in States /\ Answers(d.conn, d.told, closeable, circ, ended)
  BY DEF GoodNow, Good
<1>3. d.conn \in [Streams -> ConnStates] /\ d.told \in [Streams -> 0 .. 1]
  BY <1>2, Fields
<1>4. x = St(d.entry, d.expired, d.waiting, co, d.resolving_streams \ {s}, to,
             d.crashed)
  BY <1>1, <1>2 DEF States, St
<1>5. LeftConn(d, {s}, {}, co)
  BY <1>3 DEF LeftConn, ConnStates
<1>6. LeftTold(d, {s}, to)
  <2>1. d.told[s] = 0
    BY <1>2 DEF Answers
  <2>2. \A y \in Streams : to[y] = IF y \in {s} THEN 1 ELSE d.told[y]
    BY <1>3, <2>1
  <2>3. to \in [Streams -> 0 .. 1]
    BY <1>3, <2>1
  <2> QED
    BY <2>2, <2>3 DEF LeftTold
<1> HIDE DEF co, to
<1>7. Finished(d, s, co, to, x)
  BY <1>4, <1>5, <1>6 DEF Finished
<1> QED
  BY <1>7, FinishGood

\* dns_resolve fails: all who wait for the address are cancelled.
LEMMA FailedGood ==
  ASSUME NEW d, GoodNow(d), d.crashed = "no", NEW s \in Streams,
         d.conn[s] = "none", NEW x, x = Failed(d, s)
  PROVE  GoodNow(x) /\ (x.crashed = "no" => NoNewPending(d, x))
<1> DEFINE t == CancelPending(d, AddrOf[s])
<1>1. /\ GoodNow(t) /\ t.crashed = "no" /\ NoNewPending(d, t)
      /\ t.conn[s] = "none"
  BY CancelPendingGood
<1>2. x = Dismiss(t, {s}, {s})
  BY <1>1 DEF Failed
<1> HIDE DEF t
<1>3. GoodNow(x) /\ NoNewPending(t, x)
  BY <1>1, <1>2, DismissGood
<1> QED
  BY <1>1, <1>3 DEF NoNewPending

\* launch_resolve fails: the stream is cancelled with its own new entry, and
\* freed a second time by its caller.
LEMMA LaunchFailedGood ==
  ASSUME NEW d, GoodNow(d), d.crashed = "no", NEW s \in Streams,
         d.conn[s] = "none", NEW x, x = LaunchFailed(d, s)
  PROVE  GoodNow(x) /\ x.crashed = "double free"
<1> DEFINE b == AddrOf[s]
           e == [d EXCEPT !.entry[b] = "pending", !.waiting[b] = <<s>>]
           en == [d.entry EXCEPT ![b] = "pending"]
           wa == [d.waiting EXCEPT ![b] = <<s>>]
<1>1. d \in States /\ Marks(d.conn, d.resolving_streams, closeable, circ)
  BY DEF GoodNow, Good
<1>2. /\ d.entry \in [Addresses -> EntryStates]
      /\ d.expired \in SUBSET Addresses
      /\ d.waiting \in [Addresses -> Seq(Streams)]
      /\ d.conn \in [Streams -> ConnStates]
      /\ d.resolving_streams \in SUBSET Streams
      /\ d.told \in [Streams -> 0 .. 1] /\ d.crashed \in Crashes
  BY <1>1, Fields
<1>3. /\ b \in Addresses /\ s \notin closeable /\ s \notin d.resolving_streams
  BY <1>1 DEF Marks
<1>4. e = St(en, d.expired, wa, d.conn, d.resolving_streams, d.told, d.crashed)
  <2>1. ASSUME NEW y, y = [d EXCEPT !.entry[b] = "pending", !.waiting[b] = <<s>>]
        PROVE  y = St(en, d.expired, wa, d.conn, d.resolving_streams, d.told,
                      d.crashed)
    BY <1>1, <2>1 DEF States, St
  <2> QED
    BY <2>1
<1>5. /\ <<s>> \in Seq(Streams) /\ <<s>> # << >> /\ ToSet(<<s>>) = {s}
  BY DEF ToSet
<1>6. /\ en \in [Addresses -> EntryStates] /\ wa \in [Addresses -> Seq(Streams)]
      /\ en[b] = "pending" /\ wa[b] = <<s>>
  BY <1>2, <1>3, <1>5 DEF EntryStates
<1>7. x = Failed(e, s)
  BY DEF LaunchFailed
<1> HIDE DEF e, en, wa, b
<1>8. /\ e \in States /\ e.entry = en /\ e.expired = d.expired /\ e.waiting = wa
      /\ e.conn = d.conn /\ e.resolving_streams = d.resolving_streams
      /\ e.told = d.told /\ e.crashed = d.crashed
  BY <1>2, <1>4, <1>6 DEF States, St
<1> DEFINE W == {s}
           M == {}
           f == [e EXCEPT !.conn = [y \in Streams |->
                                      IF y \in M THEN "resolvefailed" ELSE @[y]],
                          !.resolving_streams = @ \ M]
           co == [y \in Streams |-> IF y \in W THEN "freed" ELSE d.conn[y]]
           t == CancelPending(e, b)
<1>9. f = e
  <2>1. ASSUME NEW y, y = [e EXCEPT !.conn = [z \in Streams |->
                                      IF z \in {} THEN "resolvefailed" ELSE @[z]],
                                    !.resolving_streams = @ \ {}]
        PROVE  y = St(e.entry, e.expired, e.waiting,
                      [z \in Streams |-> e.conn[z]], e.resolving_streams, e.told,
                      e.crashed)
    BY <1>8, <2>1 DEF States, St
  <2>2. [z \in Streams |-> e.conn[z]] = e.conn
    BY <1>2, <1>8
  <2>3. e = St(e.entry, e.expired, e.waiting, e.conn, e.resolving_streams, e.told,
               e.crashed)
    BY <1>8 DEF States, St
  <2> QED
    BY <2>1, <2>2, <2>3
<1>10. t = Uncache(Dismiss(e, W, e.resolving_streams), {b})
  <2>1. /\ ToSet(e.waiting[b]) \ closeable = W
        /\ ToSet(e.waiting[b]) \cap closeable = M
        /\ ~(e.entry[b] # "pending" \/ e.waiting[b] = << >>)
    <3>1. e.waiting[b] = <<s>> /\ e.entry[b] = "pending"
      BY <1>6, <1>8
    <3>2. ToSet(e.waiting[b]) = {s} /\ e.waiting[b] # << >>
      BY ONLY <1>5, <3>1
    <3> QED
      BY <1>3, <3>1, <3>2
  <2> HIDE DEF W, M
  <2>2. t = Uncache(Dismiss(f, W, e.resolving_streams), {b})
    BY <2>1 DEF CancelPending
  <2> QED
    BY <1>9, <2>2
<1>11. Dismiss(e, W, e.resolving_streams)
         = St(en, d.expired, wa, co, d.resolving_streams \ W, d.told, d.crashed)
  <2> DEFINE to == [y \in Streams |-> IF y \in W \cap e.resolving_streams
                                      THEN e.told[y] + 1 ELSE e.told[y]]
  <2>1. ASSUME NEW y, y = Dismiss(e, W, e.resolving_streams)
        PROVE  y = St(e.entry, e.expired, e.waiting,
                      [z \in Streams |-> IF z \in W THEN "freed" ELSE e.conn[z]],
                      e.resolving_streams \ W, to, e.crashed)
    BY <1>8, <2>1 DEF Dismiss, States, St
  <2>2. to = d.told
    BY <1>2, <1>3, <1>8
  <2> QED
    BY <1>8, <2>1, <2>2
<1>12. co \in [Streams -> ConnStates] /\ co[s] = "freed"
  BY <1>2 DEF ConnStates
<1>13. d.resolving_streams \ W \in SUBSET Streams
  BY <1>2
<1> HIDE DEF co, W, t
<1> DEFINE A == {b}
           en2 == [a \in Addresses |-> IF a \in A THEN "none" ELSE en[a]]
           wa2 == [a \in Addresses |-> IF a \in A THEN << >> ELSE wa[a]]
           ex2 == d.expired \ A
<1>14. t = St(en2, ex2, wa2, co, d.resolving_streams \ W, d.told, d.crashed)
  <2> HIDE DEF A
  <2>1. t = Uncache(Dismiss(e, W, e.resolving_streams), A)
    BY <1>10 DEF A
  <2> QED
    BY ONLY <1>11, <2>1, UncacheIs
<1>15. /\ en2 \in [Addresses -> EntryStates] /\ ex2 \in SUBSET Addresses
       /\ wa2 \in [Addresses -> Seq(Streams)]
  <2>1. en2 \in [Addresses -> EntryStates]
    BY <1>6 DEF EntryStates
  <2>2. ASSUME NEW a \in Addresses
        PROVE  (IF a \in A THEN << >> ELSE wa[a]) \in Seq(Streams)
    <3>1. << >> \in Seq(Streams) /\ wa[a] \in Seq(Streams)
      BY <1>6, EmptyList
    <3> QED
      BY <3>1
  <2> QED
    BY <1>2, <2>1, <2>2
<1> HIDE DEF en2, ex2, wa2
<1>16. t.conn[s] = "freed" /\ t \in States
  BY <1>2, <1>12, <1>13, <1>14, <1>15 DEF States, St
<1>17. x = [t EXCEPT !.crashed = "double free"]
  BY <1>7, <1>16 DEF Failed, t, b
<1>18. x = St(t.entry, t.expired, t.waiting, t.conn, t.resolving_streams, t.told,
              "double free")
  BY <1>16, <1>17 DEF States, St
<1>19. x \in States /\ x.crashed = "double free"
  <2>1. "double free" \in Crashes
    BY DEF Crashes
  <2>2. /\ t.entry \in [Addresses -> EntryStates] /\ t.expired \in SUBSET Addresses
        /\ t.waiting \in [Addresses -> Seq(Streams)]
        /\ t.conn \in [Streams -> ConnStates]
        /\ t.resolving_streams \in SUBSET Streams
        /\ t.told \in [Streams -> 0 .. 1]
    BY <1>16, Fields
  <2> QED
    BY ONLY <1>18, <2>1, <2>2 DEF States, St
<1> QED
  BY <1>19 DEF GoodNow, Good

\* A stream joins the waiting list of a pending entry.
LEMMA JoinGood ==
  ASSUME NEW d, GoodNow(d), d.crashed = "no", NEW s \in Streams,
         d.conn[s] = "none", circ[CircOf[s]] = "open",
         d.entry[AddrOf[s]] = "pending", NEW x, x = Join(d, s)
  PROVE  GoodNow(x) /\ NoNewPending(d, x)
<1> DEFINE b == AddrOf[s]
           q == d.waiting[b]
           L == <<s>> \o q
           wa == [d.waiting EXCEPT ![b] = L]
           co == [d.conn EXCEPT ![s] = "resolving"]
           re == d.resolving_streams \cup {s}
<1>1. /\ d \in States /\ Lists(d.entry, d.waiting, d.conn)
      /\ Marks(d.conn, d.resolving_streams, closeable, circ)
      /\ Answers(d.conn, d.told, closeable, circ, ended)
  BY DEF GoodNow, Good
<1>2. /\ d.waiting \in [Addresses -> Seq(Streams)]
      /\ d.conn \in [Streams -> ConnStates]
      /\ d.resolving_streams \in SUBSET Streams /\ b \in Addresses
      /\ q \in Seq(Streams)
  BY <1>1, Fields
<1>3. x = St(d.entry, d.expired, wa, co, re, d.told, d.crashed)
  BY <1>1 DEF Join, States, St
<1>4. /\ ToSet(q) = {y \in Streams : AddrOf[y] = b /\ d.conn[y] = "resolving"}
      /\ IsInjective(q)
  BY <1>1, <1>2 DEF Lists
<1>5. L \in Seq(Streams) /\ ToSet(L) = ToSet(q) \cup {s} /\ IsInjective(L)
  <2>1. s \notin ToSet(q)
    BY <1>4
  <2> HIDE DEF q
  <2>2. Len(q) \in Nat /\ DOMAIN q = 1..Len(q)
    BY <1>2, LenProperties
  <2>3. /\ L \in Seq(Streams) /\ DOMAIN L = 1..(Len(q) + 1)
        /\ \A i \in 1..(Len(q) + 1) : L[i] = IF i = 1 THEN s ELSE q[i - 1]
    <3>1. /\ <<s>> \in Seq(Streams) /\ Len(<<s>>) = 1 /\ <<s>>[1] = s
      OBVIOUS
    <3> DEFINE o == <<s>>
    <3> HIDE DEF o
    <3>2. /\ o \o q \in Seq(Streams)
          /\ Len(o \o q) = Len(o) + Len(q)
          /\ \A i \in 1..(Len(o) + Len(q)) :
               (o \o q)[i] = IF i <= Len(o) THEN o[i] ELSE q[i - Len(o)]
      BY ONLY <1>2, <3>1, ConcatProperties DEF o
    <3>3. Len(o) = 1 /\ o[1] = s /\ L = o \o q
      BY <3>1 DEF o
    <3> HIDE DEF L
    <3>4. L \in Seq(Streams) /\ Len(L) = Len(q) + 1
      BY <2>2, <3>2, <3>3
    <3>5. \A i \in 1..(Len(q) + 1) : L[i] = IF i = 1 THEN s ELSE q[i - 1]
      BY <2>2, <3>2, <3>3
    <3>6. DOMAIN L = 1..(Len(q) + 1)
      BY <3>4, LenProperties
    <3> QED
      BY <3>4, <3>5, <3>6
  <2> HIDE DEF L
  <2>4. ASSUME NEW i \in DOMAIN L, i # 1
        PROVE  i - 1 \in DOMAIN q /\ L[i] = q[i - 1]
    BY <2>2, <2>3, <2>4
  <2>5. 1 \in DOMAIN L /\ L[1] = s
    BY <2>2, <2>3
  <2>6. ASSUME NEW j \in DOMAIN q PROVE j + 1 \in DOMAIN L /\ L[j + 1] = q[j]
    BY <2>2, <2>3
  <2>7. ToSet(L) = ToSet(q) \cup {s}
    BY <2>4, <2>5, <2>6 DEF ToSet
  <2>8. IsInjective(L)
    <3> SUFFICES ASSUME NEW i \in DOMAIN L, NEW j \in DOMAIN L, L[i] = L[j]
                 PROVE  i = j
      BY DEF IsInjective
    <3>1. CASE i = 1 \/ j = 1
      BY <2>1, <2>4, <2>5, <3>1 DEF ToSet
    <3>2. CASE i # 1 /\ j # 1
      <4>1. /\ i - 1 \in DOMAIN q /\ L[i] = q[i - 1]
            /\ j - 1 \in DOMAIN q /\ L[j] = q[j - 1]
        BY <2>4, <3>2
      <4>2. i - 1 = j - 1
        BY <1>4, <4>1 DEF IsInjective
      <4> QED
        BY <2>2, <2>3, <4>2
    <3> QED
      BY <3>1, <3>2
  <2> QED
    BY <2>3, <2>7, <2>8
<1> HIDE DEF L
<1>6. /\ wa \in [Addresses -> Seq(Streams)] /\ wa[b] = L
      /\ \A a \in Addresses : a # b => wa[a] = d.waiting[a]
  BY <1>2, <1>5
<1>7. /\ co \in [Streams -> ConnStates] /\ co[s] = "resolving"
      /\ \A y \in Streams : y # s => co[y] = d.conn[y]
  BY <1>2 DEF ConnStates
<1>8. re \in SUBSET Streams
  BY <1>2
<1> HIDE DEF wa, co
<1>9. /\ x.entry = d.entry /\ x.waiting = wa /\ x.conn = co
      /\ x.resolving_streams = re /\ x.told = d.told /\ x.crashed = "no"
  BY <1>3 DEF St
<1>10. x \in States
  BY <1>1, <1>3, <1>6, <1>7, <1>8, Fields DEF States, St
<1>11. Lists(x.entry, x.waiting, x.conn)
  <2> SUFFICES ASSUME NEW a \in Addresses
               PROVE  /\ ToSet(wa[a]) =
                           {y \in Streams : AddrOf[y] = a /\ co[y] = "resolving"}
                      /\ IsInjective(wa[a])
                      /\ wa[a] # << >> => d.entry[a] = "pending"
    BY <1>9 DEF Lists
  <2>1. CASE a = b
    <3>1. {y \in Streams : AddrOf[y] = b /\ co[y] = "resolving"}
            = {y \in Streams : AddrOf[y] = b /\ d.conn[y] = "resolving"} \cup {s}
      BY <1>7
    <3> QED
      BY <1>4, <1>5, <1>6, <2>1, <3>1
  <2>2. CASE a # b
    <3>1. {y \in Streams : AddrOf[y] = a /\ co[y] = "resolving"}
            = {y \in Streams : AddrOf[y] = a /\ d.conn[y] = "resolving"}
      BY <1>7, <2>2
    <3>2. wa[a] = d.waiting[a]
      BY <1>6, <2>2
    <3> QED
      BY <1>1, <3>1, <3>2 DEF Lists
  <2> QED
    BY <2>1, <2>2
<1>12. Marks(x.conn, x.resolving_streams, closeable, circ)
  BY <1>1, <1>7, <1>9 DEF Marks
<1>13. Answers(x.conn, x.told, closeable, circ, ended)
  BY <1>1, <1>7, <1>9 DEF Answers
<1>14. NoNewPending(d, x)
  BY <1>9 DEF NoNewPending
<1> QED
  BY <1>9, <1>10, <1>11, <1>12, <1>13, <1>14 DEF GoodNow, Good

Sets(d, a, v, x) == x = [d EXCEPT !.entry[a] = v]

\* An entry that nobody waits for changes its state.
LEMMA EntryGood ==
  ASSUME NEW d, GoodNow(d), NEW a \in Addresses,
         d.crashed = "no", d.waiting[a] = << >>,
         NEW v \in EntryStates, NEW x, Sets(d, a, v, x)
  PROVE  /\ GoodNow(x) /\ x.crashed = d.crashed /\ x.conn = d.conn
         /\ x.entry = [d.entry EXCEPT ![a] = v]
<1>1. d \in States
  BY DEF GoodNow, Good
<1> DEFINE en == [d.entry EXCEPT ![a] = v]
<1>2. x = St(en, d.expired, d.waiting, d.conn, d.resolving_streams, d.told, d.crashed)
  BY <1>1 DEF States, St, Sets
<1>3. /\ en \in [Addresses -> EntryStates] /\ en[a] = v
      /\ \A b \in Addresses : b # a => en[b] = d.entry[b]
  BY <1>1, Fields
<1> HIDE DEF en
<1>4. /\ x.entry = en /\ x.waiting = d.waiting /\ x.conn = d.conn
      /\ x.resolving_streams = d.resolving_streams /\ x.told = d.told
      /\ x.crashed = d.crashed
  BY <1>2 DEF St
<1>5. x \in States
  BY <1>1, <1>2, <1>3, Fields DEF States, St
<1>6. Lists(en, d.waiting, d.conn)
  <2>1. Lists(d.entry, d.waiting, d.conn)
    BY DEF GoodNow, Good
  <2> QED
    BY <1>3, <2>1 DEF Lists
<1>7. GoodNow(x)
  BY <1>4, <1>5, <1>6 DEF GoodNow, Good
<1> QED
  BY <1>4, <1>7 DEF en

----------------------------------------------------------------------------
(* Answers, and streams that are closed.                                   *)

\* The answer for a pending entry reaches everyone who waits for it.
LEMMA SettledGood ==
  ASSUME NEW d, GoodNow(d), d.crashed = "no", closeable = {}, NEW b \in Addresses,
         NEW o, NEW P, NEW x, x = Settled(d, b, o, P)
  PROVE  /\ GoodNow(x) /\ x.crashed = "no" /\ NoNewPending(d, x)
         /\ x.entry[b] = "none" /\ x.waiting[b] = << >>
<1> DEFINE A == {b}
           W == ToSet(d.waiting[b])
           M == {}
           K == IF o = "ok" THEN W \cap P ELSE {}
           cf == [s \in Streams |-> IF s \in W THEN "freed" ELSE d.conn[s]]
           co == [s \in Streams |-> IF s \in K THEN "exit" ELSE cf[s]]
           to == [s \in Streams |-> IF s \in W \cap Streams THEN d.told[s] + 1
                                    ELSE d.told[s]]
           re == d.resolving_streams \ W
           en == [a \in Addresses |-> IF a \in A THEN "none" ELSE d.entry[a]]
           wa == [a \in Addresses |-> IF a \in A THEN << >> ELSE d.waiting[a]]
           ex == d.expired \ A
           t == Dismiss(d, W, Streams)
           u == Uncache(t, A)
<1>1. /\ d \in States /\ Lists(d.entry, d.waiting, d.conn)
      /\ Marks(d.conn, d.resolving_streams, closeable, circ)
      /\ Answers(d.conn, d.told, closeable, circ, ended)
  BY DEF GoodNow, Good
<1>2. /\ A \in SUBSET Addresses /\ d.conn \in [Streams -> ConnStates]
      /\ d.told \in [Streams -> 0 .. 1]
  BY <1>1, Fields
<1>3. W = {s \in Streams : AddrOf[s] \in A /\ d.conn[s] = "resolving"}
  BY <1>1 DEF Lists
<1>4. W \subseteq d.resolving_streams
  BY <1>1, <1>3 DEF Marks
<1>5. x = [u EXCEPT !.conn = [s \in Streams |-> IF s \in K THEN "exit" ELSE @[s]]]
  BY <1>4 DEF Settled
<1>6. K \subseteq W /\ Leaving(d, A, W, M)
  BY <1>3 DEF Leaving
<1>7. en[b] = "none" /\ wa[b] = << >>
  OBVIOUS
<1> HIDE DEF A, W, K
<1>8. t = St(d.entry, d.expired, d.waiting, cf, re, to, d.crashed)
  <2>1. ASSUME NEW y, y = Dismiss(d, W, Streams)
        PROVE  y = St(d.entry, d.expired, d.waiting, cf, re, to, d.crashed)
    BY <1>1, <2>1 DEF Dismiss, States, St
  <2> QED
    BY <2>1
<1>9. LeftConn(d, W, M, co)
  BY <1>2, <1>6 DEF LeftConn, ConnStates
<1>10. LeftTold(d, W, to)
  <2>1. \A s \in Streams : to[s] = IF s \in W THEN 1 ELSE d.told[s]
    BY <1>1, <1>3 DEF Answers
  <2>2. to \in [Streams -> 0 .. 1]
    BY <1>2, <2>1
  <2> QED
    BY <2>1, <2>2 DEF LeftTold
<1>11. u = St(en, ex, wa, cf, re, to, d.crashed)
  <2> HIDE DEF t, cf, re, to
  <2> QED
    BY ONLY <1>8, UncacheIs
<1> HIDE DEF u, en, wa, ex, cf, re, to
<1>12. x = St(en, ex, wa, co, re, to, d.crashed)
  BY <1>5, <1>11 DEF St
<1>13. re = d.resolving_streams \ (W \cup M)
  BY DEF re
<1> HIDE DEF co, M
<1>14. Left(d, A, W, M, co, to, x)
  BY <1>12, <1>13 DEF Left, en, wa, ex
<1>15. GoodNow(x) /\ x.crashed = "no" /\ NoNewPending(d, x)
  <2>1. GoodNow(d) /\ d.crashed = "no" /\ A \in SUBSET Addresses
        /\ Leaving(d, A, W, M)
    BY <1>2, <1>6
  <2> QED
    BY ONLY <1>9, <1>10, <1>14, <2>1, LeaveGood
<1>16. x.entry = en /\ x.waiting = wa
  BY <1>12 DEF St
<1> QED
  BY <1>7, <1>15, <1>16

\* dns_found_answer never fails its assertions; the entry is not pending after it.
LEMMA FoundAnswerGood ==
  ASSUME NEW d, GoodNow(d), d.crashed = "no", closeable = {}, NEW b \in Addresses,
         NEW o, NEW P, NEW x, x = FoundAnswer(d, b, o, P)
  PROVE  /\ GoodNow(x) /\ x.crashed = "no"
         /\ \A a \in Addresses :
              x.entry[a] = "pending" => a # b /\ d.entry[a] = "pending"
<1>1. d \in States /\ Lists(d.entry, d.waiting, d.conn)
  BY DEF GoodNow, Good
<1>2. d.entry \in [Addresses -> EntryStates]
  BY <1>1, Fields
<1>3. ASSUME NEW f, GoodNow(f), f.crashed = "no", f.entry[b] = "none",
             f.waiting[b] = << >>, NEW y, y = AddAnswer(f, b, o)
      PROVE  /\ GoodNow(y) /\ y.crashed = "no"
             /\ \A a \in Addresses :
                  y.entry[a] = "pending" => a # b /\ f.entry[a] = "pending"
  <2>1. CASE o = "transient"
    <3>1. y = f
      BY <1>3, <2>1 DEF AddAnswer
    <3> QED
      BY <1>3, <3>1
  <2>2. CASE o # "transient"
    <3>1. y = [f EXCEPT !.entry[b] = IF o = "ok" THEN "valid" ELSE "failed"]
      BY <1>3, <2>2 DEF AddAnswer
    <3>2. PICK v \in {"valid", "failed"} : Sets(f, b, v, y)
      BY <3>1 DEF Sets
    <3>3. GoodNow(y) /\ y.crashed = "no" /\ y.entry = [f.entry EXCEPT ![b] = v]
      <4>1. v \in EntryStates
        BY DEF EntryStates
      <4>2. GoodNow(f) /\ f.waiting[b] = << >> /\ f.crashed = "no"
        BY <1>3
      <4> QED
        BY ONLY <3>2, <4>1, <4>2, b \in Addresses, EntryGood
    <3>4. f.entry \in [Addresses -> EntryStates]
      BY <1>3, Fields DEF GoodNow, Good
    <3> QED
      BY <3>2, <3>3, <3>4
  <2> QED
    BY <2>1, <2>2
<1>4. CASE d.entry[b] = "none"
  <2>1. d.waiting[b] = << >>
    BY <1>1, <1>4 DEF Lists
  <2>2. x = AddAnswer(d, b, o)
    BY <1>4 DEF FoundAnswer
  <2> QED
    BY <1>3, <1>4, <2>1, <2>2
<1>5. CASE d.entry[b] \notin {"none", "pending"}
  <2>1. d.waiting[b] = << >>
    BY <1>1, <1>5 DEF Lists
  <2>2. x = d
    BY <1>5, <2>1 DEF FoundAnswer
  <2> QED
    BY <1>5, <2>2
<1>6. CASE d.entry[b] = "pending"
  <2> DEFINE f == Settled(d, b, o, P)
  <2>1. x = AddAnswer(f, b, o)
    BY <1>6 DEF FoundAnswer
  <2>2. /\ GoodNow(f) /\ f.crashed = "no" /\ NoNewPending(d, f)
        /\ f.entry[b] = "none" /\ f.waiting[b] = << >>
    BY SettledGood
  <2> HIDE DEF f
  <2> QED
    BY <1>3, <2>1, <2>2 DEF NoNewPending
<1> QED
  BY <1>4, <1>5, <1>6

\* The marked streams are closed: connection_dns_remove finds each one that still
\* resolves on its list.
LEMMA DnsRemoveGood ==
  ASSUME NEW d, GoodNow(d), d.crashed = "no", closeable \subseteq Streams,
         NEW x, x = DnsRemove(d, closeable)
  PROVE  /\ Good(x, {}, circ, ended) /\ x.crashed = "no"
         /\ x.entry = d.entry
<1> DEFINE S == closeable
           R == {s \in S : d.conn[s] = "resolving"}
           wa == [a \in Addresses |-> Keep(d.waiting[a], Streams \ R)]
           co == [s \in Streams |-> IF s \in S THEN "freed" ELSE d.conn[s]]
           re == d.resolving_streams \ S
<1>1. /\ d \in States /\ Lists(d.entry, d.waiting, d.conn)
      /\ Marks(d.conn, d.resolving_streams, S, circ)
      /\ Answers(d.conn, d.told, S, circ, ended)
  BY DEF GoodNow, Good
<1>2. /\ d.waiting \in [Addresses -> Seq(Streams)]
      /\ d.conn \in [Streams -> ConnStates] /\ re \in SUBSET Streams
  BY <1>1, Fields
<1>3. \A s \in R : s \in ToSet(d.waiting[AddrOf[s]])
  BY <1>1 DEF Lists
<1>4. x = [d EXCEPT !.waiting = [a \in Addresses |-> Keep(@[a], Streams \ R)],
                    !.conn = [s \in Streams |-> IF s \in S THEN "freed" ELSE @[s]],
                    !.resolving_streams = @ \ S]
  BY <1>3 DEF DnsRemove
<1> HIDE DEF R
<1>5. x = St(d.entry, d.expired, wa, co, re, d.told, d.crashed)
  BY <1>1, <1>4 DEF States, St
<1>6. ASSUME NEW a \in Addresses, NEW L, L = Keep(d.waiting[a], Streams \ R)
      PROVE  /\ L \in Seq(Streams) /\ IsInjective(L)
             /\ ToSet(L) = ToSet(d.waiting[a]) \ R
             /\ L # << >> => d.waiting[a] # << >>
  <2> DEFINE q == d.waiting[a]
             Z == Streams \ R
  <2>1. /\ q \in Seq(Streams) /\ ToSet(q) \subseteq Streams
        /\ IsInjective(q)
    BY <1>1, <1>2 DEF Lists
  <2> HIDE DEF q, Z
  <2>2. L = Keep(q, Z)
    BY <1>6 DEF q, Z
  <2>3. /\ L \in Seq(Streams)
        /\ \A k \in DOMAIN L : L[k] \in Z /\ \E i \in DOMAIN q : q[i] = L[k]
        /\ \A i \in DOMAIN q : q[i] \in Z => \E k \in DOMAIN L : L[k] = q[i]
        /\ Distinct(q) => Distinct(L)
    BY ONLY <2>1, <2>2, KeepProperties
  <2>4. IsInjective(L)
    BY <2>1, <2>3 DEF Distinct, IsInjective
  <2>5. ToSet(L) = ToSet(q) \ R
    BY <2>1, <2>3 DEF ToSet, Z
  <2>6. ASSUME q = << >> PROVE L = << >>
    <3>1. \A i \in DOMAIN q : FALSE
      BY <2>6
    <3>2. \A k \in DOMAIN L : FALSE
      BY <2>3, <3>1
    <3>3. Len(L) \in Nat /\ DOMAIN L = 1..Len(L)
      BY <2>3, LenProperties
    <3>4. Len(L) = 0
      <4>1. Len(L) > 0 => 1 \in DOMAIN L
        BY <3>3
      <4> QED
        BY <3>2, <3>3, <4>1
    <3> QED
      BY <2>3, <3>4, EmptySeq
  <2> QED
    BY <2>3, <2>4, <2>5, <2>6 DEF q
<1>7. ASSUME NEW a \in Addresses
      PROVE  /\ wa[a] \in Seq(Streams) /\ IsInjective(wa[a])
             /\ ToSet(wa[a]) = ToSet(d.waiting[a]) \ R
             /\ wa[a] # << >> => d.waiting[a] # << >>
  BY <1>6
<1>8. wa \in [Addresses -> Seq(Streams)]
  BY <1>7
<1>9. co \in [Streams -> ConnStates]
  BY <1>2 DEF ConnStates
<1>10. \A s \in Streams : co[s] = IF s \in S THEN "freed" ELSE d.conn[s]
  OBVIOUS
<1> HIDE DEF wa, co
<1>11. /\ x.entry = d.entry /\ x.waiting = wa /\ x.conn = co
       /\ x.resolving_streams = re /\ x.told = d.told /\ x.crashed = "no"
  BY <1>5 DEF St
<1>12. x \in States
  BY <1>1, <1>2, <1>5, <1>8, <1>9, Fields DEF States, St
<1>13. Lists(d.entry, wa, co)
  <2> SUFFICES ASSUME NEW a \in Addresses
               PROVE  /\ ToSet(wa[a]) =
                           {s \in Streams : AddrOf[s] = a /\ co[s] = "resolving"}
                      /\ IsInjective(wa[a])
                      /\ wa[a] # << >> => d.entry[a] = "pending"
    BY DEF Lists
  <2>1. /\ ToSet(d.waiting[a]) =
              {s \in Streams : AddrOf[s] = a /\ d.conn[s] = "resolving"}
        /\ d.waiting[a] # << >> => d.entry[a] = "pending"
    BY <1>1 DEF Lists
  <2>2. {s \in Streams : AddrOf[s] = a /\ d.conn[s] = "resolving"} \ R
          = {s \in Streams : AddrOf[s] = a /\ co[s] = "resolving"}
    BY <1>10 DEF R
  <2> QED
    BY <1>7, <2>1, <2>2
<1>14. Marks(co, re, {}, circ)
  BY <1>1, <1>10 DEF Marks
<1>15. Answers(co, d.told, {}, circ, ended)
  BY <1>1, <1>10 DEF Answers
<1> QED
  BY <1>11, <1>12, <1>13, <1>14, <1>15 DEF Good

----------------------------------------------------------------------------
(* The actions.                                                            *)

Inv ==
  /\ GoodNow(dns) /\ Owed(dns, asked)
  /\ asked \in [Addresses -> 0 .. MaxAsked]
  /\ closeable \subseteq Streams
  /\ circ \in [Circuits -> {"open", "marked"}]
  /\ ended \subseteq Streams

\* A step that only changes the cache, to a good one.
LEMMA CacheStep ==
  ASSUME Inv, UNCHANGED <<asked, closeable, circ, ended>>, GoodNow(dns)',
         dns'.crashed = "no" => NoNewPending(dns, dns'), dns.crashed = "no"
  PROVE  Inv'
<1>1. Owed(dns', asked)
  BY DEF Inv, Owed, NoNewPending
<1> QED
  BY <1>1 DEF Inv, Owed

\* GoodNow of the new cache, when nothing else has changed.
LEMMA GoodNext ==
  ASSUME UNCHANGED <<closeable, circ, ended>>, NEW x, GoodNow(x), dns' = x
  PROVE  GoodNow(dns)'
BY DEF GoodNow

\* A new stream finds the cache good, and purging does not touch it.
LEMMA PurgeArrives ==
  ASSUME Inv, NEW s \in Streams, Arrives(s), NEW d, d = Purge(dns)
  PROVE  /\ GoodNow(d) /\ d.crashed \in {"no", "overdue"}
         /\ d.crashed = "no" => NoNewPending(dns, d) /\ d.conn[s] = "none"
<1>1. GoodNow(dns) /\ dns.crashed = "no" /\ dns.conn[s] = "none"
  BY DEF Inv, Arrives, Running
<1> QED
  BY <1>1, PurgeGood

\* connection_exit_begin_conn refuses.
LEMMA BeginRefusedStep ==
  ASSUME Inv, NEW s \in Streams, BeginRefused(s)
  PROVE  Inv'
<1>1. /\ GoodNow(dns) /\ dns.crashed = "no" /\ dns.conn[s] = "none"
      /\ dns' = Dismiss(dns, {s}, {s}) /\ UNCHANGED <<asked, closeable, circ, ended>>
  BY DEF Inv, BeginRefused, Arrives, Running
<1>2. PICK x : x = Dismiss(dns, {s}, {s})
  OBVIOUS
<1>3. GoodNow(x) /\ NoNewPending(dns, x)
  BY ONLY <1>1, <1>2, s \in Streams, DismissGood
<1>4. GoodNow(dns)' /\ NoNewPending(dns, dns')
  BY <1>1, <1>2, <1>3, GoodNext
<1> QED
  BY <1>1, <1>4, CacheStep

\* dns_resolve_impl fails before the cache is searched.
LEMMA BeginRejectedStep ==
  ASSUME Inv, NEW s \in Streams, BeginRejected(s)
  PROVE  Inv'
<1>1. /\ GoodNow(dns) /\ dns.crashed = "no" /\ dns.conn[s] = "none"
      /\ UNCHANGED <<asked, closeable, circ, ended>> /\ Arrives(s)
  BY DEF Inv, BeginRejected, Arrives, Running
<1>2. PICK d \in {dns, Purge(dns)} :
        dns' = IF d.crashed = "no" THEN Failed(d, s) ELSE d
  BY DEF BeginRejected
<1>3. /\ GoodNow(d)
      /\ d.crashed = "no" => NoNewPending(dns, d) /\ d.conn[s] = "none"
  <2>1. CASE d = dns
    BY <1>1, <2>1 DEF NoNewPending
  <2>2. CASE d = Purge(dns)
    BY <1>1, <2>2, PurgeArrives
  <2> QED
    BY <1>2, <2>1, <2>2
<1>4. CASE d.crashed # "no"
  <2>1. dns' = d
    BY <1>2, <1>4
  <2>2. GoodNow(dns)'
    BY <1>1, <1>3, <2>1, GoodNext
  <2> QED
    BY <1>1, <1>4, <2>1, <2>2, CacheStep
<1>5. CASE d.crashed = "no"
  <2>1. PICK x : x = Failed(d, s)
    OBVIOUS
  <2>2. dns' = x
    BY <1>2, <1>5, <2>1
  <2>3. GoodNow(x) /\ (x.crashed = "no" => NoNewPending(d, x))
    BY <1>3, <1>5, <2>1, FailedGood
  <2>4. x.crashed = "no" => NoNewPending(dns, x)
    BY <1>3, <1>5, <2>3 DEF NoNewPending
  <2>5. GoodNow(dns)'
    BY <1>1, <2>2, <2>3, GoodNext
  <2> QED
    BY <1>1, <2>2, <2>4, <2>5, CacheStep
<1> QED
  BY <1>4, <1>5

\* The address is an IP address, of a kind that is used or refused.
LEMMA BeginLiteralStep ==
  ASSUME Inv, NEW s \in Streams, BeginLiteral(s)
  PROVE  Inv'
<1>1. /\ GoodNow(dns) /\ dns.crashed = "no" /\ dns.conn[s] = "none"
      /\ UNCHANGED <<asked, closeable, circ, ended>>
  BY DEF Inv, BeginLiteral, Arrives, Running
<1>2. PICK x \in Answered(dns, s) \cup {Failed(dns, s)} : x = dns'
  BY DEF BeginLiteral
<1>3. GoodNow(x) /\ (x.crashed = "no" => NoNewPending(dns, x))
  <2>1. CASE x \in Answered(dns, s)
    BY <1>1, <2>1, AnsweredGood
  <2>2. CASE x = Failed(dns, s)
    BY <1>1, <2>2, FailedGood
  <2> QED
    BY <1>2, <2>1, <2>2
<1>4. GoodNow(dns)' /\ (dns'.crashed = "no" => NoNewPending(dns, dns'))
  BY <1>1, <1>2, <1>3, GoodNext
<1> QED
  BY <1>1, <1>4, CacheStep

\* The cache decides.
LEMMA BeginLookupStep ==
  ASSUME Inv, NEW s \in Streams, BeginLookup(s)
  PROVE  Inv'
<1>1. /\ GoodNow(dns) /\ dns.crashed = "no" /\ dns.conn[s] = "none"
      /\ UNCHANGED <<asked, closeable, circ, ended>> /\ Arrives(s)
      /\ circ[CircOf[s]] = "open"
  BY DEF Inv, BeginLookup, Arrives, Running
<1>2. PICK d : d = Purge(dns)
  OBVIOUS
<1>3. dns' \in IF d.crashed = "no" THEN Lookup(d, s) ELSE {d}
  BY <1>2 DEF BeginLookup
<1>4. /\ GoodNow(d)
      /\ d.crashed = "no" => NoNewPending(dns, d) /\ d.conn[s] = "none"
  BY <1>1, <1>2, PurgeArrives
<1>5. CASE d.crashed # "no"
  <2>1. dns' = d
    BY <1>3, <1>5
  <2>2. GoodNow(dns)'
    BY <1>1, <1>4, <2>1, GoodNext
  <2> QED
    BY <1>1, <1>5, <2>1, <2>2, CacheStep
<1>6. CASE d.crashed = "no"
  <2>1. PICK x \in Lookup(d, s) : dns' = x
    BY <1>3, <1>6
  <2>2. GoodNow(x) /\ (x.crashed = "no" => NoNewPending(d, x))
    <3>1. CASE d.entry[AddrOf[s]] = "pending"
      <4>1. x = Join(d, s)
        BY <2>1, <3>1 DEF Lookup
      <4> QED
        BY <1>1, <1>4, <1>6, <3>1, <4>1, JoinGood
    <3>2. CASE d.entry[AddrOf[s]] = "valid"
      <4>1. x \in Answered(d, s)
        BY <2>1, <3>2 DEF Lookup
      <4> QED
        BY <1>4, <1>6, <4>1, AnsweredGood
    <3>3. CASE d.entry[AddrOf[s]] = "failed"
      <4>1. x = Failed(d, s)
        BY <2>1, <3>3 DEF Lookup
      <4> QED
        BY <1>4, <1>6, <4>1, FailedGood
    <3>4. CASE d.entry[AddrOf[s]] \notin {"pending", "valid", "failed"}
      <4>1. x = LaunchFailed(d, s)
        BY <2>1, <3>4 DEF Lookup
      <4> QED
        BY <1>4, <1>6, <4>1, LaunchFailedGood
    <3> QED
      BY <3>1, <3>2, <3>3, <3>4
  <2>3. x.crashed = "no" => NoNewPending(dns, x)
    BY <1>4, <1>6, <2>2 DEF NoNewPending
  <2>4. GoodNow(dns)'
    BY <1>1, <2>1, <2>2, GoodNext
  <2> QED
    BY <1>1, <2>1, <2>3, <2>4, CacheStep
<1> QED
  BY <1>5, <1>6

\* eventdns accepts a request for an address that is not in the cache.
LEMMA BeginLaunchStep ==
  ASSUME Inv, NEW s \in Streams, BeginLaunch(s)
  PROVE  Inv'
<1> DEFINE a == AddrOf[s]
<1>1. /\ GoodNow(dns) /\ dns.crashed = "no" /\ dns.conn[s] = "none"
      /\ UNCHANGED <<closeable, circ, ended>> /\ Arrives(s)
      /\ circ[CircOf[s]] = "open" /\ a \in Addresses
  BY DEF Inv, BeginLaunch, Arrives, Running
<1>2. PICK d : d = Purge(dns)
  OBVIOUS
<1>3. /\ d.crashed = "no" /\ d.entry[a] = "none" /\ asked[a] < MaxAsked
      /\ dns' = Join([d EXCEPT !.entry[a] = "pending"], s)
      /\ asked' = [asked EXCEPT ![a] = @ + 1]
  BY <1>2 DEF BeginLaunch
<1>4. GoodNow(d) /\ NoNewPending(dns, d) /\ d.conn[s] = "none"
  BY <1>1, <1>2, <1>3, PurgeArrives
<1>5. PICK f : f = [d EXCEPT !.entry[a] = "pending"]
  OBVIOUS
<1>6. /\ GoodNow(f) /\ f.crashed = "no" /\ f.conn = d.conn
      /\ f.entry = [d.entry EXCEPT ![a] = "pending"]
  <2>1. d.waiting[a] = << >>
    BY <1>1, <1>3, <1>4 DEF GoodNow, Good, Lists
  <2>2. "pending" \in EntryStates
    BY DEF EntryStates
  <2>3. Sets(d, a, "pending", f)
    BY <1>5 DEF Sets
  <2>4. a \in Addresses /\ GoodNow(d) /\ d.crashed = "no"
    BY <1>1, <1>3, <1>4
  <2> HIDE DEF a
  <2> QED
    BY ONLY <2>1, <2>2, <2>3, <2>4, EntryGood
<1>7. d.entry \in [Addresses -> EntryStates]
  BY <1>4, Fields DEF GoodNow, Good
<1>8. PICK x : x = Join(f, s)
  OBVIOUS
<1>9. GoodNow(x) /\ NoNewPending(f, x)
  <2>1. f.entry[AddrOf[s]] = "pending" /\ f.conn[s] = "none"
    BY <1>1, <1>4, <1>6, <1>7
  <2> QED
    BY <1>1, <1>6, <1>8, <2>1, JoinGood
<1>10. dns' = x
  BY <1>3, <1>5, <1>8
<1>11. GoodNow(dns)'
  BY <1>1, <1>9, <1>10, GoodNext
<1>12. asked' \in [Addresses -> 0 .. MaxAsked]
  BY <1>1, <1>3 DEF Inv
<1>13. Owed(x, asked')
  <2> SUFFICES ASSUME NEW b \in Addresses, x.entry[b] = "pending"
               PROVE  asked'[b] > 0
    BY DEF Owed
  <2>1. f.entry[b] = "pending"
    BY <1>9 DEF NoNewPending
  <2>2. CASE b = a
    BY <1>1, <1>3, <2>2 DEF Inv
  <2>3. CASE b # a
    <3>1. d.entry[b] = "pending"
      BY <1>6, <1>7, <2>1, <2>3
    <3>2. asked[b] > 0
      BY <1>1, <1>4, <3>1 DEF NoNewPending, Inv, Owed
    <3> QED
      BY <1>3, <2>3, <3>2 DEF Inv
  <2> QED
    BY <2>2, <2>3
<1> QED
  BY <1>1, <1>10, <1>11, <1>12, <1>13 DEF Inv, Owed

\* launch_test_addresses.
LEMMA LaunchTestStep ==
  ASSUME Inv, NEW a \in Addresses, LaunchTest(a)
  PROVE  Inv'
<1>1. /\ asked[a] < MaxAsked /\ asked' = [asked EXCEPT ![a] = @ + 1]
      /\ UNCHANGED <<dns, closeable, circ, ended>>
  BY DEF LaunchTest
<1>2. asked' \in [Addresses -> 0 .. MaxAsked]
  BY <1>1 DEF Inv
<1>3. \A b \in Addresses : asked[b] > 0 => asked'[b] > 0
  BY <1>1 DEF Inv
<1>4. Owed(dns, asked')
  BY <1>3 DEF Inv, Owed
<1>5. GoodNow(dns)'
  BY <1>1 DEF Inv, GoodNow
<1> QED
  BY <1>1, <1>2, <1>4, <1>5 DEF Inv, Owed

\* An answer: its entry is not pending after it.
LEMMA AnswerStep ==
  ASSUME Inv, NEW a \in Addresses, Answer(a)
  PROVE  Inv'
<1>1. /\ GoodNow(dns) /\ dns.crashed = "no" /\ closeable = {} /\ asked[a] > 0
      /\ asked' = [asked EXCEPT ![a] = @ - 1] /\ UNCHANGED <<closeable, circ, ended>>
  BY DEF Inv, Answer, Running
<1>2. PICK o \in {"ok", "transient", "permanent"}, P \in SUBSET (Streams \ Resolves) :
        dns' = FoundAnswer(dns, a, o, P)
  BY DEF Answer
<1>3. PICK x : x = FoundAnswer(dns, a, o, P)
  OBVIOUS
<1>4. /\ GoodNow(x) /\ x.crashed = "no"
      /\ \A b \in Addresses :
           x.entry[b] = "pending" => b # a /\ dns.entry[b] = "pending"
  BY <1>1, <1>3, FoundAnswerGood
<1>5. dns' = x
  BY <1>2, <1>3
<1>6. GoodNow(dns)'
  BY <1>1, <1>4, <1>5, GoodNext
<1>7. /\ asked' \in [Addresses -> 0 .. MaxAsked]
      /\ \A b \in Addresses : b # a => asked'[b] = asked[b]
  BY <1>1 DEF Inv
<1>8. Owed(x, asked')
  BY <1>1, <1>4, <1>7 DEF Inv, Owed
<1> QED
  BY <1>1, <1>5, <1>6, <1>7, <1>8 DEF Inv, Owed

\* Time passes.
LEMMA ExpireStep ==
  ASSUME Inv, NEW a \in Addresses, Expire(a)
  PROVE  Inv'
<1> DEFINE d == dns
           x == [d EXCEPT !.expired = @ \cup {a}]
<1>1. /\ GoodNow(d) /\ d.crashed = "no" /\ dns' = x
      /\ UNCHANGED <<asked, closeable, circ, ended>>
  BY DEF Inv, Expire, Running
<1>2. d \in States
  BY <1>1 DEF GoodNow, Good
<1> HIDE DEF d
<1>3. x = St(d.entry, d.expired \cup {a}, d.waiting, d.conn, d.resolving_streams,
             d.told, d.crashed)
  <2>1. ASSUME NEW y, y = [d EXCEPT !.expired = @ \cup {a}]
        PROVE  y = St(d.entry, d.expired \cup {a}, d.waiting, d.conn,
                      d.resolving_streams, d.told, d.crashed)
    BY <1>2, <2>1 DEF States, St
  <2> QED
    BY <2>1
<1> HIDE DEF x
<1>4. x \in States
  <2>1. d.expired \cup {a} \in SUBSET Addresses
    BY <1>2, Fields
  <2> QED
    BY <1>2, <1>3, <2>1, Fields DEF States, St
<1>5. /\ x.entry = d.entry /\ x.waiting = d.waiting /\ x.conn = d.conn
      /\ x.resolving_streams = d.resolving_streams /\ x.told = d.told
      /\ x.crashed = d.crashed
  BY <1>3 DEF St
<1>6. GoodNow(x) /\ NoNewPending(d, x)
  BY <1>1, <1>4, <1>5 DEF GoodNow, Good, NoNewPending
<1>7. GoodNow(dns)' /\ NoNewPending(dns, dns')
  BY <1>1, <1>6, GoodNext DEF d
<1> QED
  BY <1>1, <1>7, CacheStep DEF d

\* The client ends a stream: it is marked, and stays on its list for now.
LEMMA ReceiveEndStep ==
  ASSUME Inv, NEW s \in Streams, ReceiveEnd(s)
  PROVE  Inv'
<1>1. /\ GoodNow(dns) /\ dns.crashed = "no" /\ s \in dns.resolving_streams
      /\ closeable' = closeable \cup {s} /\ ended' = ended \cup {s}
      /\ UNCHANGED <<dns, asked, circ>>
  BY DEF Inv, ReceiveEnd, Running
<1>2. /\ dns \in States /\ Lists(dns.entry, dns.waiting, dns.conn)
      /\ Marks(dns.conn, dns.resolving_streams, closeable, circ)
      /\ Answers(dns.conn, dns.told, closeable, circ, ended)
  BY <1>1 DEF GoodNow, Good
<1>3. Marks(dns.conn, dns.resolving_streams, closeable', circ)
  BY <1>1, <1>2 DEF Marks
<1>4. Answers(dns.conn, dns.told, closeable', circ, ended')
  BY <1>1, <1>2 DEF Answers
<1>5. GoodNow(dns)'
  BY <1>1, <1>2, <1>3, <1>4 DEF GoodNow, Good
<1> QED
  BY <1>1, <1>5 DEF Inv, Owed

\* A circuit is marked, and its resolving streams with it.
LEMMA MarkCircuitStep ==
  ASSUME Inv, NEW c \in Circuits, MarkCircuit(c)
  PROVE  Inv'
<1> DEFINE d == dns
           S == {s \in d.resolving_streams : CircOf[s] = c}
           x == [d EXCEPT !.resolving_streams = @ \ S]
<1>1. /\ GoodNow(d) /\ d.crashed = "no" /\ dns' = x /\ circ[c] = "open"
      /\ circ' = [circ EXCEPT ![c] = "marked"] /\ closeable' = closeable \cup S
      /\ UNCHANGED <<asked, ended>> /\ Owed(d, asked)
      /\ circ \in [Circuits -> {"open", "marked"}] /\ closeable \subseteq Streams
  BY DEF Inv, MarkCircuit, Running
<1>2. /\ d \in States /\ Lists(d.entry, d.waiting, d.conn)
      /\ Marks(d.conn, d.resolving_streams, closeable, circ)
      /\ Answers(d.conn, d.told, closeable, circ, ended)
  BY <1>1 DEF GoodNow, Good
<1>3. d.resolving_streams \in SUBSET Streams
  BY <1>2, Fields
<1> HIDE DEF d
<1>4. S \subseteq Streams /\ \A s \in S : CircOf[s] = c /\ s \in d.resolving_streams
  BY <1>3
<1>5. \A s \in Streams : s \in d.resolving_streams \ S => CircOf[s] # c
  BY <1>3
<1> HIDE DEF S
<1>6. x = St(d.entry, d.expired, d.waiting, d.conn, d.resolving_streams \ S,
             d.told, d.crashed)
  <2>1. ASSUME NEW y, y = [d EXCEPT !.resolving_streams = @ \ S]
        PROVE  y = St(d.entry, d.expired, d.waiting, d.conn,
                      d.resolving_streams \ S, d.told, d.crashed)
    BY <1>2, <2>1 DEF States, St
  <2> QED
    BY <2>1
<1> HIDE DEF x
<1>7. x \in States
  <2>1. d.resolving_streams \ S \in SUBSET Streams
    BY <1>3
  <2> QED
    BY <1>2, <1>6, <2>1, Fields DEF States, St
<1>8. /\ x.entry = d.entry /\ x.waiting = d.waiting /\ x.conn = d.conn
      /\ x.resolving_streams = d.resolving_streams \ S /\ x.told = d.told
      /\ x.crashed = d.crashed
  BY <1>6 DEF St
<1>9. /\ circ' \in [Circuits -> {"open", "marked"}] /\ circ'[c] = "marked"
      /\ \A e \in Circuits : e # c => circ'[e] = circ[e]
  BY <1>1
<1>10. \A s \in Streams : CircOf[s] \in Circuits
  OBVIOUS
<1>11. Marks(d.conn, d.resolving_streams \ S, closeable', circ')
  BY <1>1, <1>2, <1>4, <1>5, <1>9, <1>10 DEF Marks
<1>12. Answers(d.conn, d.told, closeable', circ', ended)
  <2> SUFFICES ASSUME NEW s \in Streams
               PROVE  /\ d.conn[s] \in {"none", "resolving", "resolvefailed"} =>
                           d.told[s] = 0
                      /\ s \in closeable' => s \in ended \/ circ'[CircOf[s]] # "open"
                      /\ d.conn[s] = "freed" /\ circ'[CircOf[s]] = "open"
                           /\ s \notin ended => d.told[s] = 1
    BY DEF Answers
  <2> QED
    BY <1>1, <1>2, <1>4, <1>9, <1>10 DEF Answers
<1>13. GoodNow(dns)'
  BY <1>1, <1>2, <1>7, <1>8, <1>11, <1>12 DEF GoodNow, Good
<1>14. Owed(x, asked)
  BY <1>1, <1>8 DEF Owed
<1>15. closeable' \subseteq Streams
  BY <1>1, <1>4
<1> QED
  BY <1>1, <1>9, <1>13, <1>14, <1>15 DEF Inv, Owed

\* The marked streams are closed.
LEMMA CloseCloseableStep ==
  ASSUME Inv, CloseCloseable
  PROVE  Inv'
<1>1. /\ GoodNow(dns) /\ dns.crashed = "no" /\ closeable \subseteq Streams
      /\ dns' = DnsRemove(dns, closeable) /\ closeable' = {}
      /\ UNCHANGED <<asked, circ, ended>> /\ Owed(dns, asked)
  BY DEF Inv, CloseCloseable, Running
<1>2. PICK x : x = DnsRemove(dns, closeable)
  OBVIOUS
<1>3. Good(x, {}, circ, ended) /\ x.crashed = "no" /\ x.entry = dns.entry
  BY <1>1, <1>2, DnsRemoveGood
<1>4. GoodNow(dns)'
  BY <1>1, <1>2, <1>3 DEF GoodNow
<1>5. Owed(dns', asked')
  BY <1>1, <1>2, <1>3 DEF Owed
<1> QED
  BY <1>1, <1>4, <1>5 DEF Inv, Owed

----------------------------------------------------------------------------
(* The theorems.                                                           *)

\* The invariant holds at the start.
LEMMA InitInv == Init => Inv
<1> SUFFICES ASSUME Init PROVE Inv
  OBVIOUS
<1>1. /\ dns.entry = [a \in Addresses |-> "none"] /\ dns.expired = {}
      /\ dns.waiting = [a \in Addresses |-> << >>]
      /\ dns.conn = [s \in Streams |-> "none"] /\ dns.resolving_streams = {}
      /\ dns.told = [s \in Streams |-> 0] /\ dns.crashed = "no"
      /\ dns = St(dns.entry, dns.expired, dns.waiting, dns.conn,
                  dns.resolving_streams, dns.told, dns.crashed)
      /\ closeable = {} /\ circ = [c \in Circuits |-> "open"] /\ ended = {}
      /\ asked = [a \in Addresses |-> 0]
  BY DEF Init, St
<1>2. dns \in States
  <2>1. dns.waiting \in [Addresses -> Seq(Streams)]
    BY <1>1, EmptyList
  <2>2. dns.entry \in [Addresses -> EntryStates]
    BY <1>1 DEF EntryStates
  <2>3. dns.conn \in [Streams -> ConnStates]
    BY <1>1 DEF ConnStates
  <2>4. dns.told \in [Streams -> 0 .. 1]
    BY <1>1
  <2>5. dns.crashed \in Crashes
    BY <1>1 DEF Crashes
  <2>6. dns.expired \in SUBSET Addresses /\ dns.resolving_streams \in SUBSET Streams
    BY <1>1
  <2> QED
    BY <1>1, <2>1, <2>2, <2>3, <2>4, <2>5, <2>6 DEF States, St
<1>3. Lists(dns.entry, dns.waiting, dns.conn)
  <2> SUFFICES ASSUME NEW a \in Addresses
               PROVE  /\ ToSet(dns.waiting[a]) =
                           {s \in Streams : AddrOf[s] = a /\ dns.conn[s] = "resolving"}
                      /\ IsInjective(dns.waiting[a])
                      /\ dns.waiting[a] # << >> => dns.entry[a] = "pending"
    BY DEF Lists
  <2>1. dns.waiting[a] = << >>
    BY <1>1
  <2>2. ToSet(dns.waiting[a]) = {} /\ IsInjective(dns.waiting[a])
    BY <2>1, EmptyList
  <2>3. {s \in Streams : AddrOf[s] = a /\ dns.conn[s] = "resolving"} = {}
    BY <1>1
  <2> QED
    BY <2>1, <2>2, <2>3
<1>4. Marks(dns.conn, dns.resolving_streams, closeable, circ)
  BY <1>1 DEF Marks
<1>5. Answers(dns.conn, dns.told, closeable, circ, ended)
  BY <1>1 DEF Answers
<1>6. GoodNow(dns)
  BY <1>1, <1>2, <1>3, <1>4, <1>5 DEF GoodNow, Good
<1>7. Owed(dns, asked)
  BY <1>1 DEF Owed
<1>8. asked \in [Addresses -> 0 .. MaxAsked]
  BY <1>1
<1>9. circ \in [Circuits -> {"open", "marked"}]
  BY <1>1
<1> QED
  BY <1>1, <1>6, <1>7, <1>8, <1>9 DEF Inv

\* Every step keeps the invariant.
LEMMA NextInv == Inv /\ [Next]_vars => Inv'
<1> SUFFICES ASSUME Inv, [Next]_vars PROVE Inv'
  OBVIOUS
<1>1. CASE UNCHANGED vars
  BY <1>1 DEF vars, Inv, GoodNow, Owed
<1>2. ASSUME NEW s \in Streams, BeginRefused(s) PROVE Inv'
  BY <1>2, BeginRefusedStep
<1>3. ASSUME NEW s \in Streams, BeginRejected(s) PROVE Inv'
  BY <1>3, BeginRejectedStep
<1>4. ASSUME NEW s \in Streams, BeginLiteral(s) PROVE Inv'
  BY <1>4, BeginLiteralStep
<1>5. ASSUME NEW s \in Streams, BeginLookup(s) PROVE Inv'
  BY <1>5, BeginLookupStep
<1>6. ASSUME NEW s \in Streams, BeginLaunch(s) PROVE Inv'
  BY <1>6, BeginLaunchStep
<1>7. ASSUME NEW s \in Streams, ReceiveEnd(s) PROVE Inv'
  BY <1>7, ReceiveEndStep
<1>8. ASSUME NEW a \in Addresses, LaunchTest(a) PROVE Inv'
  BY <1>8, LaunchTestStep
<1>9. ASSUME NEW a \in Addresses, Answer(a) PROVE Inv'
  BY <1>9, AnswerStep
<1>10. ASSUME NEW a \in Addresses, Expire(a) PROVE Inv'
  BY <1>10, ExpireStep
<1>11. ASSUME NEW c \in Circuits, MarkCircuit(c) PROVE Inv'
  BY <1>11, MarkCircuitStep
<1>12. ASSUME CloseCloseable PROVE Inv'
  BY <1>12, CloseCloseableStep
<1> QED
  BY <1>1, <1>2, <1>3, <1>4, <1>5, <1>6, <1>7, <1>8, <1>9, <1>10, <1>11, <1>12
     DEF Next

\* Every reachable state is well typed; in particular no stream is told twice.
THEOREM TypeCorrect == Spec => []TypeOK
<1>1. Inv => TypeOK
  <2> SUFFICES ASSUME Inv PROVE TypeOK
    OBVIOUS
  <2>1. dns \in States
    BY DEF Inv, GoodNow, Good
  <2> QED
    BY <2>1 DEF TypeOK, Inv, States, EntryStates, ConnStates, Crashes
<1> QED
  BY <1>1, InitInv, NextInv, PTL DEF Spec

\* The waiting lists, the streams, the circuits and the requests that are out
\* agree, and no assertion of dns_found_answer or connection_dns_remove fails.
THEOREM WaitersAgree == Spec => []WaitersOK
<1>1. Inv => WaitersOK
  <2> SUFFICES ASSUME Inv PROVE WaitersOK
    OBVIOUS
  <2>1. dns.crashed # "assert"
    BY DEF Inv, GoodNow, Good
  <2>2. ASSUME Running, NEW a \in Addresses
        PROVE  /\ ToSet(dns.waiting[a]) =
                    {s \in Streams : AddrOf[s] = a /\ dns.conn[s] = "resolving"}
               /\ IsInjective(dns.waiting[a])
               /\ dns.waiting[a] # << >> => dns.entry[a] = "pending"
               /\ dns.entry[a] = "pending" => asked[a] > 0
    BY <2>2 DEF Inv, GoodNow, Good, Lists, Owed, Running
  <2>3. ASSUME Running, NEW s \in Streams, dns.conn[s] = "resolving",
               s \notin closeable
        PROVE  s \in dns.resolving_streams /\ circ[CircOf[s]] = "open"
    BY <2>3 DEF Inv, GoodNow, Good, Marks, Running
  <2> QED
    BY <2>1, <2>2, <2>3 DEF WaitersOK
<1> QED
  BY <1>1, InitInv, NextInv, PTL DEF Spec

\* A stream that waits has had no answer, and one that is gone has had one unless
\* its client ended it or its circuit was destroyed.
THEOREM EachToldOnce == Spec => []ToldOnce
<1>1. Inv => ToldOnce
  BY DEF Inv, GoodNow, Good, Answers, ToldOnce, Running
<1> QED
  BY <1>1, InitInv, NextInv, PTL DEF Spec
=============================================================================
