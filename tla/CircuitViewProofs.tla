------------------------ MODULE CircuitViewProofs -------------------------
(***************************************************************************)
(* Facts about CircuitBuild, one circuit at a time; CircuitBuildProofs     *)
(* draws the conclusions.                                                  *)
(*                                                                         *)
(* Circuits share connections, and a connection that closes takes many of  *)
(* them with it.  The proof takes them apart again: the view of a circuit  *)
(* is what it has at each node, the states of all connections, and the     *)
(* cells of its own on each of them.  The invariant, Inv, is about one     *)
(* view, and each section shows that it survives what one of the handlers  *)
(* does to a view.                                                         *)
(*                                                                         *)
(* The properties to be proved are not inductive by themselves.  That a    *)
(* DESTROY finds the neighbour it is meant for needs to know where CREATE  *)
(* cells still are (Agree); that a CREATE cell finds nothing at the next   *)
(* node needs the handshake to be at the end of the circuit (Frontier);    *)
(* that there is only one needs to know all the places where it can be     *)
(* (Alone, Ones); and that the origin hears of every failure needs a chain *)
(* of nodes that are connected to it, with the handshake or the bad news   *)
(* on it (Chain).                                                          *)
(***************************************************************************)
EXTENDS CircuitBuild, Queues, FiniteSetTheorems, SequenceTheorems, FunctionTheorems,
        WellFoundedInduction, TLAPS

----------------------------------------------------------------------------
(* Queues: filtering.                                                    *)

\* A set of naturals has a least element.
LEMMA LeastNat ==
  ASSUME NEW A \in SUBSET Nat, A # {}
  PROVE  \E m \in A : \A n \in A : m <= n
<1>1. PICK R : R = OpToRel(<, Nat)
  OBVIOUS
<1>2. PICK m \in A : \A n \in A : ~(<<n, m>> \in R)
  BY ONLY A \in SUBSET Nat, A # {}, <1>1, NatLessThanWellFounded, WFMin
<1>3. \A n \in A : n < m => <<n, m>> \in R
  BY <1>1 DEF OpToRel
<1>4. m \in Nat /\ \A n \in A : n \in Nat /\ ~(n < m)
  BY ONLY A \in SUBSET Nat, m \in A, <1>2, <1>3, Zenon
<1>5. \A n \in A : m <= n
  BY ONLY <1>4
<1> QED
  BY ONLY m \in A, <1>5

\* In a finite set of integers, the elements are ranked 1, 2, ... without gaps:
\* what makes Keep well defined.
LEMMA RankBijective ==
  ASSUME NEW P \in SUBSET Int, IsFiniteSet(P)
  PROVE  /\ Cardinality(P) \in Nat
         /\ \A i \in P : Rank(P, i) \in 1..Cardinality(P)
         /\ \A i, j \in P : Rank(P, i) = Rank(P, j) => i = j
         /\ \A k \in 1..Cardinality(P) : \E i \in P : Rank(P, i) = k
<1> DEFINE n == Cardinality(P)
           below(i) == {j \in P : j <= i}
<1>1. n \in Nat
  BY FS_CardinalityType
<1>2. ASSUME NEW i \in P
      PROVE  /\ IsFiniteSet(below(i)) /\ Rank(P, i) = Cardinality(below(i))
             /\ Rank(P, i) \in 1..n
  <2>1. below(i) \subseteq P /\ i \in below(i)
    OBVIOUS
  <2>2. IsFiniteSet(below(i)) /\ Cardinality(below(i)) <= n
    BY <2>1, FS_Subset
  <2>3. Cardinality(below(i)) \in Nat /\ Cardinality(below(i)) # 0
    BY <2>1, <2>2, FS_CardinalityType, FS_EmptySet
  <2>4. Rank(P, i) = Cardinality(below(i))
    BY DEF Rank
  <2> QED
    BY <1>1, <2>2, <2>3, <2>4
<1>3. ASSUME NEW i \in P, NEW j \in P, i < j
      PROVE  Rank(P, i) # Rank(P, j)
  <2>1. below(i) \subseteq below(j) /\ below(i) # below(j)
    <3>1. j \in below(j) /\ j \notin below(i)
      BY <1>3
    <3>2. ASSUME NEW x \in below(i) PROVE x \in below(j)
      <4>1. x \in Int /\ i \in Int /\ j \in Int /\ x <= i
        OBVIOUS
      <4> QED
        BY <1>3, <4>1
    <3> QED
      BY <3>1, <3>2
  <2>2. IsFiniteSet(below(j))
    BY <1>2
  <2>3. Cardinality(below(i)) # Cardinality(below(j))
    BY <2>1, <2>2, FS_Subset
  <2> QED
    BY <1>2, <2>3
<1>4. \A i, j \in P : Rank(P, i) = Rank(P, j) => i = j
  <2> SUFFICES ASSUME NEW i \in P, NEW j \in P, i # j
               PROVE  Rank(P, i) # Rank(P, j)
    OBVIOUS
  <2>1. i < j \/ j < i
    OBVIOUS
  <2> QED
    BY <1>3, <2>1
<1>5. ASSUME NEW k \in 1..n PROVE \E i \in P : Rank(P, i) = k
  <2> DEFINE f == [i \in P |-> Rank(P, i)]
             R == {Rank(P, i) : i \in P}
  <2>1. f \in Bijection(P, R)
    BY <1>4 DEF Bijection, Injection, IsInjective, Surjection
  <2>2. IsFiniteSet(R) /\ Cardinality(R) = n
    BY <2>1, FS_Bijection DEF ExistsBijection
  <2>3. R \subseteq 1..n
    BY <1>2
  <2>4. IsFiniteSet(1..n) /\ Cardinality(1..n) = n
    BY <1>1, FS_Interval
  <2>5. R = 1..n
    BY <2>2, <2>3, <2>4, FS_Subset
  <2> QED
    BY <2>5
<1> QED
  BY <1>1, <1>2, <1>4, <1>5

\* No element occurs twice.
Distinct(q) == \A i, j \in DOMAIN q : q[i] = q[j] => i = j

\* Keep(q, S) has exactly the elements of q that are in S, each as often as q.
LEMMA KeepProperties ==
  ASSUME NEW X, NEW q \in Seq(X), NEW S, NEW L, L = Keep(q, S)
  PROVE  /\ L \in Seq(X)
         /\ \A k \in DOMAIN L : L[k] \in S /\ \E i \in DOMAIN q : q[i] = L[k]
         /\ \A i \in DOMAIN q : q[i] \in S => \E k \in DOMAIN L : L[k] = q[i]
         /\ Distinct(q) => Distinct(L)
<1> DEFINE P == Places(q, S)
           n == Cardinality(P)
           nth(k) == CHOOSE i \in P : Rank(P, i) = k
<1>1. DOMAIN q = 1..Len(q) /\ Len(q) \in Nat
  BY LenProperties
<1>2. P \subseteq 1..Len(q) /\ IsFiniteSet(P) /\ P \in SUBSET Int
  <2>1. P \subseteq 1..Len(q)
    BY <1>1 DEF Places
  <2>2. IsFiniteSet(1..Len(q))
    BY <1>1, FS_Interval
  <2> QED
    BY <2>1, <2>2, FS_Subset
<1>3. \A i \in P : i \in DOMAIN q /\ q[i] \in S /\ q[i] \in X
  BY <1>1, LenProperties DEF Places
<1>a. \A i \in DOMAIN q : q[i] \in S => i \in P
  BY DEF Places
<1> HIDE DEF P
<1>4. /\ n \in Nat
      /\ \A i \in P : Rank(P, i) \in 1..n
      /\ \A i, j \in P : Rank(P, i) = Rank(P, j) => i = j
      /\ \A k \in 1..n : \E i \in P : Rank(P, i) = k
  BY <1>2, RankBijective
<1>5. \A k \in 1..n : nth(k) \in P /\ Rank(P, nth(k)) = k
  BY <1>4
<1>6. L = [k \in 1..n |-> q[nth(k)]]
  BY DEF Keep, P
<1> HIDE DEF nth, n
<1>7. DOMAIN L = 1..n /\ \A k \in 1..n : L[k] = q[nth(k)]
  BY <1>6
<1>8. L \in Seq(X)
  BY <1>3, <1>4, <1>5, <1>6, SeqDef
<1>9. ASSUME NEW i \in DOMAIN q, q[i] \in S
      PROVE  \E k \in DOMAIN L : L[k] = q[i]
  <2>1. i \in P
    BY <1>9, <1>a
  <2>2. Rank(P, i) \in 1..n /\ nth(Rank(P, i)) = i
    BY <1>4, <1>5, <2>1
  <2> QED
    BY <1>7, <2>2
<1>10. ASSUME Distinct(q),
              NEW k \in DOMAIN L, NEW l \in DOMAIN L,
              L[k] = L[l]
       PROVE  k = l
  <2>1. nth(k) = nth(l)
    BY <1>3, <1>5, <1>7, <1>10 DEF Distinct
  <2> QED
    BY <1>5, <1>7, <2>1
<1>11. \A k \in DOMAIN L :
         L[k] \in S /\ \E i \in DOMAIN q : q[i] = L[k]
  BY <1>3, <1>5, <1>7
<1> QED
  BY <1>8, <1>9, <1>10, <1>11 DEF Distinct

\* A set of integers keeps its size when it is moved.
LEMMA ShiftedSize ==
  ASSUME NEW n \in Int, NEW T \in SUBSET Int, IsFiniteSet(T)
  PROVE  /\ IsFiniteSet({n + j : j \in T})
         /\ Cardinality({n + j : j \in T}) = Cardinality(T)
<1> DEFINE D == {n + j : j \in T}
           f == [j \in T |-> n + j]
<1>1. f \in Bijection(T, D)
  <2>1. f \in Surjection(T, D)
    BY DEF Surjection
  <2>2. \A a, b \in T : f[a] = f[b] => a = b
    BY T \subseteq Int
  <2>3. f \in Injection(T, D)
    BY <2>1, <2>2 DEF Injection, IsInjective, Surjection
  <2> QED
    BY <2>1, <2>3 DEF Bijection
<1> HIDE DEF f, D
<1>2. ExistsBijection(T, D)
  BY <1>1 DEF ExistsBijection
<1>3. IsFiniteSet(D) /\ Cardinality(D) = Cardinality(T)
  BY <1>2, FS_Bijection
<1> QED
  BY <1>3 DEF D

\* Keep(q, S) element by element: the k-th is the element of q of rank k.
LEMMA KeepAt ==
  ASSUME NEW X, NEW q \in Seq(X), NEW S, NEW P, P = Places(q, S)
  PROVE  /\ P \in SUBSET Int /\ IsFiniteSet(P) /\ P \subseteq 1..Len(q)
         /\ Cardinality(P) \in Nat
         /\ Keep(q, S) \in Seq(X) /\ Len(Keep(q, S)) = Cardinality(P)
         /\ \A i \in P : Rank(P, i) \in 1..Cardinality(P) /\ Keep(q, S)[Rank(P, i)] = q[i]
         /\ \A k \in 1..Cardinality(P) : \E i \in P : Rank(P, i) = k
<1> DEFINE n == Cardinality(P)
           nth(k) == CHOOSE i \in P : Rank(P, i) = k
           L == Keep(q, S)
<1>1. DOMAIN q = 1..Len(q) /\ Len(q) \in Nat
  BY LenProperties
<1>2. P \subseteq 1..Len(q) /\ IsFiniteSet(P) /\ P \in SUBSET Int
  <2>1. P \subseteq 1..Len(q)
    BY <1>1 DEF Places
  <2>2. IsFiniteSet(1..Len(q))
    BY <1>1, FS_Interval
  <2> QED
    BY <2>1, <2>2, FS_Subset
<1>4. /\ n \in Nat
      /\ \A i \in P : Rank(P, i) \in 1..n
      /\ \A i, j \in P : Rank(P, i) = Rank(P, j) => i = j
      /\ \A k \in 1..n : \E i \in P : Rank(P, i) = k
  BY <1>2, RankBijective
<1>5. \A i \in P : nth(Rank(P, i)) = i
  <2> SUFFICES ASSUME NEW i \in P PROVE nth(Rank(P, i)) = i
    OBVIOUS
  <2>1. nth(Rank(P, i)) \in P /\ Rank(P, nth(Rank(P, i))) = Rank(P, i)
    OBVIOUS
  <2> QED
    BY <1>4, <2>1
<1>6. L = [k \in 1..n |-> q[nth(k)]]
  BY DEF Keep
<1>7. L \in Seq(X)
  BY KeepProperties
<1> HIDE DEF nth, n, L
<1>8. DOMAIN L = 1..n /\ \A k \in 1..n : L[k] = q[nth(k)]
  BY <1>6
<1>9. Len(L) = n
  <2>1. DOMAIN L = 1..Len(L) /\ Len(L) \in Nat
    BY <1>7, LenProperties
  <2> QED
    BY <1>4, <1>8, <2>1
<1>10. \A i \in P : Rank(P, i) \in 1..n /\ L[Rank(P, i)] = q[i]
  BY <1>4, <1>5, <1>8
<1> QED
  BY <1>2, <1>4, <1>7, <1>9, <1>10 DEF n, L

\* Filtering goes through concatenation.
LEMMA KeepConcat ==
  ASSUME NEW X, NEW q \in Seq(X), NEW r \in Seq(X), NEW S
  PROVE  Keep(q \o r, S) = Keep(q, S) \o Keep(r, S)
<1>1. PICK t : t = q \o r
  OBVIOUS
<1>2. PICK n : n = Len(q)
  OBVIOUS
<1>3. /\ t \in Seq(X) /\ n \in Nat /\ Len(r) \in Nat /\ Len(t) = n + Len(r)
      /\ DOMAIN q = 1..n /\ DOMAIN r = 1..Len(r) /\ DOMAIN t = 1..Len(t)
      /\ \A i \in 1..n : t[i] = q[i]
      /\ \A j \in 1..Len(r) : t[n + j] = r[j]
  <2>1. /\ t \in Seq(X) /\ Len(t) = n + Len(r)
        /\ \A i \in 1..(n + Len(r)) : t[i] = IF i <= n THEN q[i] ELSE r[i - n]
    BY <1>1, <1>2, ConcatProperties
  <2>2. n \in Nat /\ Len(r) \in Nat /\ DOMAIN q = 1..n /\ DOMAIN r = 1..Len(r)
    BY <1>2, LenProperties
  <2>3. DOMAIN t = 1..Len(t)
    BY <2>1, LenProperties
  <2>4. ASSUME NEW j \in 1..Len(r) PROVE t[n + j] = r[j]
    <3>1. n + j \in 1..(n + Len(r)) /\ ~(n + j <= n) /\ (n + j) - n = j
      BY <2>2
    <3> QED
      BY <2>1, <3>1
  <2> QED
    BY <2>1, <2>2, <2>3, <2>4
<1>4. PICK P : P = Places(q, S)
  OBVIOUS
<1>5. PICK R : R = Places(r, S)
  OBVIOUS
<1>6. PICK U : U = Places(t, S)
  OBVIOUS
<1>7. /\ P \in SUBSET Int /\ IsFiniteSet(P) /\ P \subseteq 1..n /\ Cardinality(P) \in Nat
      /\ Keep(q, S) \in Seq(X) /\ Len(Keep(q, S)) = Cardinality(P)
      /\ \A i \in P : Rank(P, i) \in 1..Cardinality(P) /\ Keep(q, S)[Rank(P, i)] = q[i]
      /\ \A k \in 1..Cardinality(P) : \E i \in P : Rank(P, i) = k
  BY <1>2, <1>4, KeepAt
<1>8. /\ R \in SUBSET Int /\ IsFiniteSet(R) /\ R \subseteq 1..Len(r) /\ Cardinality(R) \in Nat
      /\ Keep(r, S) \in Seq(X) /\ Len(Keep(r, S)) = Cardinality(R)
      /\ \A i \in R : Rank(R, i) \in 1..Cardinality(R) /\ Keep(r, S)[Rank(R, i)] = r[i]
      /\ \A k \in 1..Cardinality(R) : \E i \in R : Rank(R, i) = k
  BY <1>5, KeepAt
<1>9. /\ U \in SUBSET Int /\ IsFiniteSet(U) /\ Cardinality(U) \in Nat
      /\ Keep(t, S) \in Seq(X) /\ Len(Keep(t, S)) = Cardinality(U)
      /\ \A i \in U : Keep(t, S)[Rank(U, i)] = t[i]
  BY <1>3, <1>6, KeepAt
<1>10. PICK V : V = {n + j : j \in R}
  OBVIOUS
<1>11. U = P \cup V
  <2>1. ASSUME NEW i \in U PROVE i \in P \cup V
    <3>1. i \in 1..(n + Len(r)) /\ t[i] \in S
      BY <1>3, <1>6 DEF Places
    <3>2. CASE i <= n
      <4>1. i \in 1..n
        BY <1>3, <3>1, <3>2
      <4> QED
        BY <1>3, <1>4, <3>1, <4>1 DEF Places
    <3>3. CASE ~(i <= n)
      <4>1. i - n \in 1..Len(r) /\ n + (i - n) = i
        BY <1>3, <3>1, <3>3
      <4>2. i - n \in R
        BY <1>3, <1>5, <3>1, <4>1 DEF Places
      <4> QED
        BY <1>10, <4>1, <4>2
    <3> QED
      BY <3>2, <3>3
  <2>2. ASSUME NEW i \in P PROVE i \in U
    <3>1. i \in 1..n /\ q[i] \in S
      BY <1>3, <1>4 DEF Places
    <3>2. i \in 1..Len(t) /\ t[i] = q[i]
      BY <1>3, <3>1
    <3> QED
      BY <1>3, <1>6, <3>1, <3>2 DEF Places
  <2>3. ASSUME NEW j \in R PROVE n + j \in U
    <3>1. j \in 1..Len(r) /\ r[j] \in S
      BY <1>3, <1>5 DEF Places
    <3>2. n + j \in 1..Len(t) /\ t[n + j] = r[j]
      BY <1>3, <3>1
    <3> QED
      BY <1>3, <1>6, <3>1, <3>2 DEF Places
  <2> QED
    BY <1>10, <2>1, <2>2, <2>3
<1>12. \A j \in V : j > n /\ j \in Int
  BY <1>3, <1>8, <1>10
<1>z. n \in Int /\ R \in SUBSET Int /\ IsFiniteSet(R)
  BY <1>3, <1>8
<1>13. IsFiniteSet(V) /\ Cardinality(V) = Cardinality(R)
  BY ONLY <1>z, <1>10, ShiftedSize
<1>14. ASSUME NEW A, NEW B, IsFiniteSet(A), IsFiniteSet(B), A \cap B = {}
       PROVE  Cardinality(A \cup B) = Cardinality(A) + Cardinality(B)
  <2>1. Cardinality(A) \in Nat /\ Cardinality(B) \in Nat
    BY <1>14, FS_CardinalityType
  <2>2. Cardinality(A \cup B) = Cardinality(A) + Cardinality(B) - Cardinality(A \cap B)
    BY ONLY <1>14, FS_Union
  <2>3. Cardinality(A \cap B) = 0
    BY <1>14, FS_EmptySet
  <2> QED
    BY <2>1, <2>2, <2>3
<1>15. Cardinality(U) = Cardinality(P) + Cardinality(R)
  <2>1. P \cap V = {}
    BY <1>3, <1>7, <1>12
  <2> QED
    BY <1>7, <1>11, <1>13, <1>14, <2>1
<1>16. ASSUME NEW i \in P PROVE Rank(U, i) = Rank(P, i)
  <2>1. {j \in U : j <= i} = {j \in P : j <= i}
    BY <1>3, <1>7, <1>11, <1>12
  <2> QED
    BY <2>1 DEF Rank
<1>17. ASSUME NEW j \in R PROVE Rank(U, n + j) = Cardinality(P) + Rank(R, j)
  <2>1. PICK B : B = {x \in R : x <= j}
    OBVIOUS
  <2>2. PICK C : C = {n + x : x \in B}
    OBVIOUS
  <2>3. B \in SUBSET Int /\ IsFiniteSet(B)
    BY <1>8, <2>1, FS_Subset
  <2>4. IsFiniteSet(C) /\ Cardinality(C) = Cardinality(B)
    BY ONLY <1>z, <2>2, <2>3, ShiftedSize
  <2>5. {x \in U : x <= n + j} = P \cup C
    <3>1. ASSUME NEW x \in P PROVE x <= n + j
      BY <1>3, <1>7, <1>8
    <3>2. ASSUME NEW x \in R PROVE n + x <= n + j <=> x <= j
      BY <1>3, <1>8
    <3>3. \A y \in V : y <= n + j <=> y \in C
      <4> SUFFICES ASSUME NEW y \in V PROVE y <= n + j <=> y \in C
        OBVIOUS
      <4>1. PICK x \in R : y = n + x
        BY <1>10
      <4>2. y \in C <=> x \in B
        BY <1>3, <1>8, <2>1, <2>2, <4>1
      <4> QED
        BY <2>1, <3>2, <4>1, <4>2
    <3>4. C \subseteq V
      BY <1>10, <2>1, <2>2
    <3> QED
      BY <1>11, <3>1, <3>3, <3>4
  <2>6. P \cap C = {}
    <3>1. C \subseteq V
      BY <1>10, <2>1, <2>2
    <3>2. \A x \in P : x <= n /\ x \in Int
      BY <1>3, <1>7
    <3> QED
      BY <1>3, <1>12, <3>1, <3>2
  <2>7. Rank(U, n + j) = Cardinality(P \cup C) /\ Rank(R, j) = Cardinality(B)
    BY <2>1, <2>5 DEF Rank
  <2> QED
    BY <1>7, <1>14, <2>4, <2>6, <2>7
<1>18. PICK K : K = Keep(q, S) \o Keep(r, S)
  OBVIOUS
<1>19. /\ K \in Seq(X) /\ Len(K) = Cardinality(P) + Cardinality(R)
       /\ \A i \in 1..(Cardinality(P) + Cardinality(R)) :
            K[i] = IF i <= Cardinality(P) THEN Keep(q, S)[i]
                   ELSE Keep(r, S)[i - Cardinality(P)]
  <2>1. /\ K \in Seq(X) /\ Len(K) = Len(Keep(q, S)) + Len(Keep(r, S))
        /\ \A i \in 1..(Len(Keep(q, S)) + Len(Keep(r, S))) :
             K[i] = IF i <= Len(Keep(q, S)) THEN Keep(q, S)[i]
                    ELSE Keep(r, S)[i - Len(Keep(q, S))]
    BY ONLY <1>7, <1>8, <1>18, ConcatProperties
  <2> QED
    BY ONLY <1>7, <1>8, <2>1
<1>20. ASSUME NEW k \in 1..(Cardinality(P) + Cardinality(R)) PROVE Keep(t, S)[k] = K[k]
  <2>1. CASE k <= Cardinality(P)
    <3>1. k \in 1..Cardinality(P)
      BY <1>7, <1>8, <2>1
    <3>2. PICK i \in P : Rank(P, i) = k
      BY <1>7, <3>1
    <3>3. Keep(t, S)[k] = t[i] /\ Keep(q, S)[k] = q[i]
      BY <1>7, <1>9, <1>11, <1>16, <3>2
    <3>4. t[i] = q[i]
      BY <1>3, <1>7
    <3> QED
      BY <1>19, <2>1, <3>3, <3>4
  <2>2. CASE ~(k <= Cardinality(P))
    <3>1. k - Cardinality(P) \in 1..Cardinality(R) /\ Cardinality(P) + (k - Cardinality(P)) = k
      BY <1>7, <1>8, <2>2
    <3>2. PICK j \in R : Rank(R, j) = k - Cardinality(P)
      BY <1>8, <3>1
    <3>3. n + j \in U /\ Rank(U, n + j) = k
      BY <1>10, <1>11, <1>17, <3>1, <3>2
    <3>4. Keep(t, S)[k] = t[n + j] /\ Keep(r, S)[k - Cardinality(P)] = r[j]
      BY <1>8, <1>9, <3>2, <3>3
    <3>5. t[n + j] = r[j]
      BY <1>3, <1>8
    <3> QED
      BY <1>19, <2>2, <3>4, <3>5
  <2> QED
    BY <2>1, <2>2
<1>21. Len(Keep(t, S)) = Len(K)
  BY <1>9, <1>15, <1>19
<1> QED
  BY <1>1, <1>9, <1>18, <1>19, <1>20, <1>21, SeqEqual

\* What is left of a queue with no element in S, and with one.
LEMMA KeepNone ==
  ASSUME NEW X, NEW q \in Seq(X), NEW S, \A i \in DOMAIN q : q[i] \notin S
  PROVE  Keep(q, S) = <<>>
<1>1. Places(q, S) = {}
  BY DEF Places
<1>2. Keep(q, S) \in Seq(X) /\ Len(Keep(q, S)) = Cardinality({})
  BY <1>1, KeepAt
<1>3. Cardinality({}) = 0
  BY FS_EmptySet
<1> QED
  BY ONLY <1>2, <1>3, EmptySeq

LEMMA KeepOne ==
  ASSUME NEW X, NEW q \in Seq(X), NEW S, NEW i \in DOMAIN q, q[i] \in S,
         \A j \in DOMAIN q : q[j] \in S => j = i
  PROVE  Keep(q, S) = <<q[i]>>
<1>1. PICK P : P = Places(q, S)
  OBVIOUS
<1>2. P = {i}
  BY <1>1 DEF Places
<1>3. Cardinality(P) = 1
  BY <1>2, FS_Singleton
<1>4. /\ Keep(q, S) \in Seq(X) /\ Len(Keep(q, S)) = Cardinality(P)
      /\ \A k \in P : Rank(P, k) \in 1..Cardinality(P) /\ Keep(q, S)[Rank(P, k)] = q[k]
  BY <1>1, KeepAt
<1>5. PICK r : r = Rank(P, i)
  OBVIOUS
<1>6. r \in 1..1 /\ Keep(q, S)[r] = q[i]
  BY <1>2, <1>3, <1>4, <1>5
<1>7. Keep(q, S)[1] = q[i]
  BY <1>6
<1>8. q[i] \in X
  BY LenProperties
<1>9. PICK x : x = q[i]
  OBVIOUS
<1>10. PICK L : L = Keep(q, S)
  OBVIOUS
<1>11. L \in Seq(X) /\ Len(L) = 1 /\ L[1] = x /\ x \in X
  BY <1>3, <1>4, <1>7, <1>8, <1>9, <1>10
<1>12. <<x>> \in Seq(X) /\ Len(<<x>>) = 1 /\ <<x>>[1] = x
  BY <1>11
<1>13. L = <<x>>
  BY ONLY <1>11, <1>12, SeqEqual
<1> QED
  BY <1>9, <1>10, <1>13

\* Filtering a queue that has got one more element, or lost its first.
LEMMA KeepAppend ==
  ASSUME NEW X, NEW q \in Seq(X), NEW x \in X, NEW S
  PROVE  Keep(Append(q, x), S) = IF x \in S THEN Append(Keep(q, S), x) ELSE Keep(q, S)
<1>1. <<x>> \in Seq(X) /\ DOMAIN <<x>> = {1} /\ <<x>>[1] = x
  OBVIOUS
<1>2. Append(q, x) = q \o <<x>>
  BY AppendIsConcat
<1>3. Keep(Append(q, x), S) = Keep(q, S) \o Keep(<<x>>, S)
  <2>1. \A r \in Seq(X) : Keep(q \o r, S) = Keep(q, S) \o Keep(r, S)
    BY KeepConcat
  <2> QED
    BY ONLY <1>1, <1>2, <2>1
<1>4. Keep(q, S) \in Seq(X)
  BY KeepProperties
<1>5. CASE x \in S
  <2>1. Keep(<<x>>, S) = <<x>>
    <3>1. PICK r : r = <<x>>
      OBVIOUS
    <3>2. r \in Seq(X) /\ 1 \in DOMAIN r /\ r[1] \in S /\ r[1] = x
          /\ \A j \in DOMAIN r : r[j] \in S => j = 1
      BY <1>1, <1>5, <3>1
    <3>3. Keep(r, S) = <<r[1]>>
      BY ONLY <3>2, KeepOne
    <3> QED
      BY <3>1, <3>2, <3>3
  <2>2. Append(Keep(q, S), x) = Keep(q, S) \o <<x>>
    BY <1>4, AppendIsConcat
  <2> QED
    BY <1>3, <1>5, <2>1, <2>2
<1>6. CASE x \notin S
  <2>1. Keep(<<x>>, S) = <<>>
    <3>1. PICK r : r = <<x>>
      OBVIOUS
    <3>2. r \in Seq(X) /\ \A j \in DOMAIN r : r[j] \notin S
      BY <1>1, <1>6, <3>1
    <3> QED
      BY <3>1, <3>2, KeepNone
  <2>2. Keep(q, S) \o <<>> = Keep(q, S)
    BY <1>4, ConcatEmptySeq
  <2> QED
    BY <1>3, <1>6, <2>1, <2>2
<1> QED
  BY <1>5, <1>6

LEMMA KeepTail ==
  ASSUME NEW X, NEW q \in Seq(X), q # <<>>, NEW S
  PROVE  IF Head(q) \in S
         THEN /\ Keep(q, S) # <<>> /\ Head(Keep(q, S)) = Head(q)
              /\ Keep(Tail(q), S) = Tail(Keep(q, S))
         ELSE Keep(Tail(q), S) = Keep(q, S)
<1>1. PICK x : x = Head(q)
  OBVIOUS
<1>2. PICK t : t = Tail(q)
  OBVIOUS
<1>3. x \in X /\ t \in Seq(X)
  BY <1>1, <1>2, HeadTailProperties
<1>4. q = <<x>> \o t
  <2>1. /\ Len(t) = Len(q) - 1 /\ Len(q) \in Nat /\ Len(t) \in Nat
        /\ \A i \in 1..Len(t) : t[i] = q[i + 1]
        /\ x = q[1]
    BY <1>1, <1>2, HeadTailProperties, LenProperties
  <2>2. PICK r : r = <<x>>
    OBVIOUS
  <2>3. r \in Seq(X) /\ Len(r) = 1 /\ r[1] = x
    BY <1>3, <2>2
  <2>4. PICK s : s = r \o t
    OBVIOUS
  <2>5. /\ s \in Seq(X) /\ Len(s) = Len(r) + Len(t)
        /\ \A i \in 1..(Len(r) + Len(t)) : s[i] = IF i <= Len(r) THEN r[i] ELSE t[i - Len(r)]
    BY ONLY <1>3, <2>3, <2>4, ConcatProperties
  <2>6. Len(s) = Len(q)
    BY <2>1, <2>3, <2>5
  <2>7. ASSUME NEW i \in 1..Len(q) PROVE s[i] = q[i]
    <3>1. CASE i = 1
      BY <2>1, <2>3, <2>5, <3>1
    <3>2. CASE i # 1
      <4>1. i \in 1..(Len(r) + Len(t)) /\ ~(i <= Len(r)) /\ i - Len(r) \in 1..Len(t)
            /\ (i - Len(r)) + 1 = i
        BY <2>1, <2>3, <3>2
      <4>2. s[i] = t[i - Len(r)]
        BY <2>5, <4>1
      <4>3. t[i - Len(r)] = q[(i - Len(r)) + 1]
        BY <2>1, <4>1
      <4> QED
        BY <4>1, <4>2, <4>3
    <3> QED
      BY <3>1, <3>2
  <2>8. s = q
    BY <2>5, <2>6, <2>7, SeqEqual
  <2> QED
    BY <2>2, <2>4, <2>8
<1>5. PICK r : r = <<x>>
  OBVIOUS
<1>6. r \in Seq(X) /\ DOMAIN r = {1} /\ 1 \in DOMAIN r /\ r[1] = x
  BY <1>3, <1>5
<1>7. Keep(q, S) = Keep(r, S) \o Keep(t, S)
  <2>1. Keep(r \o t, S) = Keep(r, S) \o Keep(t, S)
    BY ONLY <1>3, <1>6, KeepConcat
  <2>2. q = r \o t
    BY <1>4, <1>5
  <2> QED
    BY ONLY <2>1, <2>2
<1>8. Keep(t, S) \in Seq(X)
  BY <1>3, KeepProperties
<1>9. CASE x \in S
  <2>1. Keep(r, S) = <<x>>
    <3>1. \A j \in DOMAIN r : r[j] \in S => j = 1
      BY <1>6
    <3>2. Keep(r, S) = <<r[1]>>
      BY <1>6, <1>9, <3>1, KeepOne
    <3> QED
      BY <1>6, <3>2
  <2>2. PICK T : T = Keep(t, S)
    OBVIOUS
  <2>3. T \in Seq(X)
    BY <1>8, <2>2
  <2>4. <<x>> \o T # <<>> /\ Head(<<x>> \o T) = x /\ Tail(<<x>> \o T) = T
    <3>1. PICK s : s = <<x>> \o T
      OBVIOUS
    <3>2. /\ s \in Seq(X) /\ Len(s) = 1 + Len(T)
          /\ \A i \in 1..(1 + Len(T)) : s[i] = IF i <= 1 THEN x ELSE T[i - 1]
      <4>1. /\ s \in Seq(X) /\ Len(s) = Len(r) + Len(T)
            /\ \A i \in 1..(Len(r) + Len(T)) : s[i] = IF i <= Len(r) THEN r[i] ELSE T[i - Len(r)]
        BY <1>5, <1>6, <2>3, <3>1, ConcatProperties
      <4>2. Len(r) = 1 /\ r[1] = x /\ Len(T) \in Nat
        BY <1>5, <2>3, LenProperties
      <4> QED
        BY <4>1, <4>2
    <3>3. Len(T) \in Nat
      BY <2>3, LenProperties
    <3>4. s # <<>> /\ s[1] = x
      BY <3>2, <3>3
    <3>5. Head(s) = x
      BY <3>2, <3>4
    <3>6. /\ Tail(s) \in Seq(X) /\ Len(Tail(s)) = Len(s) - 1
          /\ \A i \in 1..Len(Tail(s)) : Tail(s)[i] = s[i + 1]
      BY <3>2, <3>4, HeadTailProperties
    <3>7. Len(Tail(s)) = Len(T)
      BY <3>2, <3>3, <3>6
    <3>8. ASSUME NEW i \in 1..Len(T) PROVE Tail(s)[i] = T[i]
      <4>1. i + 1 \in 1..(1 + Len(T)) /\ ~(i + 1 <= 1) /\ (i + 1) - 1 = i
        BY <3>3
      <4> QED
        BY <3>2, <3>6, <3>7, <4>1
    <3>9. Tail(s) = T
      BY <2>3, <3>6, <3>7, <3>8, SeqEqual
    <3> QED
      BY <3>1, <3>4, <3>5, <3>9
  <2> QED
    BY <1>1, <1>2, <1>7, <1>9, <2>1, <2>2, <2>4
<1>10. CASE x \notin S
  <2>1. Keep(r, S) = <<>>
    BY <1>6, <1>10, KeepNone
  <2>2. <<>> \o Keep(t, S) = Keep(t, S)
    BY <1>8, ConcatEmptySeq
  <2> QED
    BY <1>1, <1>2, <1>7, <1>10, <2>1, <2>2
<1> QED
  BY <1>9, <1>10

----------------------------------------------------------------------------
(* What one circuit sees of the world.  Circuits share connections, but a  *)
(* handler treats each of them alone: it does to the view of a circuit     *)
(* what it would do if there were no other.                                *)

\* The cells there are, and those of one circuit.
AllCells == [cmd : Commands, c : Circuits, to : Nodes]
CellsOf(c) == [cmd : Commands, c : {c}, to : Nodes]

\* The states of circuits and of the two ends of a connection.
CircStates == {"none", "OR_WAIT", "OPEN", "BUILDING", "ONIONSKIN_PENDING"}
NearStates == {"none", "connecting", "dying", "open", "closing", "closed"}
FarStates == {"none", "open", "closed"}
Ks == 0 .. MaxConns

\* The circuit c at a node, and a connection.
CircsOf(c) == [state : CircStates, n : Ks, p : Ks, marked : BOOLEAN, hops : Nodes,
               outq : Seq(CellsOf(c)), inq : Seq(CellsOf(c))]
ConnRecs == [near : NearStates, far : FarStates, fwd : Seq(AllCells), bwd : Seq(AllCells)]

\* The circuits of one node.
IsRow(f) == f = [c \in Circuits |-> f[c]] /\ \A c \in Circuits : f[c] \in CircsOf(c)

\* A world: circuits at nodes, connections of links, and the CREATE cells overtaken.
IsWorld(w) ==
  /\ w = [circ |-> w.circ, conn |-> w.conn, over |-> w.over]
  /\ w.circ = [i \in Nodes |-> w.circ[i]] /\ \A i \in Nodes : IsRow(w.circ[i])
  /\ w.conn \in [Links -> [Conns -> ConnRecs]]
  /\ w.over \subseteq Nodes \X Circuits

\* What circuit c, which is to have n hops, sees of world w.
View(w, c, n) ==
  [node |-> [i \in Nodes |-> w.circ[i][c]],
   near |-> [l \in Links |-> [k \in Conns |-> w.conn[l][k].near]],
   far |-> [l \in Links |-> [k \in Conns |-> w.conn[l][k].far]],
   fwd |-> [l \in Links |-> [k \in Conns |-> Keep(w.conn[l][k].fwd, CellsOf(c))]],
   bwd |-> [l \in Links |-> [k \in Conns |-> Keep(w.conn[l][k].bwd, CellsOf(c))]],
   over |-> {i \in Nodes : <<i, c>> \in w.over},
   len |-> n]

\* y is z with x at node i.
ZNode(z, y, i, x) ==
  /\ y.near = z.near /\ y.far = z.far /\ y.fwd = z.fwd /\ y.bwd = z.bwd
  /\ y.over = z.over /\ y.len = z.len
  /\ y.node[i] = x
  /\ \A j \in Nodes : j # i => y.node[j] = z.node[j]

\* y is z with another connection k on link l.
ZConn(z, y, l, k, near, far, fwd, bwd) ==
  /\ y.node = z.node /\ y.over = z.over /\ y.len = z.len
  /\ y.near[l][k] = near /\ y.far[l][k] = far /\ y.fwd[l][k] = fwd /\ y.bwd[l][k] = bwd
  /\ \A m \in Links, h \in Conns : m # l \/ h # k =>
       /\ y.near[m][h] = z.near[m][h] /\ y.far[m][h] = z.far[m][h]
       /\ y.fwd[m][h] = z.fwd[m][h] /\ y.bwd[m][h] = z.bwd[m][h]

\* y is z after circuit_mark_for_close at node i.
ZMark(z, y, i, c) ==
  LET x == z.node[i]
      bye == Cell("DESTROY", c, 0)
  IN IF x.marked THEN y = z
     ELSE /\ y.near = z.near /\ y.far = z.far /\ y.len = z.len
          /\ y.node[i] = [x EXCEPT !.marked = TRUE]
          /\ \A j \in Nodes : j # i => y.node[j] = z.node[j]
          /\ \A l \in Links, k \in Conns :
               /\ y.fwd[l][k] = IF l = i + 1 /\ x.n = k THEN Append(z.fwd[l][k], bye)
                                ELSE z.fwd[l][k]
               /\ y.bwd[l][k] = IF l = i /\ x.p = k THEN Append(z.bwd[l][k], bye)
                                ELSE z.bwd[l][k]
          /\ y.over = IF x.n # 0 /\ HasCreate(x.outq) THEN z.over \cup {i} ELSE z.over

\* What the assumption on the constants says of nodes, links and connections.
LEMMA ConstFacts ==
  /\ PathLen \in Nat \ {0} /\ MaxConns \in Nat \ {0} /\ MaxFaults \in Nat
  /\ Plans \subseteq [Circuits -> Nodes] /\ IsFiniteSet(Circuits)
  /\ 0 \in Nodes /\ Links \subseteq Nodes /\ Nodes \subseteq Nat
  /\ \A i \in Nodes : i # 0 <=> i \in Links
  /\ \A i \in Nodes : i # PathLen <=> i + 1 \in Links
  /\ \A l \in Links : l - 1 \in Nodes /\ l - 1 # PathLen /\ (l - 1) + 1 = l
  /\ Conns \subseteq Ks /\ Ks \subseteq Nat /\ 0 \in Ks
  /\ \A k \in Ks : k # 0 <=> k \in Conns
BY CircuitBuildAssumption DEF Nodes, Links, Conns, Ks

\* Of the DESTROY cells of a set of circuits, a circuit sees its own or none.
LEMMA Deaths ==
  ASSUME NEW cs \in SUBSET Circuits
  PROVE  /\ Destroys(cs) \in Seq(AllCells)
         /\ \A c \in Circuits : Keep(Destroys(cs), CellsOf(c)) =
              IF c \in cs THEN <<Cell("DESTROY", c, 0)>> ELSE <<>>
<1>1. IsFiniteSet(cs)
  BY ConstFacts, FS_Subset
<1>2. PICK n : n = Cardinality(cs)
  OBVIOUS
<1>3. n \in Nat /\ ExistsBijection(1..n, cs)
  BY <1>1, <1>2, FS_CardinalityType
<1>4. PICK g \in Bijection(1..n, cs) : TRUE
  BY <1>3 DEF ExistsBijection
<1>5. PICK f : f = SetToSeq(cs)
  OBVIOUS
<1>6. f \in [1..n -> cs] /\ IsInjective(f)
  <2>1. g \in [1..n -> cs] /\ IsInjective(g)
    BY <1>4 DEF Bijection, Injection
  <2>2. \E h \in [1..n -> cs] : IsInjective(h)
    BY <2>1
  <2> QED
    BY <1>2, <1>5, <2>2 DEF SetToSeq
<1>7. f \in Injection(1..n, cs)
  BY <1>6 DEF Injection
<1>8. IsFiniteSet(1..n) /\ Cardinality(1..n) = n
  BY <1>3, FS_Interval
<1>9. f \in Surjection(1..n, cs)
  BY <1>1, <1>2, <1>7, <1>8, FS_Injection
<1>10. PICK D : D = Destroys(cs)
  OBVIOUS
<1>11. D = [j \in 1..n |-> Cell("DESTROY", f[j], 0)]
  BY <1>2, <1>5, <1>10 DEF Destroys
<1>12. \A d \in Circuits : Cell("DESTROY", d, 0) \in AllCells
  BY ConstFacts DEF Cell, AllCells, Commands
<1>13. \A j \in 1..n : D[j] = Cell("DESTROY", f[j], 0) /\ f[j] \in Circuits
  BY <1>6, <1>11
<1>14. D \in Seq(AllCells)
  <2>1. D \in [1..n -> AllCells]
    BY <1>11, <1>12, <1>13
  <2> QED
    BY <1>3, <2>1, SeqDef
<1>15. DOMAIN D = 1..n
  BY <1>11
<1>16. ASSUME NEW c \in Circuits
       PROVE  Keep(D, CellsOf(c)) = IF c \in cs THEN <<Cell("DESTROY", c, 0)>> ELSE <<>>
  <2>1. \A j \in 1..n : D[j] \in CellsOf(c) <=> f[j] = c
    <3>1. ASSUME NEW d \in Circuits PROVE Cell("DESTROY", d, 0) \in CellsOf(c) <=> d = c
      <4>1. PICK x : x = Cell("DESTROY", d, 0)
        OBVIOUS
      <4>2. x = [cmd |-> "DESTROY", c |-> d, to |-> 0] /\ x.c = d
        BY <4>1 DEF Cell
      <4>3. x \in CellsOf(c) => x.c = c
        BY DEF CellsOf
      <4>4. d = c => x \in CellsOf(c)
        BY <4>2, ConstFacts DEF CellsOf, Commands
      <4> QED
        BY <4>1, <4>2, <4>3, <4>4
    <3> QED
      BY <1>13, <3>1
  <2>2. CASE c \in cs
    <3>1. PICK j \in 1..n : f[j] = c
      BY <1>9, <2>2 DEF Surjection
    <3>2. \A i \in 1..n : f[i] = c => i = j
      BY <1>6, <3>1 DEF IsInjective
    <3>3. j \in DOMAIN D /\ D[j] \in CellsOf(c)
          /\ \A i \in DOMAIN D : D[i] \in CellsOf(c) => i = j
      BY <1>15, <2>1, <3>1, <3>2
    <3>4. Keep(D, CellsOf(c)) = <<D[j]>>
      BY <1>14, <3>3, KeepOne
    <3> QED
      BY <1>13, <2>2, <3>1, <3>4
  <2>3. CASE c \notin cs
    <3>1. \A i \in DOMAIN D : D[i] \notin CellsOf(c)
      BY <1>6, <1>15, <2>1, <2>3
    <3>2. Keep(D, CellsOf(c)) = <<>>
      BY <1>14, <3>1, KeepNone
    <3> QED
      BY <2>3, <3>2
  <2> QED
    BY <2>2, <2>3
<1> QED
  BY <1>10, <1>14, <1>16

\* A view of circuit c.
IsView(z, c) ==
  /\ z.node \in [Nodes -> CircsOf(c)]
  /\ z.near \in [Links -> [Conns -> NearStates]] /\ z.far \in [Links -> [Conns -> FarStates]]
  /\ z.fwd \in [Links -> [Conns -> Seq(CellsOf(c))]]
  /\ z.bwd \in [Links -> [Conns -> Seq(CellsOf(c))]]
  /\ z.over \subseteq Nodes

\* What a circuit sees of a queue is a queue of its own cells.
LEMMA KeepOwn ==
  ASSUME NEW q \in Seq(AllCells), NEW c \in Circuits
  PROVE  Keep(q, CellsOf(c)) \in Seq(CellsOf(c))
<1>1. PICK L : L = Keep(q, CellsOf(c))
  OBVIOUS
<1>2. L \in Seq(AllCells) /\ \A k \in DOMAIN L : L[k] \in CellsOf(c)
  BY <1>1, KeepProperties
<1>3. Len(L) \in Nat /\ L \in [1..Len(L) -> AllCells] /\ DOMAIN L = 1..Len(L)
  BY <1>2, LenProperties
<1>4. L \in [1..Len(L) -> CellsOf(c)]
  BY <1>2, <1>3
<1> QED
  BY <1>1, <1>3, <1>4, SeqDef

\* The parts of a view, read off the world.
LEMMA ViewAt ==
  ASSUME NEW w, NEW c, NEW n, NEW z, z = View(w, c, n)
  PROVE  /\ \A i \in Nodes : z.node[i] = w.circ[i][c]
         /\ \A l \in Links, k \in Conns :
              /\ z.near[l][k] = w.conn[l][k].near /\ z.far[l][k] = w.conn[l][k].far
              /\ z.fwd[l][k] = Keep(w.conn[l][k].fwd, CellsOf(c))
              /\ z.bwd[l][k] = Keep(w.conn[l][k].bwd, CellsOf(c))
         /\ \A i \in Nodes : i \in z.over <=> <<i, c>> \in w.over
         /\ z.over \subseteq Nodes
         /\ z.len = n
BY DEF View

\* What a circuit sees of a world is a view.
LEMMA ViewType ==
  ASSUME NEW w, IsWorld(w), NEW c \in Circuits, NEW n
  PROVE  IsView(View(w, c, n), c)
<1>1. \A i \in Nodes : w.circ[i][c] \in CircsOf(c)
  BY Zenon DEF IsWorld, IsRow
<1>2. ASSUME NEW l \in Links, NEW k \in Conns
      PROVE  /\ w.conn[l][k].near \in NearStates /\ w.conn[l][k].far \in FarStates
             /\ Keep(w.conn[l][k].fwd, CellsOf(c)) \in Seq(CellsOf(c))
             /\ Keep(w.conn[l][k].bwd, CellsOf(c)) \in Seq(CellsOf(c))
  <2>1. w.conn[l][k] \in ConnRecs
    BY DEF IsWorld
  <2>2. /\ w.conn[l][k].near \in NearStates /\ w.conn[l][k].far \in FarStates
        /\ w.conn[l][k].fwd \in Seq(AllCells) /\ w.conn[l][k].bwd \in Seq(AllCells)
    BY <2>1 DEF ConnRecs
  <2> QED
    BY <2>2, KeepOwn
<1> QED
  BY <1>1, <1>2 DEF View, IsView

\* A change of the circuits of one node, in the view of circuit c.
LEMMA NodeUpdate ==
  ASSUME NEW w, IsWorld(w), NEW i \in Nodes, NEW f, IsRow(f),
         NEW v, v = [circ |-> [w.circ EXCEPT ![i] = f], conn |-> w.conn, over |-> w.over],
         NEW c \in Circuits, NEW n
  PROVE  /\ IsWorld(v)
         /\ ZNode(View(w, c, n), View(v, c, n), i, f[c])
         /\ f[c] = w.circ[i][c] => View(v, c, n) = View(w, c, n)
<1>1. /\ v.circ = [w.circ EXCEPT ![i] = f] /\ v.conn = w.conn /\ v.over = w.over
      /\ v = [circ |-> v.circ, conn |-> v.conn, over |-> v.over]
  OBVIOUS
<1>2. /\ w.circ = [j \in Nodes |-> w.circ[j]] /\ \A j \in Nodes : IsRow(w.circ[j])
      /\ w.conn \in [Links -> [Conns -> ConnRecs]]
      /\ w.over \subseteq Nodes \X Circuits
  BY DEF IsWorld
<1>3. v.circ[i] = f /\ (\A j \in Nodes : j # i => v.circ[j] = w.circ[j])
      /\ v.circ = [j \in Nodes |-> v.circ[j]]
  BY <1>1, <1>2
<1>4. IsWorld(v)
  BY <1>1, <1>2, <1>3 DEF IsWorld
<1>5. ZNode(View(w, c, n), View(v, c, n), i, f[c])
  BY <1>1, <1>3 DEF ZNode, View
<1>6. ASSUME f[c] = w.circ[i][c] PROVE View(v, c, n) = View(w, c, n)
  <2>1. \A j \in Nodes : v.circ[j][c] = w.circ[j][c]
    BY <1>3, <1>6
  <2>2. [j \in Nodes |-> v.circ[j][c]] = [j \in Nodes |-> w.circ[j][c]]
    BY <2>1
  <2> QED
    BY <1>1, <2>2, Zenon DEF View
<1> QED
  BY <1>4, <1>5, <1>6

\* A change of one connection, in the view of circuit c.
LEMMA ConnUpdate ==
  ASSUME NEW w, IsWorld(w), NEW l \in Links, NEW k \in Conns, NEW r \in ConnRecs,
         NEW v, v = [circ |-> w.circ, conn |-> [w.conn EXCEPT ![l][k] = r], over |-> w.over],
         NEW c \in Circuits, NEW n
  PROVE  /\ IsWorld(v)
         /\ ZConn(View(w, c, n), View(v, c, n), l, k, r.near, r.far,
                  Keep(r.fwd, CellsOf(c)), Keep(r.bwd, CellsOf(c)))
         /\ r.near = w.conn[l][k].near /\ r.far = w.conn[l][k].far
            /\ Keep(r.fwd, CellsOf(c)) = Keep(w.conn[l][k].fwd, CellsOf(c))
            /\ Keep(r.bwd, CellsOf(c)) = Keep(w.conn[l][k].bwd, CellsOf(c))
            => View(v, c, n) = View(w, c, n)
<1>1. /\ v.conn = [w.conn EXCEPT ![l][k] = r] /\ v.circ = w.circ /\ v.over = w.over
      /\ v = [circ |-> v.circ, conn |-> v.conn, over |-> v.over]
  OBVIOUS
<1>2. /\ w.circ = [j \in Nodes |-> w.circ[j]] /\ \A j \in Nodes : IsRow(w.circ[j])
      /\ w.conn \in [Links -> [Conns -> ConnRecs]]
      /\ w.over \subseteq Nodes \X Circuits
  BY DEF IsWorld
<1>3. /\ v.conn[l][k] = r
      /\ \A m \in Links, h \in Conns : m # l \/ h # k => v.conn[m][h] = w.conn[m][h]
      /\ v.conn \in [Links -> [Conns -> ConnRecs]]
  BY <1>1, <1>2
<1>4. IsWorld(v)
  BY <1>1, <1>2, <1>3 DEF IsWorld
<1>a. PICK z : z = View(w, c, n)
  OBVIOUS
<1>b. PICK y : y = View(v, c, n)
  OBVIOUS
<1>5. ZConn(z, y, l, k, r.near, r.far,
            Keep(r.fwd, CellsOf(c)), Keep(r.bwd, CellsOf(c)))
  <2>1. y.node = z.node /\ y.over = z.over /\ y.len = z.len
    BY <1>1, <1>a, <1>b DEF View
  <2>2. \A m \in Links, h \in Conns :
              /\ z.near[m][h] = w.conn[m][h].near /\ z.far[m][h] = w.conn[m][h].far
              /\ z.fwd[m][h] = Keep(w.conn[m][h].fwd, CellsOf(c))
              /\ z.bwd[m][h] = Keep(w.conn[m][h].bwd, CellsOf(c))
    BY <1>a, ViewAt
  <2>3. \A m \in Links, h \in Conns :
              /\ y.near[m][h] = v.conn[m][h].near /\ y.far[m][h] = v.conn[m][h].far
              /\ y.fwd[m][h] = Keep(v.conn[m][h].fwd, CellsOf(c))
              /\ y.bwd[m][h] = Keep(v.conn[m][h].bwd, CellsOf(c))
    BY ONLY <1>b, ViewAt
  <2>4. l \in Links /\ k \in Conns
    OBVIOUS
  <2>5. /\ y.near[l][k] = r.near /\ y.far[l][k] = r.far
        /\ y.fwd[l][k] = Keep(r.fwd, CellsOf(c)) /\ y.bwd[l][k] = Keep(r.bwd, CellsOf(c))
    BY ONLY <1>3, <2>3, <2>4
  <2>6. ASSUME NEW m \in Links, NEW h \in Conns, m # l \/ h # k
        PROVE  /\ y.near[m][h] = z.near[m][h] /\ y.far[m][h] = z.far[m][h]
               /\ y.fwd[m][h] = z.fwd[m][h] /\ y.bwd[m][h] = z.bwd[m][h]
    <3>1. v.conn[m][h] = w.conn[m][h]
      BY ONLY <1>3, <2>6, m \in Links, h \in Conns
    <3> QED
      BY ONLY <2>2, <2>3, <3>1, m \in Links, h \in Conns
  <2> QED
    BY ONLY <2>1, <2>5, <2>6 DEF ZConn
<1>6. ASSUME r.near = w.conn[l][k].near, r.far = w.conn[l][k].far,
             Keep(r.fwd, CellsOf(c)) = Keep(w.conn[l][k].fwd, CellsOf(c)),
             Keep(r.bwd, CellsOf(c)) = Keep(w.conn[l][k].bwd, CellsOf(c))
      PROVE View(v, c, n) = View(w, c, n)
  <2>1. \A m \in Links, h \in Conns :
          /\ v.conn[m][h].near = w.conn[m][h].near /\ v.conn[m][h].far = w.conn[m][h].far
          /\ Keep(v.conn[m][h].fwd, CellsOf(c)) = Keep(w.conn[m][h].fwd, CellsOf(c))
          /\ Keep(v.conn[m][h].bwd, CellsOf(c)) = Keep(w.conn[m][h].bwd, CellsOf(c))
    BY <1>3, <1>6
  <2>2. /\ [m \in Links |-> [h \in Conns |-> v.conn[m][h].near]]
             = [m \in Links |-> [h \in Conns |-> w.conn[m][h].near]]
        /\ [m \in Links |-> [h \in Conns |-> v.conn[m][h].far]]
             = [m \in Links |-> [h \in Conns |-> w.conn[m][h].far]]
        /\ [m \in Links |-> [h \in Conns |-> Keep(v.conn[m][h].fwd, CellsOf(c))]]
             = [m \in Links |-> [h \in Conns |-> Keep(w.conn[m][h].fwd, CellsOf(c))]]
        /\ [m \in Links |-> [h \in Conns |-> Keep(v.conn[m][h].bwd, CellsOf(c))]]
             = [m \in Links |-> [h \in Conns |-> Keep(w.conn[m][h].bwd, CellsOf(c))]]
    BY <2>1
  <2> QED
    BY <1>1, <2>2, Zenon DEF View
<1> QED
  BY <1>4, <1>5, <1>6, <1>a, <1>b

\* The fields of a circuit.
LEMMA RecordFields ==
  ASSUME NEW c \in Circuits, NEW x \in CircsOf(c)
  PROVE  /\ x.state \in CircStates /\ x.n \in Ks /\ x.p \in Ks /\ x.marked \in BOOLEAN
         /\ x.hops \in Nodes /\ x.outq \in Seq(CellsOf(c)) /\ x.inq \in Seq(CellsOf(c))
         /\ x = [state |-> x.state, n |-> x.n, p |-> x.p, marked |-> x.marked, hops |-> x.hops,
                 outq |-> x.outq, inq |-> x.inq]
BY DEF CircsOf

\* A queue that DESTROY cells were added to, as circuit c sees it.
LEMMA KeepWithDeaths ==
  ASSUME NEW q \in Seq(AllCells), NEW cs \in SUBSET Circuits, NEW c \in Circuits
  PROVE  /\ q \o Destroys(cs) \in Seq(AllCells)
         /\ Keep(q \o Destroys(cs), CellsOf(c)) =
              IF c \in cs THEN Append(Keep(q, CellsOf(c)), Cell("DESTROY", c, 0))
              ELSE Keep(q, CellsOf(c))
<1>1. PICK D : D = Destroys(cs)
  OBVIOUS
<1>2. /\ D \in Seq(AllCells)
      /\ Keep(D, CellsOf(c)) = IF c \in cs THEN <<Cell("DESTROY", c, 0)>> ELSE <<>>
  BY <1>1, Deaths
<1>3. Keep(q \o D, CellsOf(c)) = Keep(q, CellsOf(c)) \o Keep(D, CellsOf(c))
  <2>1. \A S : Keep(q \o D, S) = Keep(q, S) \o Keep(D, S)
    BY ONLY <1>2, q \in Seq(AllCells), KeepConcat
  <2> QED
    BY ONLY <2>1
<1>4. q \o D \in Seq(AllCells)
  BY ONLY <1>2, q \in Seq(AllCells), ConcatProperties
<1>5. PICK K : K = Keep(q, CellsOf(c))
  OBVIOUS
<1>6. K \in Seq(CellsOf(c))
  BY <1>5, KeepOwn
<1>7. PICK b : b = Cell("DESTROY", c, 0)
  OBVIOUS
<1>8. b \in CellsOf(c)
  BY <1>7, ConstFacts DEF Cell, CellsOf, Commands
<1>9. Append(K, b) = K \o <<b>>
  BY ONLY <1>6, <1>8, AppendIsConcat
<1>10. K \o <<>> = K
  BY ONLY <1>6, ConcatEmptySeq
<1> QED
  BY <1>1, <1>2, <1>3, <1>4, <1>5, <1>7, <1>9, <1>10, Zenon

\* circuit_mark_for_close for the circuits cs: a circuit of cs sees itself marked, another
\* nothing.
LEMMA MarkView ==
  ASSUME NEW w, IsWorld(w), NEW i \in Nodes, NEW cs \in SUBSET Circuits,
         NEW c \in Circuits, NEW n
  PROVE  /\ IsWorld(MarkForClose(w, i, cs))
         /\ c \in cs => ZMark(View(w, c, n), View(MarkForClose(w, i, cs), c, n), i, c)
         /\ c \notin cs => View(MarkForClose(w, i, cs), c, n) = View(w, c, n)
<1>1. PICK v : v = MarkForClose(w, i, cs)
  OBVIOUS
<1> DEFINE gone == {d \in cs : ~ w.circ[i][d].marked}
           A(k) == {d \in gone : w.circ[i][d].n = k}
           B(k) == {d \in gone : w.circ[i][d].p = k}
           F(l, k) == IF l = i + 1 THEN Destroys(A(k)) ELSE <<>>
           G(l, k) == IF l = i THEN Destroys(B(k)) ELSE <<>>
           row == [d \in Circuits |->
                  IF d \in cs THEN [w.circ[i][d] EXCEPT !.marked = TRUE] ELSE w.circ[i][d]]
<1>3. /\ v = [circ |-> v.circ, conn |-> v.conn, over |-> v.over]
      /\ v.circ = [w.circ EXCEPT ![i] = row]
      /\ v.conn = [l \in Links |-> [k \in Conns |->
                     [w.conn[l][k] EXCEPT !.fwd = w.conn[l][k].fwd \o F(l, k),
                                          !.bwd = w.conn[l][k].bwd \o G(l, k)]]]
      /\ v.over = w.over \cup {<<i, d>> : d \in {e \in gone : /\ w.circ[i][e].n # 0
                                                         /\ HasCreate(w.circ[i][e].outq)}}
  <2>1. v = [circ |-> [w.circ EXCEPT ![i] = row],
             conn |-> [l \in Links |-> [k \in Conns |->
                     [w.conn[l][k] EXCEPT !.fwd = w.conn[l][k].fwd \o F(l, k),
                                          !.bwd = w.conn[l][k].bwd \o G(l, k)]]],
             over |-> w.over \cup {<<i, d>> : d \in {e \in gone : /\ w.circ[i][e].n # 0
                                                         /\ HasCreate(w.circ[i][e].outq)}}]
    BY <1>1, Zenon DEF MarkForClose
  <2> HIDE DEF F, G, row, gone
  <2> QED
    BY <2>1, Zenon
<1>w. \A l \in Links, k \in Conns : v.conn[l][k] =
        [w.conn[l][k] EXCEPT !.fwd = w.conn[l][k].fwd \o F(l, k),
                             !.bwd = w.conn[l][k].bwd \o G(l, k)]
  BY <1>1, Zenon DEF MarkForClose
<1>2. gone = {d \in cs : ~ w.circ[i][d].marked}
  OBVIOUS
<1> HIDE DEF gone
<1>4. /\ w.circ = [j \in Nodes |-> w.circ[j]] /\ \A j \in Nodes : IsRow(w.circ[j])
      /\ w.conn \in [Links -> [Conns -> ConnRecs]]
      /\ w.over \subseteq Nodes \X Circuits
  BY DEF IsWorld
<1>5. ASSUME NEW d \in Circuits
      PROVE  /\ row[d] \in CircsOf(d)
             /\ row[d] = IF d \in gone THEN [w.circ[i][d] EXCEPT !.marked = TRUE] ELSE w.circ[i][d]
  <2>1. PICK x : x = w.circ[i][d]
    OBVIOUS
  <2>2. x \in CircsOf(d)
    BY <1>4, <2>1, Zenon DEF IsRow
  <2>3. row[d] = IF d \in cs THEN [x EXCEPT !.marked = TRUE] ELSE x
    BY <2>1
  <2> HIDE DEF row
  <2>4. [x EXCEPT !.marked = TRUE] \in CircsOf(d)
    BY <2>2, Zenon DEF CircsOf
  <2>5. x.marked => x.marked = TRUE /\ [x EXCEPT !.marked = x.marked] = x
    BY <2>2 DEF CircsOf
  <2>6. x.marked => [x EXCEPT !.marked = TRUE] = x
    BY ONLY <2>5
  <2>7. d \in gone <=> d \in cs /\ ~ x.marked
    BY <1>2, <2>1
  <2> QED
    BY ONLY <2>1, <2>2, <2>3, <2>4, <2>6, <2>7
<1>6. IsRow(row)
  BY <1>5 DEF IsRow
<1> HIDE DEF row
<1>7. v.circ[i] = row /\ (\A j \in Nodes : j # i => v.circ[j] = w.circ[j])
      /\ v.circ = [j \in Nodes |-> v.circ[j]]
  BY <1>3, <1>4, Zenon
<1>8. gone \subseteq Circuits /\ (\A k : A(k) \in SUBSET Circuits /\ B(k) \in SUBSET Circuits)
  BY <1>2
<1>9. ASSUME NEW l \in Links, NEW k \in Conns
      PROVE  /\ v.conn[l][k] \in ConnRecs
             /\ v.conn[l][k].near = w.conn[l][k].near /\ v.conn[l][k].far = w.conn[l][k].far
             /\ Keep(v.conn[l][k].fwd, CellsOf(c)) =
                  IF l = i + 1 /\ c \in A(k)
                  THEN Append(Keep(w.conn[l][k].fwd, CellsOf(c)), Cell("DESTROY", c, 0))
                  ELSE Keep(w.conn[l][k].fwd, CellsOf(c))
             /\ Keep(v.conn[l][k].bwd, CellsOf(c)) =
                  IF l = i /\ c \in B(k)
                  THEN Append(Keep(w.conn[l][k].bwd, CellsOf(c)), Cell("DESTROY", c, 0))
                  ELSE Keep(w.conn[l][k].bwd, CellsOf(c))
  <2>1. PICK x : x = w.conn[l][k]
    OBVIOUS
  <2>2. x \in ConnRecs
    BY <1>4, <2>1
  <2>3. /\ x.near \in NearStates /\ x.far \in FarStates
        /\ x.fwd \in Seq(AllCells) /\ x.bwd \in Seq(AllCells)
    BY <2>2 DEF ConnRecs
  <2>4. PICK f : f = F(l, k)
    BY Zenon
  <2>5. PICK g : g = G(l, k)
    BY Zenon
  <2>6. v.conn[l][k] = [x EXCEPT !.fwd = x.fwd \o f, !.bwd = x.bwd \o g]
    <3> HIDE DEF F, G
    <3>1. v.conn[l][k] = [w.conn[l][k] EXCEPT !.fwd = w.conn[l][k].fwd \o F(l, k),
                                              !.bwd = w.conn[l][k].bwd \o G(l, k)]
      BY ONLY <1>w, l \in Links, k \in Conns, Zenon
    <3> QED
      BY ONLY <2>1, <2>4, <2>5, <3>1
  <2>7. /\ x.fwd \o f \in Seq(AllCells)
        /\ Keep(x.fwd \o f, CellsOf(c)) =
             IF l = i + 1 /\ c \in A(k) THEN Append(Keep(x.fwd, CellsOf(c)), Cell("DESTROY", c, 0))
             ELSE Keep(x.fwd, CellsOf(c))
    <3> HIDE DEF A
    <3>1. CASE l = i + 1
      <4>1. f = Destroys(A(k))
        BY <2>4, <3>1
      <4> QED
        <5>1. PICK S : S = A(k)
          OBVIOUS
        <5>2. S \in SUBSET Circuits /\ f = Destroys(S)
          BY ONLY <1>8, <4>1, <5>1
        <5>3. PICK q : q = x.fwd
          OBVIOUS
        <5>4. q \in Seq(AllCells)
          BY ONLY <2>3, <5>3
        <5>5. /\ q \o Destroys(S) \in Seq(AllCells)
              /\ Keep(q \o Destroys(S), CellsOf(c)) =
                   IF c \in S THEN Append(Keep(q, CellsOf(c)), Cell("DESTROY", c, 0))
                   ELSE Keep(q, CellsOf(c))
          BY ONLY <5>2, <5>4, KeepWithDeaths, c \in Circuits
        <5> QED
          BY ONLY <3>1, <5>1, <5>2, <5>3, <5>5
    <3>2. CASE l # i + 1
      <4>1. f = <<>>
        BY <2>4, <3>2
      <4>2. x.fwd \o f = x.fwd
        BY <2>3, <4>1, ConcatEmptySeq
      <4> QED
        BY <2>3, <3>2, <4>2
    <3> QED
      BY <3>1, <3>2
  <2>8. /\ x.bwd \o g \in Seq(AllCells)
        /\ Keep(x.bwd \o g, CellsOf(c)) =
             IF l = i /\ c \in B(k) THEN Append(Keep(x.bwd, CellsOf(c)), Cell("DESTROY", c, 0))
             ELSE Keep(x.bwd, CellsOf(c))
    <3> HIDE DEF B
    <3>1. CASE l = i
      <4>1. g = Destroys(B(k))
        BY <2>5, <3>1
      <4> QED
        <5>1. PICK S : S = B(k)
          OBVIOUS
        <5>2. S \in SUBSET Circuits /\ g = Destroys(S)
          BY ONLY <1>8, <4>1, <5>1
        <5>3. PICK q : q = x.bwd
          OBVIOUS
        <5>4. q \in Seq(AllCells)
          BY ONLY <2>3, <5>3
        <5>5. /\ q \o Destroys(S) \in Seq(AllCells)
              /\ Keep(q \o Destroys(S), CellsOf(c)) =
                   IF c \in S THEN Append(Keep(q, CellsOf(c)), Cell("DESTROY", c, 0))
                   ELSE Keep(q, CellsOf(c))
          BY ONLY <5>2, <5>4, KeepWithDeaths, c \in Circuits
        <5> QED
          BY ONLY <3>1, <5>1, <5>2, <5>3, <5>5
    <3>2. CASE l # i
      <4>1. g = <<>>
        BY <2>5, <3>2
      <4>2. x.bwd \o g = x.bwd
        BY <2>3, <4>1, ConcatEmptySeq
      <4> QED
        BY <2>3, <3>2, <4>2
    <3> QED
      BY <3>1, <3>2
  <2>9. PICK r : r = v.conn[l][k]
    OBVIOUS
  <2>10. /\ r \in ConnRecs /\ r.near = x.near /\ r.far = x.far
         /\ r.fwd = x.fwd \o f /\ r.bwd = x.bwd \o g
    BY ONLY <2>2, <2>6, <2>7, <2>8, <2>9, Zenon DEF ConnRecs
  <2> QED
    BY ONLY <2>1, <2>7, <2>8, <2>9, <2>10, Zenon
<1>10. v.conn \in [Links -> [Conns -> ConnRecs]]
  <2> HIDE DEF F, G
  <2>1. v.conn = [l \in Links |-> [k \in Conns |-> v.conn[l][k]]]
    BY <1>3, Zenon
  <2> QED
    BY ONLY <1>9, <2>1
<1>11. v.over \subseteq Nodes \X Circuits
  <2>1. {e \in gone : w.circ[i][e].n # 0 /\ HasCreate(w.circ[i][e].outq)} \subseteq Circuits
    BY <1>8
  <2>2. \A E \in SUBSET Circuits : {<<i, d>> : d \in E} \subseteq Nodes \X Circuits
    OBVIOUS
  <2> QED
    BY ONLY <1>3, <1>4, <2>1, <2>2, Zenon
<1>12. IsWorld(v)
  <2>1. \A j \in Nodes : IsRow(v.circ[j])
    BY <1>4, <1>6, <1>7
  <2> QED
    BY ONLY <1>3, <1>7, <1>10, <1>11, <2>1, Zenon DEF IsWorld
<1>13. PICK z : z = View(w, c, n)
  OBVIOUS
<1>14. PICK y : y = View(v, c, n)
  OBVIOUS
<1>15. /\ \A j \in Nodes : z.node[j] = w.circ[j][c]
       /\ \A l \in Links, k \in Conns :
            /\ z.near[l][k] = w.conn[l][k].near /\ z.far[l][k] = w.conn[l][k].far
            /\ z.fwd[l][k] = Keep(w.conn[l][k].fwd, CellsOf(c))
            /\ z.bwd[l][k] = Keep(w.conn[l][k].bwd, CellsOf(c))
       /\ \A j \in Nodes : j \in z.over <=> <<j, c>> \in w.over
       /\ z.over \subseteq Nodes /\ z.len = n
  BY ONLY <1>13, ViewAt
<1>16. /\ \A j \in Nodes : y.node[j] = v.circ[j][c]
       /\ \A l \in Links, k \in Conns :
            /\ y.near[l][k] = v.conn[l][k].near /\ y.far[l][k] = v.conn[l][k].far
            /\ y.fwd[l][k] = Keep(v.conn[l][k].fwd, CellsOf(c))
            /\ y.bwd[l][k] = Keep(v.conn[l][k].bwd, CellsOf(c))
       /\ \A j \in Nodes : j \in y.over <=> <<j, c>> \in v.over
       /\ y.over \subseteq Nodes /\ y.len = n
  BY ONLY <1>14, ViewAt
<1>17. y.near = z.near /\ y.far = z.far
  BY ONLY <1>9, <1>13, <1>14 DEF View
<1>18. ASSUME c \in gone PROVE ZMark(z, y, i, c)
  <2>1. ~ z.node[i].marked /\ z.node[i] = w.circ[i][c]
    BY <1>2, <1>15, <1>18
  <2>2. y.node[i] = [z.node[i] EXCEPT !.marked = TRUE]
    BY ONLY <1>5, <1>7, <1>16, <1>18, <2>1, i \in Nodes, c \in Circuits, Zenon
  <2>3. \A j \in Nodes : j # i => y.node[j] = z.node[j]
    BY ONLY <1>7, <1>15, <1>16
  <2>4. \A l \in Links, k \in Conns :
          /\ y.fwd[l][k] = IF l = i + 1 /\ z.node[i].n = k
                           THEN Append(z.fwd[l][k], Cell("DESTROY", c, 0)) ELSE z.fwd[l][k]
          /\ y.bwd[l][k] = IF l = i /\ z.node[i].p = k
                           THEN Append(z.bwd[l][k], Cell("DESTROY", c, 0)) ELSE z.bwd[l][k]
    <3> SUFFICES ASSUME NEW l \in Links, NEW k \in Conns
                 PROVE /\ y.fwd[l][k] = IF l = i + 1 /\ z.node[i].n = k
                                        THEN Append(z.fwd[l][k], Cell("DESTROY", c, 0)) ELSE z.fwd[l][k]
                       /\ y.bwd[l][k] = IF l = i /\ z.node[i].p = k
                                        THEN Append(z.bwd[l][k], Cell("DESTROY", c, 0)) ELSE z.bwd[l][k]
      OBVIOUS
    <3>1. (c \in A(k) <=> z.node[i].n = k) /\ (c \in B(k) <=> z.node[i].p = k)
      BY <1>18, <2>1
    <3> HIDE DEF A, B
    <3> QED
      BY ONLY <1>9, <1>15, <1>16, <3>1, l \in Links, k \in Conns
  <2>5. y.over = IF z.node[i].n # 0 /\ HasCreate(z.node[i].outq) THEN z.over \cup {i} ELSE z.over
    <3>1. \A j \in Nodes : <<j, c>> \in v.over <=>
            <<j, c>> \in w.over \/ (j = i /\ w.circ[i][c].n # 0 /\ HasCreate(w.circ[i][c].outq))
      BY ONLY <1>3, <1>18, Zenon
    <3> QED
      BY ONLY <1>15, <1>16, <2>1, <3>1, i \in Nodes, Zenon
  <2>6. y.len = z.len
    BY <1>15, <1>16
  <2> QED
    BY ONLY <1>17, <2>1, <2>2, <2>3, <2>4, <2>5, <2>6 DEF ZMark
<1>19. ASSUME c \notin gone PROVE y = z
  <2>1. \A j \in Nodes : v.circ[j][c] = w.circ[j][c]
    BY ONLY <1>5, <1>7, <1>19, c \in Circuits, Zenon
  <2>2. \A k : c \notin A(k) /\ c \notin B(k)
    BY <1>19
  <2> HIDE DEF A, B
  <2>3. \A l \in Links, k \in Conns :
          /\ Keep(v.conn[l][k].fwd, CellsOf(c)) = Keep(w.conn[l][k].fwd, CellsOf(c))
          /\ Keep(v.conn[l][k].bwd, CellsOf(c)) = Keep(w.conn[l][k].bwd, CellsOf(c))
    BY ONLY <1>9, <2>2
  <2>4. \A j \in Nodes : <<j, c>> \in v.over <=> <<j, c>> \in w.over
    BY ONLY <1>3, <1>19, Zenon
  <2>5. y.node = z.node
    BY ONLY <1>13, <1>14, <2>1 DEF View
  <2>6. y.fwd = z.fwd /\ y.bwd = z.bwd
    BY ONLY <1>13, <1>14, <2>3 DEF View
  <2>7. y.over = z.over
    BY ONLY <1>13, <1>14, <2>4 DEF View
  <2>8. y.len = z.len
    BY ONLY <1>15, <1>16
  <2>9. /\ y = [node |-> y.node, near |-> y.near, far |-> y.far, fwd |-> y.fwd, bwd |-> y.bwd,
                over |-> y.over, len |-> y.len]
        /\ z = [node |-> z.node, near |-> z.near, far |-> z.far, fwd |-> z.fwd, bwd |-> z.bwd,
                over |-> z.over, len |-> z.len]
    BY ONLY <1>13, <1>14 DEF View
  <2> QED
    BY ONLY <1>17, <2>5, <2>6, <2>7, <2>8, <2>9
<1>20. ASSUME c \in cs PROVE ZMark(z, y, i, c)
  <2>1. CASE c \in gone
    BY <1>18, <2>1
  <2>2. CASE c \notin gone
    <3>1. z.node[i].marked
      BY <1>2, <1>15, <1>20, <2>2
    <3> QED
      BY ONLY <1>19, <2>2, <3>1 DEF ZMark
  <2> QED
    BY <2>1, <2>2
<1>21. c \notin cs => c \notin gone
  BY <1>2
<1> QED
  BY ONLY <1>1, <1>12, <1>13, <1>14, <1>19, <1>20, <1>21

\* The commands a circuit sends towards the exit and towards the origin.
Creates == {"CREATE", "CREATE_FAST"}
OutCmds == {"CREATE", "CREATE_FAST", "EXTEND"}
InCmds == {"CREATED", "EXTENDED", "TRUNCATED"}

\* What matters of a queue: which commands are on it, whom its EXTENDs are for, that
\* it holds one handshake cell at most, that a DESTROY follows a CREATE.
Holds(q, S) == \E j \in DOMAIN q : q[j].cmd \in S
Aims(q, t) == \E j \in DOMAIN q : q[j].cmd = "EXTEND" /\ q[j].to = t
Only(q, S) == \A j \in DOMAIN q : q[j].cmd \in S
One(q) == \A i, j \in DOMAIN q : q[i].cmd \in Shaking /\ q[j].cmd \in Shaking => i = j
Ord(q) == \E i, j \in DOMAIN q : i < j /\ q[i].cmd \in Creates /\ q[j].cmd = "DESTROY"

\* An empty queue holds nothing.
LEMMA EmptyQueue ==
  /\ \A S : ~ Holds(<<>>, S) /\ Only(<<>>, S)
  /\ \A t : ~ Aims(<<>>, t)
  /\ One(<<>>) /\ ~ Ord(<<>>)
BY DEF Holds, Aims, Only, One, Ord

\* What a queue holds after a cell was added at its end.
LEMMA AddCell ==
  ASSUME NEW T, NEW q \in Seq(T), NEW x \in T, NEW r, r = Append(q, x)
  PROVE  /\ r \in Seq(T) /\ r # <<>>
         /\ \A S : Holds(r, S) <=> Holds(q, S) \/ x.cmd \in S
         /\ \A t : Aims(r, t) <=> Aims(q, t) \/ (x.cmd = "EXTEND" /\ x.to = t)
         /\ \A S : Only(r, S) <=> Only(q, S) /\ x.cmd \in S
         /\ One(q) /\ (x.cmd \notin Shaking \/ ~ Holds(q, Shaking)) => One(r)
         /\ Ord(q) => Ord(r)
         /\ x.cmd = "DESTROY" /\ Holds(q, Creates) => Ord(r)
<1>1. PICK n : n = Len(q)
  OBVIOUS
<1>2. n \in Nat /\ DOMAIN q = 1..n
  BY <1>1, LenProperties
<1>3. /\ r \in Seq(T) /\ r # <<>> /\ Len(r) = n + 1
      /\ \A i \in 1..n : r[i] = q[i]
      /\ r[n + 1] = x
  BY <1>1, AppendProperties
<1>4. DOMAIN r = 1..(n + 1)
  BY <1>3, LenProperties
<1>5. \A j \in DOMAIN r : j \in 1..n \/ j = n + 1
  BY <1>2, <1>4
<1>6. \A j \in DOMAIN q : j \in DOMAIN r /\ r[j] = q[j] /\ j < n + 1
  BY <1>2, <1>3, <1>4
<1>7. n + 1 \in DOMAIN r
  BY <1>2, <1>4
<1>8. \A S : Holds(r, S) <=> Holds(q, S) \/ x.cmd \in S
  BY ONLY <1>2, <1>3, <1>5, <1>6, <1>7 DEF Holds
<1>9. \A t : Aims(r, t) <=> Aims(q, t) \/ (x.cmd = "EXTEND" /\ x.to = t)
  BY ONLY <1>2, <1>3, <1>5, <1>6, <1>7 DEF Aims
<1>10. \A S : Only(r, S) <=> Only(q, S) /\ x.cmd \in S
  BY ONLY <1>2, <1>3, <1>5, <1>6, <1>7 DEF Only
<1>11. One(q) /\ (x.cmd \notin Shaking \/ ~ Holds(q, Shaking)) => One(r)
  BY ONLY <1>2, <1>3, <1>5, <1>6, <1>7 DEF One, Holds
<1>12. Ord(q) => Ord(r)
  BY ONLY <1>6 DEF Ord
<1>13. x.cmd = "DESTROY" /\ Holds(q, Creates) => Ord(r)
  BY ONLY <1>3, <1>6, <1>7 DEF Ord, Holds
<1> QED
  BY <1>3, <1>8, <1>9, <1>10, <1>11, <1>12, <1>13

\* Cell x was taken from queue q, and r is left.
Dropped(q, x, r) == q # <<>> /\ r = Tail(q) /\ x = Head(q)

\* What a queue holds after the cell at its front was taken.
LEMMA DropCell ==
  ASSUME NEW T, NEW q \in Seq(T), NEW r, NEW x, Dropped(q, x, r)
  PROVE  /\ r \in Seq(T) /\ x \in T
         /\ \A S : Holds(q, S) <=> Holds(r, S) \/ x.cmd \in S
         /\ \A t : Aims(q, t) <=> Aims(r, t) \/ (x.cmd = "EXTEND" /\ x.to = t)
         /\ \A S : Only(q, S) <=> Only(r, S) /\ x.cmd \in S
         /\ One(q) => One(r) /\ (x.cmd \in Shaking => ~ Holds(r, Shaking))
         /\ One(q) /\ Ord(q) /\ Holds(r, Creates) => Ord(r)
<1>1. PICK n : n = Len(q)
  OBVIOUS
<1>2. n \in Nat /\ DOMAIN q = 1..n
  BY <1>1, LenProperties
<1>3. /\ r \in Seq(T) /\ x \in T /\ Len(r) = n - 1 /\ q[1] = x
      /\ \A i \in 1..Len(r) : r[i] = q[i + 1]
  BY <1>1, HeadTailProperties DEF Dropped
<1>4. DOMAIN r = 1..Len(r) /\ Len(r) \in Nat
  BY <1>3, LenProperties
<1>5. \A j \in DOMAIN r : j + 1 \in DOMAIN q /\ r[j] = q[j + 1] /\ j + 1 # 1 /\ j \in Int
  BY <1>2, <1>3, <1>4
<1>6. 1 \in DOMAIN q
  BY <1>2, <1>3, <1>4
<1>7. \A j \in DOMAIN q : j = 1 \/ (j - 1 \in DOMAIN r /\ (j - 1) + 1 = j /\ r[j - 1] = q[j])
  BY <1>2, <1>3, <1>4
<1>8. \A S : Holds(q, S) <=> Holds(r, S) \/ x.cmd \in S
  BY ONLY <1>3, <1>5, <1>6, <1>7 DEF Holds
<1>9. \A t : Aims(q, t) <=> Aims(r, t) \/ (x.cmd = "EXTEND" /\ x.to = t)
  BY ONLY <1>3, <1>5, <1>6, <1>7 DEF Aims
<1>10. \A S : Only(q, S) <=> Only(r, S) /\ x.cmd \in S
  BY ONLY <1>3, <1>5, <1>6, <1>7, Zenon DEF Only
<1>11. ASSUME One(q) PROVE One(r) /\ (x.cmd \in Shaking => ~ Holds(r, Shaking))
  <2>1. ASSUME NEW i \in DOMAIN r, NEW j \in DOMAIN r,
               r[i].cmd \in Shaking, r[j].cmd \in Shaking
        PROVE  i = j
    <3>1. i + 1 = j + 1
      BY ONLY <1>5, <1>11, <2>1 DEF One
    <3> QED
      BY ONLY <1>5, <2>1, <3>1
  <2>2. ASSUME NEW j \in DOMAIN r, r[j].cmd \in Shaking, x.cmd \in Shaking
        PROVE  FALSE
    BY ONLY <1>3, <1>5, <1>6, <1>11, <2>2 DEF One
  <2> QED
    BY ONLY <2>1, <2>2 DEF One, Holds
<1>12. ASSUME One(q), Ord(q), Holds(r, Creates) PROVE Ord(r)
  <2>1. PICK i \in DOMAIN q, j \in DOMAIN q :
          i < j /\ q[i].cmd \in Creates /\ q[j].cmd = "DESTROY"
    BY <1>12 DEF Ord
  <2>2. PICK h \in DOMAIN r : r[h].cmd \in Creates
    BY <1>12 DEF Holds
  <2>3. q[h + 1].cmd \in Creates /\ h + 1 \in DOMAIN q /\ h + 1 # 1
    BY <1>5, <2>2
  <2>4. i = h + 1
    BY <1>12, <2>1, <2>3 DEF One, Creates, Shaking
  <2>5. i # 1 /\ j # 1
    BY ONLY <1>2, <2>1, <2>3, <2>4
  <2>6. i - 1 \in DOMAIN r /\ j - 1 \in DOMAIN r /\ r[i - 1] = q[i] /\ r[j - 1] = q[j]
    BY <1>7, <2>5
  <2>7. i - 1 < j - 1
    BY <1>2, <2>1
  <2> QED
    BY ONLY <2>1, <2>6, <2>7 DEF Ord
<1> QED
  BY <1>3, <1>8, <1>9, <1>10, <1>11, <1>12
----------------------------------------------------------------------------
(* The invariant, of the view z of one circuit.                            *)

\* A circuit that exists and is not marked for close.
Up(x) == x.state # "none" /\ ~ x.marked
Up0(z) == Up(z.node[0])
Hops(z) == z.node[0].hops

\* The shape of a circuit at node i: the cells on its queues, the connections it uses.
NodeShape(z, i) ==
  LET x == z.node[i]
  IN /\ Only(x.outq, OutCmds) /\ Only(x.inq, InCmds)
     /\ i = 0 => x.p = 0 /\ x.state # "ONIONSKIN_PENDING" /\ x.hops <= z.len
     /\ i # 0 => x.state # "BUILDING" /\ x.hops = 0
     /\ i = PathLen => x.n = 0
     /\ x.n # 0 => z.near[i + 1][x.n] \in {"open", "closing"}
     /\ x.p # 0 => z.far[i][x.p] = "open"
     /\ x.state = "none" => x = [NoCircuit EXCEPT !.marked = x.marked] /\ (x.marked => i = 0)
     /\ x.outq # <<>> => x.n # 0
     /\ x.inq # <<>> => x.p # 0

\* A circuit in use has the connections its state says it has.
NodeUp(z, i) ==
  LET x == z.node[i]
  IN Up(x) => /\ x.state \in {"OR_WAIT", "ONIONSKIN_PENDING"} => x.n = 0
              /\ i # 0 => x.p # 0
              /\ i = 0 /\ x.state # "OR_WAIT" => x.n # 0

\* The shape of connection k of link l.
LinkShape(z, l, k) ==
  /\ Only(z.fwd[l][k], OutCmds \cup {"DESTROY"}) /\ Only(z.bwd[l][k], InCmds \cup {"DESTROY"})
  /\ z.near[l][k] \in {"none", "connecting", "dying"} => z.far[l][k] = "none"
  /\ z.near[l][k] \in {"open", "closing"} => z.far[l][k] \in {"open", "closed"}

\* A circuit in CIRCUIT_STATE_OR_WAIT waits for a connection.
Waiter(z, i) ==
  i # PathLen /\ Up(z.node[i]) /\ z.node[i].state = "OR_WAIT" =>
    \E k \in Conns : z.near[i + 1][k] \in {"connecting", "dying"}

\* Where the handshake can be: on queue "out" or "in" of node a, on connection b of
\* link a, at relay a.  An origin that does not build is a place of its own: it has
\* no handshake anywhere.
Kinds == {"out", "in", "fwd", "bwd", "relay", "origin"}
At(z, g, a, b) ==
  \/ g = "out" /\ b = 0 /\ Holds(z.node[a].outq, Shaking)
  \/ g = "in" /\ b = 0 /\ Holds(z.node[a].inq, Shaking)
  \/ g = "fwd" /\ a # 0 /\ b # 0 /\ Holds(z.fwd[a][b], Shaking)
  \/ g = "bwd" /\ a # 0 /\ b # 0 /\ Holds(z.bwd[a][b], Shaking)
  \/ /\ g = "relay" /\ a # 0 /\ b = 0 /\ Up(z.node[a])
     /\ z.node[a].state \in {"OR_WAIT", "ONIONSKIN_PENDING"}
  \/ /\ g = "origin" /\ a = 0 /\ b = 0
     /\ \/ z.node[0] = NoCircuit
        \/ Up(z.node[0]) /\ z.node[0].state \in {"OR_WAIT", "OPEN"}

\* No queue holds two cells of the handshake, and
Ones(z) ==
  /\ \A i \in Nodes : One(z.node[i].outq) /\ One(z.node[i].inq)
  /\ \A l \in Links, k \in Conns : One(z.fwd[l][k]) /\ One(z.bwd[l][k])

\* the handshake is at one place only.
Alone(z) ==
  \A g, h \in Kinds : \A a, d \in Nodes : \A b, e \in Ks :
    At(z, g, a, b) /\ At(z, h, d, e) => g = h /\ a = d /\ b = e

\* Nothing of the circuit at node j, nor on its way there.
Clean(z, j) ==
  /\ z.node[j] = NoCircuit /\ z.node[j - 1].n = 0
  /\ \A k \in Conns : z.fwd[j][k] = <<>> /\ z.bwd[j][k] = <<>>
CleanFrom(z, t) == \A j \in Links : j >= t => Clean(z, j)
Fresh(z, l) ==
  /\ l \in Links /\ z.node[l] = NoCircuit /\ \A k \in Conns : z.bwd[l][k] = <<>>
  /\ CleanFrom(z, l + 1)

\* How far a handshake on queue q, which node a fills, has got.
GoodQueue(z, q, a) ==
  /\ Holds(q, Creates) => Fresh(z, a + 1) /\ (Up0(z) => a <= Hops(z))
  /\ \A t \in Nodes : Aims(q, t) =>
       t \in 1 .. PathLen - 1 /\ CleanFrom(z, t + 1) /\ (Up0(z) => t <= Hops(z))
  /\ Holds(q, {"CREATED"}) => CleanFrom(z, a + 1) /\ (Up0(z) => a <= Hops(z) + 1)
  /\ Holds(q, {"EXTENDED"}) => (Up0(z) => CleanFrom(z, Hops(z) + 2))

\* How far a handshake that relay a works on has got.
GoodWaiter(z, a) ==
  /\ Up(z.node[a]) /\ z.node[a].state = "OR_WAIT" =>
       CleanFrom(z, a + 1) /\ (Up0(z) => a <= Hops(z))
  /\ Up(z.node[a]) /\ z.node[a].state = "ONIONSKIN_PENDING" =>
       CleanFrom(z, a + 1) /\ (Up0(z) => a <= Hops(z) + 1)

\* The handshake is at the end of the circuit: nothing of the circuit is beyond it.
Frontier(z) ==
  /\ \A a \in Nodes : GoodQueue(z, z.node[a].outq, a) /\ GoodQueue(z, z.node[a].inq, a)
  /\ \A l \in Links, k \in Conns :
       GoodQueue(z, z.fwd[l][k], l - 1) /\ GoodQueue(z, z.bwd[l][k], l)
  /\ \A a \in Links : GoodWaiter(z, a)
  /\ z.node[0] = NoCircuit \/ (Up0(z) /\ z.node[0].state = "OR_WAIT") => CleanFrom(z, 1)

\* Two neighbours and the connection k between them.
Shares(z, l, k) == Up(z.node[l - 1]) /\ z.node[l - 1].n = k
Kept(z, l, k) == Up(z.node[l]) /\ z.node[l].p = k
LinkA(z, l, k) ==
  /\ Holds(z.fwd[l][k], {"DESTROY"}) => z.node[l - 1].marked \/ z.node[l - 1].n # k
  /\ Holds(z.bwd[l][k], {"DESTROY"}) => z.node[l].marked \/ z.node[l].p # k
LinkB(z, l, k) ==
  Kept(z, l, k) => \/ Shares(z, l, k) \/ Holds(z.fwd[l][k], {"DESTROY"})
                   \/ z.near[l][k] = "closed" \/ l - 1 \in z.over
LinkC(z, l, k) ==
  Holds(z.fwd[l][k], Creates) => \/ Shares(z, l, k) \/ Ord(z.fwd[l][k])
                                 \/ z.near[l][k] = "closed" \/ l - 1 \in z.over
LinkD(z, l, k) ==
  Shares(z, l, k) => \/ Kept(z, l, k) \/ Holds(z.node[l - 1].outq, Creates)
                     \/ Holds(z.fwd[l][k], Creates) \/ Holds(z.bwd[l][k], {"DESTROY"})
                     \/ z.far[l][k] = "closed"
Late(z, i) == Holds(z.node[i].outq, Creates) /\ z.node[i].marked => i \in z.over

\* The origin is connected to node m, and there is news about the circuit, or the
\* handshake, between them.
Good(z, l) == /\ Up(z.node[l - 1]) /\ Up(z.node[l])
              /\ z.node[l].p = z.node[l - 1].n /\ z.node[l].p # 0
Pre(z, m) == \A l \in Links : l <= m => Good(z, l)
News(z, m) ==
  \/ \E i \in Nodes : i <= m /\ Holds(z.node[i].inq, {"TRUNCATED"})
  \/ \E l \in Links : l <= m /\ Holds(z.bwd[l][z.node[l - 1].n], {"TRUNCATED"})
  \/ /\ m < PathLen /\ z.node[m].n # 0
     /\ \/ Holds(z.bwd[m + 1][z.node[m].n], {"DESTROY"})
        \/ z.far[m + 1][z.node[m].n] = "closed"
Within(z, m) ==
  \/ \E i \in Nodes : /\ i <= m
                      /\ \/ Holds(z.node[i].outq, Shaking) \/ Holds(z.node[i].inq, Shaking)
                         \/ i # 0 /\ z.node[i].state \in {"OR_WAIT", "ONIONSKIN_PENDING"}
  \/ \E l \in Links : /\ l <= m
                      /\ \/ Holds(z.fwd[l][z.node[l - 1].n], Shaking)
                         \/ Holds(z.bwd[l][z.node[l - 1].n], Shaking)
  \/ m < PathLen /\ z.node[m].n # 0 /\ Holds(z.fwd[m + 1][z.node[m].n], Creates)
Linked(z) == \E m \in Nodes : Pre(z, m) /\ (News(z, m) \/ Within(z, m))
Building(z) == Up0(z) /\ z.node[0].state = "BUILDING"
Chain(z) == Building(z) => Linked(z)

\* Its parts, for all nodes and connections.
Shape(z) ==
  /\ \A i \in Nodes : NodeShape(z, i)
  /\ \A l \in Links, k \in Conns : LinkShape(z, l, k)
Ups(z) == \A i \in Nodes : NodeUp(z, i)
Waiters(z) == \A i \in Nodes : Waiter(z, i)
Agree(z) ==
  /\ \A l \in Links, k \in Conns :
       LinkA(z, l, k) /\ LinkB(z, l, k) /\ LinkC(z, l, k) /\ LinkD(z, l, k)
  /\ \A i \in Nodes : Late(z, i)

\* The invariant of one circuit's view.
Inv(z) == /\ Shape(z) /\ Ups(z) /\ Waiters(z)
          /\ Alone(z) /\ Ones(z) /\ Frontier(z) /\ Agree(z) /\ Chain(z)

\* What circuit_mark_for_close does to a view, queue by queue.
MarkNodes(z, y, i) ==
  /\ y.near = z.near /\ y.far = z.far /\ y.len = z.len
  /\ \A j \in Nodes : /\ y.node[j].state = z.node[j].state /\ y.node[j].n = z.node[j].n
                      /\ y.node[j].p = z.node[j].p /\ y.node[j].hops = z.node[j].hops
                      /\ y.node[j].outq = z.node[j].outq /\ y.node[j].inq = z.node[j].inq
                      /\ Up(y.node[j]) <=> Up(z.node[j]) /\ j # i
                      /\ j # i => y.node[j] = z.node[j]
  /\ y.node[i].marked
MarkOver(z, y, i) ==
  /\ \A j \in z.over : j \in y.over
  /\ z.node[i].n # 0 /\ Holds(z.node[i].outq, Creates) => i \in y.over
MarkFwd(z, y, i) ==
  \A l \in Links, k \in Conns :
    /\ \A S : Holds(y.fwd[l][k], S) <=>
                Holds(z.fwd[l][k], S) \/ ("DESTROY" \in S /\ l = i + 1 /\ z.node[i].n = k)
    /\ \A t : Aims(y.fwd[l][k], t) <=> Aims(z.fwd[l][k], t)
    /\ \A S : Only(z.fwd[l][k], S) /\ "DESTROY" \in S => Only(y.fwd[l][k], S)
    /\ One(z.fwd[l][k]) => One(y.fwd[l][k])
    /\ Ord(z.fwd[l][k]) => Ord(y.fwd[l][k])
    /\ l = i + 1 /\ z.node[i].n = k /\ Holds(z.fwd[l][k], Creates) => Ord(y.fwd[l][k])
    /\ ~(l = i + 1 /\ z.node[i].n = k) => y.fwd[l][k] = z.fwd[l][k]
MarkBwd(z, y, i) ==
  \A l \in Links, k \in Conns :
    /\ \A S : Holds(y.bwd[l][k], S) <=>
                Holds(z.bwd[l][k], S) \/ ("DESTROY" \in S /\ l = i /\ z.node[i].p = k)
    /\ \A t : Aims(y.bwd[l][k], t) <=> Aims(z.bwd[l][k], t)
    /\ \A S : Only(z.bwd[l][k], S) /\ "DESTROY" \in S => Only(y.bwd[l][k], S)
    /\ One(z.bwd[l][k]) => One(y.bwd[l][k])
    /\ ~(l = i /\ z.node[i].p = k) => y.bwd[l][k] = z.bwd[l][k]

\* The DESTROY cell of a circuit.
LEMMA ByeCell ==
  ASSUME NEW c \in Circuits
  PROVE  /\ Cell("DESTROY", c, 0) \in CellsOf(c)
         /\ Cell("DESTROY", c, 0).cmd = "DESTROY"
BY ConstFacts DEF Cell, CellsOf, Commands

\* A DESTROY and a TRUNCATED cell are not part of a handshake.
LEMMA CommandsDiffer ==
  /\ "DESTROY" \notin Shaking /\ "TRUNCATED" \notin Shaking
  /\ "DESTROY" \notin Creates /\ Creates \subseteq Shaking
  /\ "DESTROY" \notin {"CREATED"} /\ "DESTROY" \notin {"EXTENDED"}
  /\ "DESTROY" \notin {"TRUNCATED"} /\ "DESTROY" \in {"DESTROY"}
  /\ "EXTEND" # "DESTROY"
  /\ "DESTROY" \in OutCmds \cup {"DESTROY"} /\ "DESTROY" \in InCmds \cup {"DESTROY"}
BY DEF Shaking, Creates, OutCmds, InCmds

\* The types of the parts of a view.
LEMMA ViewParts ==
  ASSUME NEW c \in Circuits, NEW z, IsView(z, c)
  PROVE  /\ \A i \in Nodes :
              /\ z.node[i] \in CircsOf(c)
              /\ z.node[i].state \in CircStates /\ z.node[i].n \in Ks /\ z.node[i].p \in Ks
              /\ z.node[i].marked \in BOOLEAN /\ z.node[i].hops \in Nodes
              /\ z.node[i].outq \in Seq(CellsOf(c)) /\ z.node[i].inq \in Seq(CellsOf(c))
         /\ \A l \in Links, k \in Conns :
              /\ z.near[l][k] \in NearStates /\ z.far[l][k] \in FarStates
              /\ z.fwd[l][k] \in Seq(CellsOf(c)) /\ z.bwd[l][k] \in Seq(CellsOf(c))
         /\ z.over \subseteq Nodes
<1>1. \A i \in Nodes : z.node[i] \in CircsOf(c)
  BY DEF IsView
<1>2. \A l \in Links, k \in Conns :
              /\ z.near[l][k] \in NearStates /\ z.far[l][k] \in FarStates
              /\ z.fwd[l][k] \in Seq(CellsOf(c)) /\ z.bwd[l][k] \in Seq(CellsOf(c))
  BY DEF IsView
<1>3. z.over \subseteq Nodes
  BY DEF IsView
<1> QED
  BY <1>1, <1>2, <1>3, RecordFields

\* The four parts of what marking a circuit does to its view.
LEMMA MarkFacts ==
  ASSUME NEW c \in Circuits, NEW z, NEW y, IsView(z, c), NEW i \in Nodes,
         ~ z.node[i].marked, ZMark(z, y, i, c)
  PROVE  MarkNodes(z, y, i) /\ MarkOver(z, y, i) /\ MarkFwd(z, y, i) /\ MarkBwd(z, y, i)
<1>1. PICK x : x = z.node[i]
  OBVIOUS
<1>2. PICK bye : bye = Cell("DESTROY", c, 0)
  OBVIOUS
<1>3. bye \in CellsOf(c) /\ bye.cmd = "DESTROY"
  BY <1>2, ByeCell
<1>4. x \in CircsOf(c) /\ (\A j \in Nodes : z.node[j] \in CircsOf(c))
  BY <1>1, ViewParts
<1>5. /\ y.near = z.near /\ y.far = z.far /\ y.len = z.len
      /\ y.node[i] = [x EXCEPT !.marked = TRUE]
      /\ \A j \in Nodes : j # i => y.node[j] = z.node[j]
      /\ \A l \in Links, k \in Conns :
           /\ y.fwd[l][k] = IF l = i + 1 /\ x.n = k THEN Append(z.fwd[l][k], bye)
                            ELSE z.fwd[l][k]
           /\ y.bwd[l][k] = IF l = i /\ x.p = k THEN Append(z.bwd[l][k], bye)
                            ELSE z.bwd[l][k]
      /\ y.over = IF x.n # 0 /\ HasCreate(x.outq) THEN z.over \cup {i} ELSE z.over
  BY <1>1, <1>2 DEF ZMark
<1>6. MarkNodes(z, y, i)
  <2>1. /\ y.node[i].state = x.state /\ y.node[i].n = x.n
        /\ y.node[i].p = x.p /\ y.node[i].hops = x.hops
        /\ y.node[i].outq = x.outq /\ y.node[i].inq = x.inq /\ y.node[i].marked
    BY <1>4, <1>5 DEF CircsOf
  <2> QED
    BY ONLY <1>1, <1>5, <2>1, Zenon DEF MarkNodes, Up
<1>7. MarkOver(z, y, i)
  BY ONLY <1>1, <1>5 DEF MarkOver, HasCreate, Holds, Creates
<1>8. MarkFwd(z, y, i)
  <2> SUFFICES ASSUME NEW l \in Links, NEW k \in Conns
      PROVE /\ \A S : Holds(y.fwd[l][k], S) <=>
                Holds(z.fwd[l][k], S) \/ ("DESTROY" \in S /\ l = i + 1 /\ z.node[i].n = k)
            /\ \A t : Aims(y.fwd[l][k], t) <=> Aims(z.fwd[l][k], t)
            /\ \A S : Only(z.fwd[l][k], S) /\ "DESTROY" \in S => Only(y.fwd[l][k], S)
            /\ One(z.fwd[l][k]) => One(y.fwd[l][k])
            /\ Ord(z.fwd[l][k]) => Ord(y.fwd[l][k])
            /\ l = i + 1 /\ z.node[i].n = k /\ Holds(z.fwd[l][k], Creates) => Ord(y.fwd[l][k])
            /\ ~(l = i + 1 /\ z.node[i].n = k) => y.fwd[l][k] = z.fwd[l][k]
    BY DEF MarkFwd
  <2>1. PICK q : q = z.fwd[l][k]
    OBVIOUS
  <2>2. PICK r : r = y.fwd[l][k]
    OBVIOUS
  <2>3. q \in Seq(CellsOf(c))
    BY <2>1, ViewParts
  <2>4. CASE l = i + 1 /\ x.n = k
    <3>1. r = Append(q, bye)
      BY ONLY <1>5, <2>1, <2>2, <2>4, l \in Links, k \in Conns, Zenon
    <3>2. /\ \A S : Holds(r, S) <=> Holds(q, S) \/ bye.cmd \in S
          /\ \A t : Aims(r, t) <=> Aims(q, t) \/ (bye.cmd = "EXTEND" /\ bye.to = t)
          /\ \A S : Only(r, S) <=> Only(q, S) /\ bye.cmd \in S
          /\ One(q) /\ (bye.cmd \notin Shaking \/ ~ Holds(q, Shaking)) => One(r)
          /\ Ord(q) => Ord(r)
          /\ bye.cmd = "DESTROY" /\ Holds(q, Creates) => Ord(r)
      BY ONLY <1>3, <2>3, <3>1, AddCell, Zenon
    <3> QED
      BY ONLY <1>1, <1>3, <2>1, <2>2, <2>4, <3>2, CommandsDiffer
  <2>5. CASE ~(l = i + 1 /\ x.n = k)
    <3>1. r = q
      BY ONLY <1>5, <2>1, <2>2, <2>5, l \in Links, k \in Conns
    <3> QED
      BY ONLY <1>1, <2>1, <2>2, <2>5, <3>1
  <2> QED
    BY <2>4, <2>5
<1>9. MarkBwd(z, y, i)
  <2> SUFFICES ASSUME NEW l \in Links, NEW k \in Conns
      PROVE /\ \A S : Holds(y.bwd[l][k], S) <=>
                Holds(z.bwd[l][k], S) \/ ("DESTROY" \in S /\ l = i /\ z.node[i].p = k)
            /\ \A t : Aims(y.bwd[l][k], t) <=> Aims(z.bwd[l][k], t)
            /\ \A S : Only(z.bwd[l][k], S) /\ "DESTROY" \in S => Only(y.bwd[l][k], S)
            /\ One(z.bwd[l][k]) => One(y.bwd[l][k])
            /\ ~(l = i /\ z.node[i].p = k) => y.bwd[l][k] = z.bwd[l][k]
    BY DEF MarkBwd
  <2>1. PICK q : q = z.bwd[l][k]
    OBVIOUS
  <2>2. PICK r : r = y.bwd[l][k]
    OBVIOUS
  <2>3. q \in Seq(CellsOf(c))
    BY <2>1, ViewParts
  <2>4. CASE l = i /\ x.p = k
    <3>1. r = Append(q, bye)
      BY ONLY <1>5, <2>1, <2>2, <2>4, l \in Links, k \in Conns, Zenon
    <3>2. /\ \A S : Holds(r, S) <=> Holds(q, S) \/ bye.cmd \in S
          /\ \A t : Aims(r, t) <=> Aims(q, t) \/ (bye.cmd = "EXTEND" /\ bye.to = t)
          /\ \A S : Only(r, S) <=> Only(q, S) /\ bye.cmd \in S
          /\ One(q) /\ (bye.cmd \notin Shaking \/ ~ Holds(q, Shaking)) => One(r)
      BY ONLY <1>3, <2>3, <3>1, AddCell, Zenon
    <3> QED
      BY ONLY <1>1, <1>3, <2>1, <2>2, <2>4, <3>2, CommandsDiffer
  <2>5. CASE ~(l = i /\ x.p = k)
    <3>1. r = q
      BY ONLY <1>5, <2>1, <2>2, <2>5, l \in Links, k \in Conns
    <3> QED
      BY ONLY <1>1, <2>1, <2>2, <2>5, <3>1
  <2> QED
    BY <2>4, <2>5
<1> QED
  BY <1>6, <1>7, <1>8, <1>9
----------------------------------------------------------------------------
(* Changes that bring no handshake.                                        *)

\* Queue r holds no more than queue q, but for DESTROY cells.
Thin(r, q) ==
  /\ Holds(r, Shaking) => Holds(q, Shaking)
  /\ Holds(r, Creates) => Holds(q, Creates)
  /\ Holds(r, {"CREATED"}) => Holds(q, {"CREATED"})
  /\ Holds(r, {"EXTENDED"}) => Holds(q, {"EXTENDED"})
  /\ \A t \in Nodes : Aims(r, t) => Aims(q, t)
  /\ One(q) => One(r)
Bare(z, l) == z.node[l] = NoCircuit /\ \A k \in Conns : z.bwd[l][k] = <<>>

\* No handshake is new in y, and no trace of the circuit.
Calm(z, y) ==
  /\ \A a \in Nodes : Thin(y.node[a].outq, z.node[a].outq) /\ Thin(y.node[a].inq, z.node[a].inq)
  /\ \A l \in Links, k \in Conns :
       Thin(y.fwd[l][k], z.fwd[l][k]) /\ Thin(y.bwd[l][k], z.bwd[l][k])
  /\ \A l \in Links : (Clean(z, l) => Clean(y, l)) /\ (Bare(z, l) => Bare(y, l))
  /\ \A a \in Nodes : Up(y.node[a]) => Up(z.node[a]) /\ y.node[a].state = z.node[a].state
  /\ Up0(y) => Hops(y) = Hops(z)
  /\ y.node[0] = NoCircuit => z.node[0] = NoCircuit

\* A queue is thinner than itself.
LEMMA ThinSelf == \A q : Thin(q, q)
BY DEF Thin

\* A calm step adds no handshake and no trace of the circuit further out.
LEMMA CalmKeeps ==
  ASSUME NEW z, NEW y, Calm(z, y), Alone(z), Ones(z), Frontier(z)
  PROVE  Alone(y) /\ Ones(y) /\ Frontier(y)
<1>1. \A g \in Kinds, a \in Nodes, b \in Ks : At(y, g, a, b) => At(z, g, a, b)
  <2> SUFFICES ASSUME NEW g \in Kinds, NEW a \in Nodes, NEW b \in Ks, At(y, g, a, b)
               PROVE At(z, g, a, b)
    OBVIOUS
  <2>1. a # 0 => a \in Links
    BY ConstFacts
  <2>2. b # 0 => b \in Conns
    BY ConstFacts
  <2> QED
    BY <2>1, <2>2 DEF At, Calm, Thin
<1>2. Alone(y)
  BY ONLY <1>1, Alone(z) DEF Alone
<1>3. Ones(y)
  BY ONLY Ones(z), Calm(z, y) DEF Ones, Calm, Thin
<1>4. \A t : CleanFrom(z, t) => CleanFrom(y, t)
  BY DEF Calm, CleanFrom
<1>5. \A l : Fresh(z, l) => Fresh(y, l)
  BY <1>4 DEF Calm, Fresh, Bare
<1>6. Up0(y) => Up0(z) /\ Hops(y) = Hops(z)
  BY ConstFacts DEF Calm, Up0
<1>7. ASSUME NEW q, NEW r, NEW a, Thin(r, q), GoodQueue(z, q, a)
      PROVE  GoodQueue(y, r, a)
  BY ONLY <1>4, <1>5, <1>6, <1>7 DEF GoodQueue, Thin
<1>8. ASSUME NEW a \in Links PROVE GoodWaiter(y, a)
  <2>1. GoodWaiter(z, a) /\ (Up(y.node[a]) => Up(z.node[a]) /\ y.node[a].state = z.node[a].state)
    BY ConstFacts DEF Frontier, Calm
  <2> QED
    BY ONLY <1>4, <1>6, <2>1 DEF GoodWaiter
<1>9. y.node[0] = NoCircuit \/ (Up0(y) /\ y.node[0].state = "OR_WAIT") => CleanFrom(y, 1)
  BY ConstFacts, <1>4, <1>6 DEF Frontier, Calm, Up0
<1>10. \A a \in Nodes : GoodQueue(y, y.node[a].outq, a) /\ GoodQueue(y, y.node[a].inq, a)
  BY <1>7 DEF Frontier, Calm
<1>11. \A l \in Links, k \in Conns :
         GoodQueue(y, y.fwd[l][k], l - 1) /\ GoodQueue(y, y.bwd[l][k], l)
  BY <1>7 DEF Frontier, Calm
<1> QED
  BY ONLY <1>2, <1>3, <1>8, <1>9, <1>10, <1>11 DEF Frontier

\* Marking a circuit is calm.
LEMMA MarkCalm ==
  ASSUME NEW z, NEW y, NEW i \in Nodes, Up(z.node[i]),
         MarkNodes(z, y, i), MarkFwd(z, y, i), MarkBwd(z, y, i)
  PROVE  Calm(z, y)
<1>1. \A a \in Nodes : Thin(y.node[a].outq, z.node[a].outq) /\ Thin(y.node[a].inq, z.node[a].inq)
  BY ThinSelf DEF MarkNodes
<1>2. \A l \in Links, k \in Conns :
       Thin(y.fwd[l][k], z.fwd[l][k]) /\ Thin(y.bwd[l][k], z.bwd[l][k])
  BY CommandsDiffer DEF Thin, MarkFwd, MarkBwd
<1>3. ~ Up(NoCircuit) /\ NoCircuit.n = 0
  BY DEF Up, NoCircuit
<1>4. ASSUME NEW l \in Links PROVE (Clean(z, l) => Clean(y, l)) /\ (Bare(z, l) => Bare(y, l))
  <2>0. l \in Nodes /\ l - 1 \in Nodes /\ (l - 1) + 1 = l /\ 0 \notin Conns
    BY ConstFacts
  <2>1. ASSUME z.node[l] = NoCircuit PROVE l # i /\ y.node[l] = NoCircuit
    BY <1>3, <2>0, <2>1 DEF MarkNodes
  <2>2. ASSUME z.node[l - 1].n = 0, NEW k \in Conns, l # i, l = i + 1
        PROVE  y.node[l - 1].n = 0 /\ y.fwd[l][k] = z.fwd[l][k]
    <3>1. l - 1 = i
      BY <2>2, ConstFacts
    <3> QED
      BY <2>0, <2>2, <3>1 DEF MarkNodes, MarkFwd
  <2>3. ASSUME NEW k \in Conns, l # i PROVE y.bwd[l][k] = z.bwd[l][k]
    BY <2>0, <2>3 DEF MarkBwd
  <2>4. ASSUME NEW k \in Conns, l # i + 1 PROVE y.fwd[l][k] = z.fwd[l][k]
    BY <2>0, <2>4 DEF MarkFwd
  <2>5. z.node[l - 1].n = y.node[l - 1].n
    BY <2>0 DEF MarkNodes
  <2> QED
    BY <2>1, <2>2, <2>3, <2>4, <2>5 DEF Clean, Bare
<1>5. \A a \in Nodes : Up(y.node[a]) => Up(z.node[a]) /\ y.node[a].state = z.node[a].state
  BY DEF MarkNodes
<1>6. Hops(y) = Hops(z)
  BY ConstFacts DEF MarkNodes, Hops
<1>7. y.node[0] = NoCircuit => z.node[0] = NoCircuit
  <2>1. CASE i = 0
    <3>1. y.node[0].marked /\ ~ NoCircuit.marked
      BY <2>1 DEF MarkNodes, NoCircuit
    <3> QED
      BY <3>1
  <2>2. CASE i # 0
    BY <2>2, ConstFacts DEF MarkNodes
  <2> QED
    BY <2>1, <2>2
<1> QED
  BY <1>1, <1>2, <1>4, <1>5, <1>6, <1>7 DEF Calm
----------------------------------------------------------------------------
(* circuit_mark_for_close keeps the invariant.                             *)

\* All that circuit_mark_for_close at node i needs: the invariant, but for what node i
\* itself, on its way out, no longer satisfies.
MarkReady(z, i) ==
  /\ Shape(z) /\ Alone(z) /\ Ones(z) /\ Frontier(z) /\ Agree(z)
  /\ \A j \in Nodes : j # i => NodeUp(z, j) /\ Waiter(z, j)
  /\ Building(z) /\ i # 0 => Pre(z, i) \/ Linked(z)

\* Marking a circuit keeps its shape.
LEMMA MarkShape ==
  ASSUME NEW z, NEW y, NEW i \in Nodes, Up(z.node[i]), Shape(z),
         MarkNodes(z, y, i), MarkFwd(z, y, i), MarkBwd(z, y, i)
  PROVE  Shape(y)
<1>1. ASSUME NEW j \in Nodes PROVE NodeShape(y, j)
  <2>1. NodeShape(z, j)
    BY DEF Shape
  <2>2. /\ y.node[j].state = z.node[j].state /\ y.node[j].n = z.node[j].n
        /\ y.node[j].p = z.node[j].p /\ y.node[j].hops = z.node[j].hops
        /\ y.node[j].outq = z.node[j].outq /\ y.node[j].inq = z.node[j].inq
        /\ y.near = z.near /\ y.far = z.far /\ y.len = z.len
    BY DEF MarkNodes
  <2>3. z.node[j].state = "none" => y.node[j] = z.node[j]
    BY DEF MarkNodes, Up
  <2> QED
    BY ONLY <2>1, <2>2, <2>3 DEF NodeShape
<1>2. ASSUME NEW l \in Links, NEW k \in Conns PROVE LinkShape(y, l, k)
  <2>1. LinkShape(z, l, k)
    BY DEF Shape
  <2>2. y.near = z.near /\ y.far = z.far
    BY DEF MarkNodes
  <2>3. /\ \A S : Only(z.fwd[l][k], S) /\ "DESTROY" \in S => Only(y.fwd[l][k], S)
        /\ \A S : Only(z.bwd[l][k], S) /\ "DESTROY" \in S => Only(y.bwd[l][k], S)
    BY DEF MarkFwd, MarkBwd
  <2>4. Only(y.fwd[l][k], OutCmds \cup {"DESTROY"}) /\ Only(y.bwd[l][k], InCmds \cup {"DESTROY"})
    <3>1. Only(z.fwd[l][k], OutCmds \cup {"DESTROY"}) /\ Only(z.bwd[l][k], InCmds \cup {"DESTROY"})
      BY <2>1 DEF LinkShape
    <3> QED
      BY ONLY <2>3, <3>1, CommandsDiffer
  <2> QED
    BY ONLY <2>1, <2>2, <2>4 DEF LinkShape
<1> QED
  BY <1>1, <1>2 DEF Shape

\* Marking a circuit tells its neighbours: they agree, or the CREATE was overtaken.
LEMMA MarkAgree ==
  ASSUME NEW z, NEW y, NEW i \in Nodes, Up(z.node[i]), Shape(z), Agree(z),
         MarkNodes(z, y, i), MarkOver(z, y, i), MarkFwd(z, y, i), MarkBwd(z, y, i)
  PROVE  Agree(y)
<1>1. ASSUME NEW l \in Links, NEW k \in Conns
      PROVE  LinkA(y, l, k) /\ LinkB(y, l, k) /\ LinkC(y, l, k) /\ LinkD(y, l, k)
  <2>1. LinkA(z, l, k) /\ LinkB(z, l, k) /\ LinkC(z, l, k) /\ LinkD(z, l, k)
    BY DEF Agree
  <2>2. PICK a \in Nodes : a = l - 1
    BY ConstFacts
  <2>3. l \in Nodes /\ (l = i + 1 <=> a = i) /\ k # 0
    BY <2>2, ConstFacts
  <2>4. /\ Up(y.node[a]) <=> Up(z.node[a]) /\ a # i
        /\ Up(y.node[l]) <=> Up(z.node[l]) /\ l # i
        /\ y.node[a].n = z.node[a].n /\ y.node[l].p = z.node[l].p
        /\ y.node[a].outq = z.node[a].outq
        /\ a # i => y.node[a] = z.node[a]
        /\ l # i => y.node[l] = z.node[l]
        /\ y.node[i].marked
        /\ y.near = z.near /\ y.far = z.far
    BY <2>3 DEF MarkNodes
  <2>5. /\ \A S : Holds(y.fwd[l][k], S) <=>
                  Holds(z.fwd[l][k], S) \/ ("DESTROY" \in S /\ a = i /\ z.node[a].n = k)
        /\ Ord(z.fwd[l][k]) => Ord(y.fwd[l][k])
        /\ a = i /\ z.node[a].n = k /\ Holds(z.fwd[l][k], Creates) => Ord(y.fwd[l][k])
        /\ \A S : Holds(y.bwd[l][k], S) <=>
                  Holds(z.bwd[l][k], S) \/ ("DESTROY" \in S /\ l = i /\ z.node[l].p = k)
    BY <2>3 DEF MarkFwd, MarkBwd
  <2>6. a \in z.over => a \in y.over
    BY DEF MarkOver
  <2>7. LinkA(y, l, k)
    BY ONLY <2>1, <2>2, <2>4, <2>5 DEF LinkA
  <2>8. LinkB(y, l, k)
    BY ONLY <2>1, <2>2, <2>4, <2>5, <2>6, CommandsDiffer DEF LinkB, Kept, Shares
  <2>9. LinkC(y, l, k)
    BY ONLY <2>1, <2>2, <2>4, <2>5, <2>6, CommandsDiffer DEF LinkC, Shares
  <2>10. LinkD(y, l, k)
    BY ONLY <2>1, <2>2, <2>4, <2>5, CommandsDiffer DEF LinkD, Kept, Shares
  <2> QED
    BY <2>7, <2>8, <2>9, <2>10
<1>2. ASSUME NEW j \in Nodes PROVE Late(y, j)
  <2>1. Late(z, j) /\ NodeShape(z, j)
    BY DEF Agree, Shape
  <2>2. Holds(z.node[j].outq, Creates) => z.node[j].n # 0
    BY <2>1, EmptyQueue DEF NodeShape
  <2> QED
    BY <2>1, <2>2 DEF Late, MarkNodes, MarkOver
<1> QED
  BY <1>1, <1>2 DEF Agree

\* Marking a circuit at a relay is news that reaches the origin.
LEMMA MarkChain ==
  ASSUME NEW z, NEW y, NEW i \in Nodes, Up(z.node[i]), Shape(z),
         Building(z) /\ i # 0 => Pre(z, i) \/ Linked(z),
         MarkNodes(z, y, i), MarkFwd(z, y, i), MarkBwd(z, y, i),
         \A j \in Nodes : z.node[j].n \in Ks
  PROVE  Chain(y)
<1> SUFFICES ASSUME Building(y) PROVE Linked(y)
  BY DEF Chain
<1>1. i # 0 /\ Building(z)
  BY ConstFacts DEF Building, Up0, MarkNodes
<1>2. i \in Links /\ i - 1 \in Nodes /\ (i - 1) + 1 = i /\ i - 1 < PathLen /\ i - 1 # i
  BY <1>1, ConstFacts DEF Nodes
<1>3. \A l \in Links : l \in Nodes /\ l - 1 \in Nodes
  BY ConstFacts
<1>4. \A l \in Links : Good(z, l) /\ l < i => Good(y, l)
  <2> SUFFICES ASSUME NEW l \in Links, Good(z, l), l < i PROVE Good(y, l)
    OBVIOUS
  <2>1. l \in Nodes /\ l - 1 \in Nodes /\ l # i /\ l - 1 # i
    BY ConstFacts
  <2> QED
    BY <2>1 DEF Good, MarkNodes
<1>5. ASSUME NEW m \in Nodes, Pre(z, m), i <= m PROVE Linked(y)
  <2>1. Good(z, i)
    BY <1>2, <1>5 DEF Pre
  <2>2. PICK a \in Nodes : a = i - 1
    BY <1>2
  <2>3. Pre(y, a)
    <3>1. \A l \in Links : l <= a => l <= m /\ l < i
      BY <1>5, <2>2, ConstFacts
    <3> QED
      BY <1>4, <1>5, <3>1 DEF Pre
  <2>4. PICK k : k = z.node[a].n
    OBVIOUS
  <2>5. k # 0 /\ k = z.node[i].p /\ k \in Conns /\ y.node[a].n = k
    BY <2>1, <2>2, <2>4, ConstFacts, Zenon DEF Good, MarkNodes
  <2>6. Holds(y.bwd[i][k], {"DESTROY"})
    BY <1>2, <2>5 DEF MarkBwd
  <2>7. a < PathLen /\ a + 1 = i
    BY <1>2, <2>2
  <2>8. News(y, a)
    BY <2>5, <2>6, <2>7 DEF News
  <2> QED
    BY <2>3, <2>8 DEF Linked
<1>6. ASSUME NEW m \in Nodes, Pre(z, m), m < i, News(z, m) \/ Within(z, m) PROVE Linked(y)
  <2>1. Pre(y, m)
    BY <1>4, <1>6, ConstFacts DEF Pre
  <2>2. \A j \in Nodes : /\ y.node[j].inq = z.node[j].inq /\ y.node[j].outq = z.node[j].outq
                         /\ y.node[j].n = z.node[j].n /\ y.node[j].state = z.node[j].state
    BY DEF MarkNodes
  <2>3. y.far = z.far
    BY DEF MarkNodes
  <2>4. \A l \in Links : l <= m => z.node[l - 1].n \in Conns
    <3> SUFFICES ASSUME NEW l \in Links, l <= m PROVE z.node[l - 1].n \in Conns
      OBVIOUS
    <3>1. Good(z, l) /\ l - 1 \in Nodes
      BY <1>3, <1>6 DEF Pre
    <3> QED
      BY <3>1, ConstFacts, Zenon DEF Good
  <2>5. \A l \in Links, k \in Conns : \A S :
          /\ Holds(z.fwd[l][k], S) => Holds(y.fwd[l][k], S)
          /\ Holds(z.bwd[l][k], S) => Holds(y.bwd[l][k], S)
    BY Zenon DEF MarkFwd, MarkBwd
  <2>6. m < PathLen => m + 1 \in Links
    BY ConstFacts
  <2>7. z.node[m].n # 0 => z.node[m].n \in Conns
    BY ConstFacts, Zenon
  <2>8. News(z, m) => News(y, m)
    BY ONLY <1>3, <2>2, <2>3, <2>4, <2>5, <2>6, <2>7, m \in Nodes, Zenon DEF News
  <2>9. Within(z, m) => Within(y, m)
    BY ONLY <1>3, <2>2, <2>4, <2>5, <2>6, <2>7, m \in Nodes, ZenonT(30) DEF Within
  <2> QED
    BY <1>6, <2>1, <2>8, <2>9 DEF Linked
<1>7. CASE Pre(z, i)
  BY <1>5, <1>7, ConstFacts
<1>8. CASE Linked(z)
  <2>1. PICK m \in Nodes : Pre(z, m) /\ (News(z, m) \/ Within(z, m))
    BY <1>8 DEF Linked
  <2>2. i <= m \/ m < i
    BY ConstFacts
  <2> QED
    BY <1>5, <1>6, <2>1, <2>2
<1> QED
  BY <1>1, <1>7, <1>8

\* circuit_mark_for_close keeps the invariant of a circuit that is ready for it.
LEMMA MarkStep ==
  ASSUME NEW c \in Circuits, NEW z, NEW y, IsView(z, c), NEW i \in Nodes,
         MarkReady(z, i), Up(z.node[i]), ZMark(z, y, i, c)
  PROVE  Inv(y)
<1>1. MarkNodes(z, y, i) /\ MarkOver(z, y, i) /\ MarkFwd(z, y, i) /\ MarkBwd(z, y, i)
  BY MarkFacts DEF Up
<1>2. Shape(y)
  BY <1>1, MarkShape DEF MarkReady
<1>3. Agree(y)
  BY <1>1, MarkAgree DEF MarkReady
<1>4. Calm(z, y)
  BY <1>1, MarkCalm
<1>5. Alone(y) /\ Ones(y) /\ Frontier(y)
  BY <1>4, CalmKeeps DEF MarkReady
<1>6. \A j \in Nodes : z.node[j].n \in Ks
  BY ViewParts
<1>7. Chain(y)
  BY <1>1, <1>6, MarkChain DEF MarkReady
<1>8. Ups(y)
  BY <1>1 DEF MarkReady, Ups, NodeUp, MarkNodes
<1>9. Waiters(y)
  BY <1>1 DEF MarkReady, Waiters, Waiter, MarkNodes
<1> QED
  BY <1>2, <1>3, <1>5, <1>7, <1>8, <1>9 DEF Inv

----------------------------------------------------------------------------
(* A connection opens, is launched or is marked for close.                 *)

\* The states a connection may move to while its queues stay as they are.
ConnMoves(z, l, k, near, far) ==
  \/ z.near[l][k] = "connecting" /\ near \in {"open", "closing"} /\ far = "open"
  \/ z.near[l][k] = "connecting" /\ near = "dying" /\ far = z.far[l][k]
  \/ z.near[l][k] = "open" /\ near = "closing" /\ far = z.far[l][k]
  \/ z.near[l][k] = "none" /\ near = "connecting" /\ far = z.far[l][k]

\* The invariant but for the waiters.
SteadyButWaiters(z) ==
  Shape(z) /\ Ups(z) /\ Alone(z) /\ Ones(z) /\ Frontier(z) /\ Agree(z) /\ Chain(z)

\* A connection that changes its state keeps all but, perhaps, the waiter at its near end.
LEMMA ConnState ==
  ASSUME NEW c \in Circuits, NEW z, NEW y, IsView(z, c), SteadyButWaiters(z),
         NEW l \in Links, NEW k \in Conns, NEW near, NEW far,
         \A j \in Nodes : j # l - 1 => Waiter(z, j),
         ZConn(z, y, l, k, near, far, z.fwd[l][k], z.bwd[l][k]),
         ConnMoves(z, l, k, near, far)
  PROVE  /\ SteadyButWaiters(y)
         /\ \A j \in Nodes : j # l - 1 => Waiter(y, j)
         /\ ~(Up(y.node[l - 1]) /\ y.node[l - 1].state = "OR_WAIT") => Waiter(y, l - 1)
         /\ Waiter(z, l - 1) /\ (near \notin {"open", "closing"} \/ z.near[l][k] # "connecting")
              => Waiter(y, l - 1)
         /\ near = "connecting" => Waiter(y, l - 1)
         /\ y.node = z.node
<1>1. /\ y.node = z.node /\ y.over = z.over /\ y.len = z.len
      /\ y.near[l][k] = near /\ y.far[l][k] = far
  BY DEF ZConn
<1>2. \A m \in Links, h \in Conns : y.fwd[m][h] = z.fwd[m][h] /\ y.bwd[m][h] = z.bwd[m][h]
  BY DEF ZConn
<1>3. \A m \in Links, h \in Conns : m # l \/ h # k =>
        y.near[m][h] = z.near[m][h] /\ y.far[m][h] = z.far[m][h]
  BY DEF ZConn
<1>4. LinkShape(z, l, k)
  BY DEF SteadyButWaiters, Shape
<1>5. \A m \in Links, h \in Conns :
        /\ z.near[m][h] \in {"open", "closing"} => y.near[m][h] \in {"open", "closing"}
        /\ z.far[m][h] = "open" => y.far[m][h] = "open"
        /\ z.near[m][h] = "closed" <=> y.near[m][h] = "closed"
        /\ z.far[m][h] = "closed" <=> y.far[m][h] = "closed"
  <2> SUFFICES ASSUME NEW m \in Links, NEW h \in Conns
               PROVE /\ z.near[m][h] \in {"open", "closing"} => y.near[m][h] \in {"open", "closing"}
                     /\ z.far[m][h] = "open" => y.far[m][h] = "open"
                     /\ z.near[m][h] = "closed" <=> y.near[m][h] = "closed"
                     /\ z.far[m][h] = "closed" <=> y.far[m][h] = "closed"
    OBVIOUS
  <2>1. CASE m # l \/ h # k
    BY <1>3, <2>1
  <2>2. CASE m = l /\ h = k
    BY ONLY <1>1, <1>4, <2>2, ConnMoves(z, l, k, near, far) DEF ConnMoves, LinkShape
  <2> QED
    BY <2>1, <2>2
<1>6. Shape(y)
  <2>1. ASSUME NEW j \in Nodes PROVE NodeShape(y, j)
    <3>1. NodeShape(z, j)
      BY DEF SteadyButWaiters, Shape
    <3>2. z.node[j].n # 0 => j + 1 \in Links /\ z.node[j].n \in Conns
      BY <3>1, ViewParts, ConstFacts, Zenon DEF NodeShape
    <3>3. z.node[j].p # 0 => j \in Links /\ z.node[j].p \in Conns
      BY <3>1, ViewParts, ConstFacts, Zenon DEF NodeShape
    <3> QED
      BY ONLY <1>1, <1>5, <3>1, <3>2, <3>3 DEF NodeShape
  <2>2. ASSUME NEW m \in Links, NEW h \in Conns PROVE LinkShape(y, m, h)
    <3>1. LinkShape(z, m, h)
      BY DEF SteadyButWaiters, Shape
    <3>2. CASE m # l \/ h # k
      BY ONLY <1>2, <1>3, <3>1, <3>2, m \in Links, h \in Conns DEF LinkShape
    <3>3. CASE m = l /\ h = k
      <4>1. y.fwd[l][k] = z.fwd[l][k] /\ y.bwd[l][k] = z.bwd[l][k]
        BY <1>2
      <4>2. /\ y.near[l][k] \in {"none", "connecting", "dying"} => y.far[l][k] = "none"
            /\ y.near[l][k] \in {"open", "closing"} => y.far[l][k] \in {"open", "closed"}
        BY ONLY <1>1, <1>4, ConnMoves(z, l, k, near, far) DEF ConnMoves, LinkShape
      <4> QED
        BY ONLY <3>1, <3>3, <4>1, <4>2 DEF LinkShape
    <3> QED
      BY <3>2, <3>3
  <2> QED
    BY <2>1, <2>2 DEF Shape
<1>7. Ups(y)
  BY <1>1 DEF SteadyButWaiters, Ups, NodeUp
<1>8. Calm(z, y)
  <2>1. \A m \in Links : (Clean(z, m) => Clean(y, m)) /\ (Bare(z, m) => Bare(y, m))
    BY ONLY <1>1, <1>2 DEF Clean, Bare
  <2>2. Hops(y) = Hops(z)
    BY ONLY <1>1 DEF Hops
  <2> QED
    BY ONLY <1>1, <1>2, <2>1, <2>2, ThinSelf DEF Calm
<1>9. Alone(y) /\ Ones(y) /\ Frontier(y)
  BY <1>8, CalmKeeps DEF SteadyButWaiters
<1>10. Agree(y)
  <2>1. ASSUME NEW m \in Links, NEW h \in Conns
        PROVE LinkA(y, m, h) /\ LinkB(y, m, h) /\ LinkC(y, m, h) /\ LinkD(y, m, h)
    <3>1. LinkA(z, m, h) /\ LinkB(z, m, h) /\ LinkC(z, m, h) /\ LinkD(z, m, h)
      BY DEF SteadyButWaiters, Agree
    <3>2. /\ y.fwd[m][h] = z.fwd[m][h] /\ y.bwd[m][h] = z.bwd[m][h]
          /\ z.near[m][h] = "closed" <=> y.near[m][h] = "closed"
          /\ z.far[m][h] = "closed" <=> y.far[m][h] = "closed"
      BY <1>2, <1>5
    <3> QED
      BY ONLY <1>1, <3>1, <3>2 DEF LinkA, LinkB, LinkC, LinkD, Shares, Kept
  <2>2. \A j \in Nodes : Late(y, j)
    BY ONLY <1>1, SteadyButWaiters(z) DEF SteadyButWaiters, Agree, Late
  <2> QED
    BY <2>1, <2>2 DEF Agree
<1>11. Chain(y)
  <2> SUFFICES ASSUME Building(y) PROVE Linked(y)
    BY DEF Chain
  <2>1. Building(z)
    BY <1>1 DEF Building, Up0
  <2>2. PICK m \in Nodes : Pre(z, m) /\ (News(z, m) \/ Within(z, m))
    BY <2>1 DEF SteadyButWaiters, Chain, Linked
  <2>3. Pre(y, m)
    BY <1>1, <2>2 DEF Pre, Good
  <2>4. \A j \in Links : j <= m => z.node[j - 1].n \in Conns
    <3> SUFFICES ASSUME NEW j \in Links, j <= m PROVE z.node[j - 1].n \in Conns
      OBVIOUS
    <3>1. Good(z, j) /\ j - 1 \in Nodes
      BY <2>2, ConstFacts DEF Pre
    <3> QED
      BY <3>1, ViewParts, ConstFacts, Zenon DEF Good
  <2>5. m < PathLen => m + 1 \in Links
    BY ConstFacts
  <2>6. z.node[m].n # 0 => z.node[m].n \in Conns
    BY ViewParts, ConstFacts, Zenon
  <2>7. News(z, m) => News(y, m)
    BY ONLY <1>1, <1>2, <1>5, <2>4, <2>5, <2>6 DEF News
  <2>8. Within(z, m) => Within(y, m)
    BY ONLY <1>1, <1>2, <2>4, <2>5, <2>6 DEF Within
  <2> QED
    BY <2>2, <2>3, <2>7, <2>8 DEF Linked
<1>12. ASSUME NEW j \in Nodes, j # l - 1 PROVE Waiter(y, j)
  <2>1. Waiter(z, j)
    BY <1>12
  <2>2. j # PathLen => j + 1 \in Links /\ j + 1 # l
    BY <1>12, ConstFacts
  <2> QED
    BY ONLY <1>1, <1>3, <2>1, <2>2 DEF Waiter
<1>13. ~(Up(y.node[l - 1]) /\ y.node[l - 1].state = "OR_WAIT") => Waiter(y, l - 1)
  BY DEF Waiter
<1>14. ASSUME near \notin {"open", "closing"} \/ z.near[l][k] # "connecting", Waiter(z, l - 1)
       PROVE  Waiter(y, l - 1)
  <2>1. Waiter(z, l - 1) /\ (l - 1) + 1 = l /\ l - 1 \in Nodes
    BY <1>14, ConstFacts
  <2>2. z.near[l][k] \in {"connecting", "dying"} => y.near[l][k] \in {"connecting", "dying"}
    BY ONLY <1>1, <1>14, ConnMoves(z, l, k, near, far) DEF ConnMoves
  <2>3. \A h \in Conns : z.near[l][h] \in {"connecting", "dying"} =>
                         y.near[l][h] \in {"connecting", "dying"}
    BY <1>3, <2>2
  <2> QED
    BY ONLY <1>1, <2>1, <2>3 DEF Waiter
<1>15. near = "connecting" => Waiter(y, l - 1)
  <2>1. (l - 1) + 1 = l
    BY ConstFacts
  <2> QED
    BY ONLY <1>1, <2>1, k \in Conns DEF Waiter
<1> QED
  BY <1>1, <1>6, <1>7, <1>9, <1>10, <1>11, <1>12, <1>13, <1>14, <1>15 DEF SteadyButWaiters
----------------------------------------------------------------------------
(* A connection closes at one of its ends, and the circuits that use it    *)
(* are unlinked from it.                                                   *)

\* The near end of connection k of link l closes and the circuit there is unlinked.
ClosesNear(z, y, l, k) ==
  LET i == l - 1
      x == z.node[i]
  IN /\ y.over = z.over /\ y.len = z.len /\ y.far = z.far
     /\ \A j \in Nodes : j # i => y.node[j] = z.node[j]
     /\ y.node[i] = IF x.n = k THEN [x EXCEPT !.n = 0, !.outq = <<>>] ELSE x
     /\ y.near[l][k] = "closed" /\ y.bwd[l][k] = <<>>
     /\ y.fwd[l][k] = z.fwd[l][k] \/ y.fwd[l][k] = <<>>
     /\ \A m \in Links, h \in Conns : m # l \/ h # k =>
          /\ y.near[m][h] = z.near[m][h]
          /\ y.fwd[m][h] = z.fwd[m][h] /\ y.bwd[m][h] = z.bwd[m][h]

\* The fields of a circuit that left its next, or its previous, connection.
LEMMA UnlinkFields ==
  ASSUME NEW c \in Circuits, NEW x \in CircsOf(c)
  PROVE  /\ [x EXCEPT !.n = 0, !.outq = <<>>] \in CircsOf(c)
         /\ [x EXCEPT !.n = 0, !.outq = <<>>].n = 0
         /\ [x EXCEPT !.n = 0, !.outq = <<>>].outq = <<>>
         /\ [x EXCEPT !.n = 0, !.outq = <<>>].state = x.state
         /\ [x EXCEPT !.n = 0, !.outq = <<>>].marked = x.marked
         /\ [x EXCEPT !.n = 0, !.outq = <<>>].p = x.p
         /\ [x EXCEPT !.n = 0, !.outq = <<>>].hops = x.hops
         /\ [x EXCEPT !.n = 0, !.outq = <<>>].inq = x.inq
         /\ [x EXCEPT !.p = 0, !.inq = <<>>] \in CircsOf(c)
         /\ [x EXCEPT !.p = 0, !.inq = <<>>].p = 0
         /\ [x EXCEPT !.p = 0, !.inq = <<>>].inq = <<>>
         /\ [x EXCEPT !.p = 0, !.inq = <<>>].state = x.state
         /\ [x EXCEPT !.p = 0, !.inq = <<>>].marked = x.marked
         /\ [x EXCEPT !.p = 0, !.inq = <<>>].n = x.n
         /\ [x EXCEPT !.p = 0, !.inq = <<>>].hops = x.hops
         /\ [x EXCEPT !.p = 0, !.inq = <<>>].outq = x.outq
BY ConstFacts, EmptySeq, Zenon DEF CircsOf

\* An empty queue is thinner than any.
LEMMA ThinEmpty == \A q : Thin(<<>>, q)
BY EmptyQueue DEF Thin

\* The circuit at node i, whose connection k to node l closed, is ready to be marked.
CutLoose(z, y, i, l, k) ==
  /\ MarkReady(y, i)
  /\ z.node[i].n # k \/ ~ Up(z.node[i]) => NodeUp(y, i) /\ Chain(y)
  /\ z.near[l][k] # "dying" \/ ~(Up(z.node[i]) /\ z.node[i].state = "OR_WAIT")
       => Waiter(y, i)
  /\ Up(y.node[i]) <=> Up(z.node[i])

\* The near end of a connection closes: the circuit there is ready to be marked.
LEMMA CloseNear ==
  ASSUME NEW c \in Circuits, NEW z, NEW y, IsView(z, c), Inv(z),
         NEW l \in Links, NEW k \in Conns, ClosesNear(z, y, l, k),
         z.near[l][k] \in {"dying", "closing"},
         NEW i, i = l - 1
  PROVE  CutLoose(z, y, i, l, k)
<1>0. i \in Nodes /\ i # PathLen /\ i + 1 = l /\ l \in Nodes /\ l # i /\ i < PathLen /\ i = l - 1
  BY ConstFacts DEF Nodes
<1>1. /\ y.over = z.over /\ y.len = z.len /\ y.far = z.far
      /\ \A j \in Nodes : j # i => y.node[j] = z.node[j]
      /\ y.near[l][k] = "closed" /\ y.bwd[l][k] = <<>>
      /\ y.fwd[l][k] = z.fwd[l][k] \/ y.fwd[l][k] = <<>>
      /\ \A m \in Links, h \in Conns : m # l \/ h # k =>
           /\ y.near[m][h] = z.near[m][h]
           /\ y.fwd[m][h] = z.fwd[m][h] /\ y.bwd[m][h] = z.bwd[m][h]
  BY DEF ClosesNear
<1>2. PICK x : x = z.node[i]
  OBVIOUS
<1>3. PICK u : u = y.node[i]
  OBVIOUS
<1>4. x \in CircsOf(c) /\ x.n \in Ks
  BY <1>0, <1>2, ViewParts
<1>5. u = IF x.n = k THEN [x EXCEPT !.n = 0, !.outq = <<>>] ELSE x
  BY <1>2, <1>3 DEF ClosesNear
<1>6. /\ x.n # k => u = x
      /\ x.n = k => u.n = 0 /\ u.outq = <<>>
      /\ u.state = x.state /\ u.marked = x.marked /\ u.p = x.p /\ u.hops = x.hops /\ u.inq = x.inq
  BY ONLY <1>4, <1>5, UnlinkFields, c \in Circuits, Zenon
<1>7. Up(u) <=> Up(x)
  BY <1>6 DEF Up
<1>8. k # 0 /\ u.n # k /\ (u.n # 0 => u = x)
  BY <1>6, ConstFacts
<1>9. x = NoCircuit => u = NoCircuit
  BY <1>6, <1>8 DEF NoCircuit
<1>10. Shape(y)
  <2>1. ASSUME NEW j \in Nodes PROVE NodeShape(y, j)
    <3>1. NodeShape(z, j)
      BY DEF Inv, Shape
    <3>2. CASE j # i
      <4>1. y.node[j] = z.node[j]
        BY <1>1, <3>2
      <4>2. z.node[j].n # 0 => j + 1 \in Links /\ z.node[j].n \in Conns /\ j + 1 # l
        <5>1. z.node[j].n # 0 => z.node[j].n \in Conns /\ j # PathLen
          BY <3>1, ViewParts, ConstFacts, Zenon DEF NodeShape
        <5>2. j # PathLen => j + 1 \in Links /\ j + 1 # l
          BY <1>0, <3>2, ConstFacts
        <5> QED
          BY ONLY <5>1, <5>2
      <4> QED
        BY ONLY <1>1, <3>1, <4>1, <4>2 DEF NodeShape
    <3>3. CASE j = i
      <4>1. NodeShape(z, i)
        BY <3>1, <3>3
      <4>2. u.n # 0 => u.n \in Conns /\ u.n # k
        BY <1>4, <1>8, ConstFacts, Zenon
      <4>3. u.state = "none" => u = x
        <5>1. u.state = "none" => x.n = 0
          BY <1>2, <1>6, <4>1 DEF NodeShape, NoCircuit
        <5> QED
          BY <1>6, <1>8, <5>1
      <4>4. u.n # 0 => y.near[i + 1][u.n] = z.near[i + 1][u.n]
        BY <1>0, <1>1, <4>2
      <4> QED
        BY ONLY <1>1, <1>2, <1>3, <1>6, <1>8, <3>3, <4>1, <4>3, <4>4, EmptyQueue DEF NodeShape
    <3> QED
      BY <3>2, <3>3
  <2>2. ASSUME NEW m \in Links, NEW h \in Conns PROVE LinkShape(y, m, h)
    <3>1. LinkShape(z, m, h)
      BY DEF Inv, Shape
    <3>2. CASE m # l \/ h # k
      BY ONLY <1>1, <3>1, <3>2, m \in Links, h \in Conns DEF LinkShape
    <3>3. CASE m = l /\ h = k
      BY ONLY <1>1, <3>1, <3>3, EmptyQueue DEF LinkShape
    <3> QED
      BY <3>2, <3>3
  <2> QED
    BY <2>1, <2>2 DEF Shape
<1>11. Calm(z, y)
  <2>1. ASSUME NEW a \in Nodes
        PROVE /\ Thin(y.node[a].outq, z.node[a].outq) /\ Thin(y.node[a].inq, z.node[a].inq)
              /\ Up(y.node[a]) => Up(z.node[a]) /\ y.node[a].state = z.node[a].state
              /\ z.node[a] = NoCircuit => y.node[a] = NoCircuit
              /\ z.node[a].n = 0 => y.node[a].n = 0
              /\ y.node[a].hops = z.node[a].hops
    <3>1. CASE a # i
      BY <1>1, <3>1, ThinSelf
    <3>2. CASE a = i
      BY ONLY <1>2, <1>3, <1>6, <1>7, <1>8, <1>9, <3>2, ThinSelf, ThinEmpty
    <3> QED
      BY <3>1, <3>2
  <2>2. ASSUME NEW m \in Links, NEW h \in Conns
        PROVE /\ Thin(y.fwd[m][h], z.fwd[m][h]) /\ Thin(y.bwd[m][h], z.bwd[m][h])
              /\ z.fwd[m][h] = <<>> => y.fwd[m][h] = <<>>
              /\ z.bwd[m][h] = <<>> => y.bwd[m][h] = <<>>
    <3>1. CASE m # l \/ h # k
      BY <1>1, <3>1, ThinSelf
    <3>2. CASE m = l /\ h = k
      BY <1>1, <3>2, ThinSelf, ThinEmpty
    <3> QED
      BY <3>1, <3>2
  <2>3. \A m \in Links : m \in Nodes /\ m - 1 \in Nodes
    BY ConstFacts
  <2>4. \A m \in Links : (Clean(z, m) => Clean(y, m)) /\ (Bare(z, m) => Bare(y, m))
    BY ONLY <2>1, <2>2, <2>3 DEF Clean, Bare
  <2>5. y.node[0] = NoCircuit => z.node[0] = NoCircuit
    <3>1. CASE i # 0
      BY <1>1, <3>1, ConstFacts
    <3>2. CASE i = 0
      <4>1. u = NoCircuit => x.state = "none" /\ ~ x.marked
        <5>1. NoCircuit.state = "none" /\ ~ NoCircuit.marked
          BY DEF NoCircuit
        <5> QED
          BY ONLY <1>6, <5>1
      <4>2. NodeShape(z, i)
        BY <1>0 DEF Inv, Shape
      <4>3. u = NoCircuit => x.n = 0
        BY <1>2, <4>1, <4>2 DEF NodeShape, NoCircuit
      <4>4. u = NoCircuit => x = NoCircuit
        BY <1>6, <1>8, <4>3
      <4> QED
        BY <1>2, <1>3, <3>2, <4>4
    <3> QED
      BY <3>1, <3>2
  <2>6. Hops(y) = Hops(z)
    BY <2>1, ConstFacts DEF Hops
  <2> QED
    BY <2>1, <2>2, <2>4, <2>5, <2>6 DEF Calm
<1>12. Alone(y) /\ Ones(y) /\ Frontier(y)
  BY <1>11, CalmKeeps DEF Inv
<1>13. Agree(y)
  <2>1. ASSUME NEW m \in Links, NEW h \in Conns
        PROVE LinkA(y, m, h) /\ LinkB(y, m, h) /\ LinkC(y, m, h) /\ LinkD(y, m, h)
    <3>1. LinkA(z, m, h) /\ LinkB(z, m, h) /\ LinkC(z, m, h) /\ LinkD(z, m, h)
      BY DEF Inv, Agree
    <3>2. PICK a \in Nodes : a = m - 1
      BY ConstFacts
    <3>3. m \in Nodes /\ (m = l <=> a = i) /\ h # 0
      BY <1>0, <3>2, ConstFacts, Zenon
    <3>4. /\ Up(y.node[m]) <=> Up(z.node[m]) 
          /\ y.node[m].p = z.node[m].p /\ y.node[m].marked = z.node[m].marked
      BY <1>1, <1>2, <1>3, <1>6, <1>7, <3>3
    <3>5. CASE m # l
      <4>1. y.node[a] = z.node[a]
        BY <1>1, <3>3, <3>5
      <4>2. /\ y.near[m][h] = z.near[m][h]
            /\ y.fwd[m][h] = z.fwd[m][h] /\ y.bwd[m][h] = z.bwd[m][h]
        BY <1>1, <3>5
      <4> QED
        BY ONLY <1>1, <3>1, <3>2, <3>4, <4>1, <4>2 DEF LinkA, LinkB, LinkC, LinkD, Shares, Kept
    <3>6. CASE m = l /\ h # k
      <4>1. y.node[a].n = h => y.node[a] = z.node[a]
        BY <1>2, <1>3, <1>8, <3>3, <3>6
      <4>2. z.node[a].n = h => y.node[a] = z.node[a]
        BY <1>2, <1>3, <1>6, <3>3, <3>6
      <4>3. /\ y.near[m][h] = z.near[m][h]
            /\ y.fwd[m][h] = z.fwd[m][h] /\ y.bwd[m][h] = z.bwd[m][h]
        BY <1>1, <3>6
      <4> QED
        BY ONLY <1>1, <3>1, <3>2, <3>4, <4>1, <4>2, <4>3 DEF LinkA, LinkB, LinkC, LinkD, Shares, Kept
    <3>7. CASE m = l /\ h = k
      <4>1. y.node[a].n # h
        BY <1>3, <1>8, <3>3, <3>7
      <4>2. y.near[m][h] = "closed" /\ y.bwd[m][h] = <<>>
        BY <1>1, <3>7
      <4> QED
        BY ONLY <3>2, <4>1, <4>2, EmptyQueue DEF LinkA, LinkB, LinkC, LinkD, Shares, Kept
    <3> QED
      BY <3>5, <3>6, <3>7
  <2>2. ASSUME NEW j \in Nodes PROVE Late(y, j)
    <3>1. Late(z, j)
      BY DEF Inv, Agree
    <3>2. CASE j # i
      BY <1>1, <3>1, <3>2 DEF Late
    <3>3. CASE j = i
      BY ONLY <1>1, <1>2, <1>3, <1>6, <3>1, <3>3, EmptyQueue DEF Late
    <3> QED
      BY <3>2, <3>3
  <2> QED
    BY <2>1, <2>2 DEF Agree
<1>14. Building(y) <=> Building(z)
  <2>1. CASE i # 0
    BY <1>1, <2>1, ConstFacts DEF Building, Up0
  <2>2. CASE i = 0
    BY ONLY <1>2, <1>3, <1>6, <1>7, <2>2 DEF Building, Up0
  <2> QED
    BY <2>1, <2>2
<1>15. ASSUME NEW m \in Nodes, Pre(z, m), News(z, m) \/ Within(z, m), x.n # k \/ m < i
       PROVE  Linked(y)
  <2>1. \A j \in Nodes : j <= m => y.node[j] = z.node[j]
    <3>1. x.n # k => \A j \in Nodes : y.node[j] = z.node[j]
      BY <1>1, <1>2, <1>3, <1>6
    <3>2. m < i => \A j \in Nodes : j <= m => j # i
      BY <1>0, ConstFacts
    <3> QED
      BY <1>1, <1>15, <3>1, <3>2
  <2>2. \A j \in Links : j <= m => j \in Nodes /\ j - 1 \in Nodes /\ j - 1 <= m
    BY ConstFacts
  <2>3. Pre(y, m)
    BY <1>15, <2>1, <2>2 DEF Pre, Good
  <2>4. \A j \in Links : j <= m => /\ z.node[j - 1].n \in Conns
                                   /\ j # l \/ z.node[j - 1].n # k
    <3> SUFFICES ASSUME NEW j \in Links, j <= m
                 PROVE z.node[j - 1].n \in Conns /\ (j # l \/ z.node[j - 1].n # k)
      OBVIOUS
    <3>1. Good(z, j) /\ j - 1 \in Nodes
      BY <1>15, ConstFacts DEF Pre
    <3>2. z.node[j - 1].n \in Conns
      BY <3>1, ViewParts, ConstFacts, Zenon DEF Good
    <3>3. j = l => j - 1 = i /\ ~(m < i)
      BY <1>0, ConstFacts
    <3> QED
      BY <1>2, <1>15, <3>2, <3>3
  <2>5. m < PathLen /\ z.node[m].n # 0 =>
          m + 1 \in Links /\ z.node[m].n \in Conns /\ (m + 1 # l \/ z.node[m].n # k)
    <3>1. m + 1 = l => m = i /\ ~(m < i)
      BY <1>0, ConstFacts
    <3>2. z.node[m].n # 0 => z.node[m].n \in Conns
      BY ViewParts, ConstFacts, Zenon
    <3>3. m < PathLen => m + 1 \in Links
      BY ConstFacts
    <3> QED
      BY ONLY <1>2, <1>15, <3>1, <3>2, <3>3
  <2>6. \A j \in Links, h \in Conns : j # l \/ h # k =>
          y.fwd[j][h] = z.fwd[j][h] /\ y.bwd[j][h] = z.bwd[j][h]
    BY <1>1
  <2>7. m <= m
    BY ConstFacts
  <2>8. News(z, m) => News(y, m)
    BY ONLY <1>1, <2>1, <2>2, <2>4, <2>5, <2>6, <2>7, m \in Nodes, SMTT(30) DEF News
  <2>9. Within(z, m) => Within(y, m)
    BY ONLY <1>1, <2>1, <2>2, <2>4, <2>5, <2>6, <2>7, m \in Nodes, SMTT(30) DEF Within
  <2> QED
    BY <1>15, <2>3, <2>8, <2>9 DEF Linked
<1>16. ASSUME Building(y) PROVE Linked(y) \/ (Pre(y, i) /\ x.n = k /\ Up(x))
  <2>1. PICK m \in Nodes : Pre(z, m) /\ (News(z, m) \/ Within(z, m))
    BY <1>14, <1>16 DEF Inv, Chain, Linked
  <2>2. CASE x.n # k \/ m < i
    BY <1>15, <2>1, <2>2
  <2>3. CASE x.n = k /\ ~(m < i)
    <3>1. i <= m
      BY <1>0, <2>3, ConstFacts
    <3>2. ASSUME NEW j \in Links, j <= i PROVE Good(y, j)
      <4>1. j <= m /\ j - 1 \in Nodes /\ j \in Nodes /\ j - 1 # i
        <5>1. j - 1 \in Nodes /\ j \in Nodes
          BY ConstFacts
        <5>2. j \in Nat /\ i \in Nat /\ m \in Nat
          BY <1>0, <5>1, ConstFacts, Zenon
        <5> QED
          BY ONLY <3>1, <3>2, <5>1, <5>2
      <4>2. Good(z, j)
        BY <2>1, <4>1 DEF Pre
      <4>3. y.node[j - 1] = z.node[j - 1]
        BY <1>1, <4>1
      <4>4. (Up(y.node[j]) <=> Up(z.node[j])) /\ y.node[j].p = z.node[j].p
        BY <1>1, <1>2, <1>3, <1>6, <1>7, <4>1
      <4> QED
        BY ONLY <4>2, <4>3, <4>4 DEF Good
    <3>3. Up(x)
      <4>1. CASE i = 0
        BY <1>2, <1>14, <1>16, <4>1 DEF Building, Up0
      <4>2. CASE i # 0
        <5>1. i \in Links
          BY <1>0, <4>2, ConstFacts
        <5>2. Good(z, i)
          BY <2>1, <3>1, <5>1 DEF Pre
        <5> QED
          BY <1>2, <5>2 DEF Good
      <4> QED
        BY <4>1, <4>2
    <3> QED
      BY <2>3, <3>2, <3>3 DEF Pre
  <2> QED
    BY <2>2, <2>3
<1>17. \A j \in Nodes : j # i => NodeUp(y, j)
  BY <1>1 DEF NodeUp, Inv, Ups
<1>18. ASSUME NEW j \in Nodes, j # i PROVE Waiter(y, j)
  <2>1. Waiter(z, j)
    BY DEF Inv, Waiters
  <2>2. j # PathLen => j + 1 \in Links /\ j + 1 # l
    BY <1>0, <1>18, ConstFacts
  <2> QED
    BY ONLY <1>1, <1>18, <2>1, <2>2, j \in Nodes DEF Waiter
<1>19. MarkReady(y, i)
  BY <1>10, <1>12, <1>13, <1>16, <1>17, <1>18 DEF MarkReady
<1>20. ASSUME x.n # k \/ ~ Up(x) PROVE NodeUp(y, i) /\ Chain(y)
  <2>1. NodeUp(z, i)
    BY <1>0 DEF Inv, Ups
  <2>2. NodeUp(y, i)
    BY ONLY <1>2, <1>3, <1>6, <1>7, <1>20, <2>1 DEF NodeUp
  <2> QED
    BY <1>16, <1>20, <2>2 DEF Chain
<1>21. ASSUME z.near[l][k] # "dying" \/ ~(Up(x) /\ x.state = "OR_WAIT")
       PROVE  Waiter(y, i)
  <2>1. Waiter(z, i)
    BY <1>0 DEF Inv, Waiters
  <2>2. CASE z.near[l][k] # "dying"
    <3>1. \A h \in Conns : z.near[l][h] \in {"connecting", "dying"} => y.near[l][h] = z.near[l][h]
      BY <1>1, <2>2
    <3> QED
      BY ONLY <1>0, <1>2, <1>3, <1>6, <1>7, <2>1, <3>1 DEF Waiter
  <2>3. CASE ~(Up(x) /\ x.state = "OR_WAIT")
    BY ONLY <1>3, <1>6, <1>7, <2>3 DEF Waiter
  <2> QED
    BY <1>21, <2>2, <2>3
<1> QED
  BY <1>2, <1>3, <1>7, <1>19, <1>20, <1>21 DEF CutLoose

\* Queue r is what is left of queue q: some cells may be gone from its front.
Rest(r, q) ==
  /\ Thin(r, q) /\ (q = <<>> => r = <<>>)
  /\ \A S : Holds(r, S) => Holds(q, S)
  /\ \A S : Only(q, S) => Only(r, S)
  /\ One(q) /\ Ord(q) /\ Holds(r, Creates) => Ord(r)

\* The far end of connection k of link l closes (gone), or reads a DESTROY; the circuit
\* may be unlinked from the connection there.
LeavesFar(z, y, l, k, gone) ==
  LET x == z.node[l]
  IN /\ y.over = z.over /\ y.len = z.len /\ y.near = z.near
     /\ \A j \in Nodes : j # l => y.node[j] = z.node[j]
     /\ \/ y.node[l] = x /\ (x.p # k \/ (~ Up(x) /\ ~ gone))
        \/ x.p = k /\ y.node[l] = [x EXCEPT !.p = 0, !.inq = <<>>]
     /\ y.far[l][k] = IF gone THEN "closed" ELSE z.far[l][k]
     /\ Rest(y.fwd[l][k], z.fwd[l][k])
     /\ \/ gone
        \/ /\ z.node[l - 1].marked \/ z.node[l - 1].n # k
           /\ Holds(z.fwd[l][k], Creates) => Holds(y.fwd[l][k], Creates)
           /\ Holds(z.fwd[l][k], Shaking) => Holds(y.fwd[l][k], Shaking)
     /\ y.bwd[l][k] = z.bwd[l][k] \/ (gone /\ y.bwd[l][k] = <<>>)
     /\ \A m \in Links, h \in Conns : m # l \/ h # k =>
          /\ y.far[m][h] = z.far[m][h]
          /\ y.fwd[m][h] = z.fwd[m][h] /\ y.bwd[m][h] = z.bwd[m][h]

\* The far end of a connection closes: the circuit there is ready to be marked.
LEMMA LeaveFar ==
  ASSUME NEW c \in Circuits, NEW z, NEW y, IsView(z, c), Inv(z),
         NEW l \in Links, NEW k \in Conns, NEW gone \in BOOLEAN, LeavesFar(z, y, l, k, gone),
         gone => z.far[l][k] = "open" /\ z.near[l][k] \in {"open", "closing", "closed"}
  PROVE  /\ MarkReady(y, l) /\ Waiter(y, l) /\ Chain(y)
         /\ y.node[l].p # 0 \/ ~ Up(z.node[l]) => NodeUp(y, l)
         /\ Up(y.node[l]) <=> Up(z.node[l])
<1>0. l \in Nodes /\ l # 0 /\ l - 1 \in Nodes /\ l - 1 # l /\ l - 1 < PathLen
      /\ (l - 1) + 1 = l
  BY ConstFacts DEF Nodes
<1>1. /\ y.over = z.over /\ y.len = z.len /\ y.near = z.near
      /\ \A j \in Nodes : j # l => y.node[j] = z.node[j]
      /\ y.far[l][k] = IF gone THEN "closed" ELSE z.far[l][k]
      /\ y.bwd[l][k] = z.bwd[l][k] \/ (gone /\ y.bwd[l][k] = <<>>)
      /\ \A m \in Links, h \in Conns : m # l \/ h # k =>
           /\ y.far[m][h] = z.far[m][h]
           /\ y.fwd[m][h] = z.fwd[m][h] /\ y.bwd[m][h] = z.bwd[m][h]
  BY DEF LeavesFar
<1>r. Rest(y.fwd[l][k], z.fwd[l][k])
  BY DEF LeavesFar
<1>2. PICK x : x = z.node[l]
  OBVIOUS
<1>3. PICK u : u = y.node[l]
  OBVIOUS
<1>4. x \in CircsOf(c) /\ x.p \in Ks
  BY <1>0, <1>2, ViewParts
<1>5. \/ u = x /\ (x.p # k \/ (~ Up(x) /\ ~ gone))
      \/ x.p = k /\ u = [x EXCEPT !.p = 0, !.inq = <<>>]
  BY <1>2, <1>3 DEF LeavesFar
<1>6. /\ u = x \/ (x.p = k /\ u.p = 0 /\ u.inq = <<>>)
      /\ u.state = x.state /\ u.marked = x.marked /\ u.n = x.n /\ u.hops = x.hops /\ u.outq = x.outq
  <2>1. CASE u = x
    BY <2>1
  <2>2. CASE x.p = k /\ u = [x EXCEPT !.p = 0, !.inq = <<>>]
    BY ONLY <1>4, <2>2, UnlinkFields, c \in Circuits, Zenon
  <2> QED
    BY <1>5, <2>1, <2>2
<1>7. Up(u) <=> Up(x)
  BY <1>6 DEF Up
<1>8. /\ k # 0 /\ (u.p # 0 => u = x) /\ (x.p # k => u = x)
      /\ u.p = k => ~ Up(u) /\ ~ gone
  <2>1. k # 0
    BY ConstFacts
  <2>2. CASE u = x /\ (x.p # k \/ (~ Up(x) /\ ~ gone))
    BY <2>1, <2>2
  <2>3. CASE x.p = k /\ u = [x EXCEPT !.p = 0, !.inq = <<>>]
    <3>1. u.p = 0
      BY ONLY <1>4, <2>3, UnlinkFields, c \in Circuits, Zenon
    <3> QED
      BY ONLY <2>1, <2>3, <3>1
  <2> QED
    BY <1>5, <2>2, <2>3
<1>9. x = NoCircuit => u = NoCircuit
  BY <1>6, <1>8 DEF NoCircuit
<1>10. Shape(y)
  <2>1. ASSUME NEW j \in Nodes PROVE NodeShape(y, j)
    <3>1. NodeShape(z, j)
      BY DEF Inv, Shape
    <3>2. CASE j # l
      <4>1. y.node[j] = z.node[j]
        BY <1>1, <3>2
      <4>2. z.node[j].p # 0 => j \in Links /\ z.node[j].p \in Conns
        BY <3>1, ViewParts, ConstFacts, Zenon DEF NodeShape
      <4> QED
        BY ONLY <1>1, <3>1, <3>2, <4>1, <4>2 DEF NodeShape
    <3>3. CASE j = l
      <4>1. NodeShape(z, l)
        BY <3>1, <3>3
      <4>3. u.state = "none" => u = x
        <5>1. u.state = "none" => x.p = 0
          BY <1>2, <1>6, <4>1 DEF NodeShape, NoCircuit
        <5> QED
          BY <1>8, <5>1
      <4>4. u.p # 0 => y.far[l][u.p] = z.far[l][u.p]
        <5>1. u.p # 0 => u.p \in Conns
          BY <1>4, <1>8, ConstFacts
        <5> QED
          BY <1>1, <1>8, <5>1
      <4> QED
        BY ONLY <1>0, <1>1, <1>2, <1>3, <1>6, <1>8, <3>3, <4>1, <4>3, <4>4, EmptyQueue DEF NodeShape
    <3> QED
      BY <3>2, <3>3
  <2>2. ASSUME NEW m \in Links, NEW h \in Conns PROVE LinkShape(y, m, h)
    <3>1. LinkShape(z, m, h)
      BY DEF Inv, Shape
    <3>2. CASE m # l \/ h # k
      BY ONLY <1>1, <3>1, <3>2, m \in Links, h \in Conns DEF LinkShape
    <3>3. CASE m = l /\ h = k
      <4>1. \A S : (Only(z.fwd[l][k], S) => Only(y.fwd[l][k], S))
                   /\ (Only(z.bwd[l][k], S) => Only(y.bwd[l][k], S))
        BY <1>1, <1>r, EmptyQueue DEF Rest
      <4>2. gone => z.near[l][k] \in {"open", "closing", "closed"}
        OBVIOUS
      <4> QED
        BY ONLY <1>1, <3>1, <3>3, <4>1, <4>2 DEF LinkShape
    <3> QED
      BY <3>2, <3>3
  <2> QED
    BY <2>1, <2>2 DEF Shape
<1>11. Calm(z, y)
  <2>1. ASSUME NEW a \in Nodes
        PROVE /\ Thin(y.node[a].outq, z.node[a].outq) /\ Thin(y.node[a].inq, z.node[a].inq)
              /\ Up(y.node[a]) => Up(z.node[a]) /\ y.node[a].state = z.node[a].state
              /\ z.node[a] = NoCircuit => y.node[a] = NoCircuit
              /\ z.node[a].n = 0 => y.node[a].n = 0
              /\ y.node[a].hops = z.node[a].hops
    <3>1. CASE a # l
      BY <1>1, <3>1, ThinSelf
    <3>2. CASE a = l
      BY ONLY <1>2, <1>3, <1>6, <1>7, <1>8, <1>9, <3>2, ThinSelf, ThinEmpty
    <3> QED
      BY <3>1, <3>2
  <2>2. ASSUME NEW m \in Links, NEW h \in Conns
        PROVE /\ Thin(y.fwd[m][h], z.fwd[m][h]) /\ Thin(y.bwd[m][h], z.bwd[m][h])
              /\ z.fwd[m][h] = <<>> => y.fwd[m][h] = <<>>
              /\ z.bwd[m][h] = <<>> => y.bwd[m][h] = <<>>
    <3>1. CASE m # l \/ h # k
      BY <1>1, <3>1, ThinSelf
    <3>2. CASE m = l /\ h = k
      BY <1>1, <1>r, <3>2, ThinSelf, ThinEmpty DEF Rest
    <3> QED
      BY <3>1, <3>2
  <2>3. \A m \in Links : m \in Nodes /\ m - 1 \in Nodes
    BY ConstFacts
  <2>4. \A m \in Links : (Clean(z, m) => Clean(y, m)) /\ (Bare(z, m) => Bare(y, m))
    BY ONLY <2>1, <2>2, <2>3 DEF Clean, Bare
  <2>5. y.node[0] = NoCircuit => z.node[0] = NoCircuit
    BY <1>0, <1>1, ConstFacts
  <2>6. Hops(y) = Hops(z)
    BY <2>1, ConstFacts DEF Hops
  <2> QED
    BY <2>1, <2>2, <2>4, <2>5, <2>6 DEF Calm
<1>12. Alone(y) /\ Ones(y) /\ Frontier(y)
  BY <1>11, CalmKeeps DEF Inv
<1>13. Agree(y)
  <2>1. ASSUME NEW m \in Links, NEW h \in Conns
        PROVE LinkA(y, m, h) /\ LinkB(y, m, h) /\ LinkC(y, m, h) /\ LinkD(y, m, h)
    <3>1. LinkA(z, m, h) /\ LinkB(z, m, h) /\ LinkC(z, m, h) /\ LinkD(z, m, h)
      BY DEF Inv, Agree
    <3>2. PICK a \in Nodes : a = m - 1
      BY ConstFacts
    <3>3. m \in Nodes /\ h # 0 /\ (m = l => a # l)
      BY <1>0, <3>2, ConstFacts, Zenon
    <3>4. /\ Up(y.node[a]) <=> Up(z.node[a])
          /\ y.node[a].n = z.node[a].n /\ y.node[a].outq = z.node[a].outq
          /\ y.node[a].marked = z.node[a].marked
      BY <1>1, <1>2, <1>3, <1>6, <1>7
    <3>5. CASE m # l
      <4>1. y.node[m] = z.node[m]
        BY <1>1, <3>3, <3>5
      <4>2. /\ y.far[m][h] = z.far[m][h]
            /\ y.fwd[m][h] = z.fwd[m][h] /\ y.bwd[m][h] = z.bwd[m][h]
        BY <1>1, <3>5
      <4> QED
        BY ONLY <1>1, <3>1, <3>2, <3>4, <4>1, <4>2 DEF LinkA, LinkB, LinkC, LinkD, Shares, Kept
    <3>6. CASE m = l /\ h # k
      <4>1. y.node[m].p = h => y.node[m] = z.node[m]
        BY <1>2, <1>3, <1>8, <3>3, <3>6
      <4>2. z.node[m].p = h => y.node[m] = z.node[m]
        BY <1>2, <1>3, <1>6, <3>3, <3>6
      <4>3. /\ y.far[m][h] = z.far[m][h]
            /\ y.fwd[m][h] = z.fwd[m][h] /\ y.bwd[m][h] = z.bwd[m][h]
        BY <1>1, <3>6
      <4> QED
        BY ONLY <1>1, <3>1, <3>2, <3>4, <4>1, <4>2, <4>3 DEF LinkA, LinkB, LinkC, LinkD, Shares, Kept
    <3>7. CASE m = l /\ h = k
      <4>1. PICK q : q = z.fwd[l][k]
        OBVIOUS
      <4>2. PICK r : r = y.fwd[l][k]
        OBVIOUS
      <4>3. Rest(r, q) /\ One(q)
        BY <1>r, <4>1, <4>2 DEF Inv, Ones
      <4>4. ~ Kept(y, l, k)
        BY <1>3, <1>8 DEF Kept
      <4>5. LinkA(y, l, k)
        <5>1. Holds(r, {"DESTROY"}) => Holds(q, {"DESTROY"})
          BY <4>3 DEF Rest
        <5>2. Holds(y.bwd[l][k], {"DESTROY"}) => Holds(z.bwd[l][k], {"DESTROY"})
          BY <1>1, EmptyQueue
        <5>3. y.node[l].p = k => z.node[l] = y.node[l]
          BY <1>2, <1>3, <1>8
        <5>4. LinkA(z, l, k)
          BY <3>1, <3>7
        <5>5. y.node[l].marked = z.node[l].marked
          BY <1>2, <1>3, <1>6
        <5> QED
          BY ONLY <3>2, <3>4, <3>7, <4>1, <4>2, <5>1, <5>2, <5>3, <5>4, <5>5 DEF LinkA
      <4>6. LinkB(y, l, k)
        BY <4>4 DEF LinkB
      <4>7. LinkC(y, l, k)
        <5>1. Holds(r, Creates) => Holds(q, Creates) /\ (Ord(q) => Ord(r))
          BY <4>3 DEF Rest
        <5>2. LinkC(z, l, k)
          BY <3>1, <3>7
        <5> QED
          BY ONLY <1>1, <3>2, <3>4, <3>7, <4>1, <4>2, <5>1, <5>2 DEF LinkC, Shares
      <4>8. LinkD(y, l, k)
        <5>1. gone \/ z.node[l - 1].marked \/ z.node[l - 1].n # k
          BY DEF LeavesFar
        <5>2. Shares(y, l, k) => gone
          BY ONLY <3>2, <3>4, <3>7, <5>1 DEF Shares, Up
        <5> QED
          BY ONLY <1>1, <5>2 DEF LinkD
      <4> QED
        BY <3>7, <4>5, <4>6, <4>7, <4>8
    <3> QED
      BY <3>5, <3>6, <3>7
  <2>2. ASSUME NEW j \in Nodes PROVE Late(y, j)
    <3>1. Late(z, j)
      BY DEF Inv, Agree
    <3>2. CASE j # l
      BY <1>1, <3>1, <3>2 DEF Late
    <3>3. CASE j = l
      BY ONLY <1>1, <1>2, <1>3, <1>6, <3>1, <3>3 DEF Late
    <3> QED
      BY <3>2, <3>3
  <2> QED
    BY <2>1, <2>2 DEF Agree
<1>14. Building(y) => Building(z)
  BY <1>0, <1>1, ConstFacts DEF Building, Up0
<1>15. ASSUME NEW m \in Nodes, Pre(z, m), News(z, m) \/ Within(z, m), Building(z)
       PROVE  Linked(y)
  <2>0. \A j \in Links : l <= m /\ j <= m => Up(z.node[j - 1]) /\ z.node[j - 1].n \in Conns
    <3> SUFFICES ASSUME NEW j \in Links, j <= m
                 PROVE  Up(z.node[j - 1]) /\ z.node[j - 1].n \in Conns
      OBVIOUS
    <3>1. Good(z, j) /\ j - 1 \in Nodes
      BY <1>15, ConstFacts DEF Pre
    <3> QED
      BY <3>1, ViewParts, ConstFacts, Zenon DEF Good
  <2>1. ASSUME gone, z.node[l - 1].n = k, l - 1 <= m PROVE Linked(y)
    <3>1. \A j \in Links : j <= l - 1 => j <= m /\ j # l /\ j - 1 # l /\ j \in Nodes /\ j - 1 \in Nodes
      BY ONLY <2>1, l \in Links, m \in Nodes, CircuitBuildAssumption DEF Nodes, Links
    <3>2. Pre(y, l - 1)
      BY <1>1, <1>15, <3>1 DEF Pre, Good
    <3>3. y.node[l - 1].n = k /\ y.far[l][k] = "closed"
      BY <1>0, <1>1, <2>1
    <3>4. News(y, l - 1)
      BY <1>0, <1>8, <3>3 DEF News
    <3> QED
      BY <1>0, <3>2, <3>4 DEF Linked
  <2>2. ASSUME ~(z.node[l - 1].n = k /\ l - 1 <= m) PROVE Linked(y)
    <3>1. \A j \in Nodes : j <= m => y.node[j] = z.node[j]
      <4>1. CASE m < l
        BY <1>1, <4>1, ConstFacts
      <4>2. CASE ~(m < l)
        <5>1. l <= m /\ l - 1 <= m
          BY <4>2, ConstFacts
        <5>2. x.p = z.node[l - 1].n
          BY <1>2, <1>15, <5>1 DEF Pre, Good
        <5>3. u = x
          BY <1>8, <2>2, <5>1, <5>2
        <5> QED
          BY <1>1, <1>2, <1>3, <5>3, Zenon
      <4> QED
        BY <4>1, <4>2
    <3>2. \A j \in Links : j <= m => j \in Nodes /\ j - 1 \in Nodes /\ j - 1 <= m
      BY ConstFacts
    <3>3. Pre(y, m)
      BY <1>15, <3>1, <3>2 DEF Pre, Good
    <3>4. \A j \in Links : j <= m => /\ z.node[j - 1].n \in Conns
                                     /\ j # l \/ z.node[j - 1].n # k
      <4> SUFFICES ASSUME NEW j \in Links, j <= m
                   PROVE z.node[j - 1].n \in Conns /\ (j # l \/ z.node[j - 1].n # k)
        OBVIOUS
      <4>1. Good(z, j) /\ j - 1 \in Nodes
        BY <1>15, ConstFacts DEF Pre
      <4>2. z.node[j - 1].n \in Conns
        BY <4>1, ViewParts, ConstFacts, Zenon DEF Good
      <4>3. j = l => l - 1 <= m
        BY <3>2
      <4> QED
        BY <2>2, <4>2, <4>3
    <3>5. m < PathLen /\ z.node[m].n # 0 =>
            m + 1 \in Links /\ z.node[m].n \in Conns /\ (m + 1 # l \/ z.node[m].n # k)
      <4>1. m + 1 = l => m = l - 1 /\ l - 1 <= m
        BY <1>0, ConstFacts
      <4>2. z.node[m].n # 0 => z.node[m].n \in Conns
        BY ViewParts, ConstFacts, Zenon
      <4>3. m < PathLen => m + 1 \in Links
        BY ConstFacts
      <4> QED
        BY ONLY <2>2, <4>1, <4>2, <4>3
    <3>7. m <= m
      BY ConstFacts
    <3>8. News(z, m) => News(y, m)
      BY ONLY <1>1, <3>1, <3>2, <3>4, <3>5, <3>7, m \in Nodes, SMTT(30) DEF News
    <3>9. ASSUME Within(z, m) PROVE Within(y, m)
      <4>1. CASE \E i \in Nodes : /\ i <= m
                      /\ \/ Holds(z.node[i].outq, Shaking) \/ Holds(z.node[i].inq, Shaking)
                         \/ i # 0 /\ z.node[i].state \in {"OR_WAIT", "ONIONSKIN_PENDING"}
        BY ONLY <3>1, <4>1 DEF Within
      <4>2. CASE \E j \in Links : /\ j <= m
                      /\ \/ Holds(z.fwd[j][z.node[j - 1].n], Shaking)
                         \/ Holds(z.bwd[j][z.node[j - 1].n], Shaking)
        BY ONLY <1>1, <3>1, <3>2, <3>4, <4>2 DEF Within
      <4>3. CASE m < PathLen /\ z.node[m].n # 0 /\ Holds(z.fwd[m + 1][z.node[m].n], Creates)
        BY ONLY <1>1, <3>1, <3>5, <3>7, m \in Nodes, <4>3 DEF Within
      <4> QED
        <5> DEFINE A == \E i \in Nodes : /\ i <= m
                      /\ \/ Holds(z.node[i].outq, Shaking) \/ Holds(z.node[i].inq, Shaking)
                         \/ i # 0 /\ z.node[i].state \in {"OR_WAIT", "ONIONSKIN_PENDING"}
                   B == \E j \in Links : /\ j <= m
                      /\ \/ Holds(z.fwd[j][z.node[j - 1].n], Shaking)
                         \/ Holds(z.bwd[j][z.node[j - 1].n], Shaking)
                   C == m < PathLen /\ z.node[m].n # 0 /\ Holds(z.fwd[m + 1][z.node[m].n], Creates)
        <5>1. A \/ B \/ C
          BY ONLY <3>9, Zenon DEF Within
        <5>2. /\ A => Within(y, m)
              /\ B => Within(y, m)
              /\ C => Within(y, m)
          BY ONLY <4>1, <4>2, <4>3, Zenon
        <5> HIDE DEF A, B, C
        <5> QED
          BY ONLY <5>1, <5>2, Zenon
    <3> QED
      BY <1>15, <3>3, <3>8, <3>9 DEF Linked
  <2>3. ASSUME ~ gone, z.node[l - 1].n = k, l - 1 <= m PROVE FALSE
    <3>1. z.node[l - 1].marked
      BY <2>3 DEF LeavesFar
    <3>2. CASE l - 1 = 0
      BY <1>15, <3>1, <3>2 DEF Building, Up0, Up
    <3>3. CASE l - 1 # 0
      <4>1. l - 1 \in Links
        BY <1>0, <3>3, ConstFacts
      <4>2. Up(z.node[l - 1])
        BY <1>15, <2>3, <4>1 DEF Pre, Good
      <4> QED
        BY <3>1, <4>2 DEF Up
    <3> QED
      BY <3>2, <3>3
  <2> QED
    BY <2>1, <2>2, <2>3
<1>16. Chain(y)
  BY <1>14, <1>15 DEF Inv, Chain, Linked
<1>17. \A j \in Nodes : j # l => NodeUp(y, j)
  BY <1>1 DEF NodeUp, Inv, Ups
<1>18. ASSUME NEW j \in Nodes PROVE Waiter(y, j)
  <2>1. Waiter(z, j)
    BY DEF Inv, Waiters
  <2>2. (Up(y.node[j]) <=> Up(z.node[j])) /\ y.node[j].state = z.node[j].state
    BY <1>1, <1>2, <1>3, <1>6, <1>7
  <2> QED
    BY ONLY <1>1, <2>1, <2>2 DEF Waiter
<1>19. MarkReady(y, l)
  BY <1>10, <1>12, <1>13, <1>16, <1>17, <1>18 DEF MarkReady, Chain
<1>20. ASSUME u.p # 0 \/ ~ Up(x) PROVE NodeUp(y, l)
  <2>1. NodeUp(z, l)
    BY <1>0 DEF Inv, Ups
  <2> QED
    BY ONLY <1>0, <1>2, <1>3, <1>6, <1>7, <1>8, <1>20, <2>1 DEF NodeUp
<1> QED
  BY <1>0, <1>2, <1>3, <1>7, <1>16, <1>18, <1>19, <1>20

----------------------------------------------------------------------------
(* Steps at one node and on one connection.                                *)

\* y is z but for node i and for the queues of connection k of link l.
Turn(z, y, i, l, k) ==
  /\ y.near = z.near /\ y.far = z.far /\ y.over = z.over /\ y.len = z.len
  /\ \A j \in Nodes : j # i => y.node[j] = z.node[j]
  /\ \A m \in Links, h \in Conns : m # l \/ h # k =>
       y.fwd[m][h] = z.fwd[m][h] /\ y.bwd[m][h] = z.bwd[m][h]

\* The places that a turn touches.
Touched(g, a, b, i, l, k) ==
  \/ g \in {"out", "in", "relay"} /\ a = i /\ b = 0
  \/ g \in {"fwd", "bwd"} /\ a = l /\ b = k
  \/ g = "origin" /\ i = 0 /\ a = 0 /\ b = 0

\* The place (g, a, b) is where a handshake may be.
GoodAt(y, g, a, b) ==
  /\ g = "out" => GoodQueue(y, y.node[a].outq, a)
  /\ g = "in" => GoodQueue(y, y.node[a].inq, a)
  /\ g = "fwd" => GoodQueue(y, y.fwd[a][b], a - 1)
  /\ g = "bwd" => GoodQueue(y, y.bwd[a][b], a)
  /\ g = "relay" => GoodWaiter(y, a)
  /\ g = "origin" => (y.node[0] = NoCircuit \/ (Up0(y) /\ y.node[0].state = "OR_WAIT")
                        => CleanFrom(y, 1))

\* A queue without a handshake cell has nothing to be good at.
LEMMA QuietQueue ==
  ASSUME NEW y, NEW q, NEW a, ~ Holds(q, Shaking)
  PROVE  GoodQueue(y, q, a)
<1>1. ~ Holds(q, Creates) /\ ~ Holds(q, {"CREATED"}) /\ ~ Holds(q, {"EXTENDED"})
      /\ \A t : ~ Aims(q, t)
  BY DEF Holds, Aims, Creates, Shaking
<1> QED
  BY ONLY <1>1 DEF GoodQueue

\* With the handshake in one place, nothing is to be said of the others.
LEMMA LoneToken ==
  ASSUME NEW y, NEW g, NEW a, NEW b,
         \A h \in Kinds : \A d \in Nodes : \A e \in Ks : At(y, h, d, e) => h = g /\ d = a /\ e = b,
         GoodAt(y, g, a, b)
  PROVE  Alone(y) /\ Frontier(y)
<1>0. \A h \in Kinds : \A d \in Nodes : \A e \in Ks : At(y, h, d, e) => h = g /\ d = a /\ e = b
  OBVIOUS
<1>1. Alone(y)
  BY ONLY <1>0 DEF Alone
<1>2. ASSUME NEW d \in Nodes
      PROVE GoodQueue(y, y.node[d].outq, d) /\ GoodQueue(y, y.node[d].inq, d)
  <2>1. "out" \in Kinds /\ "in" \in Kinds /\ 0 \in Ks
    BY ConstFacts DEF Kinds
  <2>4. ~ Holds(y.node[d].outq, Shaking) => GoodQueue(y, y.node[d].outq, d)
    BY QuietQueue
  <2>5. ~ Holds(y.node[d].inq, Shaking) => GoodQueue(y, y.node[d].inq, d)
    BY QuietQueue
  <2>6. Holds(y.node[d].outq, Shaking) => GoodQueue(y, y.node[d].outq, d)
    <3> SUFFICES ASSUME Holds(y.node[d].outq, Shaking) PROVE GoodQueue(y, y.node[d].outq, d)
      OBVIOUS
    <3>1. At(y, "out", d, 0)
      BY DEF At
    <3>2. g = "out" /\ a = d
      BY ONLY <1>0, <2>1, <3>1, d \in Nodes
    <3> QED
      BY <3>2 DEF GoodAt
  <2>7. Holds(y.node[d].inq, Shaking) => GoodQueue(y, y.node[d].inq, d)
    <3> SUFFICES ASSUME Holds(y.node[d].inq, Shaking) PROVE GoodQueue(y, y.node[d].inq, d)
      OBVIOUS
    <3>1. At(y, "in", d, 0)
      BY DEF At
    <3>2. g = "in" /\ a = d
      BY ONLY <1>0, <2>1, <3>1, d \in Nodes
    <3> QED
      BY <3>2 DEF GoodAt
  <2> QED
    BY ONLY <2>4, <2>5, <2>6, <2>7
<1>3. ASSUME NEW l \in Links, NEW k \in Conns
      PROVE GoodQueue(y, y.fwd[l][k], l - 1) /\ GoodQueue(y, y.bwd[l][k], l)
  <2>1. "fwd" \in Kinds /\ "bwd" \in Kinds /\ k \in Ks /\ k # 0 /\ l \in Nodes /\ l # 0
    BY ConstFacts DEF Kinds
  <2>4. ~ Holds(y.fwd[l][k], Shaking) => GoodQueue(y, y.fwd[l][k], l - 1)
    BY QuietQueue
  <2>5. ~ Holds(y.bwd[l][k], Shaking) => GoodQueue(y, y.bwd[l][k], l)
    BY QuietQueue
  <2>6. Holds(y.fwd[l][k], Shaking) => GoodQueue(y, y.fwd[l][k], l - 1)
    <3> SUFFICES ASSUME Holds(y.fwd[l][k], Shaking) PROVE GoodQueue(y, y.fwd[l][k], l - 1)
      OBVIOUS
    <3>1. At(y, "fwd", l, k)
      BY <2>1 DEF At
    <3>2. g = "fwd" /\ a = l /\ b = k
      BY ONLY <1>0, <2>1, <3>1
    <3> QED
      BY <3>2 DEF GoodAt
  <2>7. Holds(y.bwd[l][k], Shaking) => GoodQueue(y, y.bwd[l][k], l)
    <3> SUFFICES ASSUME Holds(y.bwd[l][k], Shaking) PROVE GoodQueue(y, y.bwd[l][k], l)
      OBVIOUS
    <3>1. At(y, "bwd", l, k)
      BY <2>1 DEF At
    <3>2. g = "bwd" /\ a = l /\ b = k
      BY ONLY <1>0, <2>1, <3>1
    <3> QED
      BY <3>2 DEF GoodAt
  <2> QED
    BY ONLY <2>4, <2>5, <2>6, <2>7
<1>4. ASSUME NEW d \in Links PROVE GoodWaiter(y, d)
  <2>1. "relay" \in Kinds /\ 0 \in Ks /\ d \in Nodes /\ d # 0
    BY ConstFacts DEF Kinds
  <2>2. CASE Up(y.node[d]) /\ y.node[d].state \in {"OR_WAIT", "ONIONSKIN_PENDING"}
    <3>1. At(y, "relay", d, 0)
      BY <2>1, <2>2 DEF At
    <3>2. g = "relay" /\ a = d
      BY ONLY <1>0, <2>1, <3>1
    <3> QED
      BY <3>2 DEF GoodAt
  <2>3. CASE ~(Up(y.node[d]) /\ y.node[d].state \in {"OR_WAIT", "ONIONSKIN_PENDING"})
    BY ONLY <2>3 DEF GoodWaiter
  <2> QED
    BY <2>2, <2>3
<1>5. ASSUME y.node[0] = NoCircuit \/ (Up0(y) /\ y.node[0].state = "OR_WAIT")
      PROVE  CleanFrom(y, 1)
  <2>1. "origin" \in Kinds /\ 0 \in Ks /\ 0 \in Nodes
    BY ConstFacts DEF Kinds
  <2>2. At(y, "origin", 0, 0)
    BY <1>5 DEF At, Up0
  <2>3. g = "origin"
    BY ONLY <1>0, <2>1, <2>2
  <2> QED
    BY <1>5, <2>3 DEF GoodAt
<1> QED
  BY ONLY <1>1, <1>2, <1>3, <1>4, <1>5 DEF Frontier

\* The handshake moves from one place to another, of those the step touches.
LEMMA TokenMove ==
  ASSUME NEW z, NEW y, NEW i \in Nodes, NEW l \in Links, NEW k \in Conns, Turn(z, y, i, l, k),
         Alone(z),
         NEW g \in Kinds, NEW a \in Nodes, NEW b \in Ks, At(z, g, a, b), Touched(g, a, b, i, l, k),
         NEW h, NEW d, NEW e,
         \A f \in Kinds : \A p \in Nodes : \A q \in Ks :
           Touched(f, p, q, i, l, k) /\ At(y, f, p, q) => f = h /\ p = d /\ q = e,
         GoodAt(y, h, d, e)
  PROVE  Alone(y) /\ Frontier(y)
<1>1. ASSUME NEW f \in Kinds, NEW p \in Nodes, NEW q \in Ks, At(y, f, p, q)
      PROVE  f = h /\ p = d /\ q = e
  <2>1. CASE Touched(f, p, q, i, l, k)
    BY <1>1, <2>1
  <2>2. CASE ~ Touched(f, p, q, i, l, k)
    <3>1. At(z, f, p, q)
      <4>1. f \in {"out", "in", "relay"} /\ q = 0 => y.node[p] = z.node[p]
        BY <2>2 DEF Turn, Touched
      <4>2. f \in {"fwd", "bwd"} /\ p # 0 /\ q # 0 => y.fwd[p][q] = z.fwd[p][q] /\ y.bwd[p][q] = z.bwd[p][q]
        BY <2>2, ConstFacts DEF Turn, Touched
      <4>3. f = "origin" /\ p = 0 /\ q = 0 => y.node[0] = z.node[0]
        BY <2>2, ConstFacts DEF Turn, Touched
      <4> QED
        BY ONLY <1>1, <4>1, <4>2, <4>3 DEF At
    <3>2. f = g /\ p = a /\ q = b
      BY <3>1 DEF Alone
    <3> QED
      BY <2>2, <3>2
  <2> QED
    BY <2>1, <2>2
<1> QED
  BY ONLY <1>1, GoodAt(y, h, d, e), LoneToken

\* A turn that leaves one handshake cell at most on the queues it touches.
LEMMA TurnOnes ==
  ASSUME NEW z, NEW y, NEW i \in Nodes, NEW l \in Links, NEW k \in Conns, Turn(z, y, i, l, k),
         Ones(z), One(y.node[i].outq), One(y.node[i].inq), One(y.fwd[l][k]), One(y.bwd[l][k])
  PROVE  Ones(y)
<1>1. \A j \in Nodes : One(y.node[j].outq) /\ One(y.node[j].inq)
  BY DEF Turn, Ones
<1>2. \A m \in Links, h \in Conns : One(y.fwd[m][h]) /\ One(y.bwd[m][h])
  <2> SUFFICES ASSUME NEW m \in Links, NEW h \in Conns PROVE One(y.fwd[m][h]) /\ One(y.bwd[m][h])
    OBVIOUS
  <2>1. CASE m = l /\ h = k
    BY <2>1
  <2>2. CASE m # l \/ h # k
    BY <2>2 DEF Turn, Ones
  <2> QED
    BY <2>1, <2>2
<1> QED
  BY <1>1, <1>2 DEF Ones

\* A turn that keeps the shape of what it touches.
LEMMA TurnShape ==
  ASSUME NEW z, NEW y, NEW i \in Nodes, NEW l \in Links, NEW k \in Conns, Turn(z, y, i, l, k),
         Shape(z), NodeShape(y, i), LinkShape(y, l, k)
  PROVE  Shape(y)
<1>1. ASSUME NEW j \in Nodes PROVE NodeShape(y, j)
  <2>1. CASE j = i
    BY <2>1
  <2>2. CASE j # i
    <3>1. NodeShape(z, j)
      BY DEF Shape
    <3>2. y.node[j] = z.node[j] /\ y.near = z.near /\ y.far = z.far /\ y.len = z.len
      BY <2>2 DEF Turn
    <3> QED
      BY ONLY <3>1, <3>2 DEF NodeShape
  <2> QED
    BY <2>1, <2>2
<1>2. ASSUME NEW m \in Links, NEW h \in Conns PROVE LinkShape(y, m, h)
  <2>1. CASE m = l /\ h = k
    BY <2>1
  <2>2. CASE m # l \/ h # k
    <3>1. LinkShape(z, m, h)
      BY DEF Shape
    <3>2. /\ y.near = z.near /\ y.far = z.far
          /\ y.fwd[m][h] = z.fwd[m][h] /\ y.bwd[m][h] = z.bwd[m][h]
      BY <2>2 DEF Turn
    <3> QED
      BY ONLY <3>1, <3>2 DEF LinkShape
  <2> QED
    BY <2>1, <2>2
<1> QED
  BY <1>1, <1>2 DEF Shape

\* A turn says nothing new of the other nodes.
LEMMA TurnUps ==
  ASSUME NEW z, NEW y, NEW i \in Nodes, NEW l, NEW k, Turn(z, y, i, l, k)
  PROVE  \A j \in Nodes : j # i => (NodeUp(z, j) => NodeUp(y, j)) /\ (Waiter(z, j) => Waiter(y, j))
BY DEF Turn, NodeUp, Waiter

\* What the neighbours know of each other stays as it is.
SameEnds(x, u) ==
  /\ u.n = x.n /\ u.p = x.p /\ u.marked = x.marked /\ (Up(u) <=> Up(x))
  /\ Holds(u.outq, Creates) <=> Holds(x.outq, Creates)
SameTalk(z, y, l, k) ==
  /\ Holds(y.fwd[l][k], {"DESTROY"}) <=> Holds(z.fwd[l][k], {"DESTROY"})
  /\ Holds(y.fwd[l][k], Creates) <=> Holds(z.fwd[l][k], Creates)
  /\ Ord(z.fwd[l][k]) /\ Holds(y.fwd[l][k], Creates) => Ord(y.fwd[l][k])
  /\ Holds(y.bwd[l][k], {"DESTROY"}) <=> Holds(z.bwd[l][k], {"DESTROY"})

\* A turn that changes nothing the neighbours know of each other.
LEMMA TurnSame ==
  ASSUME NEW z, NEW y, NEW i \in Nodes, NEW l \in Links, NEW k \in Conns, Turn(z, y, i, l, k),
         Agree(z), SameEnds(z.node[i], y.node[i]), SameTalk(z, y, l, k)
  PROVE  Agree(y)
<1>1. \A j \in Nodes : SameEnds(z.node[j], y.node[j])
  BY DEF Turn, SameEnds
<1>2. ASSUME NEW m \in Links, NEW h \in Conns PROVE SameTalk(z, y, m, h)
  <2>1. CASE m = l /\ h = k
    BY <2>1
  <2>2. CASE m # l \/ h # k
    BY <2>2 DEF SameTalk, Turn
  <2> QED
    BY <2>1, <2>2
<1>3. y.near = z.near /\ y.far = z.far /\ y.over = z.over
  BY DEF Turn
<1>4. ASSUME NEW m \in Links, NEW h \in Conns
      PROVE  LinkA(y, m, h) /\ LinkB(y, m, h) /\ LinkC(y, m, h) /\ LinkD(y, m, h)
  <2>1. LinkA(z, m, h) /\ LinkB(z, m, h) /\ LinkC(z, m, h) /\ LinkD(z, m, h)
    BY DEF Agree
  <2>2. SameEnds(z.node[m], y.node[m]) /\ SameEnds(z.node[m - 1], y.node[m - 1])
    BY <1>1, ConstFacts, Zenon
  <2>3. SameTalk(z, y, m, h)
    BY <1>2
  <2> QED
    BY ONLY <1>3, <2>1, <2>2, <2>3 DEF LinkA, LinkB, LinkC, LinkD, Shares, Kept, SameEnds, SameTalk
<1>5. \A j \in Nodes : Late(y, j)
  BY <1>1, <1>3 DEF Agree, Late, SameEnds
<1> QED
  BY <1>4, <1>5 DEF Agree

\* The nodes between the origin and node m, and the news about the circuit, stay.
SafeNode(x, u) == Up(x) => Up(u) /\ u.p = x.p /\ (x.n # 0 => u.n = x.n)
NewsKept(z, y, i, l, k) ==
  /\ Up(z.node[i]) /\ Holds(z.node[i].inq, {"TRUNCATED"}) =>
       \/ Holds(y.node[i].inq, {"TRUNCATED"})
       \/ i = l /\ z.node[i].p = k /\ Holds(y.bwd[l][k], {"TRUNCATED"})
  /\ Shares(z, l, k) /\ Holds(z.bwd[l][k], {"TRUNCATED"}) =>
       \/ Holds(y.bwd[l][k], {"TRUNCATED"})
       \/ i = l - 1 /\ Holds(y.node[i].inq, {"TRUNCATED"})
  /\ Shares(z, l, k) /\ Holds(z.bwd[l][k], {"DESTROY"}) => Holds(y.bwd[l][k], {"DESTROY"})

\* The nodes up to m, each connected to the next.
LEMMA PreUp ==
  ASSUME NEW c \in Circuits, NEW z, IsView(z, c), Up0(z), NEW m \in Nodes, Pre(z, m)
  PROVE  /\ \A j \in Nodes : j <= m => Up(z.node[j])
         /\ \A j \in Links : j <= m => /\ z.node[j - 1].n \in Conns /\ z.node[j].p = z.node[j - 1].n
                                       /\ z.node[j - 1].n # 0
<1>1. \A j \in Nodes : j <= m => Up(z.node[j])
  <2> SUFFICES ASSUME NEW j \in Nodes, j <= m PROVE Up(z.node[j])
    OBVIOUS
  <2>1. CASE j = 0
    BY <2>1 DEF Up0
  <2>2. CASE j # 0
    <3>1. j \in Links
      BY <2>2, ConstFacts
    <3> QED
      BY <3>1 DEF Pre, Good
  <2> QED
    BY <2>1, <2>2
<1>2. ASSUME NEW j \in Links, j <= m
      PROVE /\ z.node[j - 1].n \in Conns /\ z.node[j].p = z.node[j - 1].n /\ z.node[j - 1].n # 0
  <2>1. Good(z, j) /\ j - 1 \in Nodes
    BY <1>2, ConstFacts DEF Pre
  <2> QED
    BY <2>1, ViewParts, ConstFacts, Zenon DEF Good
<1> QED
  BY <1>1, <1>2

\* They stay connected when a node changes safely.
LEMMA TurnPre ==
  ASSUME NEW c \in Circuits, NEW z, NEW y, IsView(z, c),
         NEW i \in Nodes, NEW l \in Links, NEW k \in Conns, Turn(z, y, i, l, k),
         Up0(z), SafeNode(z.node[i], y.node[i]), NEW m \in Nodes, Pre(z, m)
  PROVE  Pre(y, m)
<1>1. \A j \in Nodes : j <= m => Up(z.node[j]) /\ SafeNode(z.node[j], y.node[j])
  BY PreUp DEF Turn, SafeNode
<1>2. ASSUME NEW j \in Links, j <= m PROVE Good(y, j)
  <2>1. Good(z, j)
    BY <1>2 DEF Pre
  <2>2. j \in Nodes /\ j - 1 \in Nodes /\ j - 1 <= m
    BY <1>2, ConstFacts, SMTT(30)
  <2> QED
    BY ONLY <1>1, <1>2, <2>1, <2>2 DEF Good, SafeNode
<1> QED
  BY <1>2 DEF Pre

\* They keep their news when a turn keeps it.
LEMMA TurnNews ==
  ASSUME NEW c \in Circuits, NEW z, NEW y, IsView(z, c),
         NEW i \in Nodes, NEW l \in Links, NEW k \in Conns, Turn(z, y, i, l, k),
         Up0(z), SafeNode(z.node[i], y.node[i]), NEW m \in Nodes, Pre(z, m),
         NewsKept(z, y, i, l, k), News(z, m)
  PROVE  News(y, m)
<1>0. Pre(y, m)
  BY TurnPre
<1>1. \A j \in Nodes : j <= m => Up(z.node[j]) /\ (z.node[j].n # 0 => y.node[j].n = z.node[j].n)
  BY PreUp DEF Turn, SafeNode
<1>2. \A j \in Links : j <= m => /\ z.node[j - 1].n \in Conns /\ z.node[j].p = z.node[j - 1].n
                                 /\ z.node[j - 1].n # 0
  BY PreUp
<1>3. \A j \in Links : j <= m => /\ j \in Nodes /\ j - 1 \in Nodes /\ j - 1 <= m
                                 /\ y.node[j - 1].n = z.node[j - 1].n
  <2> SUFFICES ASSUME NEW j \in Links, j <= m
      PROVE /\ j \in Nodes /\ j - 1 \in Nodes /\ j - 1 <= m /\ y.node[j - 1].n = z.node[j - 1].n
    OBVIOUS
  <2>1. j \in Nodes /\ j - 1 \in Nodes /\ j - 1 <= m
    <3>1. j \in Nat /\ m \in Nat /\ j \in Nodes /\ j - 1 \in Nodes
      BY ConstFacts
    <3> QED
      BY ONLY <3>1, j <= m
  <2> QED
    BY <1>1, <1>2, <2>1
<1>4. CASE \E j \in Nodes : j <= m /\ Holds(z.node[j].inq, {"TRUNCATED"})
  <2>1. PICK j \in Nodes : j <= m /\ Holds(z.node[j].inq, {"TRUNCATED"})
    BY <1>4
  <2>2. CASE j # i
    <3>1. y.node[j] = z.node[j]
      BY <2>2 DEF Turn
    <3> QED
      BY <2>1, <3>1 DEF News
  <2>3. CASE j = i
    <3>1. \/ Holds(y.node[i].inq, {"TRUNCATED"})
          \/ i = l /\ z.node[i].p = k /\ Holds(y.bwd[l][k], {"TRUNCATED"})
      BY <1>1, <2>1, <2>3 DEF NewsKept
    <3>2. CASE Holds(y.node[i].inq, {"TRUNCATED"})
      BY <2>1, <2>3, <3>2 DEF News
    <3>3. CASE i = l /\ z.node[i].p = k /\ Holds(y.bwd[l][k], {"TRUNCATED"})
      <4>1. l <= m
        BY <2>1, <2>3, <3>3
      <4>2. y.node[l - 1].n = k
        BY <1>2, <1>3, <3>3, <4>1
      <4> QED
        BY <3>3, <4>1, <4>2 DEF News
    <3> QED
      BY <3>1, <3>2, <3>3
  <2> QED
    BY <2>2, <2>3
<1>5. CASE \E j \in Links : j <= m /\ Holds(z.bwd[j][z.node[j - 1].n], {"TRUNCATED"})
  <2>1. PICK j \in Links : j <= m /\ Holds(z.bwd[j][z.node[j - 1].n], {"TRUNCATED"})
    BY <1>5
  <2>2. PICK h \in Conns : h = z.node[j - 1].n
    BY <1>2, <2>1
  <2>3. y.node[j - 1].n = h /\ j - 1 \in Nodes /\ j - 1 <= m /\ Up(z.node[j - 1])
    BY <1>1, <1>3, <2>1, <2>2, SMTT(30)
  <2>4. CASE Holds(y.bwd[j][h], {"TRUNCATED"})
    BY <2>1, <2>3, <2>4 DEF News
  <2>5. CASE ~ Holds(y.bwd[j][h], {"TRUNCATED"})
    <3>1. j = l /\ h = k
      BY <2>1, <2>2, <2>5 DEF Turn
    <3>2. Shares(z, l, k)
      BY <2>2, <2>3, <3>1 DEF Shares
    <3>3. i = l - 1 /\ Holds(y.node[i].inq, {"TRUNCATED"})
      BY <2>1, <2>2, <2>5, <3>1, <3>2, SMTT(30) DEF NewsKept
    <3> QED
      BY <2>3, <3>1, <3>3 DEF News
  <2> QED
    BY <2>4, <2>5
<1>6. CASE m < PathLen /\ z.node[m].n # 0 /\ Holds(z.bwd[m + 1][z.node[m].n], {"DESTROY"})
  <2>1. PICK h \in Conns : h = z.node[m].n
    BY <1>6, ViewParts, ConstFacts, Zenon
  <2>2. m + 1 \in Links /\ m <= m /\ (m + 1) - 1 = m
    BY ONLY <1>6, m \in Nodes, CircuitBuildAssumption DEF Nodes, Links
  <2>3. y.node[m].n = h /\ Up(z.node[m])
    BY <1>1, <1>6, <2>1, <2>2
  <2>4. Holds(y.bwd[m + 1][h], {"DESTROY"})
    <3>1. CASE m + 1 = l /\ h = k
      <4>1. Shares(z, l, k)
        BY <2>1, <2>2, <2>3, <3>1, Zenon DEF Shares
      <4> QED
        BY <1>6, <2>1, <3>1, <4>1 DEF NewsKept
    <3>2. CASE m + 1 # l \/ h # k
      BY <1>6, <2>1, <2>2, <3>2 DEF Turn
    <3> QED
      BY <3>1, <3>2
  <2> QED
    BY <1>6, <2>1, <2>3, <2>4 DEF News
<1>7. CASE m < PathLen /\ z.node[m].n # 0 /\ z.far[m + 1][z.node[m].n] = "closed"
  <2>1. m <= m /\ y.far = z.far
    BY ConstFacts DEF Turn
  <2>2. y.node[m].n = z.node[m].n
    BY <1>1, <1>7, <2>1
  <2> QED
    BY <1>7, <2>1, <2>2 DEF News
<1> QED
  BY ONLY <1>4, <1>5, <1>6, <1>7, News(z, m) DEF News

\* Where the handshake is, seen from the chain of nodes that ends at node m.
OnChain(z, g, a, b, m) ==
  \/ g \in {"out", "in", "relay"} /\ a <= m
  \/ g \in {"fwd", "bwd"} /\ a # 0 /\ a <= m /\ b = z.node[a - 1].n
  \/ g = "fwd" /\ a = m + 1 /\ b = z.node[m].n /\ Holds(z.fwd[a][b], Creates)

\* A handshake within the chain is the one handshake there is.
LEMMA WithinPlace ==
  ASSUME NEW c \in Circuits, NEW z, IsView(z, c), Up0(z), Alone(z),
         NEW m \in Nodes, Pre(z, m), Within(z, m),
         NEW g \in Kinds, NEW a \in Nodes, NEW b \in Ks, At(z, g, a, b)
  PROVE  OnChain(z, g, a, b, m)
<1>1. /\ \A j \in Nodes : j <= m => Up(z.node[j])
      /\ \A j \in Links : j <= m => /\ z.node[j - 1].n \in Conns /\ z.node[j].p = z.node[j - 1].n
                                    /\ z.node[j - 1].n # 0
  BY PreUp
<1>2. \A h \in Kinds : \A d \in Nodes : \A e \in Ks : At(z, h, d, e) => g = h /\ a = d /\ b = e
  BY DEF Alone
<1>3. /\ {"out", "in", "relay", "fwd", "bwd"} \subseteq Kinds /\ 0 \in Ks /\ Conns \subseteq Ks
      /\ \A j \in Links : j \in Nodes /\ j # 0
  BY ConstFacts DEF Kinds
<1>4. CASE \E j \in Nodes : /\ j <= m
                      /\ \/ Holds(z.node[j].outq, Shaking) \/ Holds(z.node[j].inq, Shaking)
                         \/ j # 0 /\ z.node[j].state \in {"OR_WAIT", "ONIONSKIN_PENDING"}
  <2>1. PICK j \in Nodes : /\ j <= m
                      /\ \/ Holds(z.node[j].outq, Shaking) \/ Holds(z.node[j].inq, Shaking)
                         \/ j # 0 /\ z.node[j].state \in {"OR_WAIT", "ONIONSKIN_PENDING"}
    BY <1>4
  <2>2. At(z, "out", j, 0) \/ At(z, "in", j, 0) \/ At(z, "relay", j, 0)
    BY <1>1, <2>1 DEF At
  <2>3. g \in {"out", "in", "relay"} /\ a = j
    BY ONLY <1>2, <1>3, <2>2, j \in Nodes
  <2> QED
    BY <2>1, <2>3 DEF OnChain
<1>5. CASE \E j \in Links : /\ j <= m
                      /\ \/ Holds(z.fwd[j][z.node[j - 1].n], Shaking)
                         \/ Holds(z.bwd[j][z.node[j - 1].n], Shaking)
  <2>1. PICK j \in Links : /\ j <= m
                      /\ \/ Holds(z.fwd[j][z.node[j - 1].n], Shaking)
                         \/ Holds(z.bwd[j][z.node[j - 1].n], Shaking)
    BY <1>5
  <2>2. PICK k \in Conns : k = z.node[j - 1].n /\ k # 0
    BY <1>1, <2>1
  <2>3. At(z, "fwd", j, k) \/ At(z, "bwd", j, k)
    BY <1>3, <2>1, <2>2 DEF At
  <2>4. g \in {"fwd", "bwd"} /\ a = j /\ b = k
    BY ONLY <1>2, <1>3, <2>3, j \in Links, k \in Conns
  <2> QED
    BY <1>3, <2>1, <2>2, <2>4 DEF OnChain
<1>6. CASE m < PathLen /\ z.node[m].n # 0 /\ Holds(z.fwd[m + 1][z.node[m].n], Creates)
  <2>1. PICK k \in Conns : k = z.node[m].n /\ k # 0
    BY <1>6, ViewParts, ConstFacts, Zenon
  <2>2. PICK j \in Links : j = m + 1
    BY <1>6, ConstFacts
  <2>3. Holds(z.fwd[j][k], Creates)
    BY <1>6, <2>1, <2>2
  <2>4. Holds(z.fwd[j][k], Shaking)
    BY <2>3 DEF Holds, Creates, Shaking
  <2>5. At(z, "fwd", j, k)
    BY <1>3, <2>1, <2>4 DEF At
  <2>6. g = "fwd" /\ a = j /\ b = k
    BY ONLY <1>2, <1>3, <2>5, j \in Links, k \in Conns
  <2> QED
    BY <2>1, <2>2, <2>3, <2>6 DEF OnChain
<1> QED
  BY ONLY <1>4, <1>5, <1>6, Within(z, m) DEF Within

\* A handshake on the chain is within it.
LEMMA PlaceWithin ==
  ASSUME NEW z, NEW m \in Nodes, Pre(z, m),
         NEW g, NEW a \in Nodes, NEW b, At(z, g, a, b), OnChain(z, g, a, b, m)
  PROVE  Linked(z)
<1>1. CASE g \in {"out", "in", "relay"}
  BY <1>1, SMTT(30) DEF At, OnChain, Within, Linked
<1>2. CASE g \in {"fwd", "bwd"} /\ a <= m /\ a # 0 /\ b = z.node[a - 1].n
  <2>1. a \in Links
    BY <1>2, ConstFacts
  <2> QED
    BY <1>2, <2>1 DEF At, Within, Linked
<1>3. CASE g = "fwd" /\ a = m + 1 /\ b = z.node[m].n /\ Holds(z.fwd[a][b], Creates)
  <2>1. m < PathLen
    <3>1. m + 1 \in Nodes /\ PathLen \in Nat
      BY <1>3, ConstFacts
    <3> QED
      BY ONLY <3>1, m \in Nodes DEF Nodes
  <2>2. b # 0
    BY <1>3 DEF At
  <2> QED
    BY <1>3, <2>1, <2>2 DEF Within, Linked
<1> QED
  BY <1>1, <1>2, <1>3 DEF OnChain, At

\* What lies beyond the node and the connection stays clean.
LEMMA TurnClean ==
  ASSUME NEW z, NEW y, NEW i \in Nodes, NEW l \in Links, NEW k \in Conns, Turn(z, y, i, l, k),
         NEW t \in Nat, CleanFrom(z, t), l < t, i < t,
         i + 1 < t \/ z.node[i].n # 0 \/ y.node[i].n = 0
  PROVE  CleanFrom(y, t)
<1>1. ASSUME NEW j \in Links, j >= t PROVE Clean(y, j)
  <2>1. Clean(z, j)
    BY <1>1 DEF CleanFrom
  <2>2. j # l /\ j # i /\ j \in Nodes /\ j - 1 \in Nodes
    BY <1>1, ConstFacts
  <2>3. y.node[j] = NoCircuit /\ (\A h \in Conns : y.fwd[j][h] = <<>> /\ y.bwd[j][h] = <<>>)
    BY <2>1, <2>2 DEF Clean, Turn
  <2>4. y.node[j - 1].n = 0
    <3>1. CASE j - 1 # i
      BY <2>1, <2>2, <3>1 DEF Clean, Turn
    <3>2. CASE j - 1 = i
      <4>1. ~(i + 1 < t)
        BY <1>1, <2>2, <3>2, ConstFacts
      <4> QED
        BY <2>1, <3>2, <4>1 DEF Clean
    <3> QED
      BY <3>1, <3>2
  <2> QED
    BY <2>3, <2>4 DEF Clean
<1> QED
  BY <1>1 DEF CleanFrom

\* A step that takes the handshake from one place to another keeps the invariant.
LEMMA TokenTurn ==
  ASSUME NEW c \in Circuits, NEW z, NEW y, IsView(z, c), SteadyButWaiters(z),
         NEW i \in Nodes, NEW l \in Links, NEW k \in Conns, Turn(z, y, i, l, k),
         \A j \in Nodes : j # i => Waiter(z, j),
         NEW g \in Kinds, NEW a \in Nodes, NEW b \in Ks, At(z, g, a, b), Touched(g, a, b, i, l, k),
         NEW h \in Kinds, NEW d \in Nodes, NEW e \in Ks,
         \A f \in Kinds : \A p \in Nodes : \A q \in Ks :
           Touched(f, p, q, i, l, k) /\ At(y, f, p, q) => f = h /\ p = d /\ q = e,
         GoodAt(y, h, d, e),
         One(y.node[i].outq), One(y.node[i].inq), One(y.fwd[l][k]), One(y.bwd[l][k]),
         NodeShape(y, i), NodeUp(y, i), LinkShape(y, l, k), Agree(y),
         Building(y) => Building(z) \/ Linked(y),
         SafeNode(z.node[i], y.node[i]), NewsKept(z, y, i, l, k),
         \A m \in Nodes : Building(y) /\ Pre(z, m) /\ Pre(y, m) /\ OnChain(z, g, a, b, m) => Linked(y)
  PROVE  SteadyButWaiters(y) /\ \A j \in Nodes : j # i => Waiter(y, j)
<1>1. Shape(y)
  BY TurnShape DEF SteadyButWaiters
<1>2. Ups(y)
  BY TurnUps DEF SteadyButWaiters, Ups
<1>3. \A j \in Nodes : j # i => Waiter(y, j)
  BY TurnUps
<1>4. Ones(y)
  BY TurnOnes DEF SteadyButWaiters
<1>5. Alone(y) /\ Frontier(y)
  <2>1. Alone(z)
    BY DEF SteadyButWaiters
  <2> QED
    BY <2>1, TokenMove
<1>6. ASSUME Building(y) PROVE Linked(y)
  <2>1. CASE Building(z)
    <3>1. PICK m \in Nodes : Pre(z, m) /\ (News(z, m) \/ Within(z, m))
      BY <2>1 DEF SteadyButWaiters, Chain, Linked
    <3>2. Up0(z)
      BY <2>1 DEF Building
    <3>3. Pre(y, m)
      BY <3>1, <3>2, TurnPre, Zenon
    <3>4. CASE News(z, m)
      <4>1. News(y, m)
        BY <3>1, <3>2, <3>4, TurnNews
      <4> QED
        BY <3>3, <4>1 DEF Linked
    <3>5. CASE Within(z, m)
      <4>1. Alone(z)
        BY DEF SteadyButWaiters
      <4>2. OnChain(z, g, a, b, m)
        BY <3>1, <3>2, <3>5, <4>1, WithinPlace
      <4> QED
        BY <1>6, <3>1, <3>3, <4>2
    <3> QED
      BY <3>1, <3>4, <3>5
  <2> QED
    BY <1>6, <2>1
<1> QED
  BY <1>1, <1>2, <1>3, <1>4, <1>5, <1>6 DEF SteadyButWaiters, Chain

\* A turn that moves the handshake keeps the invariant, but for the waiter it may make.
LEMMA TokenStep ==
  ASSUME NEW c \in Circuits, NEW z, NEW y, IsView(z, c), SteadyButWaiters(z),
         NEW i \in Nodes, NEW l \in Links, NEW k \in Conns, Turn(z, y, i, l, k),
         \A j \in Nodes : j # i => Waiter(z, j),
         NEW g \in Kinds, NEW a \in Nodes, NEW b \in Ks, At(z, g, a, b), Touched(g, a, b, i, l, k),
         NEW h \in Kinds, NEW d \in Nodes, NEW e \in Ks,
         \A f \in Kinds : \A p \in Nodes : \A q \in Ks :
           Touched(f, p, q, i, l, k) /\ At(y, f, p, q) => f = h /\ p = d /\ q = e,
         GoodAt(y, h, d, e),
         One(y.node[i].outq), One(y.node[i].inq), One(y.fwd[l][k]), One(y.bwd[l][k]),
         NodeShape(y, i), NodeUp(y, i), Waiter(y, i), LinkShape(y, l, k), Agree(y),
         Building(y) => Building(z) \/ Linked(y),
         SafeNode(z.node[i], y.node[i]), NewsKept(z, y, i, l, k),
         \A m \in Nodes : Building(y) /\ Pre(z, m) /\ Pre(y, m) /\ OnChain(z, g, a, b, m) => Linked(y)
  PROVE  Inv(y)
<1>1. SteadyButWaiters(y) /\ \A j \in Nodes : j # i => Waiter(y, j)
  BY TokenTurn
<1> QED
  BY <1>1 DEF SteadyButWaiters, Inv, Waiters

\* A step that takes cells away: what there is to show for the chain.
LEMMA CalmStep ==
  ASSUME NEW c \in Circuits, NEW z, NEW y, IsView(z, c), Inv(z),
         NEW i \in Nodes, NEW l \in Links, NEW k \in Conns, Turn(z, y, i, l, k), Calm(z, y),
         NodeShape(y, i), LinkShape(y, l, k), Agree(y), Waiter(y, i)
  PROVE  /\ MarkReady(y, i) \/ ~ Chain(y)
         /\ NodeUp(y, i) /\ Chain(y) => Inv(y)
         /\ Shape(y) /\ Alone(y) /\ Ones(y) /\ Frontier(y)
         /\ \A j \in Nodes : j # i => NodeUp(y, j) /\ Waiter(y, j)
<1>1. Shape(y)
  BY TurnShape DEF Inv
<1>2. \A j \in Nodes : j # i => NodeUp(y, j) /\ Waiter(y, j)
  BY TurnUps DEF Inv, Ups, Waiters
<1>3. Alone(y) /\ Ones(y) /\ Frontier(y)
  BY CalmKeeps DEF Inv
<1>4. MarkReady(y, i) \/ ~ Chain(y)
  BY <1>1, <1>2, <1>3 DEF MarkReady, Chain
<1>5. NodeUp(y, i) /\ Chain(y) => Inv(y)
  BY <1>1, <1>2, <1>3 DEF Inv, Ups, Waiters
<1> QED
  BY <1>1, <1>2, <1>3, <1>4, <1>5

\* With the handshake at one place there is none elsewhere.
LEMMA Elsewhere ==
  ASSUME NEW z, Alone(z), NEW g \in Kinds, NEW a \in Nodes, NEW b \in Ks, At(z, g, a, b)
  PROVE  /\ \A j \in Nodes : Holds(z.node[j].outq, Shaking) => g = "out" /\ a = j
         /\ \A j \in Nodes : Holds(z.node[j].inq, Shaking) => g = "in" /\ a = j
         /\ \A l \in Links, k \in Conns : Holds(z.fwd[l][k], Shaking) => g = "fwd" /\ a = l /\ b = k
         /\ \A l \in Links, k \in Conns : Holds(z.bwd[l][k], Shaking) => g = "bwd" /\ a = l /\ b = k
         /\ \A j \in Links : Up(z.node[j]) /\ z.node[j].state \in {"OR_WAIT", "ONIONSKIN_PENDING"}
              => g = "relay" /\ a = j
         /\ z.node[0] = NoCircuit \/ (Up0(z) /\ z.node[0].state \in {"OR_WAIT", "OPEN"})
              => g = "origin"
<1>1. \A h \in Kinds : \A d \in Nodes : \A e \in Ks : At(z, h, d, e) => g = h /\ a = d /\ b = e
  BY DEF Alone
<1>2. /\ {"out", "in", "relay", "fwd", "bwd", "origin"} \subseteq Kinds
      /\ 0 \in Ks /\ Conns \subseteq Ks /\ 0 \in Nodes /\ 0 \notin Conns
      /\ \A j \in Links : j \in Nodes /\ j # 0
  BY ConstFacts DEF Kinds
<1>3. \A j \in Nodes : Holds(z.node[j].outq, Shaking) => At(z, "out", j, 0)
  BY DEF At
<1>4. \A j \in Nodes : Holds(z.node[j].inq, Shaking) => At(z, "in", j, 0)
  BY DEF At
<1>5. \A l \in Links, k \in Conns : Holds(z.fwd[l][k], Shaking) => At(z, "fwd", l, k)
  BY <1>2 DEF At
<1>6. \A l \in Links, k \in Conns : Holds(z.bwd[l][k], Shaking) => At(z, "bwd", l, k)
  BY <1>2 DEF At
<1>7. \A j \in Links : Up(z.node[j]) /\ z.node[j].state \in {"OR_WAIT", "ONIONSKIN_PENDING"}
              => At(z, "relay", j, 0)
  BY <1>2 DEF At
<1>8. z.node[0] = NoCircuit \/ (Up0(z) /\ z.node[0].state \in {"OR_WAIT", "OPEN"})
        => At(z, "origin", 0, 0)
  BY DEF At, Up0
<1>9. \A j \in Nodes : Holds(z.node[j].outq, Shaking) => g = "out" /\ a = j
  BY ONLY <1>1, <1>2, <1>3
<1>10. \A j \in Nodes : Holds(z.node[j].inq, Shaking) => g = "in" /\ a = j
  BY ONLY <1>1, <1>2, <1>4
<1>11. \A l \in Links, k \in Conns : Holds(z.fwd[l][k], Shaking) => g = "fwd" /\ a = l /\ b = k
  BY ONLY <1>1, <1>2, <1>5
<1>12. \A l \in Links, k \in Conns : Holds(z.bwd[l][k], Shaking) => g = "bwd" /\ a = l /\ b = k
  BY ONLY <1>1, <1>2, <1>6
<1>13. \A j \in Links : Up(z.node[j]) /\ z.node[j].state \in {"OR_WAIT", "ONIONSKIN_PENDING"}
              => g = "relay" /\ a = j
  BY ONLY <1>1, <1>2, <1>7
<1>14. z.node[0] = NoCircuit \/ (Up0(z) /\ z.node[0].state \in {"OR_WAIT", "OPEN"})
              => g = "origin"
  BY ONLY <1>1, <1>2, <1>8
<1> QED
  BY ONLY <1>9, <1>10, <1>11, <1>12, <1>13, <1>14

\* The places a turn touches, one by one.
LEMMA TouchedAre ==
  ASSUME NEW y, NEW i \in Nodes, NEW l \in Links, NEW k \in Conns, NEW h, NEW d, NEW e,
         Holds(y.node[i].outq, Shaking) => h = "out" /\ d = i /\ e = 0,
         Holds(y.node[i].inq, Shaking) => h = "in" /\ d = i /\ e = 0,
         Holds(y.fwd[l][k], Shaking) => h = "fwd" /\ d = l /\ e = k,
         Holds(y.bwd[l][k], Shaking) => h = "bwd" /\ d = l /\ e = k,
         i # 0 /\ Up(y.node[i]) /\ y.node[i].state \in {"OR_WAIT", "ONIONSKIN_PENDING"}
           => h = "relay" /\ d = i /\ e = 0,
         i = 0 /\ (y.node[i] = NoCircuit \/ (Up(y.node[i]) /\ y.node[i].state \in {"OR_WAIT", "OPEN"}))
           => h = "origin" /\ d = 0 /\ e = 0
  PROVE  \A f \in Kinds : \A p \in Nodes : \A q \in Ks :
           Touched(f, p, q, i, l, k) /\ At(y, f, p, q) => f = h /\ p = d /\ q = e
<1> SUFFICES ASSUME NEW f \in Kinds, NEW p \in Nodes, NEW q \in Ks,
                    Touched(f, p, q, i, l, k), At(y, f, p, q)
             PROVE  f = h /\ p = d /\ q = e
  OBVIOUS
<1>1. CASE f = "out"
  BY <1>1 DEF Touched, At
<1>2. CASE f = "in"
  BY <1>2 DEF Touched, At
<1>3. CASE f = "fwd"
  BY <1>3 DEF Touched, At
<1>4. CASE f = "bwd"
  BY <1>4 DEF Touched, At
<1>5. CASE f = "relay"
  BY <1>5 DEF Touched, At
<1>6. CASE f = "origin"
  BY <1>6 DEF Touched, At
<1> QED
  BY <1>1, <1>2, <1>3, <1>4, <1>5, <1>6 DEF Kinds

\* What the other nodes see of the origin stays as it is.
LEMMA TurnOrigin ==
  ASSUME NEW z, NEW y, NEW i \in Nodes, NEW l, NEW k, Turn(z, y, i, l, k),
         Up(y.node[i]) <=> Up(z.node[i]), y.node[i].hops = z.node[i].hops
  PROVE  /\ Up0(y) <=> Up0(z)
         /\ Hops(y) = Hops(z)
         /\ y.node[i].state = z.node[i].state \/ i # 0 => (Building(y) <=> Building(z))
<1>1. CASE i = 0
  BY <1>1 DEF Up0, Hops, Building
<1>2. CASE i # 0
  <2>1. y.node[0] = z.node[0]
    BY <1>2, ConstFacts DEF Turn
  <2> QED
    BY <2>1, <1>2 DEF Up0, Hops, Building
<1> QED
  BY <1>1, <1>2

\* The fields of a circuit with another queue.
LEMMA QueueFields ==
  ASSUME NEW c \in Circuits, NEW x \in CircsOf(c), NEW r \in Seq(CellsOf(c))
  PROVE  /\ \A u : u = [x EXCEPT !.outq = r] =>
              /\ u \in CircsOf(c) /\ u.outq = r /\ u.inq = x.inq /\ u.state = x.state
              /\ u.n = x.n /\ u.p = x.p /\ u.marked = x.marked /\ u.hops = x.hops
         /\ \A u : u = [x EXCEPT !.inq = r] =>
              /\ u \in CircsOf(c) /\ u.inq = r /\ u.outq = x.outq /\ u.state = x.state
              /\ u.n = x.n /\ u.p = x.p /\ u.marked = x.marked /\ u.hops = x.hops
BY Zenon DEF CircsOf
----------------------------------------------------------------------------
(* A cell leaves its queue for the connection.                             *)

\* The two ends of a link.
LEMMA LinkEnds ==
  ASSUME NEW l \in Links, NEW i, i = l - 1, NEW k \in Conns
  PROVE  /\ i \in Nodes /\ l \in Nodes /\ i # PathLen /\ i < PathLen /\ l # i /\ l # 0
         /\ l = i + 1 /\ i \in Nat /\ l \in Nat /\ i < l
         /\ k # 0 /\ k \in Ks /\ 0 \in Ks
         /\ \A m \in Nodes : m \in Nat /\ m <= m /\ (i <= m => l <= m \/ m = i)
                             /\ (m < l => m <= i) /\ m + 1 \in Nat /\ (m + 1 = l => m = i)
         /\ \A m \in Links : m \in Nodes /\ m - 1 \in Nodes /\ m # m - 1 /\ (m - 1 = i <=> m = l)
                             /\ (m <= l => m <= i \/ m = l)
BY ConstFacts DEF Nodes

\* Node i puts the first cell of its circuit on the wire, towards the exit.
FlushesOut(z, y, i, l, k) ==
  LET x == z.node[i]
  IN /\ x.outq # <<>> /\ x.n = k /\ Turn(z, y, i, l, k)
     /\ y.node[i] = [x EXCEPT !.outq = Tail(x.outq)]
     /\ y.fwd[l][k] = Append(z.fwd[l][k], Head(x.outq)) /\ y.bwd[l][k] = z.bwd[l][k]

\* connection_or_flush_from_first_active_circuit, towards the exit.
LEMMA FlushOutStep ==
  ASSUME NEW c \in Circuits, NEW z, NEW y, IsView(z, c), Inv(z),
         NEW l \in Links, NEW k \in Conns, NEW i \in Nodes, i = l - 1, FlushesOut(z, y, i, l, k)
  PROVE  Inv(y)
<1>x. PICK x : x = z.node[i]
  OBVIOUS
<1>u. PICK u : u = y.node[i]
  OBVIOUS
<1>d. /\ x.outq # <<>> /\ x.n = k
      /\ u = [x EXCEPT !.outq = Tail(x.outq)]
      /\ y.fwd[l][k] = Append(z.fwd[l][k], Head(x.outq))
  BY <1>x, <1>u DEF FlushesOut
<1>b. y.bwd[l][k] = z.bwd[l][k]
  BY DEF FlushesOut
<1>t. Turn(z, y, i, l, k)
  BY DEF FlushesOut
<1>1. NodeShape(z, i) /\ NodeUp(z, i)
  BY DEF Inv, Shape, Ups
<1>2. x \in CircsOf(c) /\ x.n \in Ks /\ x.outq \in Seq(CellsOf(c))
  BY <1>x, ViewParts
<1>4. /\ l \in Nodes /\ i # PathLen /\ i < PathLen /\ l # i /\ l # 0
      /\ l = i + 1 /\ i \in Nat /\ l \in Nat /\ i < l /\ l - 1 = i
      /\ k # 0 /\ k \in Ks /\ 0 \in Ks
  BY ONLY l \in Links, k \in Conns, i = l - 1, LinkEnds
<1>n. \A m \in Nodes : m \in Nat /\ m <= m /\ (i <= m => l <= m \/ m = i)
                             /\ (m < l => m <= i) /\ m + 1 \in Nat /\ (m + 1 = l => m = i)
  BY ONLY l \in Links, k \in Conns, i = l - 1, LinkEnds
<1>m. \A m \in Links : m \in Nodes /\ m - 1 \in Nodes /\ m # m - 1 /\ (m - 1 = i <=> m = l)
                             /\ (m <= l => m <= i \/ m = l)
  BY ONLY l \in Links, k \in Conns, i = l - 1, LinkEnds
<1>5. PICK r : r = Tail(x.outq)
  BY Zenon
<1>6. PICK e : e = Head(x.outq)
  OBVIOUS
<1>7. /\ r \in Seq(CellsOf(c)) /\ e \in CellsOf(c)
      /\ \A S : Holds(x.outq, S) <=> Holds(r, S) \/ e.cmd \in S
      /\ \A t : Aims(x.outq, t) <=> Aims(r, t) \/ (e.cmd = "EXTEND" /\ e.to = t)
      /\ \A S : Only(x.outq, S) <=> Only(r, S) /\ e.cmd \in S
      /\ One(x.outq) => One(r) /\ (e.cmd \in Shaking => ~ Holds(r, Shaking))
  <2>1. PICK o : o = x.outq
    OBVIOUS
  <2>2. o \in Seq(CellsOf(c)) /\ o # <<>> /\ r = Tail(o) /\ e = Head(o)
    BY <1>2, <1>5, <1>6, <1>d, <2>1
  <2>d. Dropped(o, e, r)
    BY ONLY <2>2 DEF Dropped
  <2>3. /\ r \in Seq(CellsOf(c)) /\ e \in CellsOf(c)
        /\ \A S : Holds(o, S) <=> Holds(r, S) \/ e.cmd \in S
        /\ \A t : Aims(o, t) <=> Aims(r, t) \/ (e.cmd = "EXTEND" /\ e.to = t)
        /\ \A S : Only(o, S) <=> Only(r, S) /\ e.cmd \in S
        /\ One(o) => One(r) /\ (e.cmd \in Shaking => ~ Holds(r, Shaking))
    BY ONLY <2>2, <2>d, DropCell
  <2> QED
    BY ONLY <2>1, <2>3
<1>8. /\ u.outq = r /\ u.inq = x.inq /\ u.state = x.state
      /\ u.n = x.n /\ u.p = x.p /\ u.marked = x.marked /\ u.hops = x.hops
  BY ONLY <1>2, <1>5, <1>7, <1>d, c \in Circuits, QueueFields
<1>9. One(x.outq) /\ One(x.inq) /\ One(z.fwd[l][k]) /\ One(z.bwd[l][k])
  BY <1>x DEF Inv, Ones
<1>10. e.cmd \in OutCmds /\ e.cmd \in Shaking /\ Only(r, OutCmds)
  <2>1. Only(x.outq, OutCmds)
    BY <1>1, <1>x DEF NodeShape
  <2>2. e.cmd \in OutCmds /\ Only(r, OutCmds)
    BY <1>7, <2>1
  <2> QED
    BY <2>2 DEF OutCmds, Shaking
<1>11. One(r) /\ ~ Holds(r, Shaking)
  BY <1>7, <1>9, <1>10
<1>12. At(z, "out", i, 0)
  BY <1>7, <1>10, <1>x DEF At
<1>13. "out" \in Kinds /\ "fwd" \in Kinds /\ 0 \in Ks
  BY ConstFacts DEF Kinds
<1>a. Alone(z)
  BY DEF Inv
<1>14. /\ ~ Holds(x.inq, Shaking) /\ ~ Holds(z.fwd[l][k], Shaking) /\ ~ Holds(z.bwd[l][k], Shaking)
       /\ i # 0 => ~(Up(x) /\ x.state \in {"OR_WAIT", "ONIONSKIN_PENDING"})
       /\ i = 0 => ~(x = NoCircuit \/ (Up(x) /\ x.state \in {"OR_WAIT", "OPEN"}))
  <2>1. \A j \in Nodes : Holds(z.node[j].inq, Shaking) => "out" = "in" /\ i = j
    BY ONLY <1>a, <1>12, <1>13, i \in Nodes, Elsewhere
  <2>2. \A m \in Links, h \in Conns : Holds(z.fwd[m][h], Shaking) => "out" = "fwd" /\ i = m /\ 0 = h
    BY ONLY <1>a, <1>12, <1>13, i \in Nodes, Elsewhere
  <2>3. \A m \in Links, h \in Conns : Holds(z.bwd[m][h], Shaking) => "out" = "bwd" /\ i = m /\ 0 = h
    BY ONLY <1>a, <1>12, <1>13, i \in Nodes, Elsewhere
  <2>4. \A j \in Links : Up(z.node[j]) /\ z.node[j].state \in {"OR_WAIT", "ONIONSKIN_PENDING"}
              => "out" = "relay" /\ i = j
    BY ONLY <1>a, <1>12, <1>13, i \in Nodes, Elsewhere
  <2>5. z.node[0] = NoCircuit \/ (Up0(z) /\ z.node[0].state \in {"OR_WAIT", "OPEN"}) => "out" = "origin"
    BY ONLY <1>a, <1>12, <1>13, i \in Nodes, Elsewhere
  <2>6. i # 0 => i \in Links
    BY ConstFacts
  <2> QED
    BY <1>x, <2>1, <2>2, <2>3, <2>4, <2>5, <2>6 DEF Up0
<1>15. PICK F : F = y.fwd[l][k]
  OBVIOUS
<1>16. PICK G : G = z.fwd[l][k]
  OBVIOUS
<1>17. G \in Seq(CellsOf(c)) /\ F = Append(G, e)
  BY <1>d, <1>6, <1>15, <1>16, ViewParts
<1>18. /\ \A S : Holds(F, S) <=> Holds(G, S) \/ e.cmd \in S
       /\ \A t : Aims(F, t) <=> Aims(G, t) \/ (e.cmd = "EXTEND" /\ e.to = t)
       /\ \A S : Only(F, S) <=> Only(G, S) /\ e.cmd \in S
       /\ One(G) /\ (e.cmd \notin Shaking \/ ~ Holds(G, Shaking)) => One(F)
       /\ Ord(G) => Ord(F)
  <2>1. e \in CellsOf(c)
    BY <1>7
  <2> QED
    BY ONLY <1>17, <2>1, AddCell, Zenon
<1>19. One(F)
  BY <1>9, <1>14, <1>16, <1>18
<1>20. Up(u) <=> Up(x)
  BY <1>8 DEF Up
<1>21. (Up0(y) <=> Up0(z)) /\ Hops(y) = Hops(z) /\ (Building(y) => Building(z))
  <2>1. (Up(y.node[i]) <=> Up(z.node[i])) /\ y.node[i].hops = z.node[i].hops /\ y.node[i].state = z.node[i].state
    BY <1>x, <1>u, <1>8, <1>20
  <2> QED
    BY ONLY <2>1, <1>t, i \in Nodes, TurnOrigin
<1>24. x.state # "none"
  BY <1>1, <1>x, <1>d DEF NodeShape, NoCircuit
<1>25. NodeShape(y, i)
  <2>1. y.near = z.near /\ y.far = z.far /\ y.len = z.len
    BY <1>t DEF Turn
  <2>2. x.n # 0
    BY <1>4, <1>d
  <2> QED
    BY ONLY <1>1, <1>8, <1>10, <1>24, <2>1, <2>2, <1>x, <1>u DEF NodeShape
<1>26. NodeUp(y, i)
  BY ONLY <1>1, <1>8, <1>20, <1>x, <1>u DEF NodeUp
<1>27. Waiter(y, i)
  <2>1. Waiter(z, i) /\ y.near = z.near
    BY <1>t DEF Inv, Waiters, Turn
  <2> QED
    BY ONLY <1>8, <1>20, <2>1, <1>x, <1>u DEF Waiter
<1>28. LinkShape(y, l, k)
  <2>1. LinkShape(z, l, k) /\ y.near = z.near /\ y.far = z.far
    BY <1>t DEF Inv, Shape, Turn
  <2>2. y.bwd[l][k] = z.bwd[l][k]
    BY <1>b
  <2>3. e.cmd \in OutCmds \cup {"DESTROY"}
    BY <1>10
  <2>4. Only(F, OutCmds \cup {"DESTROY"})
    BY <1>16, <1>18, <2>1, <2>3 DEF LinkShape
  <2> QED
    BY ONLY <1>15, <2>1, <2>2, <2>4 DEF LinkShape
<1>29. \A f \in Kinds : \A p \in Nodes : \A q \in Ks :
           Touched(f, p, q, i, l, k) /\ At(y, f, p, q) => f = "fwd" /\ p = l /\ q = k
  <2>1. ~ Holds(y.node[i].outq, Shaking) /\ ~ Holds(y.node[i].inq, Shaking)
    BY <1>u, <1>8, <1>11, <1>14
  <2>2. ~ Holds(y.bwd[l][k], Shaking)
    BY <1>b, <1>14
  <2>3. ~(i # 0 /\ Up(y.node[i]) /\ y.node[i].state \in {"OR_WAIT", "ONIONSKIN_PENDING"})
    BY <1>u, <1>8, <1>14, <1>20
  <2>4. ~(i = 0 /\ (y.node[i] = NoCircuit \/ (Up(y.node[i]) /\ y.node[i].state \in {"OR_WAIT", "OPEN"})))
    <3>1. u # NoCircuit
      <4>1. NoCircuit.state = "none"
        BY DEF NoCircuit
      <4> QED
        BY ONLY <1>8, <1>24, <4>1
    <3> QED
      BY <1>u, <1>8, <1>14, <1>20, <3>1
  <2> QED
    BY ONLY <2>1, <2>2, <2>3, <2>4, i \in Nodes, l \in Links, k \in Conns, TouchedAre, Zenon
<1>f. Frontier(z)
  BY DEF Inv
<1>30. GoodQueue(z, x.outq, i)
  BY <1>f, <1>x DEF Frontier
<1>31. ~ Holds(G, Creates) /\ ~ Holds(G, {"CREATED"}) /\ ~ Holds(G, {"EXTENDED"}) /\ \A t : ~ Aims(G, t)
  BY <1>14, <1>16 DEF Holds, Aims, Creates, Shaking
<1>32. GoodAt(y, "fwd", l, k)
  <2>1. ASSUME Holds(F, Creates) PROVE Fresh(y, l) /\ (Up0(y) => i <= Hops(y))
    <3>1. Holds(x.outq, Creates)
      BY <1>7, <1>18, <1>31, <2>1
    <3>2. Fresh(z, l) /\ (Up0(z) => i <= Hops(z))
      BY <1>4, <1>30, <3>1 DEF GoodQueue
    <3>3. CleanFrom(y, l + 1)
      <4>1. l + 1 \in Nat /\ l < l + 1 /\ i < l + 1 /\ i + 1 < l + 1
        BY ONLY <1>4
      <4>2. CleanFrom(z, l + 1)
        BY <3>2 DEF Fresh
      <4> QED
        BY ONLY <1>t, <4>1, <4>2, i \in Nodes, l \in Links, k \in Conns, TurnClean, Zenon
    <3>4. y.node[l] = NoCircuit /\ \A h \in Conns : y.bwd[l][h] = <<>>
      BY <1>t, <1>b, <1>4, <3>2 DEF Fresh, Turn
    <3> QED
      BY ONLY <1>21, <3>2, <3>3, <3>4 DEF Fresh
  <2>2. ASSUME NEW t \in Nodes, Aims(F, t)
        PROVE  t \in 1 .. PathLen - 1 /\ CleanFrom(y, t + 1) /\ (Up0(y) => t <= Hops(y))
    <3>1. Aims(x.outq, t)
      BY <1>7, <1>18, <1>31, <2>2
    <3>2. t \in 1 .. PathLen - 1 /\ CleanFrom(z, t + 1) /\ (Up0(z) => t <= Hops(z))
      BY <1>30, <3>1 DEF GoodQueue
    <3>3. l < t + 1
      <4> SUFFICES ASSUME ~(l < t + 1) PROVE FALSE
        OBVIOUS
      <4>0. t \in Nat
        BY <1>n
      <4>1. l >= t + 1
        BY ONLY <1>4, <4>0, ~(l < t + 1)
      <4>2. Clean(z, l)
        BY <3>2, <4>1 DEF CleanFrom
      <4> QED
        BY <1>4, <1>d, <1>x, <4>2, Zenon DEF Clean
    <3>4. CleanFrom(y, t + 1)
      <4>0. t \in Nat
        BY <1>n
      <4>1. t + 1 \in Nat /\ i < t + 1 /\ i + 1 < t + 1
        BY ONLY <1>4, <3>3, <4>0
      <4> QED
        BY ONLY <1>t, <3>2, <3>3, <4>1, i \in Nodes, l \in Links, k \in Conns, TurnClean, Zenon
    <3> QED
      BY <1>21, <3>2, <3>4
  <2>3. ~ Holds(F, {"CREATED"}) /\ ~ Holds(F, {"EXTENDED"})
    BY <1>10, <1>18, <1>31 DEF OutCmds
  <2>4. GoodQueue(y, F, i)
    BY ONLY <2>1, <2>2, <2>3, <1>4 DEF GoodQueue
  <2> QED
    BY <1>4, <1>15, <2>4 DEF GoodAt
<1>33. Agree(y)
  <2>0. Agree(z)
    BY DEF Inv
  <2>1. CASE e.cmd \notin Creates
    <3>1. SameEnds(z.node[i], y.node[i])
      <4>1. Holds(r, Creates) <=> Holds(x.outq, Creates)
        BY <1>7, <2>1
      <4> QED
        BY <1>x, <1>u, <1>8, <1>20, <4>1 DEF SameEnds
    <3>2. SameTalk(z, y, l, k)
      <4>1. e.cmd # "DESTROY"
        BY <1>10, CommandsDiffer
      <4>2. y.bwd[l][k] = z.bwd[l][k]
        BY <1>b
      <4> QED
        BY ONLY <1>15, <1>16, <1>18, <2>1, <4>1, <4>2 DEF SameTalk
    <3> QED
      BY <1>t, <2>0, <3>1, <3>2, TurnSame
  <2>2. CASE e.cmd \in Creates
    <3>1. ASSUME NEW m \in Links, NEW h \in Conns
          PROVE  LinkA(y, m, h) /\ LinkB(y, m, h) /\ LinkC(y, m, h) /\ LinkD(y, m, h)
      <4>1. LinkA(z, m, h) /\ LinkB(z, m, h) /\ LinkC(z, m, h) /\ LinkD(z, m, h)
        BY <2>0 DEF Agree
      <4>2. m \in Nodes /\ m - 1 \in Nodes /\ (m - 1 = i <=> m = l)
        BY <1>m
      <4>3. \A j \in Nodes : y.node[j].n = z.node[j].n /\ y.node[j].p = z.node[j].p
                             /\ y.node[j].marked = z.node[j].marked /\ (Up(y.node[j]) <=> Up(z.node[j]))
        BY <1>t, <1>x, <1>u, <1>8, <1>20 DEF Turn
      <4>4. y.near = z.near /\ y.far = z.far /\ y.over = z.over
        BY <1>t DEF Turn
      <4>5. CASE m # l
        <5>1. y.node[m - 1] = z.node[m - 1] /\ y.fwd[m][h] = z.fwd[m][h] /\ y.bwd[m][h] = z.bwd[m][h]
          BY <1>t, <4>2, <4>5 DEF Turn
        <5> QED
          BY ONLY <4>1, <4>2, <4>3, <4>4, <5>1 DEF LinkA, LinkB, LinkC, LinkD, Shares, Kept
      <4>6. CASE m = l /\ h # k
        <5>1. y.fwd[m][h] = z.fwd[m][h] /\ y.bwd[m][h] = z.bwd[m][h]
          BY <1>t, <4>6 DEF Turn
        <5>2. y.node[m - 1].n # h
          BY ONLY <1>u, <1>d, <1>8, <4>2, <4>6, Zenon
        <5> QED
          BY ONLY <4>1, <4>2, <4>3, <4>4, <5>1, <5>2 DEF LinkA, LinkB, LinkC, LinkD, Shares, Kept
      <4>7. CASE m = l /\ h = k
        <5>1. Holds(F, {"DESTROY"}) <=> Holds(G, {"DESTROY"})
          <6>1. e.cmd # "DESTROY"
            BY <1>10, CommandsDiffer
          <6> QED
            BY <1>18, <6>1
        <5>2. Holds(F, Creates)
          BY <1>18, <2>2
        <5>3. y.bwd[l][k] = z.bwd[l][k]
          BY <1>b
        <5>4. Shares(y, l, k) \/ i \in y.over
          <6>1. Late(z, i) /\ Holds(x.outq, Creates)
            BY <1>7, <2>0, <2>2 DEF Agree
          <6>2. CASE x.marked
            BY <1>x, <4>4, <6>1, <6>2 DEF Late
          <6>3. CASE ~ x.marked
            BY <1>4, <1>u, <1>d, <1>8, <1>20, <1>24, <6>3, Zenon DEF Shares, Up
          <6> QED
            BY <6>2, <6>3
        <5>5. LinkA(y, l, k) /\ LinkB(y, l, k)
          BY ONLY <1>15, <1>16, <4>1, <4>2, <4>3, <4>4, <4>7, <5>1, <5>3 DEF LinkA, LinkB, Shares, Kept
        <5>6. LinkC(y, l, k) /\ LinkD(y, l, k)
          BY ONLY <1>4, <1>15, <5>2, <5>4 DEF LinkC, LinkD
        <5> QED
          BY <4>7, <5>5, <5>6
      <4> QED
        BY <4>5, <4>6, <4>7
    <3>2. \A j \in Nodes : Late(y, j)
      <4> SUFFICES ASSUME NEW j \in Nodes PROVE Late(y, j)
        OBVIOUS
      <4>1. CASE j # i
        BY <1>t, <2>0, <4>1 DEF Agree, Late, Turn
      <4>2. CASE j = i
        <5>1. ~ Holds(u.outq, Creates)
          BY <1>8, <1>11 DEF Holds, Creates, Shaking
        <5> QED
          BY <1>u, <4>2, <5>1 DEF Late
      <4> QED
        BY <4>1, <4>2
    <3> QED
      BY <3>1, <3>2 DEF Agree
  <2> QED
    BY <2>1, <2>2
<1>34. SafeNode(x, u)
  BY <1>8, <1>20 DEF SafeNode
<1>35. NewsKept(z, y, i, l, k)
  BY <1>x, <1>u, <1>b, <1>8 DEF NewsKept
<1>36. ASSUME NEW m \in Nodes, Building(y), Pre(z, m), Pre(y, m), OnChain(z, "out", i, 0, m)
       PROVE  Linked(y)
  <2>1. i <= m
    BY <1>36 DEF OnChain
  <2>2. At(y, "fwd", l, k)
    BY <1>4, <1>10, <1>15, <1>18 DEF At
  <2>3. y.node[l - 1].n = k
    BY <1>u, <1>d, <1>4, <1>8
  <2>4. CASE l <= m
    <3>1. OnChain(y, "fwd", l, k, m)
      BY <1>4, <2>3, <2>4 DEF OnChain
    <3> QED
      BY ONLY <1>4, <1>36, <2>2, <3>1, PlaceWithin
  <2>5. CASE ~(l <= m)
    <3>1. m = i
      BY ONLY <1>n, <2>1, <2>5, m \in Nodes
    <3>2. CASE e.cmd \in Creates
      <4>1. OnChain(y, "fwd", l, k, m)
        BY ONLY <1>4, <1>15, <1>18, <2>3, <3>1, <3>2 DEF OnChain
      <4> QED
        BY ONLY <1>4, <1>36, <2>2, <4>1, PlaceWithin
    <3>3. CASE e.cmd \notin Creates
      <4>1. Up0(z)
        BY <1>21, <1>36 DEF Building
      <4>2. Up(x)
        <5>1. m <= m
          BY <1>n
        <5> QED
          BY <1>x, <1>36, <3>1, <4>1, <5>1, PreUp
      <4>3. Shares(z, l, k)
        BY <1>4, <1>x, <1>d, <4>2, Zenon DEF Shares
      <4>4. ~ Holds(x.outq, Creates)
        <5>1. ~ Holds(r, Creates)
          BY <1>11 DEF Holds, Creates, Shaking
        <5> QED
          BY <1>7, <3>3, <5>1
      <4>5. LinkD(z, l, k)
        BY DEF Inv, Agree
      <4>6. Kept(z, l, k) \/ Holds(z.bwd[l][k], {"DESTROY"}) \/ z.far[l][k] = "closed"
        BY ONLY <1>4, <1>16, <1>31, <4>3, <4>4, <4>5, <1>x DEF LinkD
      <4>7. CASE Kept(z, l, k)
        <5>1. Good(y, l)
          <6>1. y.node[l] = z.node[l]
            BY <1>t, <1>4 DEF Turn
          <6> QED
            BY ONLY <1>4, <1>u, <1>d, <1>8, <1>20, <4>2, <4>7, <6>1, Zenon DEF Good, Kept
        <5>2. \A j \in Links : j <= l => j <= m \/ j = l
          BY ONLY <1>m, <3>1
        <5>3. Pre(y, l)
          BY <1>36, <5>1, <5>2 DEF Pre
        <5>4. OnChain(y, "fwd", l, k, l)
          BY ONLY <1>4, <2>3 DEF OnChain
        <5> QED
          BY ONLY <1>4, <2>2, <5>3, <5>4, PlaceWithin
      <4>8. CASE Holds(z.bwd[l][k], {"DESTROY"}) \/ z.far[l][k] = "closed"
        <5>1. y.far = z.far /\ m + 1 = l /\ y.node[m].n = k /\ m < PathLen
          BY ONLY <1>4, <1>t, <1>u, <1>d, <1>8, <3>1, Zenon DEF Turn
        <5>2. News(y, m)
          BY ONLY <1>4, <1>b, <4>8, <5>1 DEF News
        <5> QED
          BY <1>36, <5>2 DEF Linked
      <4> QED
        BY <4>6, <4>7, <4>8
    <3> QED
      BY <3>2, <3>3
  <2> QED
    BY <2>4, <2>5
<1>37. SteadyButWaiters(z) /\ \A j \in Nodes : j # i => Waiter(z, j)
  BY DEF Inv, SteadyButWaiters, Waiters
<1>38. Touched("out", i, 0, i, l, k)
  BY DEF Touched
<1>39. /\ One(y.node[i].outq) /\ One(y.node[i].inq) /\ One(y.fwd[l][k]) /\ One(y.bwd[l][k])
  BY <1>u, <1>b, <1>8, <1>9, <1>11, <1>15, <1>19
<1>40. Building(y) => Building(z) \/ Linked(y)
  BY <1>21
<1>41. SafeNode(z.node[i], y.node[i])
  BY <1>x, <1>u, <1>34, SMTT(30)
<1> QED
  BY ONLY <1>4, <1>12, <1>13, <1>25, <1>26, <1>27, <1>28, <1>29, <1>32, <1>33, <1>35, <1>36, <1>37,
     <1>38, <1>39, <1>40, <1>41, <1>t, c \in Circuits, i \in Nodes, l \in Links, k \in Conns,
     IsView(z, c), TokenStep

\* The handshake stays where it is.
TokenKept(z, y, i, l, k) ==
  /\ y.node[i].state = z.node[i].state
  /\ Holds(z.node[i].outq, Shaking) => Holds(y.node[i].outq, Shaking)
  /\ Holds(z.node[i].inq, Shaking) => Holds(y.node[i].inq, Shaking)
  /\ Holds(z.fwd[l][k], Shaking) => Holds(y.fwd[l][k], Shaking)
  /\ Holds(z.fwd[l][k], Creates) => Holds(y.fwd[l][k], Creates)
  /\ Holds(z.bwd[l][k], Shaking) => Holds(y.bwd[l][k], Shaking)

\* A handshake within the chain stays there.
LEMMA TurnWithin ==
  ASSUME NEW c \in Circuits, NEW z, NEW y, IsView(z, c),
         NEW i \in Nodes, NEW l \in Links, NEW k \in Conns, Turn(z, y, i, l, k),
         Up0(z), SafeNode(z.node[i], y.node[i]), NEW m \in Nodes, Pre(z, m),
         TokenKept(z, y, i, l, k), Within(z, m)
  PROVE  Within(y, m)
<1>1. \A j \in Nodes : j <= m => (z.node[j].n # 0 => y.node[j].n = z.node[j].n)
  BY PreUp DEF Turn, SafeNode
<1>2. \A j \in Links : j <= m => z.node[j - 1].n \in Conns /\ z.node[j - 1].n # 0
  BY PreUp
<1>3. ASSUME NEW j \in Links, j <= m
      PROVE  j \in Nodes /\ j - 1 \in Nodes /\ y.node[j - 1].n = z.node[j - 1].n
  <2>1. j \in Nodes /\ j - 1 \in Nodes /\ j \in Nat /\ m \in Nat
    BY ConstFacts
  <2>2. j - 1 <= m
    BY ONLY <1>3, <2>1
  <2> QED
    BY ONLY <1>1, <1>2, <1>3, <2>1, <2>2, j \in Links
<1>4. \A j \in Nodes : /\ y.node[j].state = z.node[j].state
                       /\ Holds(z.node[j].outq, Shaking) => Holds(y.node[j].outq, Shaking)
                       /\ Holds(z.node[j].inq, Shaking) => Holds(y.node[j].inq, Shaking)
  BY DEF Turn, TokenKept
<1>5. ASSUME NEW j \in Links, NEW h \in Conns
      PROVE  /\ Holds(z.fwd[j][h], Shaking) => Holds(y.fwd[j][h], Shaking)
             /\ Holds(z.fwd[j][h], Creates) => Holds(y.fwd[j][h], Creates)
             /\ Holds(z.bwd[j][h], Shaking) => Holds(y.bwd[j][h], Shaking)
  <2>1. CASE j = l /\ h = k
    BY <2>1 DEF TokenKept
  <2>2. CASE j # l \/ h # k
    BY <2>2 DEF Turn
  <2> QED
    BY <2>1, <2>2
<1>6. CASE \E j \in Nodes : /\ j <= m
                      /\ \/ Holds(z.node[j].outq, Shaking) \/ Holds(z.node[j].inq, Shaking)
                         \/ j # 0 /\ z.node[j].state \in {"OR_WAIT", "ONIONSKIN_PENDING"}
  BY ONLY <1>4, <1>6 DEF Within
<1>7. CASE \E j \in Links : /\ j <= m
                      /\ \/ Holds(z.fwd[j][z.node[j - 1].n], Shaking)
                         \/ Holds(z.bwd[j][z.node[j - 1].n], Shaking)
  <2>1. PICK j \in Links : /\ j <= m
                      /\ \/ Holds(z.fwd[j][z.node[j - 1].n], Shaking)
                         \/ Holds(z.bwd[j][z.node[j - 1].n], Shaking)
    BY <1>7
  <2>2. PICK h \in Conns : h = z.node[j - 1].n
    BY <1>2, <2>1
  <2>3. y.node[j - 1].n = h
    BY <1>3, <2>1, <2>2
  <2>4. Holds(y.fwd[j][h], Shaking) \/ Holds(y.bwd[j][h], Shaking)
    BY <1>5, <2>1, <2>2
  <2> QED
    BY ONLY <2>1, <2>3, <2>4, j \in Links DEF Within
<1>8. CASE m < PathLen /\ z.node[m].n # 0 /\ Holds(z.fwd[m + 1][z.node[m].n], Creates)
  <2>1. PICK h \in Conns : h = z.node[m].n
    BY <1>8, ViewParts, ConstFacts, Zenon
  <2>2. PICK j \in Links : j = m + 1
    BY <1>8, ConstFacts
  <2>3. y.node[m].n = h
    <3>1. m <= m
      BY ConstFacts
    <3> QED
      BY ONLY <1>1, <1>8, <2>1, <3>1, m \in Nodes
  <2>4. Holds(y.fwd[j][h], Creates)
    BY <1>5, <1>8, <2>1, <2>2
  <2> QED
    BY ONLY <1>8, <2>1, <2>2, <2>3, <2>4 DEF Within
<1> QED
  BY ONLY <1>6, <1>7, <1>8, Within(z, m) DEF Within

\* A turn that keeps the handshake and the news keeps the chain.
LEMMA ChainSame ==
  ASSUME NEW c \in Circuits, NEW z, NEW y, IsView(z, c),
         NEW i \in Nodes, NEW l \in Links, NEW k \in Conns, Turn(z, y, i, l, k),
         SafeNode(z.node[i], y.node[i]), TokenKept(z, y, i, l, k), NewsKept(z, y, i, l, k),
         Building(y) => Building(z), Chain(z)
  PROVE  Chain(y)
<1> SUFFICES ASSUME Building(y) PROVE Linked(y)
  BY DEF Chain
<1>1. PICK m \in Nodes : Pre(z, m) /\ (News(z, m) \/ Within(z, m))
  BY DEF Chain, Linked
<1>2. Up0(z)
  BY DEF Building
<1>3. Pre(y, m)
  BY <1>1, <1>2, TurnPre
<1>4. News(z, m) => News(y, m)
  BY <1>1, <1>2, TurnNews
<1>5. Within(z, m) => Within(y, m)
  BY <1>1, <1>2, TurnWithin
<1> QED
  BY <1>1, <1>3, <1>4, <1>5 DEF Linked

\* Node l puts the first cell of its circuit on the wire, towards the origin.
FlushesIn(z, y, l, k) ==
  LET x == z.node[l]
  IN /\ x.inq # <<>> /\ x.p = k /\ Turn(z, y, l, l, k)
     /\ y.node[l] = [x EXCEPT !.inq = Tail(x.inq)]
     /\ y.bwd[l][k] = Append(z.bwd[l][k], Head(x.inq)) /\ y.fwd[l][k] = z.fwd[l][k]

\* connection_or_flush_from_first_active_circuit, towards the origin.
LEMMA FlushInStep ==
  ASSUME NEW c \in Circuits, NEW z, NEW y, IsView(z, c), Inv(z),
         NEW l \in Links, NEW k \in Conns, FlushesIn(z, y, l, k)
  PROVE  Inv(y)
<1>x. PICK x : x = z.node[l]
  OBVIOUS
<1>u. PICK u : u = y.node[l]
  OBVIOUS
<1>d. /\ x.inq # <<>> /\ x.p = k
      /\ u = [x EXCEPT !.inq = Tail(x.inq)]
      /\ y.bwd[l][k] = Append(z.bwd[l][k], Head(x.inq))
  BY <1>x, <1>u DEF FlushesIn
<1>b. y.fwd[l][k] = z.fwd[l][k]
  BY DEF FlushesIn
<1>t. Turn(z, y, l, l, k)
  BY DEF FlushesIn
<1>4. /\ l \in Nodes /\ l - 1 \in Nodes /\ l # l - 1 /\ l # 0
      /\ l \in Nat /\ k # 0 /\ k \in Ks /\ 0 \in Ks
  <2>1. PICK i : i = l - 1
    OBVIOUS
  <2> QED
    BY ONLY <2>1, l \in Links, k \in Conns, LinkEnds
<1>1. NodeShape(z, l) /\ NodeUp(z, l) /\ Waiter(z, l)
  BY <1>4 DEF Inv, Shape, Ups, Waiters
<1>2. x \in CircsOf(c) /\ x.inq \in Seq(CellsOf(c))
  BY <1>4, <1>x, ViewParts
<1>5. PICK r : r = Tail(x.inq)
  BY Zenon
<1>6. PICK e : e = Head(x.inq)
  OBVIOUS
<1>7. /\ r \in Seq(CellsOf(c)) /\ e \in CellsOf(c)
      /\ \A S : Holds(x.inq, S) <=> Holds(r, S) \/ e.cmd \in S
      /\ \A t : Aims(x.inq, t) <=> Aims(r, t) \/ (e.cmd = "EXTEND" /\ e.to = t)
      /\ \A S : Only(x.inq, S) <=> Only(r, S) /\ e.cmd \in S
      /\ One(x.inq) => One(r) /\ (e.cmd \in Shaking => ~ Holds(r, Shaking))
  <2>1. PICK o : o = x.inq
    OBVIOUS
  <2>2. o \in Seq(CellsOf(c)) /\ Dropped(o, e, r)
    BY <1>2, <1>5, <1>6, <1>d, <2>1 DEF Dropped
  <2>3. /\ r \in Seq(CellsOf(c)) /\ e \in CellsOf(c)
        /\ \A S : Holds(o, S) <=> Holds(r, S) \/ e.cmd \in S
        /\ \A t : Aims(o, t) <=> Aims(r, t) \/ (e.cmd = "EXTEND" /\ e.to = t)
        /\ \A S : Only(o, S) <=> Only(r, S) /\ e.cmd \in S
        /\ One(o) => One(r) /\ (e.cmd \in Shaking => ~ Holds(r, Shaking))
    BY ONLY <2>2, DropCell
  <2> QED
    BY ONLY <2>1, <2>3
<1>8. /\ u.inq = r /\ u.outq = x.outq /\ u.state = x.state
      /\ u.n = x.n /\ u.p = x.p /\ u.marked = x.marked /\ u.hops = x.hops
  BY ONLY <1>2, <1>5, <1>7, <1>d, c \in Circuits, QueueFields
<1>9. One(x.outq) /\ One(x.inq) /\ One(z.fwd[l][k]) /\ One(z.bwd[l][k])
  BY <1>x, <1>4 DEF Inv, Ones
<1>10. e.cmd \in InCmds /\ Only(r, InCmds) /\ One(r)
  <2>1. Only(x.inq, InCmds)
    BY <1>1, <1>x DEF NodeShape
  <2> QED
    BY <1>7, <1>9, <2>1
<1>15. PICK F : F = y.bwd[l][k]
  OBVIOUS
<1>16. PICK G : G = z.bwd[l][k]
  OBVIOUS
<1>17. G \in Seq(CellsOf(c)) /\ F = Append(G, e)
  BY <1>d, <1>6, <1>15, <1>16, ViewParts
<1>18. /\ \A S : Holds(F, S) <=> Holds(G, S) \/ e.cmd \in S
       /\ \A t : Aims(F, t) <=> Aims(G, t) \/ (e.cmd = "EXTEND" /\ e.to = t)
       /\ \A S : Only(F, S) <=> Only(G, S) /\ e.cmd \in S
       /\ One(G) /\ (e.cmd \notin Shaking \/ ~ Holds(G, Shaking)) => One(F)
       /\ Ord(G) => Ord(F)
  <2>1. e \in CellsOf(c)
    BY <1>7
  <2> QED
    BY ONLY <1>17, <2>1, AddCell, Zenon
<1>20. Up(u) <=> Up(x)
  BY <1>8 DEF Up
<1>21. (Up0(y) <=> Up0(z)) /\ Hops(y) = Hops(z) /\ (Building(y) => Building(z))
  <2>1. (Up(y.node[l]) <=> Up(z.node[l])) /\ y.node[l].hops = z.node[l].hops /\ y.node[l].state = z.node[l].state
    BY <1>x, <1>u, <1>8, <1>20
  <2> QED
    BY ONLY <2>1, <1>t, <1>4, TurnOrigin, Zenon
<1>24. x.state # "none"
  BY <1>1, <1>x, <1>d DEF NodeShape, NoCircuit
<1>25. NodeShape(y, l)
  <2>1. y.near = z.near /\ y.far = z.far /\ y.len = z.len
    BY <1>t DEF Turn
  <2>2. x.p # 0
    BY <1>4, <1>d
  <2> QED
    BY ONLY <1>1, <1>8, <1>10, <1>24, <2>1, <2>2, <1>x, <1>u DEF NodeShape
<1>26. NodeUp(y, l)
  BY ONLY <1>1, <1>8, <1>20, <1>x, <1>u DEF NodeUp
<1>27. Waiter(y, l)
  <2>1. y.near = z.near
    BY <1>t DEF Turn
  <2> QED
    BY ONLY <1>8, <1>20, <1>1, <2>1, <1>x, <1>u DEF Waiter
<1>28. LinkShape(y, l, k)
  <2>1. LinkShape(z, l, k) /\ y.near = z.near /\ y.far = z.far
    BY <1>t DEF Inv, Shape, Turn
  <2>3. e.cmd \in InCmds \cup {"DESTROY"}
    BY <1>10
  <2>4. Only(F, InCmds \cup {"DESTROY"})
    BY <1>16, <1>18, <2>1, <2>3 DEF LinkShape
  <2> QED
    BY ONLY <1>15, <1>b, <2>1, <2>4 DEF LinkShape
<1>33. Agree(y)
  <2>0. Agree(z)
    BY DEF Inv
  <2>1. SameEnds(z.node[l], y.node[l])
    BY <1>x, <1>u, <1>8, <1>20 DEF SameEnds
  <2>2. SameTalk(z, y, l, k)
    <3>1. e.cmd # "DESTROY"
      BY <1>10 DEF InCmds
    <3> QED
      BY ONLY <1>15, <1>16, <1>18, <3>1, <1>b DEF SameTalk
  <2> QED
    BY <1>t, <1>4, <2>0, <2>1, <2>2, TurnSame
<1>34. SafeNode(z.node[l], y.node[l])
  BY <1>x, <1>u, <1>8, <1>20 DEF SafeNode
<1>35. NewsKept(z, y, l, l, k)
  <2>1. Holds(x.inq, {"TRUNCATED"}) => Holds(u.inq, {"TRUNCATED"}) \/ Holds(F, {"TRUNCATED"})
    BY <1>7, <1>8, <1>18
  <2>2. \A S : Holds(G, S) => Holds(F, S)
    BY <1>18
  <2> QED
    BY ONLY <1>x, <1>u, <1>d, <1>15, <1>16, <2>1, <2>2 DEF NewsKept
<1>40. CASE e.cmd \notin Shaking
  <2>1. \A q : e.cmd \in {"CREATED", "EXTENDED"} \cup Creates => e.cmd \in Shaking
    BY DEF Creates, Shaking
  <2>2. Thin(F, G) /\ Thin(r, x.inq)
    <3>1. e.cmd # "EXTEND"
      BY <1>40 DEF Shaking
    <3> QED
      BY ONLY <1>7, <1>18, <1>40, <2>1, <3>1 DEF Thin
  <2>3. ASSUME NEW a \in Nodes
        PROVE /\ Thin(y.node[a].outq, z.node[a].outq) /\ Thin(y.node[a].inq, z.node[a].inq)
              /\ Up(y.node[a]) => Up(z.node[a]) /\ y.node[a].state = z.node[a].state
              /\ z.node[a] = NoCircuit => y.node[a] = NoCircuit
              /\ z.node[a].n = 0 => y.node[a].n = 0
    <3>1. CASE a # l
      BY <1>t, <3>1, ThinSelf DEF Turn
    <3>2. CASE a = l
      <4>1. x # NoCircuit
        BY <1>24 DEF NoCircuit
      <4> QED
        BY ONLY <1>x, <1>u, <1>8, <1>20, <2>2, <3>2, <4>1, ThinSelf
    <3> QED
      BY <3>1, <3>2
  <2>4. ASSUME NEW m \in Links, NEW h \in Conns
        PROVE /\ Thin(y.fwd[m][h], z.fwd[m][h]) /\ Thin(y.bwd[m][h], z.bwd[m][h])
              /\ y.fwd[m][h] = z.fwd[m][h]
              /\ m # l => y.bwd[m][h] = z.bwd[m][h]
    <3>1. CASE m # l \/ h # k
      BY <1>t, <3>1, ThinSelf DEF Turn
    <3>2. CASE m = l /\ h = k
      BY <1>b, <1>15, <1>16, <2>2, <3>2, ThinSelf
    <3> QED
      BY <3>1, <3>2
  <2>5. \A m \in Links : (Clean(z, m) => Clean(y, m)) /\ (Bare(z, m) => Bare(y, m))
    <3> SUFFICES ASSUME NEW m \in Links PROVE (Clean(z, m) => Clean(y, m)) /\ (Bare(z, m) => Bare(y, m))
      OBVIOUS
    <3>1. m \in Nodes /\ m - 1 \in Nodes
      BY ConstFacts
    <3>2. x # NoCircuit
      BY <1>24 DEF NoCircuit
    <3> QED
      BY ONLY <1>x, <2>3, <2>4, <3>1, <3>2, m \in Links DEF Clean, Bare
  <2>6. y.node[0] = z.node[0]
    BY <1>t, <1>4, ConstFacts DEF Turn
  <2>7. Calm(z, y)
    BY ONLY <1>21, <2>3, <2>4, <2>5, <2>6 DEF Calm
  <2>8. TokenKept(z, y, l, l, k)
    <3>1. Holds(x.inq, Shaking) => Holds(u.inq, Shaking)
      BY <1>7, <1>8, <1>40
    <3> QED
      BY ONLY <1>x, <1>u, <1>8, <1>b, <1>15, <1>16, <1>18, <3>1 DEF TokenKept
  <2>9. Chain(y)
    <3>1. Chain(z) /\ (Building(y) => Building(z))
      BY <1>21 DEF Inv
    <3> QED
      BY ONLY <1>4, <1>t, <1>34, <1>35, <2>8, <3>1, c \in Circuits, IsView(z, c), l \in Links,
         k \in Conns, ChainSame
  <2> QED
    BY ONLY <1>4, <1>t, <1>25, <1>26, <1>27, <1>28, <1>33, <2>7, <2>9, c \in Circuits, IsView(z, c),
       Inv(z),
       l \in Links, k \in Conns, CalmStep
<1>50. CASE e.cmd \in Shaking
  <2>1. ~ Holds(r, Shaking)
    BY <1>7, <1>9, <1>50
  <2>12. At(z, "in", l, 0)
    BY <1>7, <1>50, <1>x DEF At
  <2>13. "in" \in Kinds /\ "bwd" \in Kinds
    BY DEF Kinds
  <2>a. Alone(z)
    BY DEF Inv
  <2>14. /\ ~ Holds(x.outq, Shaking) /\ ~ Holds(z.fwd[l][k], Shaking) /\ ~ Holds(G, Shaking)
         /\ ~(Up(x) /\ x.state \in {"OR_WAIT", "ONIONSKIN_PENDING"})
    <3>1. \A j \in Nodes : Holds(z.node[j].outq, Shaking) => "in" = "out" /\ l = j
      BY ONLY <2>a, <2>12, <2>13, <1>4, Elsewhere
    <3>2. \A m \in Links, h \in Conns : Holds(z.fwd[m][h], Shaking) => "in" = "fwd" /\ l = m /\ 0 = h
      BY ONLY <2>a, <2>12, <2>13, <1>4, Elsewhere
    <3>3. \A m \in Links, h \in Conns : Holds(z.bwd[m][h], Shaking) => "in" = "bwd" /\ l = m /\ 0 = h
      BY ONLY <2>a, <2>12, <2>13, <1>4, Elsewhere
    <3>4. \A j \in Links : Up(z.node[j]) /\ z.node[j].state \in {"OR_WAIT", "ONIONSKIN_PENDING"}
              => "in" = "relay" /\ l = j
      BY ONLY <2>a, <2>12, <2>13, <1>4, Elsewhere
    <3> QED
      BY <1>4, <1>x, <1>16, <3>1, <3>2, <3>3, <3>4
  <2>15. One(F)
    BY <1>9, <1>16, <1>18, <2>14
  <2>29. \A f \in Kinds : \A p \in Nodes : \A q \in Ks :
           Touched(f, p, q, l, l, k) /\ At(y, f, p, q) => f = "bwd" /\ p = l /\ q = k
    <3>1. ~ Holds(y.node[l].outq, Shaking) /\ ~ Holds(y.node[l].inq, Shaking)
      BY <1>u, <1>8, <2>1, <2>14
    <3>2. ~ Holds(y.fwd[l][k], Shaking)
      BY <1>b, <2>14
    <3>3. ~(Up(y.node[l]) /\ y.node[l].state \in {"OR_WAIT", "ONIONSKIN_PENDING"})
      BY <1>u, <1>8, <1>20, <2>14
    <3> QED
      BY ONLY <1>4, <3>1, <3>2, <3>3, l \in Links, k \in Conns, TouchedAre, Zenon
  <2>f. GoodQueue(z, x.inq, l)
    BY <1>4, <1>x DEF Inv, Frontier
  <2>31. ~ Holds(G, Creates) /\ ~ Holds(G, {"CREATED"}) /\ ~ Holds(G, {"EXTENDED"}) /\ \A t : ~ Aims(G, t)
    BY <2>14 DEF Holds, Aims, Creates, Shaking
  <2>c. \A t \in Nat : CleanFrom(z, t) /\ l < t => CleanFrom(y, t)
    <3> SUFFICES ASSUME NEW t \in Nat, CleanFrom(z, t), l < t PROVE CleanFrom(y, t)
      OBVIOUS
    <3>1. z.node[l].n # 0 \/ y.node[l].n = 0
      BY <1>x, <1>u, <1>8
    <3> QED
      BY ONLY <1>4, <1>t, <3>1, CleanFrom(z, t), l < t, t \in Nat, l \in Links, k \in Conns,
         TurnClean, Zenon
  <2>32. GoodAt(y, "bwd", l, k)
    <3>1. e.cmd \notin Creates /\ e.cmd # "EXTEND"
      BY <1>10 DEF InCmds, Creates
    <3>2. ~ Holds(F, Creates) /\ \A t : ~ Aims(F, t)
      BY <1>18, <2>31, <3>1
    <3>3. ASSUME Holds(F, {"CREATED"}) PROVE CleanFrom(y, l + 1) /\ (Up0(y) => l <= Hops(y) + 1)
      <4>1. Holds(x.inq, {"CREATED"})
        BY <1>7, <1>18, <2>31, <3>3
      <4>2. CleanFrom(z, l + 1) /\ (Up0(z) => l <= Hops(z) + 1)
        BY <2>f, <4>1 DEF GoodQueue
      <4>3. l + 1 \in Nat /\ l < l + 1
        BY ONLY <1>4
      <4> QED
        BY <1>21, <2>c, <4>2, <4>3
    <3>4. ASSUME Holds(F, {"EXTENDED"}), Up0(y) PROVE CleanFrom(y, Hops(y) + 2)
      <4>1. Holds(x.inq, {"EXTENDED"})
        BY <1>7, <1>18, <2>31, <3>4
      <4>2. CleanFrom(z, Hops(z) + 2)
        BY <1>21, <2>f, <3>4, <4>1 DEF GoodQueue
      <4>3. Hops(z) \in Nat
        BY ViewParts, ConstFacts, Zenon DEF Hops
      <4>4. Hops(z) + 2 \in Nat /\ (l < Hops(z) + 2 \/ l >= Hops(z) + 2)
        BY ONLY <1>4, <4>3
      <4>5. ASSUME l >= Hops(z) + 2 PROVE FALSE
        <5>1. Clean(z, l)
          BY <4>2, <4>5 DEF CleanFrom
        <5> QED
          BY <1>x, <1>24, <5>1 DEF Clean, NoCircuit
      <4> QED
        BY <1>21, <2>c, <4>2, <4>4, <4>5
    <3>5. GoodQueue(y, F, l)
      BY ONLY <3>2, <3>3, <3>4 DEF GoodQueue
    <3> QED
      BY <1>15, <3>5 DEF GoodAt
  <2>36. ASSUME NEW m \in Nodes, Building(y), Pre(z, m), Pre(y, m), OnChain(z, "in", l, 0, m)
         PROVE  Linked(y)
    <3>1. l <= m
      BY <2>36 DEF OnChain
    <3>2. At(y, "bwd", l, k)
      BY <1>4, <1>15, <1>18, <1>50 DEF At
    <3>3. Good(y, l)
      BY <2>36, <3>1 DEF Pre
    <3>4. OnChain(y, "bwd", l, k, m)
      BY ONLY <1>4, <1>u, <1>d, <1>8, <3>1, <3>3 DEF OnChain, Good
    <3> QED
      BY ONLY <1>4, <2>36, <3>2, <3>4, PlaceWithin
  <2>37. SteadyButWaiters(z) /\ \A j \in Nodes : j # l => Waiter(z, j)
    BY DEF Inv, SteadyButWaiters, Waiters
  <2>38. Touched("in", l, 0, l, l, k)
    BY DEF Touched
  <2>39. /\ One(y.node[l].outq) /\ One(y.node[l].inq) /\ One(y.fwd[l][k]) /\ One(y.bwd[l][k])
    BY <1>u, <1>b, <1>8, <1>9, <1>10, <1>15, <2>15
  <2>40. Building(y) => Building(z) \/ Linked(y)
    BY <1>21
  <2> QED
    BY ONLY <1>4, <2>12, <2>13, <1>25, <1>26, <1>27, <1>28, <2>29, <2>32, <1>33, <1>35, <2>36, <2>37,
     <2>38, <2>39, <2>40, <1>34, <1>t, c \in Circuits, l \in Links, k \in Conns, IsView(z, c), TokenStep
<1> QED
  BY <1>40, <1>50

----------------------------------------------------------------------------
(* command_process_create_cell                                             *)

\* The circuit of a relay that took a CREATE cell.
NewCirc(s, k, q) == [state |-> s, n |-> 0, p |-> k, marked |-> FALSE, hops |-> 0,
                     outq |-> <<>>, inq |-> q]

\* The relay refuses with a DESTROY, hands the onionskin to a CPU worker, or answers.
ReadsCreate(z, y, l, k, c) ==
  /\ z.fwd[l][k] # <<>> /\ Head(z.fwd[l][k]).cmd \in Creates /\ z.far[l][k] = "open"
  /\ Turn(z, y, l, l, k) /\ y.fwd[l][k] = Tail(z.fwd[l][k])
  /\ \/ y.node[l] = z.node[l] /\ y.bwd[l][k] = Append(z.bwd[l][k], Cell("DESTROY", c, 0))
     \/ /\ y.bwd[l][k] = z.bwd[l][k]
        /\ \/ y.node[l] = NewCirc("ONIONSKIN_PENDING", k, <<>>)
           \/ y.node[l] = NewCirc("OPEN", k, Append(<<>>, Cell("CREATED", c, 0)))

\* command_process_create_cell.
LEMMA CreateStep ==
  ASSUME NEW c \in Circuits, NEW z, NEW y, IsView(z, c), Inv(z),
         NEW l \in Links, NEW k \in Conns, ReadsCreate(z, y, l, k, c)
  PROVE  Inv(y)
<1>u. PICK u : u = y.node[l]
  OBVIOUS
<1>q. PICK Q : Q = z.fwd[l][k]
  OBVIOUS
<1>r. PICK r : r = y.fwd[l][k]
  OBVIOUS
<1>e. PICK e : e = Head(Q)
  OBVIOUS
<1>B. PICK B : B = y.bwd[l][k]
  OBVIOUS
<1>d. Dropped(Q, e, r) /\ e.cmd \in Creates /\ z.far[l][k] = "open"
  BY <1>q, <1>r, <1>e DEF ReadsCreate, Dropped
<1>t. Turn(z, y, l, l, k)
  BY DEF ReadsCreate
<1>c. \/ u = z.node[l] /\ B = Append(z.bwd[l][k], Cell("DESTROY", c, 0))
      \/ /\ B = z.bwd[l][k]
         /\ \/ u = NewCirc("ONIONSKIN_PENDING", k, <<>>)
            \/ u = NewCirc("OPEN", k, Append(<<>>, Cell("CREATED", c, 0)))
  BY <1>u, <1>B DEF ReadsCreate
<1>i. PICK i : i = l - 1
  OBVIOUS
<1>4. /\ l \in Nodes /\ l # i /\ l # 0 /\ i \in Nodes /\ i < PathLen /\ l = i + 1 /\ i \in Nat /\ l \in Nat
      /\ k # 0 /\ k \in Ks /\ 0 \in Ks
  BY ONLY <1>i, l \in Links, k \in Conns, LinkEnds
<1>n. \A m \in Nodes : m \in Nat /\ m <= m /\ m + 1 \in Nat /\ (m + 1 = l => m = i)
  BY ONLY <1>i, l \in Links, k \in Conns, LinkEnds
<1>m. \A m \in Links : m \in Nodes /\ m - 1 \in Nodes /\ m # m - 1 /\ (m - 1 = i <=> m = l)
                       /\ (m <= l => m <= i \/ m = l)
  BY ONLY <1>i, l \in Links, k \in Conns, LinkEnds
<1>5. Q \in Seq(CellsOf(c))
  BY <1>q, ViewParts
<1>6. /\ \A S : Holds(Q, S) <=> Holds(r, S) \/ e.cmd \in S
      /\ \A S : Only(Q, S) <=> Only(r, S) /\ e.cmd \in S
      /\ One(Q) => One(r) /\ (e.cmd \in Shaking => ~ Holds(r, Shaking))
  BY ONLY <1>5, <1>d, DropCell
<1>7. One(Q) /\ One(z.bwd[l][k])
  BY <1>q DEF Inv, Ones
<1>8. e.cmd \in Shaking /\ Holds(Q, Shaking) /\ Holds(Q, Creates)
  <2>1. e.cmd \in Shaking
    BY <1>d DEF Creates, Shaking
  <2> QED
    BY <1>6, <1>d, <2>1
<1>9. One(r) /\ ~ Holds(r, Shaking)
  BY <1>6, <1>7, <1>8
<1>10. ~ Holds(r, Creates)
  BY <1>9 DEF Holds, Creates, Shaking
<1>11. Fresh(z, l) /\ (Up0(z) => i <= Hops(z))
  <2>1. GoodQueue(z, Q, i)
    BY <1>q, <1>i DEF Inv, Frontier
  <2> QED
    BY <1>4, <1>8, <2>1 DEF GoodQueue
<1>12. /\ z.node[l] = NoCircuit /\ (\A h \in Conns : z.bwd[l][h] = <<>>) /\ CleanFrom(z, l + 1)
  BY <1>11 DEF Fresh
<1>13. ~ Up(NoCircuit) /\ NoCircuit.n = 0 /\ NoCircuit.p = 0 /\ NoCircuit.outq = <<>>
       /\ NoCircuit.inq = <<>> /\ ~ NoCircuit.marked /\ NoCircuit.hops = 0 /\ NoCircuit.state = "none"
  BY DEF Up, NoCircuit
<1>14. PICK a : a = Cell("CREATED", c, 0)
  OBVIOUS
<1>15. PICK v : v = Append(<<>>, a)
  BY Zenon
<1>16. a \in CellsOf(c) /\ a.cmd = "CREATED"
  BY <1>14, ConstFacts DEF Cell, CellsOf, Commands
<1>17. /\ \A S : Holds(v, S) <=> Holds(<<>>, S) \/ a.cmd \in S
       /\ \A t : Aims(v, t) <=> Aims(<<>>, t) \/ (a.cmd = "EXTEND" /\ a.to = t)
       /\ \A S : Only(v, S) <=> Only(<<>>, S) /\ a.cmd \in S
       /\ One(<<>>) /\ (a.cmd \notin Shaking \/ ~ Holds(<<>>, Shaking)) => One(v)
       /\ v # <<>>
  <2>1. PICK o : o = <<>>
    OBVIOUS
  <2>2. o \in Seq(CellsOf(c)) /\ v = Append(o, a)
    BY <1>15, <2>1
  <2>3. /\ \A S : Holds(v, S) <=> Holds(o, S) \/ a.cmd \in S
        /\ \A t : Aims(v, t) <=> Aims(o, t) \/ (a.cmd = "EXTEND" /\ a.to = t)
        /\ \A S : Only(v, S) <=> Only(o, S) /\ a.cmd \in S
        /\ One(o) /\ (a.cmd \notin Shaking \/ ~ Holds(o, Shaking)) => One(v)
        /\ v # <<>>
    BY ONLY <1>16, <2>2, AddCell, Zenon
  <2> QED
    BY ONLY <2>1, <2>3
<1>18. PICK w : w = Append(<<>>, Cell("DESTROY", c, 0))
  BY Zenon
<1>19. /\ \A S : Holds(w, S) <=> "DESTROY" \in S
       /\ \A S : Only(w, S) <=> "DESTROY" \in S
       /\ One(w)
  <2>1. PICK o : o = <<>>
    OBVIOUS
  <2>2. PICK f : f = Cell("DESTROY", c, 0)
    OBVIOUS
  <2>3. o \in Seq(CellsOf(c)) /\ w = Append(o, f) /\ f \in CellsOf(c) /\ f.cmd = "DESTROY"
    BY <1>18, <2>1, <2>2, ByeCell
  <2>4. /\ \A S : Holds(w, S) <=> Holds(o, S) \/ f.cmd \in S
        /\ \A S : Only(w, S) <=> Only(o, S) /\ f.cmd \in S
        /\ One(o) /\ (f.cmd \notin Shaking \/ ~ Holds(o, Shaking)) => One(w)
    BY ONLY <2>3, AddCell, Zenon
  <2> QED
    BY ONLY <2>1, <2>3, <2>4, EmptyQueue
<1>20. \/ u = NoCircuit /\ B = w
       \/ B = <<>> /\ u = NewCirc("ONIONSKIN_PENDING", k, <<>>)
       \/ B = <<>> /\ u = NewCirc("OPEN", k, v)
  BY <1>c, <1>12, <1>14, <1>15, <1>18
\* What the three outcomes have in common, and what tells them apart.
<1>21. /\ u.n = 0 /\ u.outq = <<>> /\ ~ u.marked /\ u.hops = 0
       /\ \/ u = NoCircuit /\ B = w /\ u.inq = <<>> /\ u.p = 0 /\ ~ Up(u)
          \/ B = <<>> /\ u.state = "ONIONSKIN_PENDING" /\ u.inq = <<>> /\ u.p = k /\ Up(u)
          \/ B = <<>> /\ u.state = "OPEN" /\ u.inq = v /\ u.p = k /\ Up(u)
  <2>1. CASE u = NoCircuit /\ B = w
    BY <1>13, <2>1
  <2>2. CASE B = <<>> /\ u = NewCirc("ONIONSKIN_PENDING", k, <<>>)
    BY <2>2 DEF NewCirc, Up
  <2>3. CASE B = <<>> /\ u = NewCirc("OPEN", k, v)
    BY <2>3 DEF NewCirc, Up
  <2> QED
    BY <1>20, <2>1, <2>2, <2>3
<1>22. y.node[0] = z.node[0] /\ y.near = z.near /\ y.far = z.far /\ y.len = z.len /\ y.over = z.over
  BY <1>4, <1>t, ConstFacts DEF Turn
<1>23. (Up0(y) <=> Up0(z)) /\ Hops(y) = Hops(z) /\ (Building(y) <=> Building(z))
  BY <1>22 DEF Up0, Hops, Building
<1>24. CleanFrom(y, l + 1)
  <2>1. l + 1 \in Nat /\ l < l + 1
    BY ONLY <1>4
  <2>2. y.node[l].n = 0
    BY <1>u, <1>21
  <2> QED
    BY ONLY <1>4, <1>t, <1>12, <2>1, <2>2, l \in Links, k \in Conns, TurnClean
<1>25. NodeShape(y, l)
  <2>1. NodeShape(z, l)
    BY <1>4 DEF Inv, Shape
  <2>2. CASE u = NoCircuit
    BY ONLY <1>12, <1>22, <1>u, <2>1, <2>2 DEF NodeShape
  <2>3. CASE B = <<>> /\ u.state = "ONIONSKIN_PENDING" /\ u.inq = <<>> /\ u.p = k /\ Up(u)
    BY ONLY <1>4, <1>d, <1>21, <1>22, <1>u, <2>3, EmptyQueue DEF NodeShape
  <2>4. CASE B = <<>> /\ u.state = "OPEN" /\ u.inq = v /\ u.p = k /\ Up(u)
    <3>1. Only(v, InCmds)
      BY <1>16, <1>17, EmptyQueue DEF InCmds
    <3> QED
      BY ONLY <1>4, <1>d, <1>21, <1>22, <1>u, <2>4, <3>1, EmptyQueue DEF NodeShape
  <2> QED
    BY <1>21, <2>2, <2>3, <2>4
<1>26. NodeUp(y, l)
  BY ONLY <1>4, <1>21, <1>u DEF NodeUp
<1>27. Waiter(y, l)
  BY ONLY <1>13, <1>21, <1>u DEF Waiter
<1>28. LinkShape(y, l, k)
  <2>1. LinkShape(z, l, k)
    BY DEF Inv, Shape
  <2>2. Only(r, OutCmds \cup {"DESTROY"})
    BY <1>6, <1>q, <2>1 DEF LinkShape
  <2>3. Only(B, InCmds \cup {"DESTROY"})
    BY <1>19, <1>21, EmptyQueue
  <2> QED
    BY ONLY <1>r, <1>B, <1>22, <2>1, <2>2, <2>3 DEF LinkShape
<1>29. One(y.node[l].outq) /\ One(y.node[l].inq) /\ One(y.fwd[l][k]) /\ One(y.bwd[l][k])
  BY <1>u, <1>r, <1>B, <1>9, <1>16, <1>17, <1>19, <1>21, EmptyQueue
<1>30. PICK g \in Kinds : g = IF u.state = "OPEN" THEN "in" ELSE "relay"
  BY DEF Kinds
<1>31. \A f \in Kinds : \A p \in Nodes : \A q \in Ks :
           Touched(f, p, q, l, l, k) /\ At(y, f, p, q) => f = g /\ p = l /\ q = 0
  <2>1. ~ Holds(y.node[l].outq, Shaking) /\ ~ Holds(y.fwd[l][k], Shaking) /\ ~ Holds(y.bwd[l][k], Shaking)
    BY <1>u, <1>r, <1>B, <1>9, <1>19, <1>21, EmptyQueue, CommandsDiffer
  <2>2. Holds(y.node[l].inq, Shaking) => g = "in"
    BY <1>u, <1>30, <1>21, EmptyQueue
  <2>3. Up(y.node[l]) /\ y.node[l].state \in {"OR_WAIT", "ONIONSKIN_PENDING"} => g = "relay"
    BY <1>u, <1>30
  <2> QED
    BY ONLY <1>4, <2>1, <2>2, <2>3, l \in Links, k \in Conns, TouchedAre, SMTT(30)
<1>32. GoodAt(y, g, l, 0)
  <2>1. Up0(y) => l <= Hops(y) + 1
    <3>1. Hops(z) \in Nat
      BY ViewParts, ConstFacts, Zenon DEF Hops
    <3> QED
      BY ONLY <1>4, <1>11, <1>23, <3>1
  <2>2. CASE g = "in"
    <3>1. GoodQueue(y, u.inq, l)
      <4>1. CASE u.inq = <<>>
        BY <4>1, EmptyQueue DEF GoodQueue
      <4>2. CASE u.inq = v
        <5>1. ~ Holds(v, Creates) /\ ~ Holds(v, {"EXTENDED"}) /\ \A t : ~ Aims(v, t)
          BY <1>16, <1>17, EmptyQueue DEF Creates
        <5> QED
          BY ONLY <1>24, <2>1, <4>2, <5>1 DEF GoodQueue
      <4> QED
        BY <1>21, <4>1, <4>2
    <3> QED
      BY ONLY <1>u, <2>2, <3>1 DEF GoodAt
  <2>3. CASE g = "relay"
    <3>1. GoodWaiter(y, l)
      BY ONLY <1>u, <1>13, <1>21, <1>24, <2>1 DEF GoodWaiter
    <3> QED
      BY ONLY <2>3, <3>1 DEF GoodAt
  <2> QED
    BY <1>30, <2>2, <2>3
<1>33. Agree(y)
  <2>1. ASSUME NEW m \in Links, NEW h \in Conns
        PROVE  LinkA(y, m, h) /\ LinkB(y, m, h) /\ LinkC(y, m, h) /\ LinkD(y, m, h)
    <3>1. LinkA(z, m, h) /\ LinkB(z, m, h) /\ LinkC(z, m, h) /\ LinkD(z, m, h)
      BY DEF Inv, Agree
    <3>2. m \in Nodes /\ m - 1 \in Nodes /\ m # m - 1 /\ h # 0
      BY <1>m, ConstFacts
    <3>3. CASE m # l /\ m - 1 # l
      <4>1. /\ y.node[m] = z.node[m] /\ y.node[m - 1] = z.node[m - 1]
            /\ y.fwd[m][h] = z.fwd[m][h] /\ y.bwd[m][h] = z.bwd[m][h]
        BY <1>t, <3>2, <3>3 DEF Turn
      <4> QED
        BY ONLY <1>22, <3>1, <4>1 DEF LinkA, LinkB, LinkC, LinkD, Shares, Kept
    <3>4. CASE m - 1 = l
      <4>1. Clean(y, m)
        <5>1. m >= l + 1
          <6>1. m \in Nat
            BY <3>2, <1>n
          <6> QED
            BY ONLY <3>4, <6>1, <1>4
        <5> QED
          BY <1>24, <5>1 DEF CleanFrom
      <4>2. y.node[m] = NoCircuit /\ y.fwd[m][h] = <<>> /\ y.bwd[m][h] = <<>> /\ y.node[m - 1].n = 0
        BY <4>1 DEF Clean
      <4> QED
        BY ONLY <1>13, <3>2, <4>2, EmptyQueue DEF LinkA, LinkB, LinkC, LinkD, Shares, Kept
    <3>5. CASE m = l /\ h # k
      <4>1. /\ y.node[m - 1] = z.node[m - 1]
            /\ y.fwd[m][h] = z.fwd[m][h] /\ y.bwd[m][h] = z.bwd[m][h]
        BY <1>t, <3>2, <3>5 DEF Turn
      <4>2. y.bwd[m][h] = <<>> /\ y.node[m].p # h /\ ~ Kept(z, m, h)
        BY <1>12, <1>13, <1>u, <1>21, <3>2, <3>5, <4>1 DEF Kept
      <4> QED
        BY ONLY <1>22, <3>1, <4>1, <4>2, EmptyQueue DEF LinkA, LinkB, LinkC, LinkD, Shares, Kept
    <3>6. CASE m = l /\ h = k
      <4>1. LinkA(z, l, k) /\ LinkC(z, l, k)
        BY <3>1, <3>6
      <4>2. y.node[i] = z.node[i]
        BY <1>4, <1>t DEF Turn
      <4>3. e.cmd # "DESTROY"
        BY <1>d, CommandsDiffer
      <4>4. Holds(r, {"DESTROY"}) <=> Holds(Q, {"DESTROY"})
        BY <1>6, <4>3
      <4>5. Ord(Q) => Holds(Q, {"DESTROY"})
        BY DEF Ord, Holds
      <4>6. Shares(y, l, k) <=> Shares(z, l, k)
        BY <1>i, <4>2 DEF Shares
      <4>7. LinkA(y, l, k)
        <5>1. Holds(B, {"DESTROY"}) => u.p = 0
          BY <1>21, EmptyQueue
        <5> QED
          BY ONLY <1>i, <1>4, <1>q, <1>r, <1>B, <1>u, <4>1, <4>2, <4>4, <5>1 DEF LinkA
      <4>8. LinkB(y, l, k)
        BY ONLY <1>8, <1>q, <1>r, <1>22, <4>1, <4>4, <4>5, <4>6 DEF LinkB, LinkC
      <4>9. LinkC(y, l, k)
        BY ONLY <1>r, <1>10 DEF LinkC
      <4>10. LinkD(y, l, k)
        <5>1. Kept(y, l, k) \/ Holds(B, {"DESTROY"})
          BY <1>u, <1>19, <1>21 DEF Kept
        <5> QED
          BY ONLY <1>B, <5>1 DEF LinkD
      <4> QED
        BY <3>6, <4>7, <4>8, <4>9, <4>10
    <3> QED
      BY <3>3, <3>4, <3>5, <3>6
  <2>2. ASSUME NEW j \in Nodes PROVE Late(y, j)
    <3>1. CASE j # l
      BY <1>t, <3>1 DEF Inv, Agree, Late, Turn
    <3>2. CASE j = l
      BY ONLY <1>u, <1>21, <3>2 DEF Late
    <3> QED
      BY <3>1, <3>2
  <2> QED
    BY <2>1, <2>2 DEF Agree
<1>34. SafeNode(z.node[l], y.node[l])
  BY <1>12, <1>13 DEF SafeNode
<1>35. NewsKept(z, y, l, l, k)
  <2>1. z.bwd[l][k] = <<>>
    BY <1>12
  <2> QED
    BY ONLY <1>12, <1>13, <2>1, EmptyQueue DEF NewsKept
<1>36. ASSUME NEW m \in Nodes, Building(y), Pre(z, m), Pre(y, m), OnChain(z, "fwd", l, k, m)
       PROVE  Linked(y)
  <2>1. ~(l <= m)
    BY <1>12, <1>13, <1>36 DEF Pre, Good
  <2>2. l = m + 1 /\ k = z.node[m].n
    BY <1>36, <2>1 DEF OnChain
  <2>3. m = i /\ y.node[i] = z.node[i]
    BY <1>n, <1>t, <1>4, <2>2 DEF Turn
  <2>4. CASE u = NoCircuit /\ B = w
    <3>1. Holds(y.bwd[l][k], {"DESTROY"})
      BY <1>B, <1>19, <2>4
    <3>2. News(y, m)
      BY ONLY <1>4, <2>2, <2>3, <3>1 DEF News
    <3> QED
      BY <1>36, <3>2 DEF Linked
  <2>5. CASE Up(u) /\ u.p = k
    <3>1. Up(z.node[i])
      <4>1. Up0(z) /\ m <= m
        BY <1>23, <1>36, <1>n DEF Building
      <4> QED
        BY <1>36, <2>3, <4>1, PreUp
    <3>2. Good(y, l)
      BY ONLY <1>i, <1>4, <1>u, <2>2, <2>3, <2>5, <3>1 DEF Good
    <3>3. Pre(y, l)
      BY <1>36, <1>m, <2>3, <3>2 DEF Pre
    <3>4. At(y, g, l, 0)
      <4>1. CASE u.state = "OPEN"
        <5>1. u.inq = v
          BY <1>13, <1>21, <4>1
        <5>2. Holds(v, Shaking)
          BY <1>16, <1>17 DEF Shaking
        <5> QED
          BY <1>u, <1>30, <4>1, <5>1, <5>2 DEF At
      <4>2. CASE u.state # "OPEN"
        <5>1. u.state = "ONIONSKIN_PENDING"
          BY <1>21, <2>5, <4>2
        <5> QED
          BY <1>4, <1>u, <1>30, <2>5, <4>2, <5>1 DEF At
      <4> QED
        BY <4>1, <4>2
    <3>5. OnChain(y, g, l, 0, l)
      BY ONLY <1>4, <1>30 DEF OnChain
    <3> QED
      BY ONLY <1>4, <3>3, <3>4, <3>5, PlaceWithin
  <2> QED
    BY <1>21, <2>4, <2>5
<1>37. SteadyButWaiters(z) /\ \A j \in Nodes : j # l => Waiter(z, j)
  BY DEF Inv, SteadyButWaiters, Waiters
<1>38. Touched("fwd", l, k, l, l, k) /\ "fwd" \in Kinds /\ g \in Kinds
  BY DEF Touched, Kinds
<1>39. At(z, "fwd", l, k)
  BY <1>4, <1>8, <1>q DEF At
<1>40. Building(y) => Building(z) \/ Linked(y)
  BY <1>23
<1> QED
  BY ONLY <1>4, <1>25, <1>26, <1>27, <1>28, <1>29, <1>31, <1>32, <1>33, <1>34, <1>35, <1>36, <1>37,
     <1>38, <1>39, <1>40, <1>t, c \in Circuits, l \in Links, k \in Conns, IsView(z, c), TokenStep

----------------------------------------------------------------------------
(* Node i takes the handshake up, for the hop that follows: it waits for a *)
(* connection (h = 0) or queues a CREATE for connection h.                 *)

\* A circuit takes the handshake up: it waits for a connection, or has h.
Takes(x, u, i, h) ==
  /\ ~ x.marked /\ (Up(x) \/ i = 0) /\ x.n = 0
  /\ Up(u) /\ ~ u.marked /\ u.n = h /\ u.p = x.p /\ u.inq = x.inq /\ u.hops = x.hops
  /\ h = 0 => u.state = "OR_WAIT" /\ u.outq = <<>>
  /\ h # 0 => /\ u.state = IF i = 0 THEN "BUILDING" ELSE "OPEN"
              /\ One(u.outq) /\ Holds(u.outq, Creates) /\ Only(u.outq, Creates)

\* The handshake was at (g, a, b), and no circuit is beyond node i.
Ready(z, i, l, k, g, a, b) ==
  /\ At(z, g, a, b) /\ Touched(g, a, b, i, l, k) /\ g \in {"fwd", "relay", "origin"}
  /\ i # PathLen /\ CleanFrom(z, i + 1) /\ (Up0(z) => i <= Hops(z))
  /\ \A m \in Nodes : OnChain(z, g, a, b, m) => i <= m

\* Node i, which may have read the cell from connection k of link l, takes the handshake up.
Extends(z, y, i, l, k, h) ==
  /\ Turn(z, y, i, l, k) /\ Takes(z.node[i], y.node[i], i, h)
  /\ h # 0 => z.near[i + 1][h] = "open"
  /\ ~ Holds(y.fwd[l][k], Shaking) /\ One(y.fwd[l][k]) /\ SameTalk(z, y, l, k)
  /\ y.bwd[l][k] = z.bwd[l][k] /\ LinkShape(y, l, k)
  /\ l <= i \/ y.fwd[l][k] = z.fwd[l][k]

\* The handshake is taken up by node i, which connects or uses connection h.
LEMMA ExtendStep ==
  ASSUME NEW c \in Circuits, NEW z, NEW y, IsView(z, c), SteadyButWaiters(z),
         NEW i \in Nodes, NEW l \in Links, NEW k \in Conns, NEW h \in Ks, Extends(z, y, i, l, k, h),
         \A j \in Nodes : j # i => Waiter(z, j),
         NEW g \in Kinds, NEW a \in Nodes, NEW b \in Ks, Ready(z, i, l, k, g, a, b)
  PROVE  /\ SteadyButWaiters(y)
         /\ \A j \in Nodes : j # i => Waiter(y, j)
         /\ h # 0 => Inv(y)
<1>x. PICK x : x = z.node[i]
  OBVIOUS
<1>u. PICK u : u = y.node[i]
  OBVIOUS
<1>t. Turn(z, y, i, l, k)
  BY DEF Extends
<1>1. Takes(x, u, i, h)
  BY <1>x, <1>u DEF Extends
<1>2. /\ ~ x.marked /\ (Up(x) \/ i = 0) /\ x.n = 0
      /\ Up(u) /\ ~ u.marked /\ u.n = h /\ u.p = x.p /\ u.inq = x.inq /\ u.hops = x.hops
  BY <1>1 DEF Takes
<1>3. h = 0 => u.state = "OR_WAIT" /\ u.outq = <<>>
  BY <1>1 DEF Takes
<1>4. h # 0 => /\ u.state = IF i = 0 THEN "BUILDING" ELSE "OPEN"
               /\ One(u.outq) /\ Holds(u.outq, Creates) /\ Only(u.outq, Creates)
  BY <1>1 DEF Takes
<1>5. At(z, g, a, b) /\ Touched(g, a, b, i, l, k) /\ g \in {"fwd", "relay", "origin"}
  BY DEF Ready
<1>6. CleanFrom(z, i + 1) /\ (Up0(z) => i <= Hops(z)) /\ i # PathLen
  BY DEF Ready
<1>7. Shape(z) /\ Ups(z) /\ Alone(z) /\ Ones(z) /\ Frontier(z) /\ Agree(z)
  BY DEF SteadyButWaiters
<1>8. NodeShape(z, i) /\ NodeUp(z, i)
  BY <1>7 DEF Shape, Ups
<1>9. PICK n \in Links : n = i + 1
  BY <1>6, ConstFacts
<1>10. /\ n \in Nodes /\ i \in Nat /\ n \in Nat /\ n # i /\ n - 1 = i /\ i < PathLen /\ n # 0
       /\ \A m \in Links : m \in Nodes /\ m - 1 \in Nodes /\ m # m - 1 /\ (m - 1 = i <=> m = n)
  <2>1. i = n - 1
    BY <1>9, ConstFacts
  <2> QED
    BY ONLY <1>9, <2>1, n \in Links, k \in Conns, LinkEnds
<1>11. Clean(z, n)
  BY <1>6, <1>9, <1>10 DEF CleanFrom
<1>12. ~ Holds(y.fwd[l][k], Shaking) /\ One(y.fwd[l][k]) /\ SameTalk(z, y, l, k)
       /\ y.bwd[l][k] = z.bwd[l][k] /\ LinkShape(y, l, k) /\ (l <= i \/ y.fwd[l][k] = z.fwd[l][k])
  BY DEF Extends
<1>13. y.near = z.near /\ y.far = z.far /\ y.len = z.len /\ y.over = z.over
  BY <1>t DEF Turn
\* What is beyond node i.
<1>14. ASSUME NEW j \in Links, j >= i + 1
       PROVE  /\ y.node[j] = NoCircuit /\ \A m \in Conns : y.fwd[j][m] = <<>> /\ y.bwd[j][m] = <<>>
              /\ j # n \/ h = 0 => y.node[j - 1].n = 0
  <2>1. Clean(z, j)
    BY <1>6, <1>14 DEF CleanFrom
  <2>2. z.node[j] = NoCircuit /\ z.node[j - 1].n = 0 /\ \A m \in Conns : z.fwd[j][m] = <<>> /\ z.bwd[j][m] = <<>>
    BY <2>1 DEF Clean
  <2>3. j \in Nodes /\ j - 1 \in Nodes /\ (j - 1 = i <=> j = n) /\ j \in Nat /\ j # i
    BY <1>10, <1>14, ConstFacts
  <2>4. j # l \/ y.fwd[l][k] = z.fwd[l][k]
    <3>1. l \in Nat
      BY ConstFacts
    <3> QED
      BY ONLY <1>12, <1>14, <2>3, <3>1, <1>10
  <2>5. \A m \in Conns : y.fwd[j][m] = z.fwd[j][m] /\ y.bwd[j][m] = z.bwd[j][m]
    BY <1>t, <1>12, <2>4 DEF Turn
  <2>6. y.node[j] = z.node[j] /\ (j # n => y.node[j - 1] = z.node[j - 1])
    BY <1>t, <2>3 DEF Turn
  <2> QED
    BY ONLY <1>2, <1>u, <2>2, <2>3, <2>5, <2>6
<1>15. h = 0 => CleanFrom(y, i + 1)
  BY ONLY <1>14 DEF CleanFrom, Clean
<1>16. Fresh(y, n)
  <2>1. CleanFrom(y, n + 1)
    <3>1. ASSUME NEW j \in Links, j >= n + 1 PROVE Clean(y, j)
      <4>1. j >= i + 1 /\ j # n
        <5>1. j \in Nat
          BY ConstFacts
        <5> QED
          BY ONLY <5>1, <1>9, <1>10, <3>1
      <4> QED
        BY ONLY <1>14, <4>1, j \in Links DEF Clean
    <3> QED
      BY <3>1 DEF CleanFrom
  <2>2. n >= i + 1
    BY ONLY <1>9, <1>10
  <2> QED
    BY ONLY <1>14, <2>1, <2>2, n \in Links DEF Fresh
<1>17. (Up0(y) => i <= Hops(y)) /\ (i # 0 => (Building(y) <=> Building(z)))
  <2>1. CASE i = 0
    <3>1. u \in CircsOf(c) \/ Hops(y) = Hops(z)
      BY <1>x, <1>u, <1>2, <2>1 DEF Hops
    <3>2. Hops(z) \in Nat
      BY ViewParts, ConstFacts, Zenon DEF Hops
    <3>3. Hops(y) = Hops(z)
      BY <1>x, <1>u, <1>2, <2>1 DEF Hops
    <3> QED
      BY ONLY <2>1, <3>2, <3>3
  <2>2. CASE i # 0
    <3>1. y.node[0] = z.node[0]
      BY <1>t, <2>2, ConstFacts DEF Turn
    <3> QED
      BY <1>6, <3>1 DEF Up0, Hops, Building
  <2> QED
    BY <2>1, <2>2
<1>18. ~ Holds(x.inq, Shaking) /\ ~ Holds(z.bwd[l][k], Shaking)
  <2>1. (\A j \in Nodes : Holds(z.node[j].inq, Shaking) => g = "in" /\ a = j)
        /\ (\A m \in Links, d \in Conns : Holds(z.bwd[m][d], Shaking) => g = "bwd" /\ a = m /\ b = d)
    BY ONLY <1>5, <1>7, g \in Kinds, a \in Nodes, b \in Ks, Elsewhere
  <2> QED
    BY <1>5, <1>x, <2>1
<1>19. One(u.outq) /\ One(u.inq) /\ One(y.fwd[l][k]) /\ One(y.bwd[l][k])
  BY <1>2, <1>3, <1>4, <1>7, <1>12, <1>x, EmptyQueue DEF Ones
<1>20. u.state # "none" /\ u.state # "ONIONSKIN_PENDING" /\ (i # 0 => u.state # "BUILDING")
  BY <1>3, <1>4
<1>21. Only(u.outq, OutCmds) /\ (u.outq # <<>> => u.n # 0)
  <2>1. Only(u.outq, Creates) => Only(u.outq, OutCmds)
    BY DEF Only, Creates, OutCmds
  <2> QED
    BY <1>2, <1>3, <1>4, <2>1, EmptyQueue
<1>22. NodeShape(y, i)
  <2>1. h # 0 => z.near[i + 1][h] = "open"
    BY DEF Extends
  <2> QED
    BY ONLY <1>2, <1>6, <1>8, <1>13, <1>20, <1>21, <1>x, <1>u, <2>1 DEF NodeShape
<1>23. NodeUp(y, i)
  BY ONLY <1>2, <1>3, <1>4, <1>8, <1>x, <1>u DEF NodeUp
<1>24. h # 0 => Waiter(y, i)
  BY ONLY <1>4, <1>u DEF Waiter
<1>25. PICK f \in Kinds : f = IF h # 0 THEN "out" ELSE IF i = 0 THEN "origin" ELSE "relay"
  BY DEF Kinds
<1>26. \A e \in Kinds : \A p \in Nodes : \A q \in Ks :
           Touched(e, p, q, i, l, k) /\ At(y, e, p, q) => e = f /\ p = i /\ q = 0
  <2>1. ~ Holds(y.node[i].inq, Shaking) /\ ~ Holds(y.fwd[l][k], Shaking) /\ ~ Holds(y.bwd[l][k], Shaking)
    BY <1>u, <1>2, <1>12, <1>18
  <2>2. Holds(y.node[i].outq, Shaking) => f = "out"
    BY <1>u, <1>3, <1>25, EmptyQueue
  <2>3. i # 0 /\ Up(y.node[i]) /\ y.node[i].state \in {"OR_WAIT", "ONIONSKIN_PENDING"} => f = "relay"
    BY <1>u, <1>4, <1>25
  <2>4. y.node[i] # NoCircuit
    BY <1>u, <1>20 DEF NoCircuit
  <2>5. i = 0 /\ (y.node[i] = NoCircuit \/ (Up(y.node[i]) /\ y.node[i].state \in {"OR_WAIT", "OPEN"}))
          => f = "origin" /\ i = 0
    BY <1>u, <1>4, <1>25, <2>4
  <2> QED
    BY ONLY <2>1, <2>2, <2>3, <2>5, i \in Nodes, l \in Links, k \in Conns, TouchedAre, Zenon
<1>27. GoodAt(y, f, i, 0)
  <2>1. CASE f = "out"
    <3>1. Only(u.outq, Creates)
      BY <1>4, <1>25, <2>1
    <3>2. ~ Holds(u.outq, {"CREATED"}) /\ ~ Holds(u.outq, {"EXTENDED"}) /\ \A t : ~ Aims(u.outq, t)
      BY <3>1 DEF Only, Holds, Aims, Creates
    <3>3. GoodQueue(y, u.outq, i)
      BY ONLY <1>9, <1>16, <1>17, <3>2 DEF GoodQueue
    <3> QED
      BY ONLY <1>u, <2>1, <3>3 DEF GoodAt
  <2>2. CASE f = "relay"
    <3>1. h = 0
      BY <1>25, <2>2
    <3>2. GoodWaiter(y, i)
      BY ONLY <1>u, <1>15, <1>17, <1>20, <3>1 DEF GoodWaiter
    <3> QED
      BY ONLY <2>2, <3>2 DEF GoodAt
  <2>3. CASE f = "origin"
    <3>1. h = 0 /\ i = 0
      BY <1>25, <2>3
    <3>2. CleanFrom(y, 1)
      BY <1>15, <3>1
    <3> QED
      BY ONLY <2>3, <3>2 DEF GoodAt
  <2> QED
    BY <1>25, <2>1, <2>2, <2>3
<1>28. Agree(y)
  <2>1. ASSUME NEW m \in Links, NEW d \in Conns
        PROVE  LinkA(y, m, d) /\ LinkB(y, m, d) /\ LinkC(y, m, d) /\ LinkD(y, m, d)
    <3>1. LinkA(z, m, d) /\ LinkB(z, m, d) /\ LinkC(z, m, d) /\ LinkD(z, m, d)
      BY <1>7 DEF Agree
    <3>2. m \in Nodes /\ m - 1 \in Nodes /\ m # m - 1 /\ d # 0
      BY <1>10, ConstFacts
    <3>3. SameTalk(z, y, m, d)
      <4>1. CASE m = l /\ d = k
        BY <1>12, <4>1
      <4>2. CASE m # l \/ d # k
        BY <1>t, <4>2 DEF SameTalk, Turn
      <4> QED
        BY <4>1, <4>2
    <3>4. CASE m = n
      <4>1. y.node[n] = NoCircuit /\ y.fwd[n][d] = <<>> /\ y.bwd[n][d] = <<>>
        <5>1. n >= i + 1
          BY ONLY <1>9, <1>10
        <5> QED
          BY ONLY <1>14, <5>1, n \in Links, d \in Conns
      <4>2. Shares(y, n, d) => Holds(y.node[n - 1].outq, Creates)
        BY ONLY <1>2, <1>4, <1>10, <1>u, <3>2 DEF Shares
      <4>3. ~ Up(NoCircuit)
        BY DEF Up, NoCircuit
      <4> QED
        BY ONLY <3>4, <4>1, <4>2, <4>3, EmptyQueue DEF LinkA, LinkB, LinkC, LinkD, Kept
    <3>5. CASE m # n
      <4>1. y.node[m - 1] = z.node[m - 1]
        BY <1>t, <1>10, <3>2, <3>5 DEF Turn
      <4>2. /\ y.node[m].p = z.node[m].p /\ (y.node[m].marked <=> z.node[m].marked)
            /\ Up(y.node[m]) <=> Up(z.node[m])
        <5>1. CASE m = i
          <6>1. i # 0
            BY <5>1, ConstFacts
          <6> QED
            BY ONLY <1>2, <1>x, <1>u, <5>1, <6>1
        <5>2. CASE m # i
          BY <1>t, <3>2, <5>2 DEF Turn
        <5> QED
          BY <5>1, <5>2
      <4> QED
        BY ONLY <1>13, <3>1, <3>3, <4>1, <4>2 DEF LinkA, LinkB, LinkC, LinkD, Shares, Kept, SameTalk
    <3> QED
      BY <3>4, <3>5
  <2>2. ASSUME NEW j \in Nodes PROVE Late(y, j)
    <3>1. CASE j # i
      BY <1>t, <1>7, <3>1 DEF Agree, Late, Turn
    <3>2. CASE j = i
      BY ONLY <1>u, <1>2, <3>2 DEF Late
    <3> QED
      BY <3>1, <3>2
  <2> QED
    BY <2>1, <2>2 DEF Agree
<1>29. SafeNode(z.node[i], y.node[i])
  BY <1>x, <1>u, <1>2 DEF SafeNode
<1>30. NewsKept(z, y, i, l, k)
  BY ONLY <1>x, <1>u, <1>2, <1>12 DEF NewsKept
<1>31. At(y, f, i, 0)
  <2>1. CASE h # 0
    <3>1. Holds(u.outq, Shaking)
      BY <1>4, <2>1 DEF Holds, Creates, Shaking
    <3> QED
      BY <1>u, <1>25, <2>1, <3>1 DEF At
  <2>2. CASE h = 0
    BY <1>u, <1>2, <1>3, <1>25, <2>2 DEF At
  <2> QED
    BY <2>1, <2>2
<1>32. Building(y) /\ i = 0 => Linked(y)
  <2> SUFFICES ASSUME Building(y), i = 0 PROVE Linked(y)
    OBVIOUS
  <2>1. f = "out"
    BY <1>u, <1>3, <1>25 DEF Building
  <2>2. Pre(y, 0) /\ 0 \in Nodes
    BY ConstFacts DEF Pre, Links
  <2>3. OnChain(y, "out", 0, 0, 0)
    BY DEF OnChain
  <2> QED
    BY ONLY <1>31, <2>1, <2>2, <2>3, i = 0, PlaceWithin
<1>33. ASSUME NEW m \in Nodes, Building(y), Pre(z, m), Pre(y, m), OnChain(z, g, a, b, m)
       PROVE  Linked(y)
  <2>1. CASE i = 0
    BY <1>32, <1>33, <2>1
  <2>2. CASE i # 0
    <3>1. i <= m
      BY <1>33 DEF Ready
    <3>2. f \in {"out", "relay"}
      BY <1>25, <2>2
    <3>3. OnChain(y, f, i, 0, m)
      BY <3>1, <3>2 DEF OnChain
    <3> QED
      BY ONLY <1>31, <1>33, <3>3, i \in Nodes, PlaceWithin
  <2> QED
    BY <2>1, <2>2
<1>34. Building(y) => Building(z) \/ Linked(y)
  BY <1>17, <1>32
<1>35. /\ One(y.node[i].outq) /\ One(y.node[i].inq) /\ One(y.fwd[l][k]) /\ One(y.bwd[l][k])
       /\ 0 \in Ks
  BY <1>19, <1>u, ConstFacts
<1>36. SteadyButWaiters(y) /\ \A j \in Nodes : j # i => Waiter(y, j)
  BY ONLY <1>t, <1>5, <1>12, <1>22, <1>23, <1>26, <1>27, <1>28, <1>29, <1>30, <1>33, <1>34, <1>35,
     c \in Circuits, i \in Nodes, l \in Links, k \in Conns, IsView(z, c), SteadyButWaiters(z),
     \A j \in Nodes : j # i => Waiter(z, j),
     g \in Kinds, a \in Nodes, b \in Ks, f \in Kinds, TokenTurn
<1> QED
  BY <1>24, <1>36 DEF SteadyButWaiters, Inv, Waiters

----------------------------------------------------------------------------
(* An EXTEND is read from connection k of link l.                          *)

\* Node l reads an EXTEND cell.
ReadsExtend(z, y, l, k, e) ==
  /\ Dropped(z.fwd[l][k], e, y.fwd[l][k]) /\ e.cmd = "EXTEND"
  /\ Turn(z, y, l, l, k) /\ y.bwd[l][k] = z.bwd[l][k]

\* A handshake there is on the chain only if the chain reaches node l.
Reached(z, l, k) == \A m \in Nodes : OnChain(z, "fwd", l, k, m) => l <= m /\ k = z.node[l - 1].n

\* What the reading does to the connection, whatever the node does then.
LEMMA ExtendRead ==
  ASSUME NEW c \in Circuits, NEW z, NEW y, IsView(z, c), Inv(z),
         NEW l \in Links, NEW k \in Conns, NEW e, ReadsExtend(z, y, l, k, e)
  PROVE  /\ e \in CellsOf(c) /\ At(z, "fwd", l, k) /\ LinkShape(y, l, k)
         /\ ~ Holds(y.fwd[l][k], Shaking) /\ One(y.fwd[l][k]) /\ SameTalk(z, y, l, k)
         /\ e.to \in 1 .. PathLen - 1 /\ CleanFrom(z, e.to + 1) /\ (Up0(z) => e.to <= Hops(z))
         /\ e.to \in Nat /\ Reached(z, l, k)
         /\ Thin(y.fwd[l][k], z.fwd[l][k])
         /\ z.fwd[l][k] # <<>>
<1>q. PICK Q : Q = z.fwd[l][k]
  OBVIOUS
<1>r. PICK r : r = y.fwd[l][k]
  OBVIOUS
<1>d. Dropped(Q, e, r) /\ e.cmd = "EXTEND"
  BY <1>q, <1>r DEF ReadsExtend
<1>t. Turn(z, y, l, l, k) /\ y.bwd[l][k] = z.bwd[l][k]
  BY DEF ReadsExtend
<1>5. Q \in Seq(CellsOf(c))
  BY <1>q, ViewParts
<1>6. /\ e \in CellsOf(c)
      /\ \A S : Holds(Q, S) <=> Holds(r, S) \/ e.cmd \in S
      /\ \A t : Aims(Q, t) <=> Aims(r, t) \/ (e.cmd = "EXTEND" /\ e.to = t)
      /\ \A S : Only(Q, S) <=> Only(r, S) /\ e.cmd \in S
      /\ One(Q) => One(r) /\ (e.cmd \in Shaking => ~ Holds(r, Shaking))
      /\ One(Q) /\ Ord(Q) /\ Holds(r, Creates) => Ord(r)
  BY ONLY <1>5, <1>d, DropCell
<1>7. One(Q)
  BY <1>q DEF Inv, Ones
<1>8. e.cmd \in Shaking /\ Holds(Q, Shaking) /\ ~ Holds(r, Shaking) /\ One(r)
  <2>1. e.cmd \in Shaking
    BY <1>d DEF Shaking
  <2> QED
    BY <1>6, <1>7, <2>1
<1>9. ~ Holds(r, Creates) /\ ~ Holds(r, {"CREATED"}) /\ ~ Holds(r, {"EXTENDED"}) /\ \A t : ~ Aims(r, t)
  BY <1>8 DEF Holds, Aims, Creates, Shaking
<1>10. ~ Holds(Q, Creates)
  <2>1. e.cmd \notin Creates
    BY <1>d DEF Creates
  <2> QED
    BY <1>6, <1>9, <2>1
<1>11. k # 0 /\ l # 0 /\ l \in Nodes
  BY ConstFacts
<1>12. At(z, "fwd", l, k)
  BY <1>q, <1>8, <1>11 DEF At
<1>13. LinkShape(y, l, k)
  <2>1. LinkShape(z, l, k) /\ y.near = z.near /\ y.far = z.far
    BY <1>t DEF Inv, Shape, Turn
  <2>2. Only(r, OutCmds \cup {"DESTROY"})
    BY <1>6, <1>q, <2>1 DEF LinkShape
  <2> QED
    BY ONLY <1>r, <1>t, <2>1, <2>2 DEF LinkShape
<1>14. SameTalk(z, y, l, k)
  <2>1. e.cmd # "DESTROY"
    BY <1>d
  <2>2. Holds(r, {"DESTROY"}) <=> Holds(Q, {"DESTROY"})
    BY <1>6, <2>1
  <2> QED
    BY ONLY <1>q, <1>r, <1>t, <1>9, <1>10, <2>2 DEF SameTalk
<1>15. e.to \in 1 .. PathLen - 1 /\ CleanFrom(z, e.to + 1) /\ (Up0(z) => e.to <= Hops(z))
  <2>1. GoodQueue(z, Q, l - 1)
    BY <1>q DEF Inv, Frontier
  <2>2. e.to \in Nodes
    BY <1>6 DEF CellsOf
  <2>3. Aims(Q, e.to)
    BY <1>6, <1>d
  <2> QED
    BY ONLY <2>1, <2>2, <2>3 DEF GoodQueue
<1>16. Reached(z, l, k)
  BY <1>q, <1>10 DEF OnChain, Reached
<1>19. e.to \in Nat
  BY <1>6, ConstFacts, Zenon DEF CellsOf
<1>17. Thin(r, Q)
  BY ONLY <1>6, <1>7, <1>8, <1>9 DEF Thin
<1>18. Q # <<>>
  BY <1>d DEF Dropped
<1> QED
  BY ONLY <1>6, <1>8, <1>12, <1>13, <1>14, <1>15, <1>16, <1>17, <1>18, <1>19, <1>q, <1>r

\* The node drops the cell, or is about to close the circuit.
LEMMA ExtendDropped ==
  ASSUME NEW c \in Circuits, NEW z, NEW y, IsView(z, c), Inv(z),
         NEW l \in Links, NEW k \in Conns, NEW e, ReadsExtend(z, y, l, k, e),
         y.node[l] = z.node[l]
  PROVE  /\ ~ Kept(z, l, k) => Inv(y)
         /\ MarkReady(y, l)
<1>t. Turn(z, y, l, l, k) /\ y.bwd[l][k] = z.bwd[l][k]
  BY DEF ReadsExtend
<1>1. /\ At(z, "fwd", l, k) /\ LinkShape(y, l, k)
      /\ SameTalk(z, y, l, k)
      /\ Thin(y.fwd[l][k], z.fwd[l][k])
      /\ z.fwd[l][k] # <<>>
  BY ONLY c \in Circuits, IsView(z, c), Inv(z), l \in Links, k \in Conns,
     ReadsExtend(z, y, l, k, e), ExtendRead, Zenon
<1>2. Reached(z, l, k)
  BY ONLY c \in Circuits, IsView(z, c), Inv(z), l \in Links, k \in Conns,
     ReadsExtend(z, y, l, k, e), ExtendRead, Zenon
<1>3. l \in Nodes /\ l # 0 /\ "fwd" \in Kinds /\ k \in Ks
  BY ConstFacts DEF Kinds
<1>4. \A j \in Nodes : y.node[j] = z.node[j]
  BY <1>t DEF Turn
<1>5. Calm(z, y)
  <2>1. ASSUME NEW m \in Links, NEW h \in Conns
        PROVE /\ Thin(y.fwd[m][h], z.fwd[m][h]) /\ Thin(y.bwd[m][h], z.bwd[m][h])
              /\ z.fwd[m][h] = <<>> => y.fwd[m][h] = <<>>
              /\ y.bwd[m][h] = z.bwd[m][h]
    <3>1. CASE m # l \/ h # k
      BY <1>t, <3>1, ThinSelf DEF Turn
    <3>2. CASE m = l /\ h = k
      BY <1>1, <1>t, <3>2, ThinSelf
    <3> QED
      BY <3>1, <3>2
  <2>2. \A m \in Links : (Clean(z, m) => Clean(y, m)) /\ (Bare(z, m) => Bare(y, m))
    <3>1. \A m \in Links : m \in Nodes /\ m - 1 \in Nodes
      BY ConstFacts
    <3> QED
      BY ONLY <1>4, <2>1, <3>1 DEF Clean, Bare
  <2>3. 0 \in Nodes
    BY ConstFacts
  <2> QED
    BY ONLY <1>4, <2>1, <2>2, <2>3, ThinSelf DEF Calm, Hops
<1>6. NodeShape(y, l) /\ Waiter(y, l) /\ NodeUp(y, l)
  <2>1. NodeShape(z, l) /\ Waiter(z, l) /\ NodeUp(z, l)
    BY <1>3 DEF Inv, Shape, Waiters, Ups
  <2>2. y.near = z.near /\ y.far = z.far /\ y.len = z.len
    BY <1>t DEF Turn
  <2> QED
    BY ONLY <1>3, <1>4, <2>1, <2>2 DEF NodeShape, Waiter, NodeUp
<1>7. Agree(y)
  <2>1. Agree(z) /\ SameEnds(z.node[l], y.node[l])
    BY <1>3, <1>4 DEF Inv, SameEnds
  <2> QED
    BY ONLY <1>1, <1>3, <1>t, <2>1, l \in Links, k \in Conns, TurnSame
<1>8. /\ NodeUp(y, l) /\ Chain(y) => Inv(y)
      /\ Shape(y) /\ Alone(y) /\ Ones(y) /\ Frontier(y)
      /\ \A j \in Nodes : j # l => NodeUp(y, j) /\ Waiter(y, j)
  BY ONLY <1>t, <1>1, <1>3, <1>5, <1>6, <1>7, c \in Circuits, IsView(z, c), Inv(z), l \in Links,
     k \in Conns,
     CalmStep
<1>9. ASSUME Building(y)
      PROVE  Linked(y) \/ (Pre(y, l) /\ Kept(z, l, k))
  <2>1. Building(z) /\ Up0(z)
    BY <1>4, <1>9, ConstFacts DEF Building, Up0
  <2>2. PICK m \in Nodes : Pre(z, m) /\ (News(z, m) \/ Within(z, m))
    BY <2>1 DEF Inv, Chain, Linked
  <2>3. SafeNode(z.node[l], y.node[l])
    BY <1>3, <1>4 DEF SafeNode
  <2>4. Pre(y, m)
    BY ONLY <1>t, <1>3, <2>1, <2>2, <2>3, c \in Circuits, IsView(z, c), l \in Links, k \in Conns,
       TurnPre, Zenon
  <2>5. CASE News(z, m)
    <3>1. NewsKept(z, y, l, l, k)
      BY ONLY <1>3, <1>4, <1>t DEF NewsKept
    <3>2. News(y, m)
      BY ONLY <1>t, <1>3, <2>1, <2>2, <2>3, <2>5, <3>1, c \in Circuits, IsView(z, c), l \in Links,
         k \in Conns, TurnNews, Zenon
    <3> QED
      BY <2>4, <3>2 DEF Linked
  <2>6. CASE Within(z, m)
    <3>1. Alone(z)
      BY DEF Inv
    <3>2. OnChain(z, "fwd", l, k, m)
      BY ONLY <1>1, <1>3, <2>1, <2>2, <2>6, <3>1, c \in Circuits, IsView(z, c), WithinPlace
    <3>3. l <= m /\ k = z.node[l - 1].n
      BY <1>2, <3>2 DEF Reached
    <3>4. Good(z, l)
      BY <2>2, <3>3 DEF Pre
    <3>5. Kept(z, l, k)
      BY <3>3, <3>4 DEF Good, Kept
    <3>6. Pre(y, l)
      <4>1. l \in Nat /\ m \in Nat /\ \A j \in Links : j \in Nat
        BY ConstFacts
      <4>2. \A j \in Links : j <= l => j <= m
        BY ONLY <4>1, <3>3
      <4> QED
        BY ONLY <2>4, <4>2 DEF Pre
    <3> QED
      BY <3>5, <3>6
  <2> QED
    BY <2>2, <2>5, <2>6
<1>10. MarkReady(y, l)
  BY ONLY <1>7, <1>8, <1>9 DEF MarkReady
<1>11. ~ Kept(z, l, k) => Inv(y)
  BY ONLY <1>6, <1>8, <1>9 DEF Chain
<1> QED
  BY <1>10, <1>11

\* The node passes the cell on.
LEMMA ExtendPassed ==
  ASSUME NEW c \in Circuits, NEW z, NEW y, IsView(z, c), Inv(z),
         NEW l \in Links, NEW k \in Conns, NEW e, ReadsExtend(z, y, l, k, e),
         Kept(z, l, k), z.node[l].n # 0, z.node[l].state # "ONIONSKIN_PENDING",
         y.node[l] = [z.node[l] EXCEPT !.outq = Append(z.node[l].outq, e)]
  PROVE  Inv(y)
<1>x. PICK x : x = z.node[l]
  OBVIOUS
<1>u. PICK u : u = y.node[l]
  OBVIOUS
<1>o. PICK o : o = Append(x.outq, e)
  BY Zenon
<1>d. u = [x EXCEPT !.outq = o]
  BY <1>x, <1>u, <1>o
<1>p. x.n # 0 /\ x.state # "ONIONSKIN_PENDING" /\ Up(x) /\ x.p = k
  BY <1>x DEF Kept
<1>t. Turn(z, y, l, l, k) /\ y.bwd[l][k] = z.bwd[l][k]
  BY DEF ReadsExtend
<1>c. e.cmd = "EXTEND" /\ e.cmd \in Shaking
  BY DEF ReadsExtend, Shaking
<1>1. /\ e \in CellsOf(c) /\ At(z, "fwd", l, k) /\ LinkShape(y, l, k)
      /\ ~ Holds(y.fwd[l][k], Shaking) /\ One(y.fwd[l][k]) /\ SameTalk(z, y, l, k)
      /\ e.to \in 1 .. PathLen - 1 /\ CleanFrom(z, e.to + 1) /\ (Up0(z) => e.to <= Hops(z))
      /\ e.to \in Nat /\ Reached(z, l, k)
  BY ONLY c \in Circuits, IsView(z, c), Inv(z), l \in Links, k \in Conns,
     ReadsExtend(z, y, l, k, e), ExtendRead, Zenon
<1>3. l \in Nodes /\ l # 0 /\ "fwd" \in Kinds /\ "out" \in Kinds /\ k \in Ks /\ k # 0 /\ 0 \in Ks /\ l \in Nat
  BY ConstFacts DEF Kinds
<1>4. x \in CircsOf(c) /\ x.outq \in Seq(CellsOf(c))
  BY <1>3, <1>x, ViewParts
<1>5. /\ o \in Seq(CellsOf(c)) /\ o # <<>>
      /\ \A S : Holds(o, S) <=> Holds(x.outq, S) \/ e.cmd \in S
      /\ \A t : Aims(o, t) <=> Aims(x.outq, t) \/ (e.cmd = "EXTEND" /\ e.to = t)
      /\ \A S : Only(o, S) <=> Only(x.outq, S) /\ e.cmd \in S
      /\ One(x.outq) /\ (e.cmd \notin Shaking \/ ~ Holds(x.outq, Shaking)) => One(o)
  <2>1. PICK v : v = x.outq
    OBVIOUS
  <2>2. v \in Seq(CellsOf(c)) /\ o = Append(v, e) /\ e \in CellsOf(c)
    BY <1>o, <1>1, <1>4, <2>1
  <2>3. /\ o \in Seq(CellsOf(c)) /\ o # <<>>
        /\ \A S : Holds(o, S) <=> Holds(v, S) \/ e.cmd \in S
        /\ \A t : Aims(o, t) <=> Aims(v, t) \/ (e.cmd = "EXTEND" /\ e.to = t)
        /\ \A S : Only(o, S) <=> Only(v, S) /\ e.cmd \in S
        /\ One(v) /\ (e.cmd \notin Shaking \/ ~ Holds(v, Shaking)) => One(o)
    BY ONLY <2>2, AddCell, Zenon
  <2> QED
    BY ONLY <2>1, <2>3
<1>6. /\ u.outq = o /\ u.inq = x.inq /\ u.state = x.state
      /\ u.n = x.n /\ u.p = x.p /\ u.marked = x.marked /\ u.hops = x.hops
  BY ONLY <1>4, <1>5, <1>d, c \in Circuits, QueueFields
<1>7. Up(u)
  BY <1>6, <1>p DEF Up
<1>8. /\ ~ Holds(x.outq, Shaking) /\ ~ Holds(x.inq, Shaking) /\ ~ Holds(z.bwd[l][k], Shaking)
      /\ x.state # "OR_WAIT"
  <2>a. Alone(z)
    BY DEF Inv
  <2>1. /\ \A j \in Nodes : Holds(z.node[j].outq, Shaking) => "fwd" = "out" /\ l = j
        /\ \A j \in Nodes : Holds(z.node[j].inq, Shaking) => "fwd" = "in" /\ l = j
        /\ \A m \in Links, h \in Conns : Holds(z.bwd[m][h], Shaking) => "fwd" = "bwd" /\ l = m /\ k = h
        /\ \A j \in Links : Up(z.node[j]) /\ z.node[j].state \in {"OR_WAIT", "ONIONSKIN_PENDING"}
              => "fwd" = "relay" /\ l = j
    BY ONLY <2>a, <1>1, <1>3, Elsewhere
  <2> QED
    BY <1>3, <1>x, <1>p, <2>1
<1>9. One(x.inq) /\ One(x.outq) /\ One(z.bwd[l][k])
  BY <1>x, <1>3 DEF Inv, Ones
<1>10. One(o)
  BY <1>5, <1>8, <1>9
<1>11. NodeShape(z, l) /\ NodeUp(z, l) /\ Waiter(z, l)
  BY <1>3 DEF Inv, Shape, Ups, Waiters
<1>12. y.near = z.near /\ y.far = z.far /\ y.len = z.len
  BY <1>t DEF Turn
<1>13. NodeShape(y, l)
  <2>1. Only(o, OutCmds)
    <3>1. Only(x.outq, OutCmds) /\ e.cmd \in OutCmds
      BY <1>11, <1>x, <1>c DEF NodeShape, OutCmds
    <3> QED
      BY <1>5, <3>1
  <2>2. u.state # "none"
    BY <1>7 DEF Up
  <2> QED
    BY ONLY <1>3, <1>6, <1>11, <1>12, <1>p, <1>x, <1>u, <2>1, <2>2 DEF NodeShape
<1>14. NodeUp(y, l) /\ Waiter(y, l)
  BY ONLY <1>6, <1>7, <1>8, <1>p, <1>11, <1>x, <1>u DEF NodeUp, Waiter
<1>15. (Up0(y) <=> Up0(z)) /\ Hops(y) = Hops(z) /\ (Building(y) <=> Building(z))
  <2>1. y.node[0] = z.node[0]
    BY <1>t, <1>3, ConstFacts DEF Turn
  <2> QED
    BY <2>1 DEF Up0, Hops, Building
<1>16. \A f \in Kinds : \A p \in Nodes : \A q \in Ks :
           Touched(f, p, q, l, l, k) /\ At(y, f, p, q) => f = "out" /\ p = l /\ q = 0
  <2>1. ~ Holds(y.node[l].inq, Shaking) /\ ~ Holds(y.bwd[l][k], Shaking) /\ ~ Holds(y.fwd[l][k], Shaking)
    BY <1>u, <1>6, <1>8, <1>t, <1>1
  <2>2. y.node[l].state \notin {"OR_WAIT", "ONIONSKIN_PENDING"}
    BY <1>u, <1>6, <1>8, <1>p
  <2> QED
    BY ONLY <1>3, <2>1, <2>2, l \in Links, k \in Conns, TouchedAre, Zenon
<1>17. GoodAt(y, "out", l, 0)
  <2>1. ~ Holds(x.outq, Creates) /\ ~ Holds(x.outq, {"CREATED"}) /\ ~ Holds(x.outq, {"EXTENDED"})
        /\ \A t : ~ Aims(x.outq, t)
    BY <1>8 DEF Holds, Aims, Creates, Shaking
  <2>2. ~ Holds(o, Creates) /\ ~ Holds(o, {"CREATED"}) /\ ~ Holds(o, {"EXTENDED"})
        /\ \A t : Aims(o, t) => t = e.to
    <3>1. e.cmd \notin Creates /\ e.cmd \notin {"CREATED"} /\ e.cmd \notin {"EXTENDED"}
      BY <1>c DEF Creates
    <3> QED
      BY ONLY <1>5, <2>1, <3>1
  <2>3. PICK t : t = e.to
    OBVIOUS
  <2>4. t \in Nat /\ CleanFrom(z, t + 1) /\ t + 1 \in Nat
    BY ONLY <1>1, <2>3
  <2>5. l < t + 1
    <3>1. SUFFICES ASSUME l >= t + 1 PROVE FALSE
      BY ONLY <1>3, <2>4, <3>1
    <3>2. Clean(z, l)
      BY <2>4, <3>1 DEF CleanFrom
    <3> QED
      BY <1>x, <1>p, <3>2 DEF Clean, Up, NoCircuit
  <2>6. CleanFrom(y, t + 1)
    <3>1. z.node[l].n # 0
      BY <1>x, <1>p
    <3> QED
      BY ONLY <1>3, <1>t, <2>4, <2>5, <3>1, l \in Links, k \in Conns, TurnClean, Zenon
  <2>7. GoodQueue(y, o, l)
    BY ONLY <1>1, <1>15, <2>2, <2>3, <2>6 DEF GoodQueue
  <2> QED
    BY ONLY <1>u, <1>6, <2>7 DEF GoodAt
<1>18. Agree(y)
  <2>0. Agree(z)
    BY DEF Inv
  <2>1. SameEnds(z.node[l], y.node[l])
    <3>1. Holds(o, Creates) <=> Holds(x.outq, Creates)
      BY <1>5, <1>c DEF Creates
    <3> QED
      BY ONLY <1>x, <1>u, <1>6, <1>7, <1>p, <3>1 DEF SameEnds
  <2> QED
    BY ONLY <1>t, <1>3, <1>1, <2>0, <2>1, l \in Links, k \in Conns, TurnSame, Zenon
<1>19. SafeNode(z.node[l], y.node[l]) /\ NewsKept(z, y, l, l, k)
  BY ONLY <1>x, <1>u, <1>6, <1>7, <1>t DEF SafeNode, NewsKept
<1>20. ASSUME NEW m \in Nodes, Building(y), Pre(z, m), Pre(y, m), OnChain(z, "fwd", l, k, m)
       PROVE  Linked(y)
  <2>1. l <= m
    BY <1>1, <1>20 DEF Reached
  <2>2. At(y, "out", l, 0)
    BY <1>u, <1>5, <1>6, <1>c, Zenon DEF At
  <2>3. OnChain(y, "out", l, 0, m)
    BY <2>1 DEF OnChain
  <2> QED
    BY ONLY <1>3, <1>20, <2>2, <2>3, PlaceWithin
<1>21. SteadyButWaiters(z) /\ \A j \in Nodes : j # l => Waiter(z, j)
  BY DEF Inv, SteadyButWaiters, Waiters
<1>22. Touched("fwd", l, k, l, l, k)
  BY DEF Touched
<1>23. One(y.node[l].outq) /\ One(y.node[l].inq) /\ One(y.fwd[l][k]) /\ One(y.bwd[l][k])
  BY <1>u, <1>t, <1>1, <1>6, <1>9, <1>10, Zenon
<1> QED
  BY ONLY <1>1, <1>3, <1>13, <1>14, <1>15, <1>16, <1>17, <1>18, <1>19, <1>20, <1>21, <1>22, <1>23, <1>t,
     c \in Circuits, l \in Links, k \in Conns, IsView(z, c), TokenStep

\* The fields of a circuit that takes the handshake up.
LEMMA TakeFields ==
  ASSUME NEW c \in Circuits, NEW i, NEW x \in CircsOf(c), NEW u, ~ x.marked, Up(x) \/ i = 0,
         x.n = 0, x.outq = <<>>
  PROVE  /\ u = [x EXCEPT !.state = "OR_WAIT"] => u \in CircsOf(c) /\ Takes(x, u, i, 0)
         /\ \A h \in Conns :
              u = [x EXCEPT !.n = h, !.state = IF i = 0 THEN "BUILDING" ELSE "OPEN",
                     !.outq = Append(x.outq, Cell(IF i = 0 THEN "CREATE_FAST" ELSE "CREATE", c, 0))]
                => u \in CircsOf(c) /\ Takes(x, u, i, h)
<1>1. ASSUME u = [x EXCEPT !.state = "OR_WAIT"] PROVE u \in CircsOf(c) /\ Takes(x, u, i, 0)
  <2>1. /\ u.state = "OR_WAIT" /\ u.n = x.n /\ u.p = x.p /\ u.marked = x.marked /\ u.hops = x.hops
        /\ u.outq = x.outq /\ u.inq = x.inq /\ u \in CircsOf(c)
    BY <1>1 DEF CircsOf, CircStates
  <2>2. ~ u.marked /\ Up(u)
    BY <2>1 DEF Up
  <2> QED
    BY <2>1, <2>2 DEF Takes
<1>2. ASSUME NEW h \in Conns,
             u = [x EXCEPT !.n = h, !.state = IF i = 0 THEN "BUILDING" ELSE "OPEN",
                     !.outq = Append(x.outq, Cell(IF i = 0 THEN "CREATE_FAST" ELSE "CREATE", c, 0))]
      PROVE  u \in CircsOf(c) /\ Takes(x, u, i, h)
  <2>1. PICK e : e = Cell(IF i = 0 THEN "CREATE_FAST" ELSE "CREATE", c, 0)
    OBVIOUS
  <2>2. e \in CellsOf(c) /\ e.cmd \in Creates
    BY <2>1, ConstFacts DEF Cell, CellsOf, Commands, Creates
  <2>3. PICK q : q = x.outq
    OBVIOUS
  <2>4. PICK o : o = Append(q, e)
    BY Zenon
  <2>5. q \in Seq(CellsOf(c)) /\ q = <<>>
    BY <2>3 DEF CircsOf
  <2>6. /\ o \in Seq(CellsOf(c))
        /\ \A S : Holds(o, S) <=> Holds(q, S) \/ e.cmd \in S
        /\ \A S : Only(o, S) <=> Only(q, S) /\ e.cmd \in S
        /\ One(q) /\ (e.cmd \notin Shaking \/ ~ Holds(q, Shaking)) => One(o)
    BY ONLY <2>2, <2>4, <2>5, AddCell, ZenonT(30)
  <2>7. One(o) /\ Holds(o, Creates) /\ Only(o, Creates)
    BY ONLY <2>2, <2>5, <2>6, EmptyQueue
  <2>8. PICK s \in CircStates : s = IF i = 0 THEN "BUILDING" ELSE "OPEN"
    BY DEF CircStates
  <2>9. h \in Ks /\ h # 0
    BY ConstFacts
  <2>10. u = [x EXCEPT !.n = h, !.state = s, !.outq = o]
    BY ONLY <1>2, <2>1, <2>3, <2>4, <2>8
  <2>11. /\ u.state = s /\ u.n = h /\ u.p = x.p /\ u.marked = x.marked /\ u.hops = x.hops
         /\ u.outq = o /\ u.inq = x.inq /\ u \in CircsOf(c)
    BY ONLY <2>6, <2>8, <2>9, <2>10, x \in CircsOf(c), Zenon DEF CircsOf
  <2>12. ~ u.marked /\ Up(u)
    BY <2>8, <2>11 DEF Up
  <2> QED
    BY <2>7, <2>8, <2>9, <2>11, <2>12 DEF Takes
<1> QED
  BY <1>1, <1>2, Zenon

\* The hop an EXTEND is for waits for a connection, or has one.
LEMMA ExtendTaken ==
  ASSUME NEW c \in Circuits, NEW z, NEW y, IsView(z, c), Inv(z),
         NEW l \in Links, NEW k \in Conns, NEW e, ReadsExtend(z, y, l, k, e), e.to = l,
         NEW h \in Ks, Takes(z.node[l], y.node[l], l, h), h # 0 => z.near[l + 1][h] = "open"
  PROVE  /\ SteadyButWaiters(y)
         /\ \A j \in Nodes : j # l => Waiter(y, j)
         /\ h # 0 => Inv(y)
<1>t. Turn(z, y, l, l, k) /\ y.bwd[l][k] = z.bwd[l][k]
  BY DEF ReadsExtend
<1>1. /\ At(z, "fwd", l, k) /\ LinkShape(y, l, k)
      /\ ~ Holds(y.fwd[l][k], Shaking) /\ One(y.fwd[l][k]) /\ SameTalk(z, y, l, k)
      /\ e.to \in 1 .. PathLen - 1 /\ CleanFrom(z, e.to + 1) /\ (Up0(z) => e.to <= Hops(z))
      /\ Reached(z, l, k)
  BY ONLY c \in Circuits, IsView(z, c), Inv(z), l \in Links, k \in Conns,
     ReadsExtend(z, y, l, k, e), ExtendRead, Zenon
<1>2. l \in Nodes /\ "fwd" \in Kinds /\ k \in Ks /\ l \in Nat /\ PathLen \in Nat
  BY ConstFacts, Zenon DEF Kinds
<1>3. Ready(z, l, l, k, "fwd", l, k)
  <2>1. l # PathLen /\ CleanFrom(z, l + 1) /\ (Up0(z) => l <= Hops(z))
    <3>1. l \in 1 .. PathLen - 1
      BY ONLY <1>1, e.to = l
    <3>2. l # PathLen
      BY ONLY <3>1, <1>2
    <3> QED
      BY ONLY <1>1, <3>2, e.to = l
  <2>2. Touched("fwd", l, k, l, l, k)
    BY DEF Touched
  <2>3. \A m \in Nodes : OnChain(z, "fwd", l, k, m) => l <= m
    BY <1>1 DEF Reached
  <2> QED
    BY ONLY <1>1, <2>1, <2>2, <2>3 DEF Ready
<1>4. Extends(z, y, l, l, k, h)
  <2>1. l <= l
    BY ONLY <1>2
  <2> QED
    BY ONLY <1>t, <1>1, <2>1, Takes(z.node[l], y.node[l], l, h),
       h # 0 => z.near[l + 1][h] = "open" DEF Extends
<1>5. SteadyButWaiters(z) /\ \A j \in Nodes : j # l => Waiter(z, j)
  BY DEF Inv, SteadyButWaiters, Waiters
<1> QED
  BY ONLY <1>2, <1>3, <1>4, <1>5, c \in Circuits, IsView(z, c), l \in Links, k \in Conns, h \in Ks,
     ExtendStep

\* A circuit that waits gets its connection, or a new one is launched.
LEMMA TakeUp ==
  ASSUME NEW c \in Circuits, NEW z, NEW y, IsView(z, c), SteadyButWaiters(z),
         NEW i \in Nodes, i # PathLen, \A j \in Nodes : j # i => Waiter(z, j),
         (Up(z.node[i]) /\ z.node[i].state = "OR_WAIT") \/ (i = 0 /\ z.node[0] = NoCircuit),
         NEW u, ZNode(z, y, i, u), NEW h \in Ks, Takes(z.node[i], u, i, h),
         h # 0 => z.near[i + 1][h] = "open"
  PROVE  /\ SteadyButWaiters(y)
         /\ \A j \in Nodes : j # i => Waiter(y, j)
         /\ h # 0 => Inv(y)
<1>1. PICK l \in Links : l = i + 1
  BY ConstFacts
<1>2. PICK k \in Conns : k = 1
  BY ConstFacts DEF Conns
<1>3. Turn(z, y, i, l, k) /\ y.fwd[l][k] = z.fwd[l][k] /\ y.bwd[l][k] = z.bwd[l][k] /\ y.node[i] = u
      /\ y.near = z.near /\ y.far = z.far
  BY DEF ZNode, Turn
<1>4. Frontier(z) /\ Shape(z)
  BY DEF SteadyButWaiters
<1>5. i # 0 => i \in Links
  BY ConstFacts
<1>6. CleanFrom(z, i + 1) /\ (Up0(z) => i <= Hops(z))
  <2>1. CASE i = 0
    <3>1. CleanFrom(z, 1)
      BY <1>4, <2>1 DEF Frontier, Up0
    <3>2. Hops(z) \in Nat
      BY ViewParts, ConstFacts, Zenon DEF Hops
    <3> QED
      BY ONLY <2>1, <3>1, <3>2
  <2>2. CASE i # 0
    <3>1. GoodWaiter(z, i)
      BY <1>4, <1>5, <2>2 DEF Frontier
    <3> QED
      BY <2>2, <3>1 DEF GoodWaiter
  <2> QED
    BY <2>1, <2>2
<1>7. Clean(z, l)
  <2>1. l >= i + 1
    BY <1>1, ConstFacts
  <2> QED
    BY <1>6, <2>1 DEF CleanFrom
<1>8. z.fwd[l][k] = <<>>
  BY <1>7 DEF Clean
<1>9. PICK g \in Kinds : g = IF i = 0 THEN "origin" ELSE "relay"
  BY DEF Kinds
<1>10. At(z, g, i, 0)
  BY <1>9 DEF At
<1>11. Ready(z, i, l, k, g, i, 0)
  <2>1. Touched(g, i, 0, i, l, k) /\ g \in {"fwd", "relay", "origin"}
    BY <1>9 DEF Touched
  <2>2. \A m \in Nodes : OnChain(z, g, i, 0, m) => i <= m
    BY <1>9 DEF OnChain
  <2> QED
    BY ONLY <1>6, <1>10, <2>1, <2>2, i # PathLen DEF Ready
<1>12. LinkShape(y, l, k)
  <2>1. LinkShape(z, l, k)
    BY <1>4 DEF Shape
  <2> QED
    BY ONLY <1>3, <2>1 DEF LinkShape
<1>13. Extends(z, y, i, l, k, h)
  <2>1. SameTalk(z, y, l, k) /\ ~ Holds(y.fwd[l][k], Shaking) /\ One(y.fwd[l][k])
    BY ONLY <1>3, <1>8, EmptyQueue DEF SameTalk
  <2>2. Takes(z.node[i], y.node[i], i, h)
    BY <1>3
  <2> QED
    BY ONLY <1>3, <1>12, <2>1, <2>2, h # 0 => z.near[i + 1][h] = "open" DEF Extends
<1>14. 0 \in Ks
  BY ConstFacts
<1> QED
  BY ONLY <1>9, <1>11, <1>13, <1>14, c \in Circuits, IsView(z, c), SteadyButWaiters(z), i \in Nodes,
     \A j \in Nodes : j # i => Waiter(z, j),
     l \in Links, k \in Conns, h \in Ks, ExtendStep, Zenon

----------------------------------------------------------------------------
(* A reply is read from connection k of link l, at node i = l - 1.         *)

\* Node i reads a CREATED, EXTENDED or TRUNCATED cell.
ReadsReply(z, y, i, l, k, e) ==
  /\ i = l - 1 /\ Dropped(z.bwd[l][k], e, y.bwd[l][k]) /\ e.cmd \in InCmds
  /\ Turn(z, y, i, l, k) /\ y.fwd[l][k] = z.fwd[l][k]

\* A CREATED, EXTENDED or TRUNCATED cell leaves the wire.
LEMMA ReplyRead ==
  ASSUME NEW c \in Circuits, NEW z, NEW y, IsView(z, c), Inv(z),
         NEW l \in Links, NEW k \in Conns, NEW i, NEW e, ReadsReply(z, y, i, l, k, e)
  PROVE  /\ LinkShape(y, l, k) /\ One(y.bwd[l][k]) /\ SameTalk(z, y, l, k)
         /\ e.cmd \in Shaking => At(z, "bwd", l, k) /\ ~ Holds(y.bwd[l][k], Shaking)
         /\ Thin(y.bwd[l][k], z.bwd[l][k]) /\ z.bwd[l][k] # <<>>
         /\ \A S : Holds(z.bwd[l][k], S) <=> Holds(y.bwd[l][k], S) \/ e.cmd \in S
         /\ e.cmd = "CREATED" => CleanFrom(z, l + 1) /\ (Up0(z) => l <= Hops(z) + 1)
         /\ e.cmd = "EXTENDED" => (Up0(z) => CleanFrom(z, Hops(z) + 2))
<1>q. PICK Q : Q = z.bwd[l][k]
  OBVIOUS
<1>r. PICK r : r = y.bwd[l][k]
  OBVIOUS
<1>d. Dropped(Q, e, r) /\ e.cmd \in InCmds
  BY <1>q, <1>r DEF ReadsReply
<1>t. Turn(z, y, i, l, k) /\ y.fwd[l][k] = z.fwd[l][k]
  BY DEF ReadsReply
<1>5. Q \in Seq(CellsOf(c))
  BY <1>q, ViewParts
<1>6. /\ e \in CellsOf(c)
      /\ \A S : Holds(Q, S) <=> Holds(r, S) \/ e.cmd \in S
      /\ \A t : Aims(Q, t) <=> Aims(r, t) \/ (e.cmd = "EXTEND" /\ e.to = t)
      /\ \A S : Only(Q, S) <=> Only(r, S) /\ e.cmd \in S
      /\ One(Q) => One(r) /\ (e.cmd \in Shaking => ~ Holds(r, Shaking))
  BY ONLY <1>5, <1>d, DropCell
<1>7. One(Q)
  BY <1>q DEF Inv, Ones
<1>11. k # 0 /\ l # 0 /\ l \in Nodes
  BY ConstFacts
<1>12. e.cmd \in Shaking => At(z, "bwd", l, k) /\ ~ Holds(r, Shaking)
  BY <1>q, <1>6, <1>7, <1>11 DEF At
<1>13. LinkShape(y, l, k)
  <2>1. LinkShape(z, l, k) /\ y.near = z.near /\ y.far = z.far
    BY <1>t DEF Inv, Shape, Turn
  <2>2. Only(r, InCmds \cup {"DESTROY"})
    BY <1>6, <1>q, <2>1 DEF LinkShape
  <2> QED
    BY ONLY <1>r, <1>t, <2>1, <2>2 DEF LinkShape
<1>14. SameTalk(z, y, l, k)
  <2>1. e.cmd # "DESTROY"
    BY <1>d DEF InCmds
  <2>2. Holds(r, {"DESTROY"}) <=> Holds(Q, {"DESTROY"})
    BY <1>6, <2>1
  <2> QED
    BY ONLY <1>q, <1>r, <1>t, <2>2 DEF SameTalk
<1>15. GoodQueue(z, Q, l)
  BY <1>q DEF Inv, Frontier
<1>16. e.cmd = "CREATED" => CleanFrom(z, l + 1) /\ (Up0(z) => l <= Hops(z) + 1)
  <2>1. e.cmd = "CREATED" => Holds(Q, {"CREATED"})
    BY <1>6
  <2> QED
    BY ONLY <1>15, <2>1 DEF GoodQueue
<1>17. e.cmd = "EXTENDED" => (Up0(z) => CleanFrom(z, Hops(z) + 2))
  <2>1. e.cmd = "EXTENDED" => Holds(Q, {"EXTENDED"})
    BY <1>6
  <2> QED
    BY ONLY <1>15, <2>1 DEF GoodQueue
<1>18. Thin(r, Q)
  BY ONLY <1>6, <1>7 DEF Thin
<1>19. Q # <<>>
  BY <1>d DEF Dropped
<1> QED
  BY ONLY <1>6, <1>7, <1>12, <1>13, <1>14, <1>16, <1>17, <1>18, <1>19, <1>q, <1>r

\* Node i drops the reply, or the origin is about to close the circuit.
LEMMA ReplyDropped ==
  ASSUME NEW c \in Circuits, NEW z, NEW y, IsView(z, c), Inv(z),
         NEW l \in Links, NEW k \in Conns, NEW i, NEW e, ReadsReply(z, y, i, l, k, e),
         y.node[i] = z.node[i]
  PROVE  /\ ~ Shares(z, l, k) => Inv(y)
         /\ i = 0 => MarkReady(y, i)
<1>i. i = l - 1 /\ e.cmd \in InCmds
  BY DEF ReadsReply
<1>t. Turn(z, y, i, l, k) /\ y.fwd[l][k] = z.fwd[l][k]
  BY DEF ReadsReply
<1>1. /\ LinkShape(y, l, k) /\ SameTalk(z, y, l, k)
      /\ e.cmd \in Shaking => At(z, "bwd", l, k)
      /\ Thin(y.bwd[l][k], z.bwd[l][k]) /\ z.bwd[l][k] # <<>>
      /\ \A S : Holds(z.bwd[l][k], S) <=> Holds(y.bwd[l][k], S) \/ e.cmd \in S
  BY ONLY c \in Circuits, IsView(z, c), Inv(z), l \in Links, k \in Conns,
     ReadsReply(z, y, i, l, k, e), ReplyRead
<1>3. l \in Nodes /\ i \in Nodes /\ "bwd" \in Kinds /\ k \in Ks
  BY <1>i, ConstFacts DEF Kinds
<1>4. \A j \in Nodes : y.node[j] = z.node[j]
  BY <1>t DEF Turn
<1>5. Calm(z, y)
  <2>1. ASSUME NEW m \in Links, NEW h \in Conns
        PROVE /\ Thin(y.fwd[m][h], z.fwd[m][h]) /\ Thin(y.bwd[m][h], z.bwd[m][h])
              /\ z.bwd[m][h] = <<>> => y.bwd[m][h] = <<>>
              /\ y.fwd[m][h] = z.fwd[m][h]
    <3>1. CASE m # l \/ h # k
      BY <1>t, <3>1, ThinSelf DEF Turn
    <3>2. CASE m = l /\ h = k
      BY <1>1, <1>t, <3>2, ThinSelf
    <3> QED
      BY <3>1, <3>2
  <2>2. \A m \in Links : (Clean(z, m) => Clean(y, m)) /\ (Bare(z, m) => Bare(y, m))
    <3>1. \A m \in Links : m \in Nodes /\ m - 1 \in Nodes
      BY ConstFacts
    <3> QED
      BY ONLY <1>4, <2>1, <3>1 DEF Clean, Bare
  <2>3. 0 \in Nodes
    BY ConstFacts
  <2> QED
    BY ONLY <1>4, <2>1, <2>2, <2>3, ThinSelf DEF Calm, Hops
<1>6. NodeShape(y, i) /\ Waiter(y, i) /\ NodeUp(y, i)
  <2>1. NodeShape(z, i) /\ Waiter(z, i) /\ NodeUp(z, i)
    BY <1>3 DEF Inv, Shape, Waiters, Ups
  <2>2. y.near = z.near /\ y.far = z.far /\ y.len = z.len
    BY <1>t DEF Turn
  <2> QED
    BY ONLY <1>3, <1>4, <2>1, <2>2 DEF NodeShape, Waiter, NodeUp
<1>7. Agree(y)
  <2>1. Agree(z) /\ SameEnds(z.node[i], y.node[i])
    BY <1>3, <1>4 DEF Inv, SameEnds
  <2> QED
    BY ONLY <1>1, <1>3, <1>t, <2>1, l \in Links, k \in Conns, TurnSame
<1>8. /\ NodeUp(y, i) /\ Chain(y) => Inv(y)
      /\ Shape(y) /\ Alone(y) /\ Ones(y) /\ Frontier(y)
      /\ \A j \in Nodes : j # i => NodeUp(y, j) /\ Waiter(y, j)
  BY ONLY <1>t, <1>1, <1>3, <1>5, <1>6, <1>7, c \in Circuits, IsView(z, c), Inv(z), l \in Links,
     k \in Conns,
     CalmStep
<1>9. ASSUME ~ Shares(z, l, k), Building(y) PROVE Linked(y)
  <2>1. Building(z) /\ Up0(z)
    BY <1>4, <1>9, ConstFacts DEF Building, Up0
  <2>2. PICK m \in Nodes : Pre(z, m) /\ (News(z, m) \/ Within(z, m))
    BY <2>1 DEF Inv, Chain, Linked
  <2>3. SafeNode(z.node[i], y.node[i])
    BY <1>3, <1>4 DEF SafeNode
  <2>4. Pre(y, m)
    BY ONLY <1>t, <1>3, <2>1, <2>2, <2>3, c \in Circuits, IsView(z, c), l \in Links, k \in Conns,
       TurnPre, Zenon
  <2>5. CASE News(z, m)
    <3>1. NewsKept(z, y, i, l, k)
      BY ONLY <1>3, <1>4, <1>9 DEF NewsKept
    <3>2. News(y, m)
      BY ONLY <1>t, <1>3, <2>1, <2>2, <2>3, <2>5, <3>1, c \in Circuits, IsView(z, c), l \in Links,
         k \in Conns, TurnNews
    <3> QED
      BY <2>4, <3>2 DEF Linked
  <2>6. CASE Within(z, m) /\ e.cmd \in Shaking
    <3>1. Alone(z)
      BY DEF Inv
    <3>2. OnChain(z, "bwd", l, k, m)
      BY ONLY <1>1, <1>3, <2>1, <2>2, <2>6, <3>1, c \in Circuits, IsView(z, c), WithinPlace
    <3>3. l <= m /\ k = z.node[l - 1].n
      BY <3>2 DEF OnChain
    <3>4. Good(z, l)
      BY <2>2, <3>3 DEF Pre
    <3> QED
      BY <1>9, <3>3, <3>4 DEF Good, Shares
  <2>7. CASE Within(z, m) /\ e.cmd \notin Shaking
    <3>1. Holds(z.bwd[l][k], Shaking) => Holds(y.bwd[l][k], Shaking)
      BY <1>1, <2>7
    <3>2. TokenKept(z, y, i, l, k)
      BY ONLY <1>3, <1>4, <1>t, <3>1 DEF TokenKept
    <3>3. Within(y, m)
      BY ONLY <1>t, <1>3, <2>1, <2>2, <2>3, <2>7, <3>2, c \in Circuits, IsView(z, c), l \in Links,
         k \in Conns, TurnWithin
    <3> QED
      BY <2>4, <3>3 DEF Linked
  <2> QED
    BY <2>2, <2>5, <2>6, <2>7
<1>10. i = 0 => MarkReady(y, i)
  BY ONLY <1>7, <1>8 DEF MarkReady
<1>11. ~ Shares(z, l, k) => Inv(y)
  BY ONLY <1>6, <1>8, <1>9 DEF Chain
<1> QED
  BY <1>10, <1>11

\* A relay passes the reply on; CREATED becomes EXTENDED.
LEMMA ReplyPassed ==
  ASSUME NEW c \in Circuits, NEW z, NEW y, IsView(z, c), Inv(z),
         NEW l \in Links, NEW k \in Conns, NEW i, NEW e, ReadsReply(z, y, i, l, k, e),
         Shares(z, l, k), i # 0, NEW a \in CellsOf(c),
         a.cmd = IF e.cmd = "CREATED" THEN "EXTENDED" ELSE e.cmd,
         y.node[i] = [z.node[i] EXCEPT !.inq = Append(z.node[i].inq, a)]
  PROVE  Inv(y)
<1>x. PICK x : x = z.node[i]
  OBVIOUS
<1>u. PICK u : u = y.node[i]
  OBVIOUS
<1>o. PICK o : o = Append(x.inq, a)
  BY Zenon
<1>d. u = [x EXCEPT !.inq = o]
  BY <1>x, <1>u, <1>o
<1>i. i = l - 1 /\ e.cmd \in InCmds
  BY DEF ReadsReply
<1>p. x.n = k /\ Up(x)
  BY <1>x, <1>i DEF Shares
<1>t. Turn(z, y, i, l, k) /\ y.fwd[l][k] = z.fwd[l][k]
  BY DEF ReadsReply
<1>1. /\ LinkShape(y, l, k) /\ One(y.bwd[l][k]) /\ SameTalk(z, y, l, k)
      /\ e.cmd \in Shaking => At(z, "bwd", l, k) /\ ~ Holds(y.bwd[l][k], Shaking)
      /\ Thin(y.bwd[l][k], z.bwd[l][k]) /\ z.bwd[l][k] # <<>>
      /\ \A S : Holds(z.bwd[l][k], S) <=> Holds(y.bwd[l][k], S) \/ e.cmd \in S
  BY ONLY c \in Circuits, IsView(z, c), Inv(z), l \in Links, k \in Conns,
     ReadsReply(z, y, i, l, k, e), ReplyRead, ZenonT(30)
<1>2. /\ e.cmd = "CREATED" => CleanFrom(z, l + 1) /\ (Up0(z) => l <= Hops(z) + 1)
      /\ e.cmd = "EXTENDED" => (Up0(z) => CleanFrom(z, Hops(z) + 2))
  BY ONLY c \in Circuits, IsView(z, c), Inv(z), l \in Links, k \in Conns,
     ReadsReply(z, y, i, l, k, e), ReplyRead, Zenon
<1>3. /\ l \in Nodes /\ i \in Nodes /\ k \in Ks /\ k # 0 /\ 0 \in Ks
      /\ l \in Nat /\ i \in Nat /\ i < l /\ l = i + 1 /\ i # l
  BY ONLY <1>i, l \in Links, k \in Conns, LinkEnds
<1>k. "bwd" \in Kinds /\ "in" \in Kinds
  BY DEF Kinds
<1>4. x \in CircsOf(c) /\ x.inq \in Seq(CellsOf(c))
  BY <1>3, <1>x, ViewParts
<1>5. /\ o \in Seq(CellsOf(c)) /\ o # <<>>
      /\ \A S : Holds(o, S) <=> Holds(x.inq, S) \/ a.cmd \in S
      /\ \A t : Aims(o, t) <=> Aims(x.inq, t) \/ (a.cmd = "EXTEND" /\ a.to = t)
      /\ \A S : Only(o, S) <=> Only(x.inq, S) /\ a.cmd \in S
      /\ One(x.inq) /\ (a.cmd \notin Shaking \/ ~ Holds(x.inq, Shaking)) => One(o)
  <2>1. PICK v : v = x.inq
    OBVIOUS
  <2>2. v \in Seq(CellsOf(c)) /\ o = Append(v, a) /\ a \in CellsOf(c)
    BY <1>o, <1>4, <2>1
  <2>3. /\ o \in Seq(CellsOf(c)) /\ o # <<>>
        /\ \A S : Holds(o, S) <=> Holds(v, S) \/ a.cmd \in S
        /\ \A t : Aims(o, t) <=> Aims(v, t) \/ (a.cmd = "EXTEND" /\ a.to = t)
        /\ \A S : Only(o, S) <=> Only(v, S) /\ a.cmd \in S
        /\ One(v) /\ (a.cmd \notin Shaking \/ ~ Holds(v, Shaking)) => One(o)
    BY ONLY <2>2, AddCell, Zenon
  <2> QED
    BY ONLY <2>1, <2>3
<1>6. /\ u.inq = o /\ u.outq = x.outq /\ u.state = x.state
      /\ u.n = x.n /\ u.p = x.p /\ u.marked = x.marked /\ u.hops = x.hops
  BY ONLY <1>4, <1>5, <1>d, c \in Circuits, QueueFields
<1>7. Up(u)
  BY <1>6, <1>p DEF Up
<1>c. /\ a.cmd \in {"EXTENDED", "TRUNCATED"} /\ a.cmd \in InCmds
      /\ e.cmd = "TRUNCATED" <=> a.cmd = "TRUNCATED"
      /\ e.cmd \in Shaking <=> a.cmd = "EXTENDED"
      /\ a.cmd = "EXTENDED" => a.cmd \in Shaking
      /\ e.cmd \in Shaking => e.cmd \in {"CREATED", "EXTENDED"}
  BY <1>i DEF InCmds, Shaking
<1>9. One(x.inq) /\ One(x.outq) /\ One(z.fwd[l][k])
  BY <1>x, <1>3 DEF Inv, Ones
<1>11. NodeShape(z, i) /\ NodeUp(z, i) /\ Waiter(z, i)
  BY <1>3 DEF Inv, Shape, Ups, Waiters
<1>12. y.near = z.near /\ y.far = z.far /\ y.len = z.len
  BY <1>t DEF Turn
<1>13. NodeShape(y, i)
  <2>1. Only(o, InCmds)
    <3>1. Only(x.inq, InCmds)
      BY <1>11, <1>x DEF NodeShape
    <3> QED
      BY <1>5, <1>c, <3>1
  <2>2. u.state # "none"
    BY <1>7 DEF Up
  <2>3. x.p # 0
    BY <1>11, <1>x, <1>p DEF NodeUp
  <2> QED
    BY ONLY <1>3, <1>6, <1>11, <1>12, <1>p, <1>x, <1>u, <2>1, <2>2, <2>3 DEF NodeShape
<1>14. NodeUp(y, i) /\ Waiter(y, i)
  BY ONLY <1>3, <1>6, <1>7, <1>p, <1>11, <1>12, <1>x, <1>u DEF NodeUp, Waiter
<1>15. (Up0(y) <=> Up0(z)) /\ Hops(y) = Hops(z) /\ (Building(y) <=> Building(z)) /\ y.node[0] = z.node[0]
  <2>1. y.node[0] = z.node[0]
    BY <1>t, ConstFacts DEF Turn
  <2> QED
    BY <2>1 DEF Up0, Hops, Building
<1>18. Agree(y)
  <2>0. Agree(z)
    BY DEF Inv
  <2>1. SameEnds(z.node[i], y.node[i])
    BY ONLY <1>x, <1>u, <1>6, <1>7, <1>p DEF SameEnds
  <2> QED
    BY ONLY <1>t, <1>3, <1>1, <2>0, <2>1, l \in Links, k \in Conns, TurnSame
<1>19. SafeNode(z.node[i], y.node[i])
  BY ONLY <1>x, <1>u, <1>6, <1>7 DEF SafeNode
<1>20. NewsKept(z, y, i, l, k)
  <2>1. Holds(z.bwd[l][k], {"TRUNCATED"}) => Holds(y.bwd[l][k], {"TRUNCATED"}) \/ Holds(o, {"TRUNCATED"})
    BY <1>1, <1>5, <1>c
  <2>2. Holds(z.bwd[l][k], {"DESTROY"}) => Holds(y.bwd[l][k], {"DESTROY"})
    BY <1>1 DEF SameTalk
  <2>3. Holds(x.inq, {"TRUNCATED"}) => Holds(o, {"TRUNCATED"})
    BY <1>5
  <2> QED
    BY ONLY <1>i, <1>x, <1>u, <1>6, <2>1, <2>2, <2>3 DEF NewsKept
<1>40. CASE e.cmd \notin Shaking
  <2>0. a.cmd = "TRUNCATED" /\ a.cmd \notin Shaking
    BY <1>40, <1>c DEF Shaking
  <2>2. Thin(o, x.inq)
    <3>1. a.cmd # "EXTEND" /\ a.cmd \notin Creates /\ a.cmd \notin {"CREATED"} /\ a.cmd \notin {"EXTENDED"}
      BY <2>0 DEF Creates
    <3> QED
      BY ONLY <1>5, <2>0, <3>1 DEF Thin
  <2>3. ASSUME NEW j \in Nodes
        PROVE /\ Thin(y.node[j].outq, z.node[j].outq) /\ Thin(y.node[j].inq, z.node[j].inq)
              /\ Up(y.node[j]) => Up(z.node[j]) /\ y.node[j].state = z.node[j].state
              /\ z.node[j] = NoCircuit => y.node[j] = NoCircuit
              /\ z.node[j].n = 0 => y.node[j].n = 0
    <3>1. CASE j # i
      BY <1>t, <3>1, ThinSelf DEF Turn
    <3>2. CASE j = i
      <4>1. x # NoCircuit
        BY <1>p DEF NoCircuit, Up
      <4> QED
        BY ONLY <1>x, <1>u, <1>6, <1>p, <2>2, <3>2, <4>1, ThinSelf
    <3> QED
      BY <3>1, <3>2
  <2>4. ASSUME NEW m \in Links, NEW h \in Conns
        PROVE /\ Thin(y.fwd[m][h], z.fwd[m][h]) /\ Thin(y.bwd[m][h], z.bwd[m][h])
              /\ y.fwd[m][h] = z.fwd[m][h]
              /\ z.bwd[m][h] = <<>> => y.bwd[m][h] = <<>>
    <3>1. CASE m # l \/ h # k
      BY <1>t, <3>1, ThinSelf DEF Turn
    <3>2. CASE m = l /\ h = k
      BY <1>t, <1>1, <3>2, ThinSelf
    <3> QED
      BY <3>1, <3>2
  <2>5. \A m \in Links : (Clean(z, m) => Clean(y, m)) /\ (Bare(z, m) => Bare(y, m))
    <3>1. \A m \in Links : m \in Nodes /\ m - 1 \in Nodes
      BY ConstFacts
    <3> QED
      BY ONLY <2>3, <2>4, <3>1 DEF Clean, Bare
  <2>7. Calm(z, y)
    BY ONLY <1>15, <2>3, <2>4, <2>5 DEF Calm
  <2>8. TokenKept(z, y, i, l, k)
    <3>1. Holds(x.inq, Shaking) => Holds(u.inq, Shaking)
      BY <1>5, <1>6
    <3>2. Holds(z.bwd[l][k], Shaking) => Holds(y.bwd[l][k], Shaking)
      BY <1>1, <1>40
    <3> QED
      BY ONLY <1>x, <1>u, <1>6, <1>t, <3>1, <3>2 DEF TokenKept
  <2>9. Chain(y)
    <3>1. Chain(z) /\ (Building(y) => Building(z))
      BY <1>15 DEF Inv
    <3> QED
      BY ONLY <1>3, <1>t, <1>19, <1>20, <2>8, <3>1, c \in Circuits, IsView(z, c), l \in Links,
         k \in Conns, ChainSame
  <2> QED
    BY ONLY <1>1, <1>3, <1>t, <1>13, <1>14, <1>18, <2>7, <2>9, c \in Circuits, IsView(z, c), Inv(z),
       l \in Links, k \in Conns, CalmStep
<1>50. CASE e.cmd \in Shaking
  <2>0. At(z, "bwd", l, k) /\ ~ Holds(y.bwd[l][k], Shaking) /\ a.cmd = "EXTENDED" /\ a.cmd \in Shaking
    BY <1>1, <1>50, <1>c
  <2>a. Alone(z)
    BY DEF Inv
  <2>8. /\ ~ Holds(x.outq, Shaking) /\ ~ Holds(x.inq, Shaking) /\ ~ Holds(z.fwd[l][k], Shaking)
        /\ x.state \notin {"OR_WAIT", "ONIONSKIN_PENDING"}
    <3>1. /\ \A j \in Nodes : Holds(z.node[j].outq, Shaking) => "bwd" = "out" /\ l = j
          /\ \A j \in Nodes : Holds(z.node[j].inq, Shaking) => "bwd" = "in" /\ l = j
          /\ \A m \in Links, h \in Conns : Holds(z.fwd[m][h], Shaking) => "bwd" = "fwd" /\ l = m /\ k = h
          /\ \A j \in Links : Up(z.node[j]) /\ z.node[j].state \in {"OR_WAIT", "ONIONSKIN_PENDING"}
                => "bwd" = "relay" /\ l = j
      BY ONLY <2>a, <2>0, <1>3, <1>k, Elsewhere
    <3>2. i \in Links
      BY <1>3, ConstFacts
    <3> QED
      BY <1>3, <1>x, <1>p, <3>1, <3>2
  <2>10. One(o)
    BY <1>5, <1>9, <2>8
  <2>16. \A f \in Kinds : \A p \in Nodes : \A q \in Ks :
             Touched(f, p, q, i, l, k) /\ At(y, f, p, q) => f = "in" /\ p = i /\ q = 0
    <3>1. ~ Holds(y.node[i].outq, Shaking) /\ ~ Holds(y.bwd[l][k], Shaking) /\ ~ Holds(y.fwd[l][k], Shaking)
      BY <1>u, <1>6, <2>8, <1>t, <2>0
    <3>2. y.node[i].state \notin {"OR_WAIT", "ONIONSKIN_PENDING"}
      BY <1>u, <1>6, <2>8
    <3> QED
      BY ONLY <1>3, <3>1, <3>2, i # 0, l \in Links, k \in Conns, TouchedAre, Zenon
  <2>17. ASSUME Up0(z) PROVE CleanFrom(y, Hops(z) + 2)
    <3>1. Hops(z) \in Nat
      BY ViewParts, ConstFacts, Zenon DEF Hops
    <3>2. PICK t : t = Hops(z) + 2
      OBVIOUS
    <3>3. t \in Nat
      BY ONLY <3>1, <3>2
    <3>4. CleanFrom(z, t)
      <4>1. CASE e.cmd = "EXTENDED"
        BY <1>2, <2>17, <3>2, <4>1
      <4>2. CASE e.cmd = "CREATED"
        <5>1. CleanFrom(z, l + 1) /\ l <= Hops(z) + 1
          BY <1>2, <2>17, <4>2
        <5>2. \A j \in Links : j \in Nat
          BY ConstFacts
        <5>3. \A j \in Links : j >= t => j >= l + 1
          BY ONLY <1>3, <3>1, <3>2, <5>1, <5>2
        <5> QED
          BY ONLY <5>1, <5>3 DEF CleanFrom
      <4> QED
        BY <1>50, <1>c, <4>1, <4>2
    <3>5. l < t
      <4>1. SUFFICES ASSUME l >= t PROVE FALSE
        BY ONLY <1>3, <3>3, <4>1
      <4>2. Clean(z, l)
        BY <3>4, <4>1 DEF CleanFrom
      <4> QED
        BY <1>1, <4>2 DEF Clean
    <3>6. i < t /\ z.node[i].n # 0
      BY ONLY <1>3, <3>3, <3>5, <1>x, <1>p
    <3> QED
      BY ONLY <1>3, <1>t, <3>2, <3>3, <3>4, <3>5, <3>6, l \in Links, k \in Conns, TurnClean, ZenonT(30)
  <2>18. GoodAt(y, "in", i, 0)
    <3>1. ~ Holds(x.inq, Creates) /\ ~ Holds(x.inq, {"CREATED"}) /\ \A t : ~ Aims(x.inq, t)
      BY <2>8 DEF Holds, Aims, Creates, Shaking
    <3>2. ~ Holds(o, Creates) /\ ~ Holds(o, {"CREATED"}) /\ \A t : ~ Aims(o, t)
      <4>1. a.cmd \notin Creates /\ a.cmd \notin {"CREATED"} /\ a.cmd # "EXTEND"
        BY <2>0 DEF Creates
      <4> QED
        BY ONLY <1>5, <3>1, <4>1
    <3>3. GoodQueue(y, o, i)
      BY ONLY <1>15, <2>17, <3>2 DEF GoodQueue
    <3> QED
      BY ONLY <1>u, <1>6, <3>3 DEF GoodAt
  <2>20. ASSUME NEW m \in Nodes, Building(y), Pre(z, m), Pre(y, m), OnChain(z, "bwd", l, k, m)
         PROVE  Linked(y)
    <3>1. l <= m
      BY <2>20 DEF OnChain
    <3>2. At(y, "in", i, 0)
      BY <1>u, <1>5, <1>6, <2>0, Zenon DEF At
    <3>3. i <= m
      <4>1. m \in Nat
        BY ConstFacts
      <4> QED
        BY ONLY <1>3, <3>1, <4>1
    <3>4. OnChain(y, "in", i, 0, m)
      BY <3>3 DEF OnChain
    <3> QED
      BY ONLY <1>3, <2>20, <3>2, <3>4, PlaceWithin
  <2>21. SteadyButWaiters(z) /\ \A j \in Nodes : j # i => Waiter(z, j)
    BY DEF Inv, SteadyButWaiters, Waiters
  <2>22. Touched("bwd", l, k, i, l, k)
    BY DEF Touched
  <2>23. One(y.node[i].outq) /\ One(y.node[i].inq) /\ One(y.fwd[l][k]) /\ One(y.bwd[l][k])
    BY <1>u, <1>t, <1>1, <1>6, <1>9, <2>10, Zenon
  <2> QED
    BY ONLY <1>1, <1>3, <1>k, <2>0, <1>13, <1>14, <1>15, <2>16, <2>18, <1>18, <1>19, <1>20, <2>20,
       <2>21, <2>22, <2>23,
       <1>t, c \in Circuits, l \in Links, k \in Conns, IsView(z, c), TokenStep
<1> QED
  BY <1>40, <1>50

\* The origin opens another hop, and goes on with the next or is done.
Opens(x, u, n, c) ==
  /\ x.hops # n
  /\ IF x.hops + 1 = n THEN u = [x EXCEPT !.hops = x.hops + 1, !.state = "OPEN"]
     ELSE u = [x EXCEPT !.hops = x.hops + 1, !.outq = Append(x.outq, Cell("EXTEND", c, x.hops + 1))]

\* The fields of an origin that opened another hop.
LEMMA OpenFields ==
  ASSUME NEW c \in Circuits, NEW x \in CircsOf(c), NEW u, NEW n \in Nodes, Opens(x, u, n, c),
         x.hops <= n
  PROVE  /\ u \in CircsOf(c)
         /\ u.hops = x.hops + 1 /\ u.hops <= n /\ u.n = x.n /\ u.p = x.p /\ u.inq = x.inq
         /\ u.marked = x.marked
         /\ \/ u.hops = n /\ u.state = "OPEN" /\ u.outq = x.outq
            \/ /\ u.state = x.state /\ u.outq # <<>> /\ u.hops \in 1 .. PathLen - 1
               /\ \A S : Holds(u.outq, S) <=> Holds(x.outq, S) \/ "EXTEND" \in S
               /\ \A t : Aims(u.outq, t) <=> Aims(x.outq, t) \/ t = u.hops
               /\ \A S : Only(u.outq, S) <=> Only(x.outq, S) /\ "EXTEND" \in S
               /\ One(x.outq) /\ ~ Holds(x.outq, Shaking) => One(u.outq)
<1>1. PICK h : h = x.hops + 1
  OBVIOUS
<1>2. x.hops \in Nat /\ n \in Nat /\ n <= PathLen /\ PathLen \in Nat /\ x.hops # n
  BY ConstFacts DEF CircsOf, Nodes, Opens
<1>3. h \in Nodes /\ h <= n /\ (h # n => h \in 1 .. PathLen - 1)
  BY ONLY <1>1, <1>2, x.hops <= n DEF Nodes
<1>4. CASE h = n
  <2>1. u = [x EXCEPT !.hops = h, !.state = "OPEN"]
    BY <1>1, <1>4 DEF Opens
  <2>2. /\ u.state = "OPEN" /\ u.n = x.n /\ u.p = x.p /\ u.marked = x.marked /\ u.hops = h
        /\ u.outq = x.outq /\ u.inq = x.inq /\ u \in CircsOf(c)
    BY ONLY <1>3, <2>1, x \in CircsOf(c), Zenon DEF CircsOf, CircStates
  <2> QED
    BY ONLY <1>1, <1>3, <1>4, <2>2
<1>5. CASE h # n
  <2>1. PICK e : e = Cell("EXTEND", c, h)
    OBVIOUS
  <2>2. e \in CellsOf(c) /\ e.cmd = "EXTEND" /\ e.to = h
    BY <1>3, <2>1 DEF Cell, CellsOf, Commands
  <2>3. PICK q : q = x.outq
    OBVIOUS
  <2>4. PICK o : o = Append(q, e)
    BY Zenon
  <2>5. q \in Seq(CellsOf(c))
    BY <2>3 DEF CircsOf
  <2>6. /\ o \in Seq(CellsOf(c)) /\ o # <<>>
        /\ \A S : Holds(o, S) <=> Holds(q, S) \/ e.cmd \in S
        /\ \A t : Aims(o, t) <=> Aims(q, t) \/ (e.cmd = "EXTEND" /\ e.to = t)
        /\ \A S : Only(o, S) <=> Only(q, S) /\ e.cmd \in S
        /\ One(q) /\ (e.cmd \notin Shaking \/ ~ Holds(q, Shaking)) => One(o)
    BY ONLY <2>2, <2>4, <2>5, AddCell, Zenon
  <2>7. u = [x EXCEPT !.hops = h, !.outq = o]
    <3>1. u = [x EXCEPT !.hops = x.hops + 1, !.outq = Append(x.outq, Cell("EXTEND", c, x.hops + 1))]
      BY <1>1, <1>5 DEF Opens
    <3> QED
      BY ONLY <1>1, <2>1, <2>3, <2>4, <3>1
  <2>8. /\ u.state = x.state /\ u.n = x.n /\ u.p = x.p /\ u.marked = x.marked /\ u.hops = h
        /\ u.outq = o /\ u.inq = x.inq /\ u \in CircsOf(c)
    BY ONLY <1>3, <2>6, <2>7, x \in CircsOf(c), Zenon DEF CircsOf
  <2>9. /\ \A S : Holds(u.outq, S) <=> Holds(x.outq, S) \/ "EXTEND" \in S
        /\ \A t : Aims(u.outq, t) <=> Aims(x.outq, t) \/ t = u.hops
        /\ \A S : Only(u.outq, S) <=> Only(x.outq, S) /\ "EXTEND" \in S
        /\ One(x.outq) /\ ~ Holds(x.outq, Shaking) => One(u.outq)
    BY ONLY <2>2, <2>3, <2>6, <2>8
  <2> QED
    BY ONLY <1>1, <1>3, <1>5, <2>6, <2>8, <2>9
<1> QED
  BY <1>4, <1>5

\* The origin opens another hop, and extends the circuit or is done.
LEMMA ReplyOpens ==
  ASSUME NEW c \in Circuits, NEW z, NEW y, IsView(z, c), Inv(z),
         NEW l \in Links, NEW k \in Conns, NEW i, NEW e, ReadsReply(z, y, i, l, k, e),
         Shares(z, l, k), i = 0, e.cmd # "TRUNCATED", z.len \in Nodes,
         Opens(z.node[i], y.node[i], z.len, c)
  PROVE  Inv(y)
<1>x. PICK x : x = z.node[i]
  OBVIOUS
<1>u. PICK u : u = y.node[i]
  OBVIOUS
<1>i. i = l - 1 /\ e.cmd \in InCmds /\ i = 0
  BY Zenon DEF ReadsReply
<1>p. x.n = k /\ Up(x)
  BY <1>x, <1>i DEF Shares
<1>t. Turn(z, y, i, l, k) /\ y.fwd[l][k] = z.fwd[l][k]
  BY DEF ReadsReply
<1>0. e.cmd \in Shaking /\ e.cmd \in {"CREATED", "EXTENDED"}
  BY <1>i DEF InCmds, Shaking
<1>1. /\ LinkShape(y, l, k) /\ One(y.bwd[l][k]) /\ SameTalk(z, y, l, k)
      /\ At(z, "bwd", l, k) /\ ~ Holds(y.bwd[l][k], Shaking)
      /\ \A S : Holds(z.bwd[l][k], S) <=> Holds(y.bwd[l][k], S) \/ e.cmd \in S
  BY ONLY <1>0, c \in Circuits, IsView(z, c), Inv(z), l \in Links, k \in Conns,
     ReadsReply(z, y, i, l, k, e), ReplyRead, ZenonT(30)
<1>2. /\ e.cmd = "CREATED" => CleanFrom(z, l + 1) /\ (Up0(z) => l <= Hops(z) + 1)
      /\ e.cmd = "EXTENDED" => (Up0(z) => CleanFrom(z, Hops(z) + 2))
  BY ONLY c \in Circuits, IsView(z, c), Inv(z), l \in Links, k \in Conns,
     ReadsReply(z, y, i, l, k, e), ReplyRead, Zenon
<1>3. /\ l \in Nodes /\ i \in Nodes /\ k \in Ks /\ k # 0 /\ 0 \in Ks
      /\ l \in Nat /\ i \in Nat /\ i < l /\ l = i + 1 /\ i # l
  BY ONLY <1>i, l \in Links, k \in Conns, LinkEnds
<1>k. "bwd" \in Kinds /\ "out" \in Kinds /\ "origin" \in Kinds
  BY DEF Kinds
<1>4. x \in CircsOf(c) /\ x.hops \in Nat
  <2>1. x \in CircsOf(c) /\ x.hops \in Nodes
    BY <1>3, <1>x, ViewParts
  <2> QED
    BY <2>1, ConstFacts, Zenon
<1>11. NodeShape(z, i) /\ NodeUp(z, i)
  BY <1>3 DEF Inv, Shape, Ups
<1>5. x.hops <= z.len
  BY <1>11, <1>x, <1>i DEF NodeShape
<1>6. /\ u.hops = x.hops + 1 /\ u.hops <= z.len /\ u.n = x.n /\ u.p = x.p /\ u.inq = x.inq
      /\ u.marked = x.marked
      /\ \/ u.hops = z.len /\ u.state = "OPEN" /\ u.outq = x.outq
         \/ /\ u.state = x.state /\ u.outq # <<>> /\ u.hops \in 1 .. PathLen - 1
            /\ \A S : Holds(u.outq, S) <=> Holds(x.outq, S) \/ "EXTEND" \in S
            /\ \A t : Aims(u.outq, t) <=> Aims(x.outq, t) \/ t = u.hops
            /\ \A S : Only(u.outq, S) <=> Only(x.outq, S) /\ "EXTEND" \in S
            /\ One(x.outq) /\ ~ Holds(x.outq, Shaking) => One(u.outq)
  <2>1. PICK n : n = z.len
    OBVIOUS
  <2>2. n \in Nodes /\ Opens(x, u, n, c) /\ x.hops <= n
    BY <1>x, <1>u, <1>5, <2>1
  <2>3. /\ u.hops = x.hops + 1 /\ u.hops <= n /\ u.n = x.n /\ u.p = x.p /\ u.inq = x.inq
        /\ u.marked = x.marked
        /\ \/ u.hops = n /\ u.state = "OPEN" /\ u.outq = x.outq
           \/ /\ u.state = x.state /\ u.outq # <<>> /\ u.hops \in 1 .. PathLen - 1
              /\ \A S : Holds(u.outq, S) <=> Holds(x.outq, S) \/ "EXTEND" \in S
              /\ \A t : Aims(u.outq, t) <=> Aims(x.outq, t) \/ t = u.hops
              /\ \A S : Only(u.outq, S) <=> Only(x.outq, S) /\ "EXTEND" \in S
              /\ One(x.outq) /\ ~ Holds(x.outq, Shaking) => One(u.outq)
    BY ONLY <1>4, <2>2, c \in Circuits, OpenFields, Zenon
  <2> QED
    BY ONLY <2>1, <2>3
<1>8. /\ ~ Holds(x.outq, Shaking) /\ ~ Holds(x.inq, Shaking) /\ ~ Holds(z.fwd[l][k], Shaking)
      /\ x.state \notin {"OR_WAIT", "OPEN"}
  <2>a. Alone(z)
    BY DEF Inv
  <2>1. /\ \A j \in Nodes : Holds(z.node[j].outq, Shaking) => "bwd" = "out" /\ l = j
        /\ \A j \in Nodes : Holds(z.node[j].inq, Shaking) => "bwd" = "in" /\ l = j
        /\ \A m \in Links, h \in Conns : Holds(z.fwd[m][h], Shaking) => "bwd" = "fwd" /\ l = m /\ k = h
        /\ z.node[0] = NoCircuit \/ (Up0(z) /\ z.node[0].state \in {"OR_WAIT", "OPEN"})
              => "bwd" = "origin"
    BY ONLY <2>a, <1>1, <1>3, <1>k, Elsewhere
  <2> QED
    BY <1>3, <1>i, <1>x, <1>p, <2>1 DEF Up0
<1>7. Up(u)
  BY <1>6, <1>p DEF Up
<1>9. One(x.inq) /\ One(x.outq) /\ One(z.fwd[l][k])
  BY <1>x, <1>3 DEF Inv, Ones
<1>12. y.near = z.near /\ y.far = z.far /\ y.len = z.len
  BY <1>t DEF Turn
<1>21. (u.outq = x.outq \/ (u.outq # <<>> /\ One(u.outq) /\ Only(u.outq, OutCmds)))
       /\ (Holds(u.outq, Creates) <=> Holds(x.outq, Creates))
  <2>1. Only(x.outq, OutCmds)
    BY <1>11, <1>x DEF NodeShape
  <2>2. "EXTEND" \in OutCmds /\ "EXTEND" \notin Creates
    BY DEF OutCmds, Creates
  <2> QED
    BY ONLY <1>6, <1>8, <1>9, <2>1, <2>2
<1>13. NodeShape(y, i)
  <2>1. Only(u.outq, OutCmds) /\ One(u.outq)
    BY <1>9, <1>11, <1>21, <1>x DEF NodeShape
  <2>2. u.state # "none" /\ u.state # "ONIONSKIN_PENDING"
    <3>1. x.state # "ONIONSKIN_PENDING"
      BY <1>11, <1>x, <1>i DEF NodeShape
    <3> QED
      BY <1>6, <1>7, <3>1 DEF Up
  <2> QED
    BY ONLY <1>3, <1>i, <1>6, <1>11, <1>12, <1>p, <1>x, <1>u, <2>1, <2>2 DEF NodeShape
<1>14. NodeUp(y, i) /\ Waiter(y, i)
  <2>1. u.state \notin {"OR_WAIT", "ONIONSKIN_PENDING"}
    <3>1. x.state # "ONIONSKIN_PENDING"
      BY <1>11, <1>x, <1>i DEF NodeShape
    <3> QED
      BY <1>6, <1>8, <3>1
  <2> QED
    BY ONLY <1>3, <1>i, <1>6, <1>p, <2>1, <1>u DEF NodeUp, Waiter
<1>15. Up0(y) /\ Up0(z) /\ Hops(y) = u.hops /\ Hops(z) = x.hops /\ (Building(y) => Building(z))
  <2>1. z.node[0] = x /\ y.node[0] = u
    BY <1>x, <1>u, <1>i
  <2>2. x.state = "BUILDING" \/ u.state = "OPEN" \/ u.state # "BUILDING"
    BY <1>6
  <2> QED
    BY ONLY <1>7, <1>p, <2>1, <2>2 DEF Up0, Hops, Building
<1>18. Agree(y)
  <2>0. Agree(z)
    BY DEF Inv
  <2>1. SameEnds(z.node[i], y.node[i])
    BY ONLY <1>x, <1>u, <1>6, <1>7, <1>p, <1>21 DEF SameEnds
  <2> QED
    BY ONLY <1>t, <1>3, <1>1, <2>0, <2>1, l \in Links, k \in Conns, TurnSame
<1>19. SafeNode(z.node[i], y.node[i])
  BY ONLY <1>x, <1>u, <1>6, <1>7 DEF SafeNode
<1>20. NewsKept(z, y, i, l, k)
  <2>1. "TRUNCATED" \notin Shaking /\ e.cmd # "TRUNCATED" /\ e.cmd # "DESTROY"
    BY <1>0, CommandsDiffer
  <2>2. /\ Holds(z.bwd[l][k], {"TRUNCATED"}) => Holds(y.bwd[l][k], {"TRUNCATED"})
        /\ Holds(z.bwd[l][k], {"DESTROY"}) => Holds(y.bwd[l][k], {"DESTROY"})
    BY <1>1, <2>1
  <2> QED
    BY ONLY <1>x, <1>u, <1>6, <2>2 DEF NewsKept
<1>25. PICK g \in Kinds : g = IF u.state = "OPEN" THEN "origin" ELSE "out"
  BY <1>k
<1>26. \A f \in Kinds : \A p \in Nodes : \A q \in Ks :
           Touched(f, p, q, i, l, k) /\ At(y, f, p, q) => f = g /\ p = i /\ q = 0
  <2>1. ~ Holds(y.node[i].inq, Shaking) /\ ~ Holds(y.bwd[l][k], Shaking) /\ ~ Holds(y.fwd[l][k], Shaking)
    BY <1>u, <1>6, <1>8, <1>t, <1>1
  <2>2. Holds(y.node[i].outq, Shaking) => g = "out"
    BY <1>u, <1>6, <1>8, <1>25
  <2>3. y.node[i] # NoCircuit
    BY <1>u, <1>7 DEF Up, NoCircuit
  <2>4. y.node[i].state \in {"OR_WAIT", "OPEN"} => g = "origin"
    BY <1>u, <1>6, <1>8, <1>25
  <2> QED
    <3>1. i = 0 /\ (y.node[i] = NoCircuit \/ (Up(y.node[i]) /\ y.node[i].state \in {"OR_WAIT", "OPEN"}))
            => g = "origin" /\ i = 0
      BY <2>3, <2>4
    <3>2. ~(i # 0 /\ Up(y.node[i]) /\ y.node[i].state \in {"OR_WAIT", "ONIONSKIN_PENDING"})
      BY <1>i
    <3>3. i \in Nodes
      BY <1>3
    <3> QED
      BY ONLY <2>1, <2>2, <3>1, <3>2, <3>3, l \in Links, k \in Conns, TouchedAre, Zenon
<1>27. CleanFrom(y, x.hops + 2)
  <2>2. PICK t : t = x.hops + 2
    OBVIOUS
  <2>3. t \in Nat /\ l < t /\ i < t
    BY ONLY <1>4, <1>3, <1>i, <2>2
  <2>4. CleanFrom(z, t)
    <3>1. CASE e.cmd = "EXTENDED"
      BY <1>2, <1>15, <2>2, <3>1
    <3>2. CASE e.cmd = "CREATED"
      <4>1. CleanFrom(z, l + 1)
        BY <1>2, <3>2
      <4>2. \A j \in Links : j \in Nat
        BY ONLY CircuitBuildAssumption DEF Links
      <4>3. \A j \in Links : j >= t => j >= l + 1
        BY ONLY <1>3, <2>3, <4>2
      <4> QED
        BY ONLY <4>1, <4>3 DEF CleanFrom
    <3> QED
      BY <1>0, <3>1, <3>2
  <2>5. z.node[i].n # 0
    BY <1>x, <1>p, <1>3
  <2> QED
    BY ONLY <1>3, <1>t, <2>2, <2>3, <2>4, <2>5, l \in Links, k \in Conns, TurnClean, Zenon
<1>28. GoodAt(y, g, i, 0)
  <2>1. CASE u.state = "OPEN"
    <3>1. y.node[0] = u /\ u # NoCircuit
      BY <1>u, <1>i, <1>7 DEF Up, NoCircuit
    <3> QED
      BY ONLY <1>25, <2>1, <3>1 DEF GoodAt
  <2>2. CASE u.state # "OPEN"
    <3>1. ~ Holds(x.outq, Creates) /\ ~ Holds(x.outq, {"CREATED"}) /\ ~ Holds(x.outq, {"EXTENDED"})
          /\ \A t : ~ Aims(x.outq, t)
      BY <1>8 DEF Holds, Aims, Creates, Shaking
    <3>2. "EXTEND" \notin Creates /\ "EXTEND" \notin {"CREATED"} /\ "EXTEND" \notin {"EXTENDED"}
      BY DEF Creates
    <3>3. ~ Holds(u.outq, Creates) /\ ~ Holds(u.outq, {"CREATED"}) /\ ~ Holds(u.outq, {"EXTENDED"})
          /\ \A t : Aims(u.outq, t) => t = u.hops
      BY ONLY <1>6, <2>2, <3>1, <3>2
    <3>4. u.hops \in 1 .. PathLen - 1
      BY ONLY <1>6, <2>2
    <3>5. u.hops + 1 = x.hops + 2 /\ u.hops <= u.hops
      BY ONLY <1>4, <1>6
    <3>6. PICK t : t = u.hops
      OBVIOUS
    <3>7. t \in 1 .. PathLen - 1 /\ CleanFrom(y, t + 1) /\ t <= Hops(y)
      BY ONLY <1>15, <1>27, <3>4, <3>5, <3>6
    <3>8. GoodQueue(y, u.outq, i)
      BY ONLY <3>3, <3>6, <3>7 DEF GoodQueue
    <3> QED
      BY ONLY <1>u, <1>25, <2>2, <3>8 DEF GoodAt
  <2> QED
    BY <2>1, <2>2
<1>29. ASSUME NEW m \in Nodes, Building(y), Pre(z, m), Pre(y, m), OnChain(z, "bwd", l, k, m)
       PROVE  Linked(y)
  <2>1. u.state # "OPEN"
    BY <1>29, <1>u, <1>i DEF Building
  <2>2. At(y, "out", i, 0)
    <3>1. "EXTEND" \in Shaking
      BY DEF Shaking
    <3>2. Holds(u.outq, Shaking)
      BY ONLY <1>6, <2>1, <3>1
    <3> QED
      BY <1>u, <3>2 DEF At
  <2>3. i <= m
    <3>1. m \in Nat
      BY ConstFacts
    <3> QED
      BY ONLY <1>i, <3>1
  <2>4. OnChain(y, "out", i, 0, m)
    BY <2>3 DEF OnChain
  <2> QED
    BY ONLY <1>3, <1>29, <2>2, <2>4, PlaceWithin
<1>30. SteadyButWaiters(z) /\ \A j \in Nodes : j # i => Waiter(z, j)
  BY DEF Inv, SteadyButWaiters, Waiters
<1>31. Touched("bwd", l, k, i, l, k)
  BY DEF Touched
<1>32. One(y.node[i].outq) /\ One(y.node[i].inq) /\ One(y.fwd[l][k]) /\ One(y.bwd[l][k])
  BY <1>u, <1>t, <1>1, <1>6, <1>9, <1>21
<1>33. Building(y) => Building(z) \/ Linked(y)
  BY <1>15
<1> QED
  BY ONLY <1>1, <1>3, <1>k, <1>13, <1>14, <1>18, <1>19, <1>20, <1>25, <1>26, <1>28, <1>29, <1>30,
     <1>31, <1>32, <1>33,
     <1>t, c \in Circuits, l \in Links, k \in Conns, IsView(z, c), TokenStep

\* A chain that ends before node i does not notice what happens there.
LEMMA Nearer ==
  ASSUME NEW c \in Circuits, NEW z, NEW y, IsView(z, c), Up0(z),
         NEW i \in Nodes, NEW l \in Links, NEW k \in Conns, Turn(z, y, i, l, k),
         NEW m \in Nodes, m < i, Pre(z, m),
         m + 1 < l \/ (y.fwd[l][k] = z.fwd[l][k] /\ y.bwd[l][k] = z.bwd[l][k])
  PROVE  /\ Pre(y, m)
         /\ News(z, m) => News(y, m)
         /\ Within(z, m) => Within(y, m)
<1>0. m \in Nat /\ i \in Nat /\ l \in Nat /\ \A j \in Nodes : j \in Nat
  BY ConstFacts
<1>1. \A j \in Nodes : j <= m => y.node[j] = z.node[j]
  <2>1. \A j \in Nodes : j <= m => j # i
    BY ONLY <1>0, m < i
  <2> QED
    BY <2>1 DEF Turn
<1>2. \A j \in Links : j \in Nodes /\ j - 1 \in Nodes /\ (j <= m => j - 1 <= m /\ j <= m + 1)
  <2>1. \A j \in Links : j \in Nodes /\ j - 1 \in Nodes
    BY ConstFacts
  <2> QED
    BY ONLY <1>0, <2>1
<1>3. ASSUME NEW j \in Links, NEW h \in Conns, j <= m + 1
      PROVE  y.fwd[j][h] = z.fwd[j][h] /\ y.bwd[j][h] = z.bwd[j][h]
  <2>1. CASE j # l \/ h # k
    BY <2>1 DEF Turn
  <2>2. CASE j = l /\ h = k
    <3>1. ~(m + 1 < l)
      BY ONLY <1>0, <1>3, <2>2
    <3> QED
      BY <2>2, <3>1
  <2> QED
    BY <2>1, <2>2
<1>4. \A j \in Links : j <= m => z.node[j - 1].n \in Conns
  BY PreUp
<1>5. m <= m /\ (m < PathLen => m + 1 \in Links /\ m + 1 <= m + 1)
  <2>1. m < PathLen => m + 1 \in Links
    BY ConstFacts
  <2> QED
    BY ONLY <1>0, <2>1
<1>6. z.node[m].n # 0 => z.node[m].n \in Conns
  BY ViewParts, ConstFacts, Zenon
<1>7. Pre(y, m)
  <2>1. \A j \in Links : j <= m => y.node[j] = z.node[j] /\ y.node[j - 1] = z.node[j - 1]
    BY ONLY <1>1, <1>2
  <2>2. Pre(z, m)
    OBVIOUS
  <2> QED
    BY ONLY <2>1, <2>2 DEF Pre, Good
<1>8. y.far = z.far /\ y.node[m] = z.node[m]
  BY <1>1, <1>5 DEF Turn
<1>9. \A j \in Links : j <= m =>
        /\ y.node[j - 1].n = z.node[j - 1].n
        /\ y.fwd[j][z.node[j - 1].n] = z.fwd[j][z.node[j - 1].n]
        /\ y.bwd[j][z.node[j - 1].n] = z.bwd[j][z.node[j - 1].n]
  BY ONLY <1>1, <1>2, <1>3, <1>4
<1>10. m < PathLen /\ z.node[m].n # 0 =>
        /\ y.fwd[m + 1][z.node[m].n] = z.fwd[m + 1][z.node[m].n]
        /\ y.bwd[m + 1][z.node[m].n] = z.bwd[m + 1][z.node[m].n]
  BY ONLY <1>3, <1>5, <1>6, SMTT(30)
<1>11. News(z, m) => News(y, m)
  BY ONLY <1>1, <1>8, <1>9, <1>10, SMTT(30) DEF News
<1>12. Within(z, m) => Within(y, m)
  BY ONLY <1>1, <1>8, <1>9, <1>10 DEF Within
<1> QED
  BY <1>7, <1>11, <1>12
----------------------------------------------------------------------------
(* A DESTROY is read from connection k of link l, at node i = l - 1.       *)

\* Node i reads a DESTROY cell from the node after it.
ReadsDestroy(z, y, i, l, k, e) ==
  /\ i = l - 1 /\ Dropped(z.bwd[l][k], e, y.bwd[l][k]) /\ e.cmd = "DESTROY"
  /\ Turn(z, y, i, l, k) /\ y.fwd[l][k] = z.fwd[l][k]

\* A DESTROY cell leaves the wire, towards the origin.
LEMMA DestroyRead ==
  ASSUME NEW c \in Circuits, NEW z, NEW y, IsView(z, c), Inv(z),
         NEW l \in Links, NEW k \in Conns, NEW i, NEW e, ReadsDestroy(z, y, i, l, k, e)
  PROVE  /\ LinkShape(y, l, k) /\ Holds(z.bwd[l][k], {"DESTROY"})
         /\ Thin(y.bwd[l][k], z.bwd[l][k]) /\ z.bwd[l][k] # <<>>
         /\ \A S : Holds(y.bwd[l][k], S) => Holds(z.bwd[l][k], S)
         /\ Holds(z.bwd[l][k], Shaking) => Holds(y.bwd[l][k], Shaking)
         /\ Holds(z.bwd[l][k], {"TRUNCATED"}) => Holds(y.bwd[l][k], {"TRUNCATED"})
<1>q. PICK Q : Q = z.bwd[l][k]
  OBVIOUS
<1>r. PICK r : r = y.bwd[l][k]
  OBVIOUS
<1>d. Dropped(Q, e, r) /\ e.cmd = "DESTROY"
  BY <1>q, <1>r DEF ReadsDestroy
<1>t. Turn(z, y, i, l, k) /\ y.fwd[l][k] = z.fwd[l][k]
  BY DEF ReadsDestroy
<1>5. Q \in Seq(CellsOf(c))
  BY <1>q, ViewParts
<1>6. /\ \A S : Holds(Q, S) <=> Holds(r, S) \/ e.cmd \in S
      /\ \A t : Aims(Q, t) <=> Aims(r, t) \/ (e.cmd = "EXTEND" /\ e.to = t)
      /\ \A S : Only(Q, S) <=> Only(r, S) /\ e.cmd \in S
      /\ One(Q) => One(r) /\ (e.cmd \in Shaking => ~ Holds(r, Shaking))
  BY ONLY <1>5, <1>d, DropCell
<1>7. One(Q)
  BY <1>q DEF Inv, Ones
<1>8. LinkShape(y, l, k)
  <2>1. LinkShape(z, l, k) /\ y.near = z.near /\ y.far = z.far
    BY <1>t DEF Inv, Shape, Turn
  <2>2. Only(r, InCmds \cup {"DESTROY"})
    BY <1>6, <1>q, <2>1 DEF LinkShape
  <2> QED
    BY ONLY <1>r, <1>t, <2>1, <2>2 DEF LinkShape
<1>9. Thin(r, Q)
  BY ONLY <1>6, <1>7 DEF Thin
<1>10. Q # <<>>
  BY <1>d DEF Dropped
<1>11. Holds(Q, {"DESTROY"}) /\ (Holds(Q, Shaking) => Holds(r, Shaking))
       /\ (Holds(Q, {"TRUNCATED"}) => Holds(r, {"TRUNCATED"})) /\ \A S : Holds(r, S) => Holds(Q, S)
  BY <1>6, <1>d, CommandsDiffer
<1> QED
  BY ONLY <1>8, <1>9, <1>10, <1>11, <1>q, <1>r

\* A DESTROY cell for a circuit that is not there is dropped.
LEMMA DestroyDropped ==
  ASSUME NEW c \in Circuits, NEW z, NEW y, IsView(z, c), Inv(z),
         NEW l \in Links, NEW k \in Conns, NEW i, NEW e, ReadsDestroy(z, y, i, l, k, e),
         y.node[i] = z.node[i], ~ Shares(z, l, k)
  PROVE  Inv(y)
<1>i. i = l - 1
  BY DEF ReadsDestroy
<1>t. Turn(z, y, i, l, k) /\ y.fwd[l][k] = z.fwd[l][k]
  BY DEF ReadsDestroy
<1>1. /\ LinkShape(y, l, k)
      /\ Thin(y.bwd[l][k], z.bwd[l][k]) /\ z.bwd[l][k] # <<>>
      /\ \A S : Holds(y.bwd[l][k], S) => Holds(z.bwd[l][k], S)
      /\ Holds(z.bwd[l][k], Shaking) => Holds(y.bwd[l][k], Shaking)
  BY ONLY c \in Circuits, IsView(z, c), Inv(z), l \in Links, k \in Conns,
     ReadsDestroy(z, y, i, l, k, e), DestroyRead
<1>3. l \in Nodes /\ i \in Nodes
  BY <1>i, ConstFacts
<1>4. \A j \in Nodes : y.node[j] = z.node[j]
  BY <1>t DEF Turn
<1>5. Calm(z, y)
  <2>1. ASSUME NEW m \in Links, NEW h \in Conns
        PROVE /\ Thin(y.fwd[m][h], z.fwd[m][h]) /\ Thin(y.bwd[m][h], z.bwd[m][h])
              /\ z.bwd[m][h] = <<>> => y.bwd[m][h] = <<>>
              /\ y.fwd[m][h] = z.fwd[m][h]
    <3>1. CASE m # l \/ h # k
      BY <1>t, <3>1, ThinSelf DEF Turn
    <3>2. CASE m = l /\ h = k
      BY <1>1, <1>t, <3>2, ThinSelf
    <3> QED
      BY <3>1, <3>2
  <2>2. \A m \in Links : (Clean(z, m) => Clean(y, m)) /\ (Bare(z, m) => Bare(y, m))
    <3>1. \A m \in Links : m \in Nodes /\ m - 1 \in Nodes
      BY ConstFacts
    <3> QED
      BY ONLY <1>4, <2>1, <3>1 DEF Clean, Bare
  <2>3. 0 \in Nodes
    BY ConstFacts
  <2> QED
    BY ONLY <1>4, <2>1, <2>2, <2>3, ThinSelf DEF Calm, Hops
<1>2. y.near = z.near /\ y.far = z.far /\ y.len = z.len /\ y.over = z.over
  BY <1>t DEF Turn
<1>6. NodeShape(y, i) /\ Waiter(y, i) /\ NodeUp(y, i)
  <2>1. NodeShape(z, i) /\ Waiter(z, i) /\ NodeUp(z, i)
    BY <1>3 DEF Inv, Shape, Waiters, Ups
  <2> QED
    BY ONLY <1>3, <1>4, <1>2, <2>1 DEF NodeShape, Waiter, NodeUp
<1>7. Agree(y)
  <2>1. ASSUME NEW m \in Links, NEW h \in Conns
        PROVE  LinkA(y, m, h) /\ LinkB(y, m, h) /\ LinkC(y, m, h) /\ LinkD(y, m, h)
    <3>1. LinkA(z, m, h) /\ LinkB(z, m, h) /\ LinkC(z, m, h) /\ LinkD(z, m, h)
      BY DEF Inv, Agree
    <3>2. y.node[m] = z.node[m] /\ y.node[m - 1] = z.node[m - 1]
      BY <1>4, ConstFacts
    <3>3. CASE m # l \/ h # k
      <4>1. y.fwd[m][h] = z.fwd[m][h] /\ y.bwd[m][h] = z.bwd[m][h]
        BY <1>t, <3>3 DEF Turn
      <4> QED
        BY ONLY <1>2, <3>1, <3>2, <4>1 DEF LinkA, LinkB, LinkC, LinkD, Shares, Kept
    <3>4. CASE m = l /\ h = k
      BY ONLY <1>1, <1>2, <1>t, <3>1, <3>2, <3>4, ~ Shares(z, l, k) DEF LinkA, LinkB, LinkC, LinkD,
         Shares, Kept
    <3> QED
      BY <3>3, <3>4
  <2>2. ASSUME NEW j \in Nodes PROVE Late(y, j)
    <3>1. Late(z, j)
      BY DEF Inv, Agree
    <3> QED
      BY <1>2, <1>4, <3>1 DEF Late
  <2> QED
    BY <2>1, <2>2 DEF Agree
<1>8. Chain(y)
  <2>1. Chain(z) /\ (Building(y) => Building(z))
    BY <1>4, ConstFacts DEF Inv, Building, Up0
  <2>2. SafeNode(z.node[i], y.node[i])
    BY <1>3, <1>4 DEF SafeNode
  <2>3. NewsKept(z, y, i, l, k)
    BY ONLY <1>3, <1>4, ~ Shares(z, l, k) DEF NewsKept
  <2>4. TokenKept(z, y, i, l, k)
    BY ONLY <1>1, <1>3, <1>4, <1>t DEF TokenKept
  <2> QED
    BY ONLY <1>3, <1>t, <2>1, <2>2, <2>3, <2>4, c \in Circuits, IsView(z, c), l \in Links,
       k \in Conns, ChainSame
<1> QED
  BY ONLY <1>t, <1>1, <1>3, <1>5, <1>6, <1>7, <1>8, c \in Circuits, IsView(z, c), Inv(z),
     l \in Links, k \in Conns,
     CalmStep

\* The circuit is unlinked from its connection; a relay tells the node before it.
Unlinks(x, u, i, c) ==
  IF i = 0 THEN u = [x EXCEPT !.n = 0, !.outq = <<>>]
  ELSE u = [x EXCEPT !.n = 0, !.outq = <<>>, !.inq = Append(x.inq, Cell("TRUNCATED", c, 0))]

\* The fields of a circuit that a DESTROY cell unlinked.
LEMMA CutFields ==
  ASSUME NEW c \in Circuits, NEW x \in CircsOf(c), NEW u, NEW i, Unlinks(x, u, i, c)
  PROVE  /\ u \in CircsOf(c) /\ u.n = 0 /\ u.outq = <<>> /\ u.state = x.state /\ u.p = x.p
         /\ u.marked = x.marked /\ u.hops = x.hops /\ Thin(u.inq, x.inq)
         /\ Only(x.inq, InCmds) => Only(u.inq, InCmds)
         /\ i = 0 => u.inq = x.inq
         /\ i # 0 => Holds(u.inq, {"TRUNCATED"})
<1>1. CASE i = 0
  <2>1. u = [x EXCEPT !.n = 0, !.outq = <<>>]
    BY <1>1 DEF Unlinks
  <2>2. /\ u \in CircsOf(c) /\ u.n = 0 /\ u.outq = <<>> /\ u.state = x.state /\ u.p = x.p
        /\ u.marked = x.marked /\ u.hops = x.hops /\ u.inq = x.inq
    BY ONLY <2>1, c \in Circuits, x \in CircsOf(c), UnlinkFields, Zenon
  <2> QED
    BY ONLY <1>1, <2>2, ThinSelf
<1>2. CASE i # 0
  <2>1. PICK e : e = Cell("TRUNCATED", c, 0)
    OBVIOUS
  <2>2. e \in CellsOf(c) /\ e.cmd = "TRUNCATED"
    BY <2>1, ConstFacts DEF Cell, CellsOf, Commands
  <2>3. PICK q : q = x.inq
    OBVIOUS
  <2>4. PICK o : o = Append(q, e)
    BY Zenon
  <2>5. q \in Seq(CellsOf(c))
    BY <2>3 DEF CircsOf
  <2>6. /\ o \in Seq(CellsOf(c))
        /\ \A S : Holds(o, S) <=> Holds(q, S) \/ e.cmd \in S
        /\ \A t : Aims(o, t) <=> Aims(q, t) \/ (e.cmd = "EXTEND" /\ e.to = t)
        /\ \A S : Only(o, S) <=> Only(q, S) /\ e.cmd \in S
        /\ One(q) /\ (e.cmd \notin Shaking \/ ~ Holds(q, Shaking)) => One(o)
    BY ONLY <2>2, <2>4, <2>5, AddCell, Zenon
  <2>7. u = [x EXCEPT !.n = 0, !.outq = <<>>, !.inq = o]
    <3>1. u = [x EXCEPT !.n = 0, !.outq = <<>>, !.inq = Append(x.inq, Cell("TRUNCATED", c, 0))]
      BY <1>2 DEF Unlinks
    <3> QED
      BY ONLY <2>1, <2>3, <2>4, <3>1
  <2>8. /\ u \in CircsOf(c) /\ u.n = 0 /\ u.outq = <<>> /\ u.state = x.state /\ u.p = x.p
        /\ u.marked = x.marked /\ u.hops = x.hops /\ u.inq = o
    <3>1. 0 \in Ks /\ <<>> \in Seq(CellsOf(c))
      BY ConstFacts, EmptySeq
    <3> QED
      BY ONLY <2>6, <2>7, <3>1, x \in CircsOf(c), Zenon DEF CircsOf
  <2>9. "TRUNCATED" \in InCmds /\ "TRUNCATED" \notin Shaking /\ "TRUNCATED" \notin Creates
        /\ "TRUNCATED" \notin {"CREATED"} /\ "TRUNCATED" \notin {"EXTENDED"} /\ "TRUNCATED" # "EXTEND"
        /\ "TRUNCATED" \in {"TRUNCATED"}
    BY DEF InCmds, Shaking, Creates
  <2>10. Thin(o, q) /\ (Only(q, InCmds) => Only(o, InCmds)) /\ Holds(o, {"TRUNCATED"})
    BY ONLY <2>2, <2>6, <2>9 DEF Thin
  <2> QED
    BY ONLY <1>2, <2>3, <2>8, <2>10
<1> QED
  BY <1>1, <1>2

\* A DESTROY cell unlinks the circuit; a relay sends a TRUNCATED cell back.
LEMMA DestroyUnlinked ==
  ASSUME NEW c \in Circuits, NEW z, NEW y, IsView(z, c), Inv(z),
         NEW l \in Links, NEW k \in Conns, NEW i, NEW e, ReadsDestroy(z, y, i, l, k, e),
         Shares(z, l, k), Unlinks(z.node[i], y.node[i], i, c)
  PROVE  /\ i = 0 => MarkReady(y, i) /\ Up(y.node[i])
         /\ i # 0 => Inv(y)
<1>i. i = l - 1
  BY DEF ReadsDestroy
<1>t. Turn(z, y, i, l, k) /\ y.fwd[l][k] = z.fwd[l][k]
  BY DEF ReadsDestroy
<1>0. /\ LinkShape(y, l, k) /\ Holds(z.bwd[l][k], {"DESTROY"})
      /\ Thin(y.bwd[l][k], z.bwd[l][k]) /\ z.bwd[l][k] # <<>>
      /\ \A S : Holds(y.bwd[l][k], S) => Holds(z.bwd[l][k], S)
  BY ONLY c \in Circuits, IsView(z, c), Inv(z), l \in Links, k \in Conns,
     ReadsDestroy(z, y, i, l, k, e), DestroyRead, Zenon
<1>x. PICK x : x = z.node[i]
  OBVIOUS
<1>u. PICK u : u = y.node[i]
  OBVIOUS
<1>3. /\ l \in Nodes /\ i \in Nodes /\ k \in Ks /\ k # 0 /\ 0 \in Ks
      /\ l \in Nat /\ i \in Nat /\ i < l /\ l = i + 1 /\ i # l /\ i # PathLen
  BY ONLY <1>i, l \in Links, k \in Conns, LinkEnds
<1>4. x \in CircsOf(c) /\ x.n = k /\ Up(x) /\ NodeShape(z, i) /\ NodeUp(z, i)
  BY <1>x, <1>i, <1>3, ViewParts DEF Shares, Inv, Shape, Ups
<1>5. /\ u.n = 0 /\ u.outq = <<>> /\ u.state = x.state /\ u.p = x.p
      /\ u.marked = x.marked /\ u.hops = x.hops /\ Thin(u.inq, x.inq)
      /\ Only(x.inq, InCmds) => Only(u.inq, InCmds)
      /\ i = 0 => u.inq = x.inq
      /\ i # 0 => Holds(u.inq, {"TRUNCATED"})
  <2>1. Unlinks(x, u, i, c)
    BY <1>x, <1>u
  <2> QED
    BY ONLY <1>4, <2>1, c \in Circuits, CutFields
<1>6. Up(u) /\ x.state # "none" /\ ~ x.marked
  BY <1>4, <1>5 DEF Up
<1>7. x.state # "OR_WAIT" /\ (i # 0 => x.p # 0)
  BY <1>3, <1>4, <1>x DEF NodeUp
<1>2. y.near = z.near /\ y.far = z.far /\ y.len = z.len /\ y.over = z.over
  BY <1>t DEF Turn
<1>8. i # 0 => NodeUp(y, i)
  BY ONLY <1>5, <1>7, <1>u DEF NodeUp
<1>9. NodeShape(y, i) /\ Waiter(y, i)
  <2>1. NodeShape(y, i)
    BY ONLY <1>2, <1>3, <1>4, <1>5, <1>6, <1>7, <1>x, <1>u, EmptyQueue DEF NodeShape
  <2>2. Waiter(y, i)
    BY <1>5, <1>7, <1>u DEF Waiter
  <2> QED
    BY <2>1, <2>2
<1>10. Calm(z, y)
  <2>1. ASSUME NEW m \in Links, NEW h \in Conns
        PROVE /\ Thin(y.fwd[m][h], z.fwd[m][h]) /\ Thin(y.bwd[m][h], z.bwd[m][h])
              /\ y.fwd[m][h] = z.fwd[m][h]
              /\ m # l => y.bwd[m][h] = z.bwd[m][h]
    <3>1. CASE m # l \/ h # k
      BY <1>t, <3>1, ThinSelf DEF Turn
    <3>2. CASE m = l /\ h = k
      BY <1>0, <1>t, <3>2, ThinSelf
    <3> QED
      BY <3>1, <3>2
  <2>2. ASSUME NEW m \in Links PROVE (Clean(z, m) => Clean(y, m)) /\ (Bare(z, m) => Bare(y, m))
    <3>1. m \in Nodes /\ m - 1 \in Nodes /\ (m - 1 = i <=> m = l)
      BY ONLY <1>i, l \in Links, k \in Conns, m \in Links, LinkEnds
    <3>2. NoCircuit.state = "none"
      BY DEF NoCircuit
    <3>3. CASE m = l
      <4>1. ~ Clean(z, m) /\ ~ Bare(z, m)
        BY ONLY <1>0, <3>3, k \in Conns DEF Clean, Bare
      <4> QED
        BY <4>1
    <3>4. CASE m = i
      <4>1. ~ Clean(z, m) /\ ~ Bare(z, m)
        BY ONLY <1>6, <1>x, <3>2, <3>4 DEF Clean, Bare
      <4> QED
        BY <4>1
    <3>5. CASE m # l /\ m # i
      <4>1. y.node[m] = z.node[m] /\ y.node[m - 1] = z.node[m - 1]
        BY ONLY <1>t, <3>1, <3>5 DEF Turn
      <4> QED
        BY ONLY <2>1, <3>5, <4>1, m \in Links DEF Clean, Bare
    <3> QED
      BY <3>3, <3>4, <3>5
  <2>3. \A a \in Nodes : /\ Thin(y.node[a].outq, z.node[a].outq) /\ Thin(y.node[a].inq, z.node[a].inq)
                         /\ Up(y.node[a]) => Up(z.node[a]) /\ y.node[a].state = z.node[a].state
                         /\ y.node[a].hops = z.node[a].hops
    <3> SUFFICES ASSUME NEW a \in Nodes
        PROVE /\ Thin(y.node[a].outq, z.node[a].outq) /\ Thin(y.node[a].inq, z.node[a].inq)
              /\ Up(y.node[a]) => Up(z.node[a]) /\ y.node[a].state = z.node[a].state
              /\ y.node[a].hops = z.node[a].hops
      OBVIOUS
    <3>1. CASE a = i
      BY ONLY <1>4, <1>5, <1>x, <1>u, <3>1, ThinEmpty
    <3>2. CASE a # i
      <4>1. y.node[a] = z.node[a]
        BY <1>t, <3>2 DEF Turn
      <4> QED
        BY ONLY <4>1, ThinSelf
    <3> QED
      BY <3>1, <3>2
  <2>4. 0 \in Nodes
    BY ConstFacts
  <2>5. y.node[0] = NoCircuit => z.node[0] = NoCircuit
    <3>1. CASE i = 0
      BY ONLY <1>6, <1>u, <3>1 DEF Up, NoCircuit
    <3>2. CASE i # 0
      BY <1>t, <2>4, <3>2 DEF Turn
    <3> QED
      BY <3>1, <3>2
  <2> QED
    BY ONLY <2>1, <2>2, <2>3, <2>4, <2>5 DEF Calm, Hops
<1>11. Agree(y)
  <2>1. ASSUME NEW m \in Links, NEW h \in Conns
        PROVE  LinkA(y, m, h) /\ LinkB(y, m, h) /\ LinkC(y, m, h) /\ LinkD(y, m, h)
    <3>1. LinkA(z, m, h) /\ LinkB(z, m, h) /\ LinkC(z, m, h) /\ LinkD(z, m, h)
      BY DEF Inv, Agree
    <3>2. m \in Nodes /\ m - 1 \in Nodes /\ (m - 1 = i <=> m = l) /\ h # 0
      <4>1. h # 0
        BY ConstFacts
      <4> QED
        BY ONLY <4>1, <1>i, l \in Links, k \in Conns, m \in Links, LinkEnds
    <3>3. y.fwd[m][h] = z.fwd[m][h]
      BY <1>t DEF Turn
    <3>4. /\ y.node[m].p = z.node[m].p /\ (Up(y.node[m]) <=> Up(z.node[m]))
          /\ y.node[m].marked = z.node[m].marked
      <4>1. CASE m = i
        BY ONLY <1>4, <1>5, <1>6, <1>x, <1>u, <4>1
      <4>2. CASE m # i
        BY <1>t, <3>2, <4>2 DEF Turn
      <4> QED
        BY <4>1, <4>2
    <3>5. CASE m # l
      <4>1. y.node[m - 1] = z.node[m - 1] /\ y.bwd[m][h] = z.bwd[m][h]
        BY <1>t, <3>2, <3>5 DEF Turn
      <4> QED
        BY ONLY <1>2, <3>1, <3>3, <3>4, <4>1 DEF LinkA, LinkB, LinkC, LinkD, Shares, Kept
    <3>6. CASE m = l /\ h # k
      <4>1. y.bwd[m][h] = z.bwd[m][h]
        BY <1>t, <3>6 DEF Turn
      <4>2. y.node[m - 1].n # h /\ z.node[m - 1].n # h
        BY ONLY <1>4, <1>5, <1>x, <1>u, <3>2, <3>6
      <4> QED
        BY ONLY <1>2, <3>1, <3>3, <3>4, <4>1, <4>2 DEF LinkA, LinkB, LinkC, LinkD, Shares, Kept
    <3>7. CASE m = l /\ h = k
      <4>1. y.node[m - 1].n # h
        BY ONLY <1>5, <1>u, <3>2, <3>7
      <4>2. Holds(z.bwd[m][h], {"DESTROY"}) /\ \A S : Holds(y.bwd[m][h], S) => Holds(z.bwd[m][h], S)
        BY ONLY <1>0, <3>7
      <4>3. ~ Kept(y, m, h)
        BY ONLY <3>1, <3>4, <4>2 DEF LinkA, Kept, Up
      <4>4. ~ Holds(z.fwd[m][h], Creates)
        <5>1. GoodQueue(z, z.fwd[l][k], l - 1)
          BY DEF Inv, Frontier
        <5>2. (l - 1) + 1 = l
          BY ONLY <1>3
        <5>3. ~ Fresh(z, l)
          BY ONLY <1>0, k \in Conns DEF Fresh
        <5> QED
          BY ONLY <3>7, <5>1, <5>2, <5>3 DEF GoodQueue
      <4> QED
        BY ONLY <3>1, <3>3, <3>4, <4>1, <4>2, <4>3, <4>4 DEF LinkA, LinkB, LinkC, LinkD, Shares
    <3> QED
      BY <3>5, <3>6, <3>7
  <2>2. ASSUME NEW j \in Nodes PROVE Late(y, j)
    <3>1. Late(z, j)
      BY DEF Inv, Agree
    <3>2. CASE j = i
      BY ONLY <1>5, <1>u, <3>2, EmptyQueue DEF Late
    <3>3. CASE j # i
      <4>1. y.node[j] = z.node[j]
        BY <1>t, <3>3 DEF Turn
      <4> QED
        BY ONLY <1>2, <3>1, <4>1 DEF Late
    <3> QED
      BY <3>2, <3>3
  <2> QED
    BY <2>1, <2>2 DEF Agree
<1>12. /\ NodeUp(y, i) /\ Chain(y) => Inv(y)
       /\ Shape(y) /\ Alone(y) /\ Ones(y) /\ Frontier(y)
       /\ \A j \in Nodes : j # i => NodeUp(y, j) /\ Waiter(y, j)
  BY ONLY <1>t, <1>0, <1>3, <1>9, <1>10, <1>11, c \in Circuits, IsView(z, c), Inv(z), l \in Links,
     k \in Conns,
     CalmStep
<1>13. ASSUME i # 0, Building(y) PROVE Linked(y)
  <2>1. Building(z) /\ Up0(z)
    <3>1. y.node[0] = z.node[0]
      BY <1>t, <1>13, ConstFacts DEF Turn
    <3> QED
      BY ONLY <1>13, <3>1 DEF Building, Up0
  <2>2. PICK m \in Nodes : Pre(z, m) /\ (News(z, m) \/ Within(z, m))
    BY <2>1 DEF Inv, Chain, Linked
  <2>3. m \in Nat
    BY ConstFacts
  <2>4. CASE i <= m
    <3>1. ASSUME NEW j \in Links, j <= i PROVE Good(y, j)
      <4>1. j \in Nodes /\ j - 1 \in Nodes /\ j \in Nat
        BY ConstFacts
      <4>2. j <= m /\ j - 1 # i
        BY ONLY <1>3, <2>3, <2>4, <3>1, <4>1
      <4>3. Good(z, j)
        BY <2>2, <4>2 DEF Pre
      <4>4. y.node[j - 1] = z.node[j - 1]
        BY <1>t, <4>1, <4>2 DEF Turn
      <4>5. y.node[j].p = z.node[j].p /\ (Up(y.node[j]) <=> Up(z.node[j]))
        <5>1. CASE j = i
          BY ONLY <1>4, <1>5, <1>6, <1>x, <1>u, <5>1
        <5>2. CASE j # i
          BY <1>t, <4>1, <5>2 DEF Turn
        <5> QED
          BY <5>1, <5>2
      <4> QED
        BY ONLY <4>3, <4>4, <4>5 DEF Good
    <3>2. News(y, i)
      <4>1. i <= i
        BY ONLY <1>3
      <4>2. Holds(y.node[i].inq, {"TRUNCATED"})
        BY ONLY <1>5, <1>13, <1>u
      <4> QED
        BY ONLY <1>3, <4>1, <4>2 DEF News
    <3> QED
      BY ONLY <1>3, <3>1, <3>2 DEF Linked, Pre
  <2>5. CASE m < i
    <3>1. m + 1 < l
      BY ONLY <1>3, <2>3, <2>5
    <3>2. Pre(y, m) /\ (News(z, m) => News(y, m)) /\ (Within(z, m) => Within(y, m))
      BY ONLY <1>t, <1>3, <2>1, <2>2, <2>5, <3>1, c \in Circuits, IsView(z, c), l \in Links,
         k \in Conns, Nearer
    <3> QED
      BY ONLY <2>2, <3>2 DEF Linked
  <2> QED
    BY ONLY <1>3, <2>3, <2>4, <2>5
<1>14. i = 0 => MarkReady(y, i) /\ Up(y.node[i])
  BY ONLY <1>6, <1>11, <1>12, <1>u DEF MarkReady
<1>15. i # 0 => Inv(y)
  BY ONLY <1>8, <1>12, <1>13 DEF Chain
<1> QED
  BY <1>14, <1>15

----------------------------------------------------------------------------
(* A CPU worker answers; marked circuits are freed; circuits expire.       *)

\* The CPU worker's answer is applied to a circuit.
Answers(x, u, c) == u = [x EXCEPT !.state = "OPEN", !.inq = Append(x.inq, Cell("CREATED", c, 0))]

\* The fields of a circuit whose onionskin was answered.
LEMMA AnswerFields ==
  ASSUME NEW c \in Circuits, NEW x \in CircsOf(c), NEW u, Answers(x, u, c)
  PROVE  /\ u \in CircsOf(c) /\ u.n = x.n /\ u.outq = x.outq /\ u.state = "OPEN" /\ u.p = x.p
         /\ u.marked = x.marked /\ u.hops = x.hops
         /\ \A S : Holds(u.inq, S) <=> Holds(x.inq, S) \/ "CREATED" \in S
         /\ \A t : Aims(u.inq, t) <=> Aims(x.inq, t)
         /\ Only(x.inq, InCmds) => Only(u.inq, InCmds)
         /\ One(x.inq) /\ ~ Holds(x.inq, Shaking) => One(u.inq)
<1>1. PICK e : e = Cell("CREATED", c, 0)
  OBVIOUS
<1>2. e \in CellsOf(c) /\ e.cmd = "CREATED"
  BY <1>1, ConstFacts DEF Cell, CellsOf, Commands
<1>3. PICK q : q = x.inq
  OBVIOUS
<1>4. PICK o : o = Append(q, e)
  BY Zenon
<1>5. q \in Seq(CellsOf(c))
  BY <1>3 DEF CircsOf
<1>6. /\ o \in Seq(CellsOf(c))
      /\ \A S : Holds(o, S) <=> Holds(q, S) \/ e.cmd \in S
      /\ \A t : Aims(o, t) <=> Aims(q, t) \/ (e.cmd = "EXTEND" /\ e.to = t)
      /\ \A S : Only(o, S) <=> Only(q, S) /\ e.cmd \in S
      /\ One(q) /\ (e.cmd \notin Shaking \/ ~ Holds(q, Shaking)) => One(o)
  BY ONLY <1>2, <1>4, <1>5, AddCell, Zenon
<1>7. u = [x EXCEPT !.state = "OPEN", !.inq = o]
  BY ONLY <1>1, <1>3, <1>4, Answers(x, u, c) DEF Answers
<1>8. /\ u \in CircsOf(c) /\ u.n = x.n /\ u.outq = x.outq /\ u.state = "OPEN" /\ u.p = x.p
      /\ u.marked = x.marked /\ u.hops = x.hops /\ u.inq = o
  BY ONLY <1>6, <1>7, x \in CircsOf(c), Zenon DEF CircsOf, CircStates
<1>9. "CREATED" \in InCmds /\ "CREATED" # "EXTEND"
  BY DEF InCmds
<1> QED
  BY ONLY <1>2, <1>3, <1>6, <1>8, <1>9

\* connection_cpu_process_inbuf: the relay sends its CREATED cell.
LEMMA CpuStep ==
  ASSUME NEW c \in Circuits, NEW z, NEW y, IsView(z, c), Inv(z),
         NEW i \in Links, Up(z.node[i]), z.node[i].state = "ONIONSKIN_PENDING",
         NEW u, ZNode(z, y, i, u), Answers(z.node[i], u, c)
  PROVE  Inv(y)
<1>x. PICK x : x = z.node[i]
  OBVIOUS
<1>k. PICK k \in Conns : k = 1
  BY ConstFacts DEF Conns
<1>0. /\ i \in Nodes /\ i # 0 /\ i \in Nat /\ 0 \in Ks /\ i <= i /\ i < i + 1 /\ i + 1 \in Nat
      /\ {"relay", "in"} \subseteq Kinds
  BY ConstFacts DEF Kinds
<1>t. /\ Turn(z, y, i, i, k) /\ y.fwd[i][k] = z.fwd[i][k] /\ y.bwd[i][k] = z.bwd[i][k]
      /\ y.node[i] = u /\ y.near = z.near /\ y.far = z.far /\ y.len = z.len
  BY DEF ZNode, Turn
<1>1. x \in CircsOf(c) /\ Up(x) /\ x.state = "ONIONSKIN_PENDING"
  BY <1>0, <1>x, ViewParts
<1>2. /\ u.n = x.n /\ u.outq = x.outq /\ u.state = "OPEN" /\ u.p = x.p
      /\ u.marked = x.marked /\ u.hops = x.hops
      /\ \A S : Holds(u.inq, S) <=> Holds(x.inq, S) \/ "CREATED" \in S
      /\ \A t : Aims(u.inq, t) <=> Aims(x.inq, t)
      /\ Only(x.inq, InCmds) => Only(u.inq, InCmds)
      /\ One(x.inq) /\ ~ Holds(x.inq, Shaking) => One(u.inq)
  <2>1. Answers(x, u, c)
    BY <1>x
  <2> QED
    BY ONLY <1>1, <2>1, c \in Circuits, AnswerFields
<1>3. Up(u)
  BY <1>1, <1>2 DEF Up
<1>4. At(z, "relay", i, 0)
  BY ONLY <1>0, <1>1, <1>x DEF At
<1>5. Alone(z) /\ Ones(z) /\ Agree(z) /\ NodeShape(z, i) /\ NodeUp(z, i) /\ GoodWaiter(z, i)
      /\ LinkShape(z, i, k)
  BY <1>0 DEF Inv, Shape, Ups, Frontier
<1>6. x.n = 0 /\ x.p # 0
  BY ONLY <1>0, <1>1, <1>5, <1>x DEF NodeUp
<1>7. /\ ~ Holds(x.outq, Shaking) /\ ~ Holds(x.inq, Shaking)
      /\ ~ Holds(z.fwd[i][k], Shaking) /\ ~ Holds(z.bwd[i][k], Shaking)
  <2>1. /\ \A j \in Nodes : Holds(z.node[j].outq, Shaking) => "relay" = "out" /\ i = j
        /\ \A j \in Nodes : Holds(z.node[j].inq, Shaking) => "relay" = "in" /\ i = j
        /\ \A l \in Links, h \in Conns : Holds(z.fwd[l][h], Shaking) => "relay" = "fwd" /\ i = l /\ 0 = h
        /\ \A l \in Links, h \in Conns : Holds(z.bwd[l][h], Shaking) => "relay" = "bwd" /\ i = l /\ 0 = h
    BY ONLY <1>0, <1>4, <1>5, Elsewhere
  <2> QED
    BY ONLY <2>1, <1>0, <1>x, i \in Links, k \in Conns
<1>8. SteadyButWaiters(z) /\ \A j \in Nodes : j # i => Waiter(z, j)
  BY DEF Inv, SteadyButWaiters, Waiters
<1>9. Touched("relay", i, 0, i, i, k)
  BY DEF Touched
<1>10. \A f \in Kinds : \A p \in Nodes : \A q \in Ks :
         Touched(f, p, q, i, i, k) /\ At(y, f, p, q) => f = "in" /\ p = i /\ q = 0
  <2>1. /\ Holds(y.node[i].outq, Shaking) => "in" = "out" /\ i = i /\ 0 = 0
        /\ Holds(y.node[i].inq, Shaking) => "in" = "in" /\ i = i /\ 0 = 0
        /\ Holds(y.fwd[i][k], Shaking) => "in" = "fwd" /\ i = i /\ 0 = k
        /\ Holds(y.bwd[i][k], Shaking) => "in" = "bwd" /\ i = i /\ 0 = k
        /\ i # 0 /\ Up(y.node[i]) /\ y.node[i].state \in {"OR_WAIT", "ONIONSKIN_PENDING"}
             => "in" = "relay" /\ i = i /\ 0 = 0
        /\ i = 0 /\ (y.node[i] = NoCircuit \/ (Up(y.node[i]) /\ y.node[i].state \in {"OR_WAIT", "OPEN"}))
             => "in" = "origin" /\ i = 0 /\ 0 = 0
    BY ONLY <1>0, <1>2, <1>7, <1>t
  <2> QED
    BY ONLY <1>0, <2>1, i \in Links, k \in Conns, TouchedAre, Zenon
<1>11. (Up0(y) <=> Up0(z)) /\ Hops(y) = Hops(z) /\ (Building(y) <=> Building(z))
  <2>1. (Up(y.node[i]) <=> Up(z.node[i])) /\ y.node[i].hops = z.node[i].hops
    BY ONLY <1>1, <1>2, <1>3, <1>t, <1>x
  <2> QED
    BY ONLY <2>1, <1>t, <1>0, TurnOrigin
<1>12. GoodAt(y, "in", i, 0)
  <2>1. CleanFrom(z, i + 1) /\ (Up0(z) => i <= Hops(z) + 1)
    BY ONLY <1>1, <1>5, <1>x DEF GoodWaiter
  <2>2. CleanFrom(y, i + 1)
    <3>1. y.node[i].n = 0
      BY ONLY <1>2, <1>6, <1>t
    <3> QED
      BY ONLY <1>0, <1>t, <2>1, <3>1, i \in Links, k \in Conns, TurnClean
  <2>3. ~ Holds(x.inq, Creates) /\ ~ Holds(x.inq, {"EXTENDED"}) /\ \A t : ~ Aims(x.inq, t)
    BY ONLY <1>7 DEF Holds, Aims, Creates, Shaking
  <2>4. "CREATED" \notin Creates /\ "CREATED" \notin {"EXTENDED"}
    BY DEF Creates
  <2>5. GoodQueue(y, u.inq, i)
    BY ONLY <1>2, <1>11, <2>1, <2>2, <2>3, <2>4 DEF GoodQueue
  <2> QED
    BY ONLY <1>t, <2>5 DEF GoodAt
<1>13. One(y.node[i].outq) /\ One(y.node[i].inq) /\ One(y.fwd[i][k]) /\ One(y.bwd[i][k])
  <2>1. One(x.outq) /\ One(x.inq) /\ One(z.fwd[i][k]) /\ One(z.bwd[i][k])
    BY <1>0, <1>5, <1>x DEF Ones
  <2> QED
    BY ONLY <1>2, <1>7, <1>t, <2>1
<1>14. NodeShape(y, i)
  <2>1. x.outq # <<>> => x.n # 0
    BY <1>5, <1>x DEF NodeShape
  <2>2. u.state # "none"
    BY ONLY <1>2
  <2> QED
    BY ONLY <1>0, <1>2, <1>5, <1>6, <1>t, <1>x, <2>2 DEF NodeShape
<1>15. NodeUp(y, i) /\ Waiter(y, i)
  BY ONLY <1>0, <1>2, <1>6, <1>t DEF NodeUp, Waiter
<1>16. LinkShape(y, i, k)
  BY ONLY <1>5, <1>t DEF LinkShape
<1>17. Agree(y)
  <2>1. SameEnds(z.node[i], y.node[i])
    BY ONLY <1>1, <1>2, <1>3, <1>t, <1>x DEF SameEnds
  <2>2. SameTalk(z, y, i, k)
    BY ONLY <1>t DEF SameTalk
  <2> QED
    BY ONLY <1>0, <1>5, <1>t, <2>1, <2>2, i \in Links, k \in Conns, TurnSame, Zenon
<1>18. SafeNode(z.node[i], y.node[i]) /\ NewsKept(z, y, i, i, k)
  BY ONLY <1>2, <1>3, <1>t, <1>x DEF SafeNode, NewsKept
<1>19. ASSUME NEW m \in Nodes, Pre(y, m), OnChain(z, "relay", i, 0, m) PROVE Linked(y)
  <2>1. i <= m
    BY <1>19 DEF OnChain
  <2>2. "CREATED" \in Shaking
    BY DEF Shaking
  <2>3. At(y, "in", i, 0) /\ OnChain(y, "in", i, 0, m)
    BY ONLY <1>2, <1>t, <2>1, <2>2 DEF At, OnChain
  <2> QED
    BY ONLY <1>0, <1>19, <2>3, m \in Nodes, PlaceWithin
<1> QED
  BY ONLY <1>0, <1>4, <1>8, <1>9, <1>10, <1>11, <1>12, <1>13, <1>14, <1>15, <1>16, <1>17, <1>18,
     <1>19, <1>t,
     c \in Circuits, IsView(z, c), i \in Links, k \in Conns, TokenStep

\* circuit_close_all_marked
LEMMA FreeStep ==
  ASSUME NEW c \in Circuits, NEW z, NEW y, IsView(z, c), Inv(z), z.len \in Nodes,
         NEW i \in Nodes, z.node[i].marked,
         NEW u, u = [NoCircuit EXCEPT !.marked = (i = 0)], ZNode(z, y, i, u)
  PROVE  Inv(y)
<1>x. PICK x : x = z.node[i]
  OBVIOUS
<1>k. PICK k \in Conns : k = 1
  BY ConstFacts DEF Conns
<1>l. PICK l \in Links : l = 1
  BY ConstFacts DEF Links
<1>2. /\ u.state = "none" /\ u.n = 0 /\ u.p = 0 /\ u.hops = 0 /\ u.outq = <<>> /\ u.inq = <<>>
      /\ (u.marked <=> i = 0) /\ u = [NoCircuit EXCEPT !.marked = u.marked]
  BY Zenon DEF NoCircuit
<1>t. /\ Turn(z, y, i, l, k) /\ y.fwd = z.fwd /\ y.bwd = z.bwd
      /\ y.node[i] = u /\ y.near = z.near /\ y.far = z.far /\ y.len = z.len /\ y.over = z.over
  BY DEF ZNode, Turn
<1>3. x.marked /\ ~ Up(x) /\ ~ Up(u) /\ x # NoCircuit
  BY <1>x, <1>2 DEF Up, NoCircuit
<1>4. 0 \in Nodes /\ 0 \notin Conns /\ i \in Nat /\ z.len \in Nat
  BY ConstFacts
<1>5. Calm(z, y)
  <2>1. ASSUME NEW m \in Links PROVE (Clean(z, m) => Clean(y, m)) /\ (Bare(z, m) => Bare(y, m))
    <3>1. m \in Nodes /\ m - 1 \in Nodes /\ m # m - 1
      BY ConstFacts
    <3>2. CASE m = i
      BY ONLY <1>3, <1>x, <3>2 DEF Clean, Bare
    <3>3. CASE m # i
      <4>1. y.node[m] = z.node[m]
        BY ONLY <1>t, <3>1, <3>3 DEF Turn
      <4>2. z.node[m - 1].n = 0 => y.node[m - 1].n = 0
        <5>1. CASE m - 1 = i
          BY ONLY <1>2, <1>t, <5>1
        <5>2. CASE m - 1 # i
          BY ONLY <1>t, <3>1, <5>2 DEF Turn
        <5> QED
          BY <5>1, <5>2
      <4> QED
        BY ONLY <1>t, <4>1, <4>2 DEF Clean, Bare
    <3> QED
      BY <3>2, <3>3
  <2>2. \A a \in Nodes : /\ Thin(y.node[a].outq, z.node[a].outq) /\ Thin(y.node[a].inq, z.node[a].inq)
                         /\ Up(y.node[a]) => Up(z.node[a]) /\ y.node[a] = z.node[a]
    <3> SUFFICES ASSUME NEW a \in Nodes
        PROVE /\ Thin(y.node[a].outq, z.node[a].outq) /\ Thin(y.node[a].inq, z.node[a].inq)
              /\ Up(y.node[a]) => Up(z.node[a]) /\ y.node[a] = z.node[a]
      OBVIOUS
    <3>1. CASE a = i
      BY ONLY <1>2, <1>3, <1>t, <3>1, ThinEmpty
    <3>2. CASE a # i
      <4>1. y.node[a] = z.node[a]
        BY <1>t, <3>2 DEF Turn
      <4> QED
        BY ONLY <4>1, ThinSelf
    <3> QED
      BY <3>1, <3>2
  <2>3. y.node[0] = NoCircuit => z.node[0] = NoCircuit
    <3>1. CASE i = 0
      BY ONLY <1>2, <1>t, <3>1 DEF NoCircuit
    <3>2. CASE i # 0
      BY <1>t, <1>4, <3>2 DEF Turn
    <3> QED
      BY <3>1, <3>2
  <2> QED
    BY ONLY <1>4, <1>t, <2>1, <2>2, <2>3, ThinSelf DEF Calm, Hops, Up0
<1>6. NodeShape(y, i) /\ Waiter(y, i) /\ NodeUp(y, i)
  <2>1. NodeShape(y, i)
    BY ONLY <1>2, <1>4, <1>t, EmptyQueue DEF NodeShape
  <2> QED
    BY ONLY <1>3, <1>t, <2>1 DEF Waiter, NodeUp
<1>7. LinkShape(y, l, k)
  <2>1. LinkShape(z, l, k)
    BY DEF Inv, Shape
  <2> QED
    BY ONLY <1>t, <2>1 DEF LinkShape
<1>8. Agree(y)
  <2>1. ASSUME NEW m \in Links, NEW h \in Conns
        PROVE  LinkA(y, m, h) /\ LinkB(y, m, h) /\ LinkC(y, m, h) /\ LinkD(y, m, h)
    <3>1. LinkA(z, m, h) /\ LinkB(z, m, h) /\ LinkC(z, m, h) /\ LinkD(z, m, h)
      BY DEF Inv, Agree
    <3>2. m \in Nodes /\ m - 1 \in Nodes /\ m - 1 # m /\ h # 0
      BY ConstFacts
    <3>3. CASE m = i
      <4>1. y.node[m - 1] = z.node[m - 1]
        BY ONLY <1>t, <3>2, <3>3 DEF Turn
      <4>2. y.node[m].p # h /\ ~ Up(y.node[m]) /\ ~ Up(z.node[m])
        BY ONLY <1>2, <1>3, <1>t, <1>x, <3>2, <3>3
      <4> QED
        BY ONLY <1>t, <3>1, <4>1, <4>2 DEF LinkA, LinkB, LinkC, LinkD, Shares, Kept
    <3>4. CASE m - 1 = i
      <4>1. y.node[m] = z.node[m]
        BY ONLY <1>t, <3>2, <3>4 DEF Turn
      <4>2. y.node[m - 1].n # h /\ ~ Up(y.node[m - 1]) /\ ~ Up(z.node[m - 1])
        BY ONLY <1>2, <1>3, <1>t, <1>x, <3>2, <3>4
      <4> QED
        BY ONLY <1>t, <3>1, <4>1, <4>2 DEF LinkA, LinkB, LinkC, LinkD, Shares, Kept
    <3>5. CASE m # i /\ m - 1 # i
      <4>1. y.node[m] = z.node[m] /\ y.node[m - 1] = z.node[m - 1]
        BY ONLY <1>t, <3>2, <3>5 DEF Turn
      <4> QED
        BY ONLY <1>t, <3>1, <4>1 DEF LinkA, LinkB, LinkC, LinkD, Shares, Kept
    <3> QED
      BY <3>3, <3>4, <3>5
  <2>2. ASSUME NEW j \in Nodes PROVE Late(y, j)
    <3>1. Late(z, j)
      BY DEF Inv, Agree
    <3>2. CASE j = i
      BY ONLY <1>2, <1>t, <3>2, EmptyQueue DEF Late
    <3>3. CASE j # i
      <4>1. y.node[j] = z.node[j]
        BY <1>t, <3>3 DEF Turn
      <4> QED
        BY ONLY <1>t, <3>1, <4>1 DEF Late
    <3> QED
      BY <3>2, <3>3
  <2> QED
    BY <2>1, <2>2 DEF Agree
<1>9. NodeUp(y, i) /\ Chain(y) => Inv(y)
  BY ONLY <1>t, <1>5, <1>6, <1>7, <1>8, c \in Circuits, IsView(z, c), Inv(z), i \in Nodes,
     l \in Links, k \in Conns,
     CalmStep
<1>10. ASSUME Building(y) PROVE Linked(y)
  <2>0. i # 0
    BY ONLY <1>3, <1>10, <1>t DEF Building, Up0
  <2>1. Building(z) /\ Up0(z)
    <3>1. y.node[0] = z.node[0]
      BY <1>t, <1>4, <2>0 DEF Turn
    <3> QED
      BY ONLY <1>10, <3>1 DEF Building, Up0
  <2>2. PICK m \in Nodes : Pre(z, m) /\ (News(z, m) \/ Within(z, m))
    BY <2>1 DEF Inv, Chain, Linked
  <2>3. m \in Nat
    BY ConstFacts
  <2>4. ~ (i <= m)
    <3>1. \A j \in Nodes : j <= m => Up(z.node[j])
      BY ONLY <2>1, <2>2, c \in Circuits, IsView(z, c), PreUp
    <3> QED
      BY ONLY <1>3, <1>x, <3>1, i \in Nodes
  <2>5. m < i
    BY ONLY <1>4, <2>3, <2>4
  <2>6. Pre(y, m) /\ (News(z, m) => News(y, m)) /\ (Within(z, m) => Within(y, m))
    BY ONLY <1>t, <2>1, <2>2, <2>5, c \in Circuits, IsView(z, c), i \in Nodes, l \in Links,
       k \in Conns, Nearer, Zenon
  <2> QED
    BY ONLY <2>2, <2>6 DEF Linked
<1> QED
  BY ONLY <1>6, <1>9, <1>10 DEF Chain

\* All but the waiter at node i: the circuit is ready to be marked there.
LEMMA ReadyToMark ==
  ASSUME NEW z, NEW i \in Nodes, SteadyButWaiters(z), \A j \in Nodes : j # i => Waiter(z, j)
  PROVE  MarkReady(z, i)
<1>1. Shape(z) /\ Alone(z) /\ Ones(z) /\ Frontier(z) /\ Agree(z) /\ Chain(z) /\ Ups(z)
  BY DEF SteadyButWaiters
<1> QED
  BY <1>1 DEF MarkReady, Chain, Ups

\* The invariant is all but the waiters, and the waiters.
LEMMA InvSteady ==
  ASSUME NEW z
  PROVE  Inv(z) <=> SteadyButWaiters(z) /\ \A j \in Nodes : Waiter(z, j)
BY DEF Inv, SteadyButWaiters, Waiters
=============================================================================
