-------------------------- MODULE CellQueueProofs --------------------------
(***************************************************************************)
(* Proofs about CellQueue: the pointers of the active circuits always form *)
(* one ring per connection, the rings hold the circuits that have cells    *)
(* and no others, no connection with active circuits goes to sleep, and    *)
(* every handler moves the rings as RoundRobin allows.                     *)
(***************************************************************************)
EXTENDS CellQueue, FiniteSetTheorems, SequenceTheorems, FunctionTheorems,
        WellFoundedInduction, TLAPS

-----------------------------------------------------------------------------
\* A set of naturals has a least element.
LEMMA LeastNat ==
  ASSUME NEW A \in SUBSET Nat, A # {}
  PROVE  \E m \in A : \A n \in A : m <= n
<1>1. PICK R : R = OpToRel(<, Nat)
  OBVIOUS
<1>2. PICK m \in A : \A n \in A : ~(<<n, m>> \in R)
  BY ONLY A \in SUBSET Nat, A # {}, <1>1, NatLessThanWellFounded, WFMin
<1>3. \A n \in A : n < m => <<n, m>> \in R
  BY <1>1 DEF OpToRel
<1>4. m \in Nat /\ \A n \in A : n \in Nat /\ ~(n < m)
  BY ONLY A \in SUBSET Nat, m \in A, <1>2, <1>3, Zenon
<1>5. \A n \in A : m <= n
  BY ONLY <1>4
<1> QED
  BY ONLY m \in A, <1>5

-----------------------------------------------------------------------------
(* One ring: the line s of n legs that the pointers describe.              *)

After(i, n) == IF i = n THEN 1 ELSE i + 1
Before(i, n) == IF i = 1 THEN n ELSE i - 1

\* The first n legs, in the order of s, point at each other in a circle.
Circle(nxt, prv, s, n) ==
  /\ n \in Nat /\ s \in [1..n -> Legs]
  /\ \A i, j \in 1..n : s[i] = s[j] => i = j
  /\ \A i \in 1..n : nxt[s[i]] = s[After(i, n)] /\ prv[s[i]] = s[Before(i, n)]

\* After and Before are neighbours within the line, and each other's inverse.
LEMMA Neighbours ==
  ASSUME NEW n \in Nat, NEW i \in 1..n
  PROVE  /\ After(i, n) \in 1..n /\ Before(i, n) \in 1..n
         /\ Before(After(i, n), n) = i /\ After(Before(i, n), n) = i
BY DEF After, Before

\* A circle does not depend on the pointers of other legs.
LEMMA CircleFrame ==
  ASSUME NEW nxt, NEW prv, NEW nxt2, NEW prv2, NEW s, NEW n,
         Circle(nxt, prv, s, n),
         \A i \in 1..n : nxt2[s[i]] = nxt[s[i]] /\ prv2[s[i]] = prv[s[i]]
  PROVE  Circle(nxt2, prv2, s, n)
BY DEF Circle

\* make_circuit_active_on_conn puts the newcomer between the last and the first.
LEMMA CircleJoin ==
  ASSUME NEW nxt \in [Legs -> Legs \cup {NoLeg}],
         NEW prv \in [Legs -> Legs \cup {NoLeg}],
         NEW s, NEW n, n # 0, Circle(nxt, prv, s, n),
         NEW l \in Legs, \A i \in 1..n : s[i] # l,
         NEW t, t = [i \in 1..(n + 1) |-> IF i = n + 1 THEN l ELSE s[i]],
         NEW nxt2, nxt2 = [[nxt EXCEPT ![s[n]] = l] EXCEPT ![l] = s[1]],
         NEW prv2, prv2 = [[prv EXCEPT ![s[1]] = l] EXCEPT ![l] = s[n]]
  PROVE  Circle(nxt2, prv2, t, n + 1)
<1>1. n \in Nat /\ s \in [1..n -> Legs] /\ 1 \in 1..n /\ n \in 1..n
  BY DEF Circle
<1>2. t \in [1..(n + 1) -> Legs]
  BY <1>1
<1>3. \A i, j \in 1..(n + 1) : t[i] = t[j] => i = j
  BY <1>1 DEF Circle
<1>4. /\ nxt2[l] = s[1] /\ prv2[l] = s[n]
      /\ nxt2[s[n]] = l /\ prv2[s[1]] = l
      /\ \A i \in 1..n : i # n => nxt2[s[i]] = nxt[s[i]]
      /\ \A i \in 1..n : i # 1 => prv2[s[i]] = prv[s[i]]
  <2>1. s[1] \in Legs /\ s[n] \in Legs /\ s[1] # l /\ s[n] # l
    BY <1>1
  <2>2. \A i \in 1..n : s[i] \in Legs /\ s[i] # l
    BY <1>1
  <2>3. \A i \in 1..n : i # n => s[i] # s[n]
    BY <1>1 DEF Circle
  <2>4. \A i \in 1..n : i # 1 => s[i] # s[1]
    BY <1>1 DEF Circle
  <2> QED
    BY <2>1, <2>2, <2>3, <2>4
<1>5. ASSUME NEW i \in 1..(n + 1)
      PROVE  nxt2[t[i]] = t[After(i, n + 1)] /\ prv2[t[i]] = t[Before(i, n + 1)]
  <2>1. CASE i = n + 1
    BY <1>1, <1>4, <2>1 DEF After, Before
  <2>2. CASE i \in 1..n
    <3>1. t[i] = s[i] /\ nxt[s[i]] = s[After(i, n)] /\ prv[s[i]] = s[Before(i, n)]
      BY <1>1, <2>2 DEF Circle
    <3>2. nxt2[t[i]] = t[After(i, n + 1)]
      BY <1>1, <1>4, <2>2, <3>1 DEF After
    <3>3. prv2[t[i]] = t[Before(i, n + 1)]
      BY <1>1, <1>4, <2>2, <3>1 DEF Before
    <3> QED
      BY <3>2, <3>3
  <2> QED
    BY <1>1, <2>1, <2>2
<1>6. n + 1 \in Nat
  BY <1>1
<1> QED
  BY <1>2, <1>3, <1>5, <1>6 DEF Circle

\* make_circuit_inactive_on_conn joins the neighbours of the one that leaves.
LEMMA CircleLeave ==
  ASSUME NEW nxt \in [Legs -> Legs \cup {NoLeg}],
         NEW prv \in [Legs -> Legs \cup {NoLeg}],
         NEW s, NEW n, Circle(nxt, prv, s, n),
         NEW k \in 1..n, n # 1,
         NEW t, t = [i \in 1..(n - 1) |-> IF i < k THEN s[i] ELSE s[i + 1]],
         NEW nxt2, nxt2 = [[nxt EXCEPT ![s[Before(k, n)]] = s[After(k, n)]]
                             EXCEPT ![s[k]] = NoLeg],
         NEW prv2, prv2 = [[prv EXCEPT ![s[After(k, n)]] = s[Before(k, n)]]
                             EXCEPT ![s[k]] = NoLeg]
  PROVE  Circle(nxt2, prv2, t, n - 1)
<1> DEFINE a == After(k, n)
           b == Before(k, n)
<1>1. n \in Nat /\ s \in [1..n -> Legs] /\ n - 1 \in Nat
  BY DEF Circle
<1>2. a \in 1..n /\ b \in 1..n /\ a # k /\ b # k
  BY <1>1 DEF After, Before
<1>3. t \in [1..(n - 1) -> Legs]
  BY <1>1
<1>4. \A i, j \in 1..(n - 1) : t[i] = t[j] => i = j
  BY <1>1 DEF Circle
<1>5. /\ nxt2[s[b]] = s[a] /\ prv2[s[a]] = s[b]
      /\ \A i \in 1..n : i # b /\ i # k => nxt2[s[i]] = nxt[s[i]]
      /\ \A i \in 1..n : i # a /\ i # k => prv2[s[i]] = prv[s[i]]
  <2>1. \A i \in 1..n : s[i] \in Legs
    BY <1>1
  <2>2. \A i, j \in 1..n : i # j => s[i] # s[j]
    BY DEF Circle
  <2> HIDE DEF a, b
  <2>3. /\ nxt2 = [[nxt EXCEPT ![s[b]] = s[a]] EXCEPT ![s[k]] = NoLeg]
        /\ prv2 = [[prv EXCEPT ![s[a]] = s[b]] EXCEPT ![s[k]] = NoLeg]
    BY DEF a, b
  <2> QED
    BY <1>2, <2>1, <2>2, <2>3
<1>6. ASSUME NEW i \in 1..(n - 1)
      PROVE  nxt2[t[i]] = t[After(i, n - 1)] /\ prv2[t[i]] = t[Before(i, n - 1)]
  <2> DEFINE j == IF i < k THEN i ELSE i + 1
             u == After(i, n - 1)
             v == Before(i, n - 1)
  <2>1. j \in 1..n /\ j # k /\ t[i] = s[j]
    BY <1>1
  <2>2. /\ u \in 1..(n - 1) /\ v \in 1..(n - 1)
        /\ t[u] = s[IF u < k THEN u ELSE u + 1]
        /\ t[v] = s[IF v < k THEN v ELSE v + 1]
    BY <1>1 DEF After, Before
  <2>3. nxt[s[j]] = s[After(j, n)] /\ prv[s[j]] = s[Before(j, n)]
    BY <2>1 DEF Circle
  <2>4. IF j = b THEN a = (IF u < k THEN u ELSE u + 1)
        ELSE After(j, n) = (IF u < k THEN u ELSE u + 1)
    BY <1>1 DEF After, Before
  <2>5. IF j = a THEN b = (IF v < k THEN v ELSE v + 1)
        ELSE Before(j, n) = (IF v < k THEN v ELSE v + 1)
    BY <1>1 DEF After, Before
  <2> HIDE DEF j, u, v, a, b
  <2>6. nxt2[s[j]] = t[u]
    BY <1>5, <2>1, <2>2, <2>3, <2>4
  <2>7. prv2[s[j]] = t[v]
    BY <1>5, <2>1, <2>2, <2>3, <2>5
  <2> QED
    BY <2>1, <2>6, <2>7 DEF u, v
<1> QED
  BY <1>1, <1>3, <1>4, <1>6 DEF Circle

\* active_circuits moves on to the next circuit: the first of the line is last.
LEMMA CircleTurn ==
  ASSUME NEW nxt, NEW prv, NEW s, NEW n, Circle(nxt, prv, s, n), n # 0,
         NEW t, t = [i \in 1..n |-> s[After(i, n)]]
  PROVE  Circle(nxt, prv, t, n) /\ t[1] = nxt[s[1]]
<1>1. n \in Nat /\ s \in [1..n -> Legs] /\ 1 \in 1..n
  BY DEF Circle
<1>2. \A i \in 1..n : After(i, n) \in 1..n /\ Before(i, n) \in 1..n
  BY <1>1, Neighbours
<1>3. t \in [1..n -> Legs]
  BY <1>1, <1>2
<1>4. \A i, j \in 1..n : t[i] = t[j] => i = j
  <2>1. ASSUME NEW i \in 1..n, NEW j \in 1..n, After(i, n) = After(j, n)
        PROVE  i = j
    BY <1>1, <2>1, Neighbours
  <2> QED
    BY <1>2, <2>1 DEF Circle
<1>5. ASSUME NEW i \in 1..n
      PROVE  nxt[t[i]] = t[After(i, n)] /\ prv[t[i]] = t[Before(i, n)]
  <2>1. t[i] = s[After(i, n)] /\ nxt[s[After(i, n)]] = s[After(After(i, n), n)]
        /\ prv[s[After(i, n)]] = s[Before(After(i, n), n)]
    BY <1>2 DEF Circle
  <2>2. t[After(i, n)] = s[After(After(i, n), n)]
    BY <1>2
  <2>3. t[Before(i, n)] = s[After(Before(i, n), n)]
    BY <1>2
  <2> QED
    BY <1>1, <2>1, <2>2, <2>3, Neighbours
<1>6. t[1] = nxt[s[1]]
  BY <1>1 DEF Circle
<1> QED
  BY <1>1, <1>3, <1>4, <1>5, <1>6 DEF Circle

\* There are finitely many legs, because there are finitely many circuits.
LEMMA LegsFinite == IsFiniteSet(Legs)
<1>1. IsFiniteSet({"n"})
  BY FS_Singleton
<1>2. IsFiniteSet({"n"} \cup {"p"})
  BY <1>1, FS_AddElement
<1>3. Sides = {"n"} \cup {"p"}
  BY DEF Sides
<1>4. IsFiniteSet(Circuits) /\ IsFiniteSet(Sides)
  BY <1>2, <1>3, CellQueueAssumption
<1> QED
  BY <1>4, FS_Product DEF Legs

\* Walking along next from the head visits the legs of the circle, in order.
LEMMA WalkIsLine ==
  ASSUME NEW nxt, NEW prv, NEW s, NEW n, Circle(nxt, prv, s, n),
         NEW head, head = IF n = 0 THEN NoLeg ELSE s[1]
  PROVE  RingOf(nxt, head) = s
<1> DEFINE m == Cardinality(Legs)
           step(l) == IF l = NoLeg \/ nxt[l] = head THEN NoLeg ELSE nxt[l]
           Eqn(w) == w = [i \in 1..m |-> IF i = 1 THEN head ELSE step(w[i - 1])]
           W == CHOOSE w : Eqn(w)
           f == [i \in 1..m |-> IF i <= n THEN s[i] ELSE NoLeg]
<1>1. /\ n \in Nat /\ s \in [1..n -> Legs]
      /\ \A i, j \in 1..n : s[i] = s[j] => i = j
      /\ \A i \in 1..n : nxt[s[i]] = s[After(i, n)]
  BY DEF Circle
<1>2. NoLeg \notin Legs /\ IsFiniteSet(Legs)
  BY CellQueueAssumption, LegsFinite
<1>3. m \in Nat /\ n <= m
  <2>1. IsFiniteSet(1..n) /\ Cardinality(1..n) = n
    BY <1>1, FS_Interval
  <2>2. s \in Injection(1..n, Legs)
    BY <1>1 DEF Injection, IsInjective
  <2>3. Cardinality(1..n) <= m
    BY <1>2, <2>2, FS_Injection
  <2>4. m \in Nat
    BY <1>2, FS_CardinalityType
  <2> QED
    BY <2>1, <2>3, <2>4
<1> HIDE DEF m
<1>4. Eqn(f)
  <2>1. ASSUME NEW i \in 1..m
        PROVE  f[i] = IF i = 1 THEN head ELSE step(f[i - 1])
    <3>1. CASE i = 1
      BY <1>1, <1>3, <3>1
    <3>2. CASE i # 1 /\ i - 1 > n
      <4>1. i - 1 \in 1..m /\ f[i - 1] = NoLeg /\ f[i] = NoLeg
        BY <1>1, <1>3, <3>2
      <4> QED
        BY <3>2, <4>1
    <3>3. CASE i # 1 /\ i - 1 = n
      <4>1. i - 1 \in 1..m /\ f[i - 1] = s[n] /\ f[i] = NoLeg /\ n \in 1..n /\ n # 0
        BY <1>1, <1>3, <3>3
      <4>2. nxt[s[n]] = head
        BY <1>1, <4>1 DEF After
      <4> QED
        BY <3>3, <4>1, <4>2
    <3>4. CASE i # 1 /\ i - 1 < n
      <4>1. /\ i - 1 \in 1..n /\ i \in 1..n /\ 1 \in 1..n
            /\ f[i - 1] = s[i - 1] /\ f[i] = s[i]
        BY <1>1, <1>3, <3>4
      <4>2. nxt[s[i - 1]] = s[i]
        BY <1>1, <3>4, <4>1 DEF After
      <4>3. s[i - 1] # NoLeg /\ s[i] # s[1] /\ head = s[1]
        BY <1>1, <1>2, <3>4, <4>1
      <4> QED
        BY <3>4, <4>1, <4>2, <4>3
    <3> QED
      BY <1>1, <1>3, <3>1, <3>2, <3>3, <3>4
  <2> QED
    BY <2>1
<1>5. Eqn(W)
  BY <1>4
<1>6. RingOf(nxt, head) =
        [i \in 1..Cardinality({i \in DOMAIN W : W[i] # NoLeg}) |-> W[i]]
  BY DEF RingOf, m
<1> HIDE DEF W
<1>7. DOMAIN W = 1..m
      /\ \A i \in 1..m : W[i] = IF i = 1 THEN head ELSE step(W[i - 1])
  BY <1>5
<1>8. \A i \in 1..m : f[i] = IF i = 1 THEN head ELSE step(f[i - 1])
  BY <1>4
<1> HIDE DEF step
<1>9. \A i \in 1..m : W[i] = f[i]
  <2> DEFINE Bad == {i \in 1..m : W[i] # f[i]}
  <2> SUFFICES ASSUME Bad # {} PROVE FALSE
    OBVIOUS
  <2>1. Bad \in SUBSET Nat
    BY <1>3
  <2> HIDE DEF f
  <2>2. PICK i \in Bad : \A j \in Bad : i <= j
    BY <2>1, LeastNat
  <2>3. i \in 1..m /\ i # 1
    BY <1>7, <1>8
  <2>4. i - 1 \in 1..m /\ i - 1 \notin Bad
    BY <1>3, <2>2, <2>3
  <2> QED
    BY <1>7, <1>8, <2>3, <2>4
<1>10. {i \in DOMAIN W : W[i] # NoLeg} = 1..n
  BY <1>1, <1>2, <1>3, <1>7, <1>9
<1>11. Cardinality({i \in DOMAIN W : W[i] # NoLeg}) = n
  <2>1. Cardinality(1..n) = n
    <3>1. 1 \in Int /\ n \in Int
      BY <1>1
    <3>2. Cardinality(1..n) = IF 1 > n THEN 0 ELSE n - 1 + 1
      BY ONLY <3>1, FS_Interval
    <3> QED
      BY <1>1, <3>2
  <2> QED
    BY <1>10, <2>1
<1>12. \A i \in 1..n : W[i] = s[i]
  BY <1>1, <1>3, <1>9
<1> QED
  BY <1>1, <1>6, <1>11, <1>12
-----------------------------------------------------------------------------
(* All the rings: L is the line of legs of every connection.               *)

Stands(l, s) == \E i \in 1..Len(s) : s[i] = l

PointerType == [Legs -> Legs \cup {NoLeg}]

\* The pointers nxt and prv and the heads act describe the lines L, and the
\* legs in the line of a connection are those that are linked and belong to it.
Lined(nxt, prv, act, cn, L) ==
  /\ nxt \in PointerType /\ prv \in PointerType
  /\ act \in [Conns -> Legs \cup {NoLeg}]
  /\ L \in [Conns -> Seq(Legs)]
  /\ \A o \in Conns :
       /\ Circle(nxt, prv, L[o], Len(L[o]))
       /\ act[o] = IF Len(L[o]) = 0 THEN NoLeg ELSE L[o][1]
  /\ \A o \in Conns, l \in Legs :
       Stands(l, L[o]) <=> cn[l] = o /\ nxt[l] # NoLeg
  /\ \A l \in Legs : nxt[l] # NoLeg => cn[l] \in Conns
  /\ \A l \in Legs : nxt[l] = NoLeg <=> prv[l] = NoLeg

\* A function on 1..n is a sequence of length n.
LEMMA LineLength ==
  ASSUME NEW X, NEW n \in Nat, NEW t \in [1..n -> X]
  PROVE  t \in Seq(X) /\ Len(t) = n
<1>1. t \in Seq(X)
  BY SeqDef
<1>2. DOMAIN t = 1..n /\ Len(t) \in Nat /\ DOMAIN t = 1..Len(t)
  BY <1>1, LenProperties
<1> QED
  BY <1>1, <1>2

\* The first n legs of t are the linked legs of connection o.
Lists(t, n, nxt, cn, o) ==
  \A l \in Legs : (\E i \in 1..n : t[i] = l) <=> cn[l] = o /\ nxt[l] # NoLeg

Paired(nxt, prv) == \A l \in Legs : nxt[l] = NoLeg <=> prv[l] = NoLeg

\* Both pointers of the legs of other connections are left alone.
SameElsewhere(nxt, prv, nxt2, prv2, cn, o) ==
  \A l \in Legs : cn[l] # o => nxt2[l] = nxt[l] /\ prv2[l] = prv[l]

HeadOf(t, n) == IF n = 0 THEN NoLeg ELSE t[1]

\* The lines stay described when one of them changes and the pointers of the
\* legs of the other connections do not.
LEMMA LinedChange ==
  ASSUME NEW nxt, NEW prv, NEW act, NEW cn, NEW L, Lined(nxt, prv, act, cn, L),
         NEW o \in Conns, NEW nxt2 \in PointerType, NEW prv2 \in PointerType,
         NEW t, NEW n, Circle(nxt2, prv2, t, n),
         NEW act2,
         act2 = [act EXCEPT ![o] = HeadOf(t, n)],
         SameElsewhere(nxt, prv, nxt2, prv2, cn, o),
         Lists(t, n, nxt2, cn, o), Paired(nxt2, prv2)
  PROVE  Lined(nxt2, prv2, act2, cn, [L EXCEPT ![o] = t])
<1> USE DEF HeadOf, SameElsewhere, Lists, Paired
<1> DEFINE L2 == [L EXCEPT ![o] = t]
<1>1. /\ act \in [Conns -> Legs \cup {NoLeg}] /\ L \in [Conns -> Seq(Legs)]
      /\ nxt \in PointerType
  BY DEF Lined
<1>2. n \in Nat /\ t \in [1..n -> Legs]
  BY DEF Circle
<1>3. t \in Seq(Legs) /\ Len(t) = n
  BY <1>2, LineLength
<1>4. n # 0 => t[1] \in Legs
  BY <1>2
<1>5. act2 \in [Conns -> Legs \cup {NoLeg}] /\ L2 \in [Conns -> Seq(Legs)]
  BY <1>1, <1>3, <1>4
<1>6. ASSUME NEW p \in Conns
      PROVE  /\ Circle(nxt2, prv2, L2[p], Len(L2[p]))
             /\ act2[p] = IF Len(L2[p]) = 0 THEN NoLeg ELSE L2[p][1]
             /\ \A l \in Legs : Stands(l, L2[p]) <=> cn[l] = p /\ nxt2[l] # NoLeg
  <2>1. CASE p = o
    <3>1. L2[p] = t /\ act2[p] = IF n = 0 THEN NoLeg ELSE t[1]
      BY <1>1, <2>1
    <3> QED
      BY <1>3, <2>1, <3>1 DEF Stands
  <2>2. CASE p # o
    <3>1. L2[p] = L[p] /\ act2[p] = act[p]
      BY <1>1, <2>2
    <3>2. /\ Circle(nxt, prv, L[p], Len(L[p]))
          /\ act[p] = IF Len(L[p]) = 0 THEN NoLeg ELSE L[p][1]
          /\ \A l \in Legs : Stands(l, L[p]) <=> cn[l] = p /\ nxt[l] # NoLeg
      BY DEF Lined
    <3>3. \A i \in 1..Len(L[p]) : L[p][i] \in Legs /\ Stands(L[p][i], L[p])
      BY <3>2 DEF Circle, Stands
    <3>4. \A i \in 1..Len(L[p]) : nxt2[L[p][i]] = nxt[L[p][i]]
                                  /\ prv2[L[p][i]] = prv[L[p][i]]
      BY <2>2, <3>2, <3>3
    <3>5. Circle(nxt2, prv2, L[p], Len(L[p]))
      BY <3>2, <3>4, CircleFrame
    <3>6. ASSUME NEW l \in Legs
          PROVE  Stands(l, L[p]) <=> cn[l] = p /\ nxt2[l] # NoLeg
      BY <2>2, <3>2
    <3> QED
      BY <3>1, <3>2, <3>5, <3>6
  <2> QED
    BY <2>1, <2>2
<1>7. ASSUME NEW l \in Legs, nxt2[l] # NoLeg PROVE cn[l] \in Conns
  <2>1. CASE cn[l] = o
    BY <2>1
  <2>2. CASE cn[l] # o
    BY <1>7, <2>2 DEF Lined
  <2> QED
    BY <2>1, <2>2
<1> QED
  BY <1>5, <1>6, <1>7 DEF Lined

\* Connections of legs that are on no ring do not matter.
LEMMA LinedConn ==
  ASSUME NEW nxt, NEW prv, NEW act, NEW cn, NEW L, Lined(nxt, prv, act, cn, L),
         NEW cn2, \A l \in Legs : nxt[l] # NoLeg => cn2[l] = cn[l]
  PROVE  Lined(nxt, prv, act, cn2, L)
<1>1. ASSUME NEW o \in Conns, NEW l \in Legs
      PROVE  Stands(l, L[o]) <=> cn2[l] = o /\ nxt[l] # NoLeg
  BY DEF Lined
<1>2. \A l \in Legs : nxt[l] # NoLeg => cn2[l] \in Conns
  BY DEF Lined
<1> QED
  BY <1>1, <1>2 DEF Lined

Joined(s, l) == [i \in 1..(Len(s) + 1) |-> IF i = Len(s) + 1 THEN l ELSE s[i]]
Without(s, k) == [i \in 1..(Len(s) - 1) |-> IF i < k THEN s[i] ELSE s[i + 1]]
Turned(s) == [i \in 1..Len(s) |-> s[After(i, Len(s))]]

\* make_circuit_active_on_conn for a leg that is on no ring yet.
LEMMA LinedJoin ==
  ASSUME NEW nxt, NEW prv, NEW act, NEW cn, NEW L, Lined(nxt, prv, act, cn, L),
         NEW o \in Conns, NEW l \in Legs, cn[l] = o, nxt[l] = NoLeg,
         NEW nxt2, NEW prv2, NEW act2,
         IF act[o] = NoLeg
         THEN /\ nxt2 = [nxt EXCEPT ![l] = l] /\ prv2 = [prv EXCEPT ![l] = l]
              /\ act2 = [act EXCEPT ![o] = l]
         ELSE /\ nxt2 = [[nxt EXCEPT ![prv[act[o]]] = l] EXCEPT ![l] = act[o]]
              /\ prv2 = [[prv EXCEPT ![act[o]] = l] EXCEPT ![l] = prv[act[o]]]
              /\ act2 = act
  PROVE  /\ Lined(nxt2, prv2, act2, cn, [L EXCEPT ![o] = Joined(L[o], l)])
         /\ nxt2[l] # NoLeg
         /\ \A m \in Legs : m # l => (nxt2[m] = NoLeg <=> nxt[m] = NoLeg)
         /\ act2[o] # NoLeg
         /\ \A p \in Conns : p # o => act2[p] = act[p]
<1> DEFINE s == L[o]
           n == Len(s)
           t == Joined(s, l)
<1>1. /\ nxt \in PointerType /\ prv \in PointerType
      /\ act \in [Conns -> Legs \cup {NoLeg}]
      /\ Circle(nxt, prv, s, n)
      /\ act[o] = IF n = 0 THEN NoLeg ELSE s[1]
      /\ \A m \in Legs : Stands(m, s) <=> cn[m] = o /\ nxt[m] # NoLeg
      /\ \A m \in Legs : nxt[m] = NoLeg <=> prv[m] = NoLeg
  BY DEF Lined
<1>2. n \in Nat /\ s \in [1..n -> Legs] /\ NoLeg \notin Legs
  BY <1>1, CellQueueAssumption DEF Circle
<1>3. t = [i \in 1..(n + 1) |-> IF i = n + 1 THEN l ELSE s[i]]
  BY DEF Joined
<1>4. \A i \in 1..n : s[i] # l
  BY <1>1 DEF Stands
<1> HIDE DEF s, n, t
<1>5. /\ nxt2 \in PointerType /\ prv2 \in PointerType
      /\ Circle(nxt2, prv2, t, n + 1)
      /\ act2 = [act EXCEPT ![o] = t[1]]
      /\ nxt2[l] # NoLeg /\ prv2[l] # NoLeg
      /\ \A m \in Legs : m # l => (nxt2[m] = NoLeg <=> nxt[m] = NoLeg)
      /\ \A m \in Legs : m # l => (prv2[m] = NoLeg <=> prv[m] = NoLeg)
      /\ \A m \in Legs : cn[m] # o => nxt2[m] = nxt[m] /\ prv2[m] = prv[m]
  <2>1. CASE n = 0
    <3>1. /\ nxt2 = [nxt EXCEPT ![l] = l] /\ prv2 = [prv EXCEPT ![l] = l]
          /\ act2 = [act EXCEPT ![o] = l]
      BY <1>1, <2>1
    <3>2. t = [i \in 1..1 |-> l] /\ t[1] = l /\ n + 1 = 1
      BY <1>3, <2>1
    <3>3. nxt2[l] = l /\ prv2[l] = l
      BY <1>1, <3>1 DEF PointerType
    <3>4. Circle(nxt2, prv2, t, n + 1)
      BY <3>2, <3>3 DEF Circle, After, Before
    <3>5. nxt2 \in PointerType /\ prv2 \in PointerType
      BY <1>1, <3>1 DEF PointerType
    <3>6. \A m \in Legs : m # l => nxt2[m] = nxt[m] /\ prv2[m] = prv[m]
      BY <1>1, <3>1 DEF PointerType
    <3> QED
      BY <1>2, <3>1, <3>2, <3>3, <3>4, <3>5, <3>6
  <2>2. CASE n # 0
    <3>1. 1 \in 1..n /\ n \in 1..n /\ s[1] \in Legs /\ s[n] \in Legs
      BY <1>2, <2>2
    <3>2. act[o] = s[1] /\ prv[s[1]] = s[n]
      BY <1>1, <2>2, <3>1 DEF Circle, Before
    <3>3. /\ nxt2 = [[nxt EXCEPT ![s[n]] = l] EXCEPT ![l] = s[1]]
          /\ prv2 = [[prv EXCEPT ![s[1]] = l] EXCEPT ![l] = s[n]]
          /\ act2 = act
      BY <1>2, <3>1, <3>2
    <3>4. nxt \in [Legs -> Legs \cup {NoLeg}] /\ prv \in [Legs -> Legs \cup {NoLeg}]
      BY <1>1 DEF PointerType
    <3>5. Circle(nxt2, prv2, t, n + 1)
      BY <1>1, <1>3, <1>4, <2>2, <3>3, <3>4, CircleJoin
    <3>6. t[1] = s[1]
      BY <1>2, <1>3, <2>2, <3>1
    <3>7. act2 = [act EXCEPT ![o] = t[1]]
      BY <1>1, <3>2, <3>3, <3>6
    <3>8. nxt2 \in PointerType /\ prv2 \in PointerType
      BY <3>1, <3>3, <3>4 DEF PointerType
    <3>9. nxt2[l] = s[1] /\ prv2[l] = s[n]
      BY <3>1, <3>3, <3>4
    <3>10. /\ \A m \in Legs : m # l /\ m # s[n] => nxt2[m] = nxt[m]
           /\ \A m \in Legs : m # l /\ m # s[1] => prv2[m] = prv[m]
           /\ s[n] # l => nxt2[s[n]] = l
           /\ s[1] # l => prv2[s[1]] = l
      BY <3>1, <3>3, <3>4
    <3>11. /\ cn[s[n]] = o /\ cn[s[1]] = o
           /\ nxt[s[n]] # NoLeg /\ nxt[s[1]] # NoLeg
      <4>1. Stands(s[n], s) /\ Stands(s[1], s)
        BY <3>1 DEF Stands, n
      <4> QED
        BY <1>1, <3>1, <4>1
    <3>12. prv[s[1]] # NoLeg
      BY <1>1, <3>1, <3>11
    <3> QED
      BY <1>2, <3>1, <3>5, <3>7, <3>8, <3>9, <3>10, <3>11, <3>12
  <2> QED
    BY <2>1, <2>2
<1>6. ASSUME NEW m \in Legs
      PROVE  (\E i \in 1..(n + 1) : t[i] = m) <=> cn[m] = o /\ nxt2[m] # NoLeg
  <2>1. Stands(m, s) <=> \E i \in 1..n : s[i] = m
    BY DEF Stands, n
  <2>2. CASE m = l
    BY <1>2, <1>3, <1>5, <2>2
  <2>3. CASE m # l
    <3>1. (\E i \in 1..(n + 1) : t[i] = m) <=> \E i \in 1..n : s[i] = m
      BY <1>2, <1>3, <2>3
    <3> QED
      BY <1>1, <1>5, <2>1, <2>3, <3>1
  <2> QED
    BY <2>2, <2>3
<1>7. \A m \in Legs : nxt2[m] = NoLeg <=> prv2[m] = NoLeg
  BY <1>1, <1>5
<1>8. act2 = [act EXCEPT ![o] = IF n + 1 = 0 THEN NoLeg ELSE t[1]]
  <2>1. n + 1 # 0
    BY <1>2
  <2> QED
    BY <1>5, <2>1
<1>9. Lined(nxt2, prv2, act2, cn, [L EXCEPT ![o] = t])
  <2>1. PICK k : k = n + 1
    OBVIOUS
  <2>2. nxt2 \in PointerType /\ prv2 \in PointerType /\ Circle(nxt2, prv2, t, k)
    BY <1>5, <2>1
  <2>3. act2 = [act EXCEPT ![o] = HeadOf(t, k)]
    BY <1>8, <2>1 DEF HeadOf
  <2>4. SameElsewhere(nxt, prv, nxt2, prv2, cn, o)
    BY <1>5 DEF SameElsewhere
  <2>5. Lists(t, k, nxt2, cn, o)
    BY <1>6, <2>1 DEF Lists
  <2>6. Paired(nxt2, prv2)
    BY <1>7 DEF Paired
  <2> QED
    BY ONLY <2>2, <2>3, <2>4, <2>5, <2>6, LinedChange,
            Lined(nxt, prv, act, cn, L), o \in Conns
<1>10. t[1] \in Legs
  BY <1>2, <1>3
<1>11. act2[o] # NoLeg /\ \A p \in Conns : p # o => act2[p] = act[p]
  BY <1>1, <1>2, <1>5, <1>10
<1> QED
  BY <1>5, <1>9, <1>11 DEF t, s

\* make_circuit_inactive_on_conn for a leg that is on the ring.
LEMMA LinedLeave ==
  ASSUME NEW nxt, NEW prv, NEW act, NEW cn, NEW L, Lined(nxt, prv, act, cn, L),
         NEW o \in Conns, NEW k \in 1..Len(L[o]), NEW l, l = L[o][k],
         NEW nxt2, NEW prv2, NEW act2,
         IF nxt[l] = l
         THEN /\ nxt2 = [nxt EXCEPT ![l] = NoLeg]
              /\ prv2 = [prv EXCEPT ![l] = NoLeg]
              /\ act2 = [act EXCEPT ![o] = NoLeg]
         ELSE /\ nxt2 = [[nxt EXCEPT ![prv[l]] = nxt[l]] EXCEPT ![l] = NoLeg]
              /\ prv2 = [[prv EXCEPT ![nxt[l]] = prv[l]] EXCEPT ![l] = NoLeg]
              /\ act2 = [act EXCEPT ![o] = IF act[o] = l THEN nxt[l] ELSE act[o]]
  PROVE  /\ Lined(nxt2, prv2, act2, cn, [L EXCEPT ![o] = Without(L[o], k)])
         /\ nxt2[l] = NoLeg
         /\ \A m \in Legs : m # l => (nxt2[m] = NoLeg <=> nxt[m] = NoLeg)
         /\ \A p \in Conns : p # o => act2[p] = act[p]
<1> DEFINE s == L[o]
           n == Len(s)
           t == Without(s, k)
<1>1. /\ nxt \in [Legs -> Legs \cup {NoLeg}] /\ prv \in [Legs -> Legs \cup {NoLeg}]
      /\ act \in [Conns -> Legs \cup {NoLeg}]
      /\ Circle(nxt, prv, s, n)
      /\ act[o] = IF n = 0 THEN NoLeg ELSE s[1]
      /\ \A m \in Legs : Stands(m, s) <=> cn[m] = o /\ nxt[m] # NoLeg
      /\ \A m \in Legs : nxt[m] = NoLeg <=> prv[m] = NoLeg
  BY DEF Lined, PointerType
<1>2. /\ n \in Nat /\ s \in [1..n -> Legs] /\ NoLeg \notin Legs
      /\ k \in 1..n /\ l = s[k] /\ l \in Legs
      /\ \A i, j \in 1..n : s[i] = s[j] => i = j
  BY <1>1, CellQueueAssumption DEF Circle
<1>3. t = [i \in 1..(n - 1) |-> IF i < k THEN s[i] ELSE s[i + 1]]
  BY DEF Without
<1>4. /\ nxt[l] = s[After(k, n)] /\ prv[l] = s[Before(k, n)]
      /\ After(k, n) \in 1..n /\ Before(k, n) \in 1..n
  BY <1>1, <1>2, Neighbours DEF Circle
<1>5. \A i \in 1..n : s[i] \in Legs /\ cn[s[i]] = o /\ nxt[s[i]] # NoLeg
                      /\ prv[s[i]] # NoLeg
  <2>1. \A i \in 1..n : s[i] \in Legs /\ Stands(s[i], s)
    BY <1>2 DEF Stands
  <2> QED
    BY <1>1, <2>1
<1>a. \A m \in Legs : (\E i \in 1..n : s[i] = m) <=> cn[m] = o /\ nxt[m] # NoLeg
  BY <1>1 DEF Stands
<1> HIDE DEF s, n, t
<1>6. /\ nxt2 \in [Legs -> Legs \cup {NoLeg}] /\ prv2 \in [Legs -> Legs \cup {NoLeg}]
      /\ Circle(nxt2, prv2, t, n - 1)
      /\ act2 = [act EXCEPT ![o] = HeadOf(t, n - 1)]
      /\ nxt2[l] = NoLeg /\ prv2[l] = NoLeg
      /\ \A m \in Legs : m # l => (nxt2[m] = NoLeg <=> nxt[m] = NoLeg)
      /\ \A m \in Legs : m # l => (prv2[m] = NoLeg <=> prv[m] = NoLeg)
      /\ \A m \in Legs : cn[m] # o => nxt2[m] = nxt[m] /\ prv2[m] = prv[m]
  <2>1. CASE n = 1
    <3>1. nxt[l] = l
      BY <1>2, <1>4, <2>1 DEF After
    <3>2. /\ nxt2 = [nxt EXCEPT ![l] = NoLeg] /\ prv2 = [prv EXCEPT ![l] = NoLeg]
          /\ act2 = [act EXCEPT ![o] = NoLeg]
      BY <3>1
    <3>3. n - 1 = 0 /\ HeadOf(t, n - 1) = NoLeg
      BY <2>1 DEF HeadOf
    <3>4. Circle(nxt2, prv2, t, n - 1)
      <4>1. t \in [1..0 -> Legs]
        BY <1>3, <2>1
      <4> QED
        BY <3>3, <4>1 DEF Circle
    <3>5. /\ nxt2[l] = NoLeg /\ prv2[l] = NoLeg
          /\ \A m \in Legs : m # l => nxt2[m] = nxt[m] /\ prv2[m] = prv[m]
          /\ nxt2 \in [Legs -> Legs \cup {NoLeg}]
          /\ prv2 \in [Legs -> Legs \cup {NoLeg}]
      BY <1>1, <1>2, <3>2
    <3>6. cn[l] = o
      BY <1>2, <1>5
    <3>7. act2 = [act EXCEPT ![o] = HeadOf(t, n - 1)]
      BY <3>2, <3>3
    <3>8. \A m \in Legs : cn[m] # o => nxt2[m] = nxt[m] /\ prv2[m] = prv[m]
      BY <3>5, <3>6
    <3> QED
      BY <3>4, <3>5, <3>7, <3>8
  <2>2. CASE n # 1
    <3> DEFINE a == After(k, n)
               b == Before(k, n)
    <3>1. a # k /\ b # k /\ (k = 1 => a = 2) /\ n - 1 # 0
      BY <1>2, <2>2 DEF After, Before
    <3>2. a \in 1..n /\ b \in 1..n /\ nxt[l] = s[a] /\ prv[l] = s[b]
      BY <1>4
    <3> HIDE DEF a, b
    <3>3. s[a] # l /\ s[b] # l
      BY <1>2, <3>1, <3>2
    <3>4. /\ nxt2 = [[nxt EXCEPT ![s[b]] = s[a]] EXCEPT ![l] = NoLeg]
          /\ prv2 = [[prv EXCEPT ![s[a]] = s[b]] EXCEPT ![l] = NoLeg]
          /\ act2 = [act EXCEPT ![o] = IF act[o] = l THEN s[a] ELSE act[o]]
      BY <3>2, <3>3
    <3>5. Circle(nxt2, prv2, t, n - 1)
      <4>1. /\ nxt2 = [[nxt EXCEPT ![s[b]] = s[a]] EXCEPT ![s[k]] = NoLeg]
            /\ prv2 = [[prv EXCEPT ![s[a]] = s[b]] EXCEPT ![s[k]] = NoLeg]
        BY <1>2, <3>4
      <4> QED
        BY <1>1, <1>2, <1>3, <2>2, <4>1, CircleLeave DEF a, b
    <3>6. HeadOf(t, n - 1) = IF act[o] = l THEN s[a] ELSE act[o]
      <4>1. 1 \in 1..n /\ 1 \in 1..(n - 1) /\ act[o] = s[1]
        BY <1>1, <1>2, <2>2
      <4>2. HeadOf(t, n - 1) = t[1]
        BY <3>1 DEF HeadOf
      <4>3. t[1] = IF 1 < k THEN s[1] ELSE s[2]
        BY <1>3, <4>1
      <4>4. CASE k = 1
        BY <1>2, <3>1, <4>1, <4>2, <4>3, <4>4
      <4>5. CASE k # 1
        <5>1. 1 < k /\ s[1] # s[k]
          BY <1>2, <4>1, <4>5
        <5> QED
          BY <1>2, <4>1, <4>2, <4>3, <5>1
      <4> QED
        BY <4>4, <4>5
    <3>7. act2 = [act EXCEPT ![o] = HeadOf(t, n - 1)]
      BY <3>4, <3>6
    <3>8. s[a] \in Legs /\ s[b] \in Legs
      BY <1>2, <3>2
    <3>9. /\ nxt2 \in [Legs -> Legs \cup {NoLeg}]
          /\ prv2 \in [Legs -> Legs \cup {NoLeg}]
          /\ nxt2[l] = NoLeg /\ prv2[l] = NoLeg
          /\ nxt2[s[b]] = s[a] /\ prv2[s[a]] = s[b]
          /\ \A m \in Legs : m # l /\ m # s[b] => nxt2[m] = nxt[m]
          /\ \A m \in Legs : m # l /\ m # s[a] => prv2[m] = prv[m]
      BY <1>1, <1>2, <3>3, <3>4, <3>8
    <3>10. /\ cn[s[a]] = o /\ cn[s[b]] = o /\ cn[l] = o
           /\ nxt[s[b]] # NoLeg /\ prv[s[a]] # NoLeg
      BY <1>2, <1>5, <3>2
    <3>11. ASSUME NEW m \in Legs, m # l
           PROVE  /\ nxt2[m] = NoLeg <=> nxt[m] = NoLeg
                  /\ prv2[m] = NoLeg <=> prv[m] = NoLeg
      <4>1. nxt2[m] = NoLeg <=> nxt[m] = NoLeg
        BY <1>2, <3>8, <3>9, <3>10, <3>11
      <4>2. prv2[m] = NoLeg <=> prv[m] = NoLeg
        BY <1>2, <3>8, <3>9, <3>10, <3>11
      <4> QED
        BY <4>1, <4>2
    <3>12. ASSUME NEW m \in Legs, cn[m] # o
           PROVE  nxt2[m] = nxt[m] /\ prv2[m] = prv[m]
      BY <3>9, <3>10, <3>12
    <3> QED
      BY <3>5, <3>7, <3>9, <3>11, <3>12
  <2> QED
    BY <2>1, <2>2
<1>7. ASSUME NEW m \in Legs
      PROVE  (\E i \in 1..(n - 1) : t[i] = m) <=> cn[m] = o /\ nxt2[m] # NoLeg
  <2>1. (\E i \in 1..(n - 1) : t[i] = m) <=> m # l /\ \E i \in 1..n : s[i] = m
    <3>1. ASSUME NEW i \in 1..(n - 1), t[i] = m
          PROVE  m # l /\ \E j \in 1..n : s[j] = m
      BY <1>2, <1>3, <3>1
    <3>2. ASSUME m # l, NEW i \in 1..n, s[i] = m
          PROVE  \E j \in 1..(n - 1) : t[j] = m
      <4>1. i # k
        BY <1>2, <3>2
      <4>2. CASE i < k
        <5>1. i \in 1..(n - 1) /\ t[i] = s[i]
          BY <1>2, <1>3, <4>2
        <5> QED
          BY <3>2, <5>1
      <4>3. CASE k < i
        <5>1. i - 1 \in 1..(n - 1) /\ ~(i - 1 < k) /\ i - 1 + 1 = i
          BY <1>2, <4>3
        <5>2. t[i - 1] = s[i]
          BY <1>3, <5>1
        <5> QED
          BY <3>2, <5>1, <5>2
      <4> QED
        BY <1>2, <4>1, <4>2, <4>3
    <3> QED
      BY <3>1, <3>2
  <2> QED
    BY <1>a, <1>6, <2>1
<1>8. Lined(nxt2, prv2, act2, cn, [L EXCEPT ![o] = t])
  <2>1. PICK j : j = n - 1
    OBVIOUS
  <2>2. nxt2 \in PointerType /\ prv2 \in PointerType /\ Circle(nxt2, prv2, t, j)
    BY <1>6, <2>1 DEF PointerType
  <2>3. act2 = [act EXCEPT ![o] = HeadOf(t, j)]
    BY <1>6, <2>1
  <2>4. SameElsewhere(nxt, prv, nxt2, prv2, cn, o)
    BY <1>6 DEF SameElsewhere
  <2>5. Lists(t, j, nxt2, cn, o)
    BY <1>7, <2>1 DEF Lists
  <2>6. Paired(nxt2, prv2)
    BY <1>1, <1>6 DEF Paired
  <2> QED
    BY ONLY <2>2, <2>3, <2>4, <2>5, <2>6, LinedChange,
            Lined(nxt, prv, act, cn, L), o \in Conns
<1>9. \A p \in Conns : p # o => act2[p] = act[p]
  BY <1>1, <1>6
<1> QED
  BY <1>6, <1>8, <1>9 DEF t, s

\* active_circuits moves on to the next circuit.
LEMMA LinedTurn ==
  ASSUME NEW nxt, NEW prv, NEW act, NEW cn, NEW L, Lined(nxt, prv, act, cn, L),
         NEW o \in Conns, act[o] # NoLeg,
         NEW act2, act2 = [act EXCEPT ![o] = nxt[act[o]]]
  PROVE  Lined(nxt, prv, act2, cn, [L EXCEPT ![o] = Turned(L[o])])
<1> DEFINE s == L[o]
           n == Len(s)
           t == Turned(s)
<1>1. /\ nxt \in PointerType /\ prv \in PointerType
      /\ Circle(nxt, prv, s, n)
      /\ act[o] = IF n = 0 THEN NoLeg ELSE s[1]
      /\ \A m \in Legs : Stands(m, s) <=> cn[m] = o /\ nxt[m] # NoLeg
      /\ Paired(nxt, prv)
  BY DEF Lined, Paired
<1>2. n # 0 /\ n \in Nat
  BY <1>1 DEF Circle
<1>3. t = [i \in 1..n |-> s[After(i, n)]]
  BY DEF Turned
<1>4. Lists(s, n, nxt, cn, o)
  BY <1>1 DEF Stands, Lists
<1> HIDE DEF s, n, t
<1>5. Circle(nxt, prv, t, n) /\ t[1] = nxt[s[1]]
  BY <1>1, <1>2, <1>3, CircleTurn
<1>6. \A m : (\E i \in 1..n : t[i] = m) <=> \E i \in 1..n : s[i] = m
  <2>1. ASSUME NEW i \in 1..n PROVE After(i, n) \in 1..n /\ t[i] = s[After(i, n)]
    BY <1>2, <1>3, Neighbours
  <2>2. ASSUME NEW i \in 1..n PROVE Before(i, n) \in 1..n /\ t[Before(i, n)] = s[i]
    BY <1>2, <1>3, Neighbours
  <2> QED
    BY <2>1, <2>2
<1>7. Lists(t, n, nxt, cn, o)
  BY <1>4, <1>6 DEF Lists
<1>8. act2 = [act EXCEPT ![o] = HeadOf(t, n)]
  BY <1>1, <1>2, <1>5 DEF HeadOf
<1>9. SameElsewhere(nxt, prv, nxt, prv, cn, o)
  BY DEF SameElsewhere
<1>10. Lined(nxt, prv, act2, cn, [L EXCEPT ![o] = t])
  BY ONLY <1>1, <1>5, <1>7, <1>8, <1>9, LinedChange,
          Lined(nxt, prv, act, cn, L), o \in Conns
<1> QED
  BY <1>10 DEF t, s

\* The pointers without those of the legs in the line s.
Cut(ptr, s) == [l \in Legs |-> IF Stands(l, s) THEN NoLeg ELSE ptr[l]]

\* The line of o is empty.
Emptied(L, o) == [L EXCEPT ![o] = << >>]
Headless(act, o) == [act EXCEPT ![o] = NoLeg]

\* circuit_unlink_all_from_or_conn takes every leg off the ring of o.
LEMMA LinedCut ==
  ASSUME NEW nxt, NEW prv, NEW act, NEW cn, NEW L, Lined(nxt, prv, act, cn, L),
         NEW o \in Conns, NEW nxt2, NEW prv2, NEW act2,
         nxt2 = Cut(nxt, L[o]), prv2 = Cut(prv, L[o]),
         act2 = Headless(act, o), NEW L2, L2 = Emptied(L, o)
  PROVE  /\ Lined(nxt2, prv2, act2, cn, L2)
         /\ \A l \in Legs : nxt2[l] # NoLeg <=> nxt[l] # NoLeg /\ cn[l] # o
<1> USE DEF Cut, Emptied, Headless
<1>1. /\ nxt \in [Legs -> Legs \cup {NoLeg}] /\ prv \in [Legs -> Legs \cup {NoLeg}]
      /\ \A m \in Legs : Stands(m, L[o]) <=> cn[m] = o /\ nxt[m] # NoLeg
      /\ Paired(nxt, prv)
  BY DEF Lined, Paired, PointerType
<1>2. nxt2 \in PointerType /\ prv2 \in PointerType
  BY <1>1 DEF PointerType
<1>3. \A l \in Legs : nxt2[l] # NoLeg <=> nxt[l] # NoLeg /\ cn[l] # o
  BY <1>1
<1>4. Circle(nxt2, prv2, << >>, 0)
  BY DEF Circle
<1>5. Lists(<< >>, 0, nxt2, cn, o)
  BY <1>3 DEF Lists
<1>6. Paired(nxt2, prv2)
  BY <1>1 DEF Paired
<1>7. SameElsewhere(nxt, prv, nxt2, prv2, cn, o)
  BY <1>1 DEF SameElsewhere
<1>8. act2 = [act EXCEPT ![o] = HeadOf(<< >>, 0)]
  BY DEF HeadOf
<1>9. PICK t, j : t = << >> /\ j = 0
  OBVIOUS
<1>10. /\ Circle(nxt2, prv2, t, j) /\ Lists(t, j, nxt2, cn, o)
       /\ act2 = [act EXCEPT ![o] = HeadOf(t, j)]
  BY <1>4, <1>5, <1>8, <1>9
<1>11. Lined(nxt2, prv2, act2, cn, [L EXCEPT ![o] = t])
  BY ONLY <1>2, <1>6, <1>7, <1>10, LinedChange,
          Lined(nxt, prv, act, cn, L), o \in Conns
<1> QED
  BY <1>3, <1>9, <1>11
-----------------------------------------------------------------------------
(* What happens to a line is what RoundRobin allows.                       *)

\* Two sequences of the same length with the same elements are the same.
LEMMA SameLine ==
  ASSUME NEW n \in Nat, NEW s \in Seq(Legs), Len(s) = n,
         NEW t, t = [i \in 1..n |-> t[i]], \A i \in 1..n : t[i] = s[i]
  PROVE  t = s
<1>1. s = [i \in 1..n |-> s[i]]
  BY LenProperties
<1> QED
  BY <1>1

\* A newcomer stands last.
LEMMA MoveJoin ==
  ASSUME NEW s \in Seq(Legs), NEW l \in Legs, ~Stands(l, s)
  PROVE  Joined(s, l) \in Line!Join(s)
<1>1. Len(s) \in Nat /\ DOMAIN s = 1..Len(s)
  BY LenProperties
<1>2. /\ Append(s, l) \in Seq(Legs) /\ Len(Append(s, l)) = Len(s) + 1
      /\ \A i \in 1..Len(s) : Append(s, l)[i] = s[i]
      /\ Append(s, l)[Len(s) + 1] = l
  BY AppendProperties
<1>3. Joined(s, l) = Append(s, l)
  <2> DEFINE n == Len(s) + 1
             t == Joined(s, l)
  <2>1. n \in Nat
    BY <1>1
  <2>2. t = [i \in 1..n |-> t[i]]
    BY DEF Joined
  <2>3. ASSUME NEW i \in 1..n PROVE t[i] = Append(s, l)[i]
    <3>1. i = n \/ i \in 1..Len(s)
      BY <1>1
    <3> QED
      BY <1>1, <1>2, <3>1 DEF Joined
  <2> HIDE DEF n, t
  <2>4. Len(Append(s, l)) = n
    BY <1>2 DEF n
  <2>5. PICK w : w = Append(s, l)
    OBVIOUS
  <2>6. w \in Seq(Legs) /\ Len(w) = n /\ \A i \in 1..n : t[i] = w[i]
    BY <1>2, <2>3, <2>4, <2>5
  <2>7. t = w
    BY ONLY <2>1, <2>2, <2>6, SameLine
  <2> QED
    BY <2>5, <2>7 DEF t
<1>4. l \notin Line!Standing(s)
  BY <1>1 DEF Line!Standing, Stands
<1> QED
  BY <1>3, <1>4 DEF Line!Join

\* The one at position k gives up.
LEMMA MoveLeave ==
  ASSUME NEW s \in Seq(Legs), NEW k \in 1..Len(s)
  PROVE  Without(s, k) \in Line!Leave(s)
<1> DEFINE n == Len(s)
           u == SubSeq(s, 1, k - 1)
           v == SubSeq(s, k + 1, n)
           t == Without(s, k)
<1>1. n \in Nat /\ DOMAIN s = 1..n /\ \A i \in 1..n : s[i] \in Legs
  BY LenProperties
<1>2. u \in Seq(Legs) /\ Len(u) = k - 1 /\ \A i \in 1..(k - 1) : u[i] = s[i]
  <2>1. 1 \in Int /\ k - 1 \in Int /\ \A i \in 1..(k - 1) : s[i] \in Legs
    BY <1>1
  <2>2. /\ u \in Seq(Legs)
        /\ Len(u) = IF 1 <= k - 1 THEN k - 1 - 1 + 1 ELSE 0
        /\ \A i \in 1..(k - 1 - 1 + 1) : u[i] = s[1 + i - 1]
    BY <2>1, SubSeqProperties
  <2> HIDE DEF u
  <2>3. Len(u) = k - 1
    BY <1>1, <2>2
  <2>4. ASSUME NEW i \in 1..(k - 1) PROVE u[i] = s[i]
    <3>1. i \in 1..(k - 1 - 1 + 1) /\ 1 + i - 1 = i
      BY <1>1
    <3> QED
      BY <2>2, <3>1
  <2> QED
    BY <2>2, <2>3, <2>4
<1>3. v \in Seq(Legs) /\ Len(v) = n - k /\ \A i \in 1..(n - k) : v[i] = s[k + i]
  <2>1. k + 1 \in Int /\ n \in Int /\ \A i \in (k + 1)..n : s[i] \in Legs
    BY <1>1
  <2>2. /\ v \in Seq(Legs)
        /\ Len(v) = IF k + 1 <= n THEN n - (k + 1) + 1 ELSE 0
        /\ \A i \in 1..(n - (k + 1) + 1) : v[i] = s[k + 1 + i - 1]
    BY <2>1, SubSeqProperties
  <2> HIDE DEF v, n
  <2>3. Len(v) = n - k
    <3>1. n \in Nat /\ k \in Nat /\ k <= n
      BY <1>1 DEF n
    <3>2. CASE k + 1 <= n
      BY <2>2, <3>1, <3>2
    <3>3. CASE ~(k + 1 <= n)
      BY <2>2, <3>1, <3>3
    <3> QED
      BY <3>2, <3>3
  <2>4. ASSUME NEW i \in 1..(n - k) PROVE v[i] = s[k + i]
    <3>1. i \in 1..(n - (k + 1) + 1) /\ k + 1 + i - 1 = k + i
      BY <1>1
    <3> QED
      BY <2>2, <3>1
  <2> QED
    BY <2>2, <2>3, <2>4
<1>4. t = [i \in 1..(n - 1) |-> IF i < k THEN s[i] ELSE s[i + 1]]
  BY DEF Without
<1>5. k \in 1..n
  OBVIOUS
<1>6. u \o v = SubSeq(s, 1, k - 1) \o SubSeq(s, k + 1, Len(s))
  OBVIOUS
<1> HIDE DEF n, u, v, t
<1>7. /\ u \o v \in Seq(Legs) /\ Len(u \o v) = Len(u) + Len(v)
      /\ \A i \in 1..(Len(u) + Len(v)) :
           (u \o v)[i] = IF i <= Len(u) THEN u[i] ELSE v[i - Len(u)]
  BY <1>2, <1>3, ConcatProperties
<1>8. Len(u) + Len(v) = n - 1 /\ n - 1 \in Nat
  BY <1>1, <1>2, <1>3, <1>5
<1>9. ASSUME NEW i \in 1..(n - 1) PROVE t[i] = (u \o v)[i]
  <2>1. CASE i < k
    <3>1. i \in 1..(k - 1) /\ i <= Len(u)
      BY <1>1, <1>2, <1>5, <2>1
    <3> QED
      BY <1>2, <1>4, <1>7, <1>8, <2>1, <3>1
  <2>2. CASE ~(i < k)
    <3>1. /\ i - Len(u) \in 1..(n - k) /\ ~(i <= Len(u))
          /\ k + (i - Len(u)) = i + 1
      BY <1>1, <1>2, <1>5, <2>2
    <3>2. (u \o v)[i] = v[i - Len(u)]
      BY <1>7, <1>8, <3>1
    <3>3. v[i - Len(u)] = s[k + (i - Len(u))]
      BY <1>3, <3>1
    <3> QED
      BY <1>4, <2>2, <3>1, <3>2, <3>3
  <2> QED
    BY <2>1, <2>2
<1>10. t = [i \in 1..(n - 1) |-> t[i]]
  BY <1>4
<1>11. t = u \o v
  <2>1. PICK w, m : w = u \o v /\ m = n - 1
    OBVIOUS
  <2>2. /\ m \in Nat /\ w \in Seq(Legs) /\ Len(w) = m
        /\ t = [i \in 1..m |-> t[i]] /\ \A i \in 1..m : t[i] = w[i]
    BY <1>7, <1>8, <1>9, <1>10, <2>1
  <2>3. t = w
    BY ONLY <2>2, SameLine
  <2> QED
    BY <2>1, <2>3
<1> QED
  BY <1>1, <1>5, <1>6, <1>11 DEF Line!Leave, t, n

\* The first one is served and has more to send, or has not.
LEMMA MoveServe ==
  ASSUME NEW s \in Seq(Legs), Len(s) # 0
  PROVE  Turned(s) \in Line!Serve(s) /\ Without(s, 1) \in Line!Serve(s)
<1> DEFINE n == Len(s)
<1>1. /\ n \in Nat /\ DOMAIN s = 1..n /\ s # << >> /\ n - 1 \in Nat
      /\ 1 \in 1..n /\ s[1] \in Legs
  BY LenProperties, EmptySeq
<1>2. /\ Tail(s) \in Seq(Legs) /\ Len(Tail(s)) = n - 1
      /\ \A i \in 1..(n - 1) : Tail(s)[i] = s[i + 1]
  BY <1>1, HeadTailProperties
<1>3. Without(s, 1) = Tail(s)
  <2> DEFINE t == Without(s, 1)
             m == n - 1
  <2>1. t = [i \in 1..m |-> IF i < 1 THEN s[i] ELSE s[i + 1]]
    BY DEF Without
  <2>2. m \in Nat /\ Len(Tail(s)) = m
    BY <1>1, <1>2
  <2>3. ASSUME NEW i \in 1..m PROVE t[i] = Tail(s)[i]
    BY <1>1, <1>2, <2>1
  <2> HIDE DEF t, m
  <2>4. t = [i \in 1..m |-> t[i]]
    BY <2>1
  <2>5. PICK w : w = Tail(s)
    OBVIOUS
  <2>6. w \in Seq(Legs) /\ Len(w) = m /\ \A i \in 1..m : t[i] = w[i]
    BY <1>2, <2>2, <2>3, <2>5
  <2>7. t = w
    BY ONLY <2>2, <2>4, <2>6, SameLine
  <2> QED
    BY <2>5, <2>7 DEF t
<1>4. Turned(s) = Append(Tail(s), Head(s))
  <2> DEFINE t == Turned(s)
             w == Append(Tail(s), Head(s))
  <2>1. Head(s) = s[1]
    BY <1>1, HeadTailProperties
  <2>2. /\ w \in Seq(Legs) /\ Len(w) = Len(Tail(s)) + 1
        /\ \A i \in 1..Len(Tail(s)) : w[i] = Tail(s)[i]
        /\ w[Len(Tail(s)) + 1] = s[1]
    BY <1>1, <1>2, <2>1, AppendProperties
  <2>3. t = [i \in 1..n |-> s[After(i, n)]]
    BY DEF Turned
  <2> HIDE DEF t, w, n
  <2>4. Len(w) = n /\ w[n] = s[1] /\ \A i \in 1..(n - 1) : w[i] = s[i + 1]
    <3>1. Len(Tail(s)) + 1 = n
      BY <1>1, <1>2
    <3> QED
      BY <1>2, <2>2, <3>1
  <2>5. ASSUME NEW i \in 1..n PROVE t[i] = w[i]
    <3>1. i = n \/ i \in 1..(n - 1)
      BY <1>1
    <3> QED
      BY <1>1, <2>3, <2>4, <3>1 DEF After
  <2>6. t = [i \in 1..n |-> t[i]]
    BY <2>3
  <2>7. t = w
    BY <1>1, <2>2, <2>4, <2>5, <2>6, SameLine
  <2> QED
    BY <2>7 DEF t, w
<1> QED
  BY <1>1, <1>3, <1>4 DEF Line!Serve

\* Served and gone: turning the line and dropping the last drops the first.
LEMMA TurnedAway ==
  ASSUME NEW s \in Seq(Legs), Len(s) # 0
  PROVE  Without(Turned(s), Len(Turned(s))) = Without(s, 1)
<1> DEFINE n == Len(s)
<1>1. n \in Nat /\ n - 1 \in Nat /\ \A i \in 1..n : s[i] \in Legs
  BY LenProperties
<1>2. Turned(s) = [i \in 1..n |-> s[After(i, n)]]
  BY DEF Turned
<1>3. Turned(s) \in [1..n -> Legs]
  BY <1>1, <1>2, Neighbours
<1>4. Len(Turned(s)) = n
  BY <1>1, <1>3, LineLength
<1>5. ASSUME NEW i \in 1..(n - 1)
      PROVE  (IF i < n THEN Turned(s)[i] ELSE Turned(s)[i + 1])
               = IF i < 1 THEN s[i] ELSE s[i + 1]
  <2>1. i < n /\ i # n /\ i \in 1..n /\ ~(i < 1)
    BY <1>1
  <2> QED
    BY <1>2, <2>1 DEF After
<1> QED
  BY <1>4, <1>5 DEF Without
-----------------------------------------------------------------------------
(* The operations on a state T of queues and rings.                        *)

Shape(T) ==
  T \in [queue : [Legs -> Nat], blocked : [Legs -> BOOLEAN],
         next : PointerType, prev : PointerType,
         active : [Conns -> Legs \cup {NoLeg}], outbuf : [Conns -> Nat]]

Rings(T, cn, L) == Lined(T.next, T.prev, T.active, cn, L)

\* Only legs with cells are on a ring.
Full(T) == \A l \in Legs : T.next[l] # NoLeg => T.queue[l] > 0

\* The legs whose cells nobody is going to send.
Stranded(T) == {l \in Legs : T.queue[l] > 0 /\ T.next[l] = NoLeg}

\* Connection o is asked for more when its outbuf runs low.
AwakeAt(T, o) == T.active[o] # NoLeg /\ ~marked[o] => T.outbuf[o] > 0

\* Nothing changes for the other connections.
OthersAlone(T, U, o) ==
  \A p \in Conns : p # o => U.active[p] = T.active[p] /\ U.outbuf[p] = T.outbuf[p]

\* make_circuit_active_on_conn
LEMMA MakeActiveRings ==
  ASSUME NEW T, Shape(T), NEW cn, NEW L, Rings(T, cn, L),
         NEW o \in Conns, NEW l \in Legs, cn[l] = o,
         NEW U, U = MakeActive(T, l, o)
  PROVE  /\ Shape(U) /\ U.queue = T.queue /\ U.blocked = T.blocked
         /\ U.outbuf = T.outbuf
         /\ \E s \in Line!Join(L[o]) : Rings(U, cn, [L EXCEPT ![o] = s])
         /\ U.next[l] # NoLeg /\ U.active[o] # NoLeg
         /\ \A m \in Legs : m # l => (U.next[m] = NoLeg <=> T.next[m] = NoLeg)
         /\ \A p \in Conns : p # o => U.active[p] = T.active[p]
<1>1. /\ T.queue \in [Legs -> Nat] /\ T.blocked \in [Legs -> BOOLEAN]
      /\ T.next \in PointerType /\ T.prev \in PointerType
      /\ T.active \in [Conns -> Legs \cup {NoLeg}] /\ T.outbuf \in [Conns -> Nat]
  BY DEF Shape
<1>2. /\ L \in [Conns -> Seq(Legs)]
      /\ T.next[l] = NoLeg <=> T.prev[l] = NoLeg
      /\ Stands(l, L[o]) <=> cn[l] = o /\ T.next[l] # NoLeg
      /\ T.active[o] = IF Len(L[o]) = 0 THEN NoLeg ELSE L[o][1]
      /\ Circle(T.next, T.prev, L[o], Len(L[o]))
      /\ NoLeg \notin Legs
  BY CellQueueAssumption DEF Rings, Lined
<1>3. CASE T.next[l] # NoLeg
  <2>1. Len(L[o]) # 0
    BY <1>2, <1>3 DEF Stands
  <2>2. 1 \in 1..Len(L[o]) /\ L[o][1] \in Legs
    BY <1>2, <2>1 DEF Circle
  <2>3. T.active[o] # NoLeg
    BY <1>2, <2>1, <2>2
  <2>4. U = T
    BY <1>2, <1>3, <2>3 DEF MakeActive
  <2>5. L[o] \in Line!Join(L[o]) /\ [L EXCEPT ![o] = L[o]] = L
    BY <1>2 DEF Line!Join
  <2>6. \E s \in Line!Join(L[o]) : Rings(U, cn, [L EXCEPT ![o] = s])
    BY <2>4, <2>5
  <2> QED
    BY <1>3, <2>3, <2>4, <2>6
<1>4. CASE T.next[l] = NoLeg
  <2> DEFINE head == T.active[o]
             tail == T.prev[head]
  <2>1. IF head = NoLeg
        THEN U = [T EXCEPT !.active[o] = l, !.next[l] = l, !.prev[l] = l]
        ELSE U = [T EXCEPT !.next[tail] = l, !.next[l] = head,
                           !.prev[head] = l, !.prev[l] = tail]
    BY <1>4 DEF MakeActive
  <2>2. IF head = NoLeg
        THEN /\ U.next = [T.next EXCEPT ![l] = l]
             /\ U.prev = [T.prev EXCEPT ![l] = l]
             /\ U.active = [T.active EXCEPT ![o] = l]
        ELSE /\ U.next = [[T.next EXCEPT ![tail] = l] EXCEPT ![l] = head]
             /\ U.prev = [[T.prev EXCEPT ![head] = l] EXCEPT ![l] = tail]
             /\ U.active = T.active
    <3>1. CASE head = NoLeg
      BY <2>1, <3>1 DEF Shape
    <3>2. CASE head # NoLeg
      BY <2>1, <3>2 DEF Shape
    <3> QED
      BY <3>1, <3>2
  <2>3. U.queue = T.queue /\ U.blocked = T.blocked /\ U.outbuf = T.outbuf
    <3>1. CASE head = NoLeg
      BY <2>1, <3>1 DEF Shape
    <3>2. CASE head # NoLeg
      BY <2>1, <3>2 DEF Shape
    <3> QED
      BY <3>1, <3>2
  <2>4. U = [queue |-> U.queue, blocked |-> U.blocked, next |-> U.next,
             prev |-> U.prev, active |-> U.active, outbuf |-> U.outbuf]
    <3>1. CASE head = NoLeg
      BY <2>1, <3>1 DEF Shape
    <3>2. CASE head # NoLeg
      BY <2>1, <3>2 DEF Shape
    <3> QED
      BY <3>1, <3>2
  <2>5. Lined(T.next, T.prev, T.active, cn, L)
    BY DEF Rings
  <2> PICK nxt, prv, act, nxt2, prv2, act2 :
        /\ nxt = T.next /\ prv = T.prev /\ act = T.active
        /\ nxt2 = U.next /\ prv2 = U.prev /\ act2 = U.active
    OBVIOUS
  <2>6. /\ Lined(nxt2, prv2, act2, cn, [L EXCEPT ![o] = Joined(L[o], l)])
        /\ nxt2[l] # NoLeg
        /\ \A m \in Legs : m # l => (nxt2[m] = NoLeg <=> nxt[m] = NoLeg)
        /\ act2[o] # NoLeg
        /\ \A p \in Conns : p # o => act2[p] = act[p]
    <3>1. /\ Lined(nxt, prv, act, cn, L) /\ nxt[l] = NoLeg
      BY <1>4, <2>5
    <3>2. IF act[o] = NoLeg
          THEN /\ nxt2 = [nxt EXCEPT ![l] = l] /\ prv2 = [prv EXCEPT ![l] = l]
               /\ act2 = [act EXCEPT ![o] = l]
          ELSE /\ nxt2 = [[nxt EXCEPT ![prv[act[o]]] = l] EXCEPT ![l] = act[o]]
               /\ prv2 = [[prv EXCEPT ![act[o]] = l] EXCEPT ![l] = prv[act[o]]]
               /\ act2 = act
      BY <2>2
    <3> QED
      BY ONLY <3>1, <3>2, LinedJoin, o \in Conns, l \in Legs, cn[l] = o
  <2>7. Shape(U)
    <3>1. /\ U.next \in PointerType /\ U.prev \in PointerType
          /\ U.active \in [Conns -> Legs \cup {NoLeg}]
      BY <2>6 DEF Lined
    <3> QED
      BY <1>1, <2>3, <2>4, <3>1 DEF Shape
  <2>8. ~Stands(l, L[o]) /\ L[o] \in Seq(Legs)
    BY <1>2, <1>4
  <2>9. Joined(L[o], l) \in Line!Join(L[o])
    BY <2>8, MoveJoin
  <2>10. Rings(U, cn, [L EXCEPT ![o] = Joined(L[o], l)])
    BY <2>6 DEF Rings
  <2> QED
    BY <2>3, <2>6, <2>7, <2>9, <2>10
<1> QED
  BY <1>3, <1>4

\* make_circuit_inactive_on_conn; k is the place of l in the line, if any.
LEMMA MakeInactiveRings ==
  ASSUME NEW T, Shape(T), NEW cn, NEW L, Rings(T, cn, L),
         NEW o \in Conns, NEW l \in Legs, cn[l] = o,
         NEW U, U = MakeInactive(T, l, o)
  PROVE  /\ Shape(U) /\ U.queue = T.queue /\ U.blocked = T.blocked
         /\ U.outbuf = T.outbuf
         /\ T.next[l] = NoLeg => U = T
         /\ \A k \in 1..Len(L[o]) :
              L[o][k] = l => Rings(U, cn, [L EXCEPT ![o] = Without(L[o], k)])
         /\ U.next[l] = NoLeg
         /\ \A m \in Legs : m # l => (U.next[m] = NoLeg <=> T.next[m] = NoLeg)
         /\ \A p \in Conns : p # o => U.active[p] = T.active[p]
<1>1. /\ T.queue \in [Legs -> Nat] /\ T.blocked \in [Legs -> BOOLEAN]
      /\ T.next \in PointerType /\ T.prev \in PointerType
      /\ T.active \in [Conns -> Legs \cup {NoLeg}] /\ T.outbuf \in [Conns -> Nat]
  BY DEF Shape
<1>2. /\ L \in [Conns -> Seq(Legs)]
      /\ T.next[l] = NoLeg <=> T.prev[l] = NoLeg
      /\ Stands(l, L[o]) <=> cn[l] = o /\ T.next[l] # NoLeg
      /\ NoLeg \notin Legs
  BY CellQueueAssumption DEF Rings, Lined
<1>3. CASE T.next[l] = NoLeg
  <2>1. U = T
    BY <1>2, <1>3 DEF MakeInactive
  <2>2. ~Stands(l, L[o])
    BY <1>2, <1>3
  <2>3. \A k \in 1..Len(L[o]) : L[o][k] # l
    BY <2>2 DEF Stands
  <2> QED
    BY <1>3, <2>1, <2>3
<1>4. CASE T.next[l] # NoLeg
  <2> DEFINE after == T.next[l]
             before == T.prev[l]
  <2>1. IF after = l
        THEN U = [T EXCEPT !.active[o] = NoLeg, !.next[l] = NoLeg, !.prev[l] = NoLeg]
        ELSE U = [T EXCEPT !.prev[after] = before, !.next[before] = after,
                           !.active[o] = IF @ = l THEN after ELSE @,
                           !.next[l] = NoLeg, !.prev[l] = NoLeg]
    BY <1>4 DEF MakeInactive
  <2>2. IF after = l
        THEN /\ U.next = [T.next EXCEPT ![l] = NoLeg]
             /\ U.prev = [T.prev EXCEPT ![l] = NoLeg]
             /\ U.active = [T.active EXCEPT ![o] = NoLeg]
        ELSE /\ U.next = [[T.next EXCEPT ![before] = after] EXCEPT ![l] = NoLeg]
             /\ U.prev = [[T.prev EXCEPT ![after] = before] EXCEPT ![l] = NoLeg]
             /\ U.active = [T.active EXCEPT ![o] =
                              IF T.active[o] = l THEN after ELSE T.active[o]]
    <3>1. CASE after = l
      BY <2>1, <3>1 DEF Shape
    <3>2. CASE after # l
      BY <2>1, <3>2 DEF Shape
    <3> QED
      BY <3>1, <3>2
  <2>3. U.queue = T.queue /\ U.blocked = T.blocked /\ U.outbuf = T.outbuf
    <3>1. CASE after = l
      BY <2>1, <3>1 DEF Shape
    <3>2. CASE after # l
      BY <2>1, <3>2 DEF Shape
    <3> QED
      BY <3>1, <3>2
  <2>4. U = [queue |-> U.queue, blocked |-> U.blocked, next |-> U.next,
             prev |-> U.prev, active |-> U.active, outbuf |-> U.outbuf]
    <3>1. CASE after = l
      BY <2>1, <3>1 DEF Shape
    <3>2. CASE after # l
      BY <2>1, <3>2 DEF Shape
    <3> QED
      BY <3>1, <3>2
  <2>5. Lined(T.next, T.prev, T.active, cn, L)
    BY DEF Rings
  <2> PICK nxt, prv, act, nxt2, prv2, act2 :
        /\ nxt = T.next /\ prv = T.prev /\ act = T.active
        /\ nxt2 = U.next /\ prv2 = U.prev /\ act2 = U.active
    OBVIOUS
  <2>6. ASSUME NEW k \in 1..Len(L[o]), L[o][k] = l
        PROVE  /\ Lined(nxt2, prv2, act2, cn, [L EXCEPT ![o] = Without(L[o], k)])
               /\ nxt2[l] = NoLeg
               /\ \A m \in Legs : m # l => (nxt2[m] = NoLeg <=> nxt[m] = NoLeg)
               /\ \A p \in Conns : p # o => act2[p] = act[p]
    <3>1. Lined(nxt, prv, act, cn, L) /\ l = L[o][k]
      BY <2>5, <2>6
    <3>2. IF nxt[l] = l
          THEN /\ nxt2 = [nxt EXCEPT ![l] = NoLeg]
               /\ prv2 = [prv EXCEPT ![l] = NoLeg]
               /\ act2 = [act EXCEPT ![o] = NoLeg]
          ELSE /\ nxt2 = [[nxt EXCEPT ![prv[l]] = nxt[l]] EXCEPT ![l] = NoLeg]
               /\ prv2 = [[prv EXCEPT ![nxt[l]] = prv[l]] EXCEPT ![l] = NoLeg]
               /\ act2 = [act EXCEPT ![o] = IF act[o] = l THEN nxt[l] ELSE act[o]]
      BY <2>2
    <3> QED
      BY ONLY <3>1, <3>2, LinedLeave, o \in Conns, k \in 1..Len(L[o])
  <2>7. PICK k \in 1..Len(L[o]) : L[o][k] = l
    BY <1>2, <1>4 DEF Stands
  <2>8. Shape(U)
    <3>1. /\ U.next \in PointerType /\ U.prev \in PointerType
          /\ U.active \in [Conns -> Legs \cup {NoLeg}]
      BY <2>6, <2>7 DEF Lined
    <3> QED
      BY <1>1, <2>3, <2>4, <3>1 DEF Shape
  <2> QED
    BY <1>4, <2>3, <2>6, <2>7, <2>8 DEF Rings
<1> QED
  BY <1>3, <1>4

\* connection_or_flush_from_first_active_circuit: the cell of the first circuit
\* is written, the others move up, and the connection stays awake.
LEMMA FlushFirstRings ==
  ASSUME NEW T, Shape(T), NEW cn, NEW L, Rings(T, cn, L), Full(T),
         NEW o \in Conns, marked \in [Conns -> BOOLEAN],
         NEW U, U = FlushFirst(T, o)
  PROVE  /\ Shape(U) /\ Full(U) /\ Stranded(U) \subseteq Stranded(T)
         /\ AwakeAt(U, o) /\ OthersAlone(T, U, o)
         /\ \A m \in Legs : T.queue[m] = 0 => U.queue[m] = 0
         /\ \E s \in {L[o]} \cup Line!Serve(L[o]) :
              Rings(U, cn, [L EXCEPT ![o] = s])
<1> DEFINE s == L[o]
           l == T.active[o]
           left == T.queue[l] - 1
           T1 == WriteCells([T EXCEPT !.queue[l] = left,
                                      !.active[o] = T.next[l],
                                      !.blocked[l] =
                                         @ /\ left > CELL_QUEUE_LOWWATER_SIZE], o, 1)
<1>1. /\ T.queue \in [Legs -> Nat] /\ T.blocked \in [Legs -> BOOLEAN]
      /\ T.next \in PointerType /\ T.prev \in PointerType
      /\ T.active \in [Conns -> Legs \cup {NoLeg}] /\ T.outbuf \in [Conns -> Nat]
  BY DEF Shape
<1>2. /\ L \in [Conns -> Seq(Legs)] /\ s \in Seq(Legs)
      /\ l = IF Len(s) = 0 THEN NoLeg ELSE s[1]
      /\ Circle(T.next, T.prev, s, Len(s))
      /\ \A m \in Legs : Stands(m, s) <=> cn[m] = o /\ T.next[m] # NoLeg
      /\ NoLeg \notin Legs /\ Len(s) \in Nat
  BY CellQueueAssumption, LenProperties DEF Rings, Lined
<1>3. U = IF l = NoLeg THEN T ELSE IF left = 0 THEN MakeInactive(T1, l, o) ELSE T1
  BY DEF FlushFirst
<1>4. CASE l = NoLeg
  <2>1. U = T
    BY <1>3, <1>4
  <2>2. [L EXCEPT ![o] = s] = L
    BY <1>2
  <2>3. \E t \in {L[o]} \cup Line!Serve(L[o]) : Rings(U, cn, [L EXCEPT ![o] = t])
    BY <2>1, <2>2
  <2>4. AwakeAt(U, o)
    BY <1>4, <2>1 DEF AwakeAt
  <2> QED
    BY <2>1, <2>3, <2>4 DEF OthersAlone
<1>5. CASE l # NoLeg
  <2>1. /\ Len(s) # 0 /\ l = s[1] /\ 1 \in 1..Len(s) /\ l \in Legs
        /\ cn[l] = o /\ T.next[l] # NoLeg
    <3>1. Len(s) # 0 /\ l = s[1]
      BY <1>2, <1>5
    <3>2. 1 \in 1..Len(s)
      BY <1>2, <3>1
    <3>3. l \in Legs /\ Stands(l, s)
      BY <1>2, <3>1, <3>2 DEF Circle, Stands
    <3> QED
      BY <1>2, <3>1, <3>2, <3>3
  <2>2. T.queue[l] \in Nat /\ T.queue[l] > 0 /\ left \in Nat
    <3>1. T.queue[l] > 0 /\ T.queue[l] \in Nat
      BY <1>1, <2>1 DEF Full
    <3> QED
      BY <3>1
  <2> HIDE DEF l, left, s
  <2>3. /\ T1.queue = [T.queue EXCEPT ![l] = left]
        /\ T1.active = [T.active EXCEPT ![o] = T.next[l]]
        /\ T1.next = T.next /\ T1.prev = T.prev
    BY DEF Shape, WriteCells
  <2>4. /\ T1.outbuf = [T.outbuf EXCEPT ![o] = IF marked[o] THEN T.outbuf[o]
                                               ELSE T.outbuf[o] + 1]
        /\ T1.blocked = [T.blocked EXCEPT ![l] =
                           T.blocked[l] /\ left > CELL_QUEUE_LOWWATER_SIZE]
    BY DEF Shape, WriteCells
  <2>5. T1 = [queue |-> T1.queue, blocked |-> T1.blocked, next |-> T1.next,
              prev |-> T1.prev, active |-> T1.active, outbuf |-> T1.outbuf]
    <3>1. PICK q, b, a, u :
            /\ q = [T.queue EXCEPT ![l] = left]
            /\ b = [T.blocked EXCEPT ![l] = @ /\ left > CELL_QUEUE_LOWWATER_SIZE]
            /\ a = [T.active EXCEPT ![o] = T.next[l]]
            /\ u = [T.outbuf EXCEPT ![o] = IF marked[o] THEN @ ELSE @ + 1]
      OBVIOUS
    <3>2. T1 = [T EXCEPT !.queue = q, !.active = a, !.blocked = b, !.outbuf = u]
      BY <3>1 DEF Shape, WriteCells
    <3> HIDE DEF T1
    <3> QED
      BY <3>2 DEF Shape
  <2> HIDE DEF T1
  <2>6. Shape(T1)
    <3>1. T1.queue \in [Legs -> Nat]
      BY <1>1, <2>2, <2>3
    <3>2. T1.blocked \in [Legs -> BOOLEAN]
      <4>1. (T.blocked[l] /\ left > CELL_QUEUE_LOWWATER_SIZE) \in BOOLEAN
        OBVIOUS
      <4> QED
        BY <1>1, <2>1, <2>4, <4>1
    <3>3. T1.active \in [Conns -> Legs \cup {NoLeg}]
      <4>1. T.next[l] \in Legs \cup {NoLeg}
        BY <1>1, <2>1 DEF PointerType
      <4> QED
        BY <1>1, <2>3, <4>1
    <3>4. T1.outbuf \in [Conns -> Nat]
      BY <1>1, <2>4
    <3> QED
      BY <1>1, <2>3, <2>5, <3>1, <3>2, <3>3, <3>4 DEF Shape
  <2>7. Rings(T1, cn, [L EXCEPT ![o] = Turned(s)])
    <3>1. Lined(T.next, T.prev, T.active, cn, L)
      BY DEF Rings
    <3>2. T.active[o] # NoLeg /\ T1.active = [T.active EXCEPT ![o] = T.next[T.active[o]]]
      BY <1>5, <2>3 DEF l
    <3> PICK nxt, prv, act, act2 :
          nxt = T.next /\ prv = T.prev /\ act = T.active /\ act2 = T1.active
      OBVIOUS
    <3>3. /\ Lined(nxt, prv, act, cn, L) /\ act[o] # NoLeg
          /\ act2 = [act EXCEPT ![o] = nxt[act[o]]]
      BY <3>1, <3>2
    <3>4. Lined(nxt, prv, act2, cn, [L EXCEPT ![o] = Turned(L[o])])
      BY ONLY <3>3, LinedTurn, o \in Conns
    <3> QED
      BY <2>3, <3>4 DEF Rings, s
  <2>8. Turned(s) \in Line!Serve(s) /\ Without(s, 1) \in Line!Serve(s)
    BY <1>2, <2>1, MoveServe
  <2>9. ~marked[o] => T1.outbuf[o] > 0
    BY <1>1, <2>4
  <2>10. \A p \in Conns : p # o => T1.active[p] = T.active[p]
                                   /\ T1.outbuf[p] = T.outbuf[p]
    BY <1>1, <2>3, <2>4
  <2>11. T1.queue[l] = left /\ \A m \in Legs : m # l => T1.queue[m] = T.queue[m]
    BY <1>1, <2>1, <2>3
  <2>a. \A m \in Legs : T.queue[m] = 0 => T1.queue[m] = 0
    <3>1. T.queue[l] # 0
      BY <2>2
    <3> QED
      BY <2>11, <3>1
  <2>12. CASE left # 0
    <3>1. U = T1
      BY <1>3, <1>5, <2>12
    <3>a. left > 0
      BY <2>2, <2>12
    <3>2. Full(U)
      BY <2>3, <2>11, <3>1, <3>a DEF Full
    <3>3. Stranded(U) \subseteq Stranded(T)
      BY <2>2, <2>3, <2>11, <3>1 DEF Stranded
    <3> QED
      BY <2>6, <2>7, <2>8, <2>9, <2>10, <2>a, <3>1, <3>2, <3>3
         DEF AwakeAt, OthersAlone, s
  <2>13. CASE left = 0
    <3> DEFINE M == [L EXCEPT ![o] = Turned(s)]
               n == Len(s)
    <3>1. U = MakeInactive(T1, l, o)
      BY <1>3, <1>5, <2>13
    <3>2. Turned(s) = [i \in 1..n |-> s[After(i, n)]] /\ M[o] = Turned(s)
      BY <1>2 DEF Turned
    <3>3. Len(Turned(s)) = n
      <4>1. \A i \in 1..n : s[After(i, n)] \in Legs
        BY <1>2, Neighbours DEF Circle
      <4>2. Turned(s) \in [1..n -> Legs]
        BY <3>2, <4>1
      <4> QED
        BY <1>2, <4>2, LineLength
    <3>4. n \in 1..Len(M[o]) /\ M[o][n] = l
      <4>1. n \in 1..n
        BY <1>2, <2>1
      <4>2. Turned(s)[n] = s[1]
        BY <3>2, <4>1 DEF After
      <4> QED
        BY <2>1, <3>2, <3>3, <4>1, <4>2
    <3> HIDE DEF M
    <3>5. Rings(T1, cn, M)
      BY <2>7 DEF M
    <3>6. /\ Shape(U) /\ U.queue = T1.queue /\ U.blocked = T1.blocked
          /\ U.outbuf = T1.outbuf
          /\ \A k \in 1..Len(M[o]) :
               M[o][k] = l => Rings(U, cn, [M EXCEPT ![o] = Without(M[o], k)])
          /\ U.next[l] = NoLeg
          /\ \A m \in Legs : m # l => (U.next[m] = NoLeg <=> T1.next[m] = NoLeg)
          /\ \A p \in Conns : p # o => U.active[p] = T1.active[p]
      BY <2>1, <2>6, <3>1, <3>5, MakeInactiveRings
    <3>7. Rings(U, cn, [M EXCEPT ![o] = Without(M[o], n)])
      BY <3>4, <3>6
    <3>8. [M EXCEPT ![o] = Without(M[o], n)] = [L EXCEPT ![o] = Without(s, 1)]
      <4>1. Without(M[o], n) = Without(s, 1)
        BY <1>2, <2>1, <3>2, <3>3, TurnedAway
      <4> QED
        BY <1>2, <4>1 DEF M
    <3>9. Full(U)
      BY <2>3, <2>11, <3>6 DEF Full
    <3>10. Stranded(U) \subseteq Stranded(T)
      BY <2>3, <2>11, <2>13, <3>6 DEF Stranded
    <3>11. AwakeAt(U, o) /\ OthersAlone(T, U, o)
      BY <2>9, <2>10, <3>6 DEF AwakeAt, OthersAlone
    <3> QED
      BY <2>8, <2>a, <3>6, <3>7, <3>8, <3>9, <3>10, <3>11 DEF s
  <2> QED
    BY <2>12, <2>13
<1> QED
  BY <1>4, <1>5

\* append_cell_to_circuit_queue: whoever has a cell is on the ring, one move of
\* the line is made, and the connection is awake.
LEMMA Append1Rings ==
  ASSUME NEW T, Shape(T), NEW cn, NEW L, Rings(T, cn, L), Full(T),
         NEW o \in Conns, marked \in [Conns -> BOOLEAN],
         NEW l \in Legs, cn[l] = o, l \notin Stranded(T),
         NEW U, U = Append1(T, l, o)
  PROVE  /\ Shape(U) /\ Full(U) /\ Stranded(U) \subseteq Stranded(T)
         /\ AwakeAt(U, o) /\ OthersAlone(T, U, o)
         /\ \A m \in Legs : m # l /\ T.queue[m] = 0 => U.queue[m] = 0
         /\ \E s \in Line!Moves(L[o]) : Rings(U, cn, [L EXCEPT ![o] = s])
<1> DEFINE n == T.queue[l] + 1
           T1 == [T EXCEPT !.queue[l] = n,
                           !.blocked[l] = @ \/ n >= CELL_QUEUE_HIGHWATER_SIZE]
           T2 == IF n = 1 THEN MakeActive(T1, l, o) ELSE T1
<1>1. /\ T.queue \in [Legs -> Nat] /\ T.blocked \in [Legs -> BOOLEAN]
      /\ T.next \in PointerType /\ T.prev \in PointerType
      /\ T.active \in [Conns -> Legs \cup {NoLeg}] /\ T.outbuf \in [Conns -> Nat]
      /\ L \in [Conns -> Seq(Legs)]
  BY DEF Shape, Rings, Lined
<1>2. n \in Nat /\ n > 0 /\ T.queue[l] \in Nat
  BY <1>1
<1>3. U = IF T2.outbuf[o] = 0 THEN FlushFirst(T2, o) ELSE T2
  BY DEF Append1
<1> HIDE DEF n
<1>4. /\ T1.queue = [T.queue EXCEPT ![l] = n]
      /\ T1.next = T.next /\ T1.prev = T.prev /\ T1.active = T.active
      /\ T1.outbuf = T.outbuf
      /\ T1.blocked = [T.blocked EXCEPT ![l] =
                         T.blocked[l] \/ n >= CELL_QUEUE_HIGHWATER_SIZE]
  BY DEF Shape
<1>5. T1 = [queue |-> T1.queue, blocked |-> T1.blocked, next |-> T1.next,
            prev |-> T1.prev, active |-> T1.active, outbuf |-> T1.outbuf]
  <2>1. PICK q, b :
          /\ q = [T.queue EXCEPT ![l] = n]
          /\ b = [T.blocked EXCEPT ![l] = @ \/ n >= CELL_QUEUE_HIGHWATER_SIZE]
    OBVIOUS
  <2>2. T1 = [T EXCEPT !.queue = q, !.active = T.active, !.blocked = b,
                       !.outbuf = T.outbuf]
    BY <2>1 DEF Shape
  <2> HIDE DEF T1
  <2> QED
    BY <2>2 DEF Shape
<1> HIDE DEF T1
<1>6. Shape(T1)
  <2>1. T1.queue \in [Legs -> Nat]
    BY <1>1, <1>2, <1>4
  <2>2. T1.blocked \in [Legs -> BOOLEAN]
    <3>1. (T.blocked[l] \/ n >= CELL_QUEUE_HIGHWATER_SIZE) \in BOOLEAN
      OBVIOUS
    <3> QED
      BY <1>1, <1>4, <3>1
  <2> QED
    BY <1>1, <1>4, <1>5, <2>1, <2>2 DEF Shape
<1>7. Rings(T1, cn, L)
  BY <1>4 DEF Rings
<1>8. T1.queue[l] = n /\ \A m \in Legs : m # l => T1.queue[m] = T.queue[m]
  BY <1>1, <1>4
<1>9. /\ Shape(T2) /\ T2.queue = T1.queue
      /\ T2.outbuf = T.outbuf
      /\ T2.next[l] # NoLeg
      /\ \A m \in Legs : m # l => (T2.next[m] = NoLeg <=> T.next[m] = NoLeg)
      /\ \A p \in Conns : p # o => T2.active[p] = T.active[p]
      /\ \E s \in Line!Join(L[o]) : Rings(T2, cn, [L EXCEPT ![o] = s])
  <2>1. CASE n = 1
    <3>1. T2 = MakeActive(T1, l, o)
      BY <2>1
    <3> HIDE DEF T2
    <3>2. /\ Shape(T2) /\ T2.queue = T1.queue /\ T2.outbuf = T1.outbuf
          /\ \E s \in Line!Join(L[o]) : Rings(T2, cn, [L EXCEPT ![o] = s])
          /\ T2.next[l] # NoLeg
          /\ \A m \in Legs : m # l => (T2.next[m] = NoLeg <=> T1.next[m] = NoLeg)
          /\ \A p \in Conns : p # o => T2.active[p] = T1.active[p]
      BY <1>6, <1>7, <3>1, MakeActiveRings
    <3> QED
      BY <1>4, <3>2
  <2>2. CASE n # 1
    <3>1. T2 = T1
      BY <2>2
    <3>2. T.next[l] # NoLeg
      <4>1. T.queue[l] > 0
        BY <1>2, <2>2 DEF n
      <4> QED
        BY <4>1 DEF Stranded
    <3>3. L[o] \in Line!Join(L[o]) /\ [L EXCEPT ![o] = L[o]] = L
      BY <1>1 DEF Line!Join
    <3> QED
      BY <1>4, <1>6, <1>7, <3>1, <3>2, <3>3
  <2> QED
    BY <2>1, <2>2
<1> HIDE DEF T2
<1>10. Full(T2)
  BY <1>2, <1>8, <1>9 DEF Full
<1>11. Stranded(T2) \subseteq Stranded(T)
  BY <1>8, <1>9 DEF Stranded
<1>12. OthersAlone(T, T2, o)
  BY <1>9 DEF OthersAlone
<1>13. PICK s \in Line!Join(L[o]) : Rings(T2, cn, [L EXCEPT ![o] = s])
  BY <1>9
<1>14. CASE T2.outbuf[o] # 0
  <2>1. U = T2
    BY <1>3, <1>14
  <2>2. T2.outbuf[o] > 0
    BY <1>1, <1>9, <1>14
  <2>3. s \in Line!Moves(L[o])
    BY DEF Line!Moves
  <2> QED
    BY <1>8, <1>9, <1>10, <1>11, <1>12, <1>13, <2>1, <2>2, <2>3 DEF AwakeAt
<1>15. CASE T2.outbuf[o] = 0
  <2> DEFINE M == [L EXCEPT ![o] = s]
  <2>1. U = FlushFirst(T2, o)
    BY <1>3, <1>15
  <2>2. M[o] = s /\ \A t : [M EXCEPT ![o] = t] = [L EXCEPT ![o] = t]
    BY <1>1
  <2>3. Rings(T2, cn, M)
    BY <1>13
  <2> HIDE DEF M
  <2>4. /\ Shape(U) /\ Full(U) /\ Stranded(U) \subseteq Stranded(T2)
        /\ AwakeAt(U, o) /\ OthersAlone(T2, U, o)
        /\ \A m \in Legs : T2.queue[m] = 0 => U.queue[m] = 0
        /\ \E t \in {M[o]} \cup Line!Serve(M[o]) : Rings(U, cn, [M EXCEPT ![o] = t])
    BY <1>9, <1>10, <2>1, <2>3, FlushFirstRings
  <2>5. PICK t \in {s} \cup Line!Serve(s) : Rings(U, cn, [L EXCEPT ![o] = t])
    BY <2>2, <2>4
  <2>6. t \in Line!Moves(L[o])
    BY <2>5 DEF Line!Moves
  <2>7. OthersAlone(T, U, o)
    BY <1>12, <2>4 DEF OthersAlone
  <2>8. \A m \in Legs : m # l /\ T.queue[m] = 0 => U.queue[m] = 0
    BY <1>8, <1>9, <2>4
  <2> QED
    BY <1>11, <2>4, <2>5, <2>6, <2>7, <2>8
<1> QED
  BY <1>14, <1>15

\* circuit_set_{n,p}_circid_orconn(circ, 0, NULL): only the leg that is taken
\* off its ring may be left with cells that nobody sends.
LEMMA DetachRings ==
  ASSUME NEW T, Shape(T), NEW L, Rings(T, conn, L), Full(T),
         NEW l \in Legs, conn[l] \in Conns \cup {NoConn},
         NEW U, U = Detach(T, l)
  PROVE  /\ Shape(U) /\ Full(U) /\ Stranded(U) \subseteq Stranded(T) \cup {l}
         /\ U.queue = T.queue /\ U.outbuf = T.outbuf
         /\ U.next[l] = NoLeg
         /\ \A o \in Conns : T.active[o] = NoLeg => U.active[o] = NoLeg
         /\ \A o \in Conns : o # conn[l] => U.active[o] = T.active[o]
         /\ \E M : /\ Rings(U, conn, M)
                   /\ \A o \in Conns : M[o] \in Line!Moves(L[o])
                   /\ \A o \in Conns : o # conn[l] => M[o] = L[o]
<1>1. /\ L \in [Conns -> Seq(Legs)]
      /\ T.next[l] # NoLeg => conn[l] \in Conns
      /\ \A o \in Conns : Stands(l, L[o]) <=> conn[l] = o /\ T.next[l] # NoLeg
      /\ NoConn \notin Conns
  BY CellQueueAssumption DEF Rings, Lined
<1>2. \A s : s \in Line!Moves(s)
  BY DEF Line!Moves, Line!Join
<1>3. CASE T.next[l] = NoLeg
  <2>1. U = T
    BY <1>3 DEF Detach
  <2>2. \E M : /\ Rings(U, conn, M)
               /\ \A o \in Conns : M[o] \in Line!Moves(L[o])
               /\ \A o \in Conns : o # conn[l] => M[o] = L[o]
    BY <1>2, <2>1
  <2> QED
    BY <1>3, <2>1, <2>2
<1>4. CASE T.next[l] # NoLeg
  <2>1. conn[l] \in Conns /\ U = MakeInactive(T, l, conn[l])
    BY <1>1, <1>4 DEF Detach
  <2>2. PICK o \in Conns : o = conn[l]
    BY <2>1
  <2>3. /\ Shape(U) /\ U.queue = T.queue
        /\ U.outbuf = T.outbuf
        /\ \A k \in 1..Len(L[o]) :
             L[o][k] = l => Rings(U, conn, [L EXCEPT ![o] = Without(L[o], k)])
        /\ U.next[l] = NoLeg
        /\ \A m \in Legs : m # l => (U.next[m] = NoLeg <=> T.next[m] = NoLeg)
        /\ \A p \in Conns : p # o => U.active[p] = T.active[p]
    BY <2>1, <2>2, MakeInactiveRings
  <2>4. PICK k \in 1..Len(L[o]) : L[o][k] = l
    BY <1>1, <1>4, <2>2 DEF Stands
  <2> DEFINE M == [L EXCEPT ![o] = Without(L[o], k)]
  <2>5. Rings(U, conn, M)
    BY <2>3, <2>4
  <2>6. Without(L[o], k) \in Line!Moves(L[o])
    <3>1. Without(L[o], k) \in Line!Leave(L[o])
      BY <1>1, MoveLeave
    <3> QED
      BY <3>1 DEF Line!Moves
  <2>7. /\ \A p \in Conns : M[p] \in Line!Moves(L[p])
        /\ \A p \in Conns : p # conn[l] => M[p] = L[p]
    BY <1>1, <1>2, <2>2, <2>6
  <2>8. Full(U)
    BY <2>3 DEF Full
  <2>9. Stranded(U) \subseteq Stranded(T) \cup {l}
    BY <2>3 DEF Stranded
  <2>10. T.active[o] # NoLeg
    <3>1. /\ T.active[o] = IF Len(L[o]) = 0 THEN NoLeg ELSE L[o][1]
          /\ Len(L[o]) \in Nat /\ L[o] \in [1..Len(L[o]) -> Legs]
          /\ NoLeg \notin Legs
      BY CellQueueAssumption DEF Rings, Lined, Circle
    <3>2. Len(L[o]) # 0 /\ 1 \in 1..Len(L[o])
      BY <2>4, <3>1
    <3> QED
      BY <3>1, <3>2
  <2> HIDE DEF M
  <2> QED
    BY <2>2, <2>3, <2>5, <2>7, <2>8, <2>9, <2>10
<1> QED
  BY <1>3, <1>4

\* DESTROY cells only add to the outbufs.
LEMMA SendDestroysShape ==
  ASSUME NEW T, Shape(T), NEW S \in SUBSET Legs, marked \in [Conns -> BOOLEAN],
         NEW U, U = SendDestroys(T, S)
  PROVE  /\ Shape(U) /\ U.queue = T.queue /\ U.next = T.next /\ U.prev = T.prev
         /\ U.active = T.active
         /\ \A o \in Conns : AwakeAt(T, o) => AwakeAt(U, o)
<1> DEFINE out == [o \in Conns |->
                     IF marked[o] THEN T.outbuf[o]
                     ELSE T.outbuf[o] + Cardinality({l \in S : conn[l] = o})]
<1>1. /\ T.queue \in [Legs -> Nat] /\ T.blocked \in [Legs -> BOOLEAN]
      /\ T.next \in PointerType /\ T.prev \in PointerType
      /\ T.active \in [Conns -> Legs \cup {NoLeg}] /\ T.outbuf \in [Conns -> Nat]
  BY DEF Shape
<1>2. U = [T EXCEPT !.outbuf = out]
  BY DEF SendDestroys
<1>3. ASSUME NEW o \in Conns
      PROVE  out[o] \in Nat /\ out[o] >= T.outbuf[o]
  <2> DEFINE D == {l \in S : conn[l] = o}
  <2>1. IsFiniteSet(D)
    BY LegsFinite, FS_Subset
  <2>2. Cardinality(D) \in Nat
    BY <2>1, FS_CardinalityType
  <2>3. out[o] = IF marked[o] THEN T.outbuf[o] ELSE T.outbuf[o] + Cardinality(D)
    OBVIOUS
  <2> HIDE DEF D, out
  <2>4. T.outbuf[o] \in Nat
    BY <1>1
  <2> QED
    BY <2>2, <2>3, <2>4
<1>4. out \in [Conns -> Nat]
  BY <1>3
<1> HIDE DEF out
<1>5. /\ U.queue = T.queue /\ U.next = T.next /\ U.prev = T.prev
      /\ U.active = T.active /\ U.outbuf = out /\ U.blocked = T.blocked
      /\ U = [queue |-> U.queue, blocked |-> U.blocked, next |-> U.next,
              prev |-> U.prev, active |-> U.active, outbuf |-> U.outbuf]
  BY <1>2 DEF Shape
<1>6. Shape(U)
  BY <1>1, <1>4, <1>5 DEF Shape
<1>7. ASSUME NEW o \in Conns, AwakeAt(T, o) PROVE AwakeAt(U, o)
  <2>1. T.outbuf[o] \in Nat
    BY <1>1
  <2> QED
    BY <1>3, <1>5, <1>7, <2>1 DEF AwakeAt
<1> QED
  BY <1>5, <1>6, <1>7

WriteOne(T, o) == WriteCells(T, o, 1)

\* ... and so do the other cells that are written past the queues.
LEMMA WriteCellsShape ==
  ASSUME NEW T, Shape(T), NEW o \in Conns, marked \in [Conns -> BOOLEAN],
         NEW U, U = WriteOne(T, o)
  PROVE  /\ Shape(U) /\ U.queue = T.queue /\ U.next = T.next /\ U.prev = T.prev
         /\ U.active = T.active
         /\ \A p \in Conns : AwakeAt(T, p) => AwakeAt(U, p)
<1>1. /\ T.queue \in [Legs -> Nat] /\ T.blocked \in [Legs -> BOOLEAN]
      /\ T.next \in PointerType /\ T.prev \in PointerType
      /\ T.active \in [Conns -> Legs \cup {NoLeg}] /\ T.outbuf \in [Conns -> Nat]
  BY DEF Shape
<1>2. PICK out : out = [T.outbuf EXCEPT ![o] = IF marked[o] THEN @ ELSE @ + 1]
  OBVIOUS
<1>3. U = [T EXCEPT !.outbuf = out]
  BY <1>2 DEF WriteOne, WriteCells, Shape
<1>4. out \in [Conns -> Nat] /\ \A p \in Conns : out[p] >= T.outbuf[p]
  BY <1>1, <1>2
<1>5. /\ U.queue = T.queue /\ U.next = T.next /\ U.prev = T.prev
      /\ U.active = T.active /\ U.outbuf = out /\ U.blocked = T.blocked
      /\ U = [queue |-> U.queue, blocked |-> U.blocked, next |-> U.next,
              prev |-> U.prev, active |-> U.active, outbuf |-> U.outbuf]
  BY <1>3 DEF Shape
<1>6. Shape(U)
  BY <1>1, <1>4, <1>5 DEF Shape
<1>7. ASSUME NEW p \in Conns, AwakeAt(T, p) PROVE AwakeAt(U, p)
  <2>1. T.outbuf[p] \in Nat /\ out[p] \in Nat /\ out[p] >= T.outbuf[p]
    BY <1>1, <1>4
  <2> QED
    BY <1>5, <1>7, <2>1 DEF AwakeAt
<1> QED
  BY <1>5, <1>6, <1>7

\* cell_queue_clear for a leg that is on no ring.
LEMMA ClearQueueShape ==
  ASSUME NEW T, Shape(T), Full(T), NEW l \in Legs, T.next[l] = NoLeg,
         NEW U, U = ClearQueue(T, l)
  PROVE  /\ Shape(U) /\ Full(U) /\ Stranded(U) \subseteq Stranded(T) \ {l}
         /\ U.next = T.next /\ U.prev = T.prev
         /\ U.active = T.active /\ U.outbuf = T.outbuf
         /\ U.queue = [T.queue EXCEPT ![l] = 0]
<1>1. /\ T.queue \in [Legs -> Nat] /\ T.blocked \in [Legs -> BOOLEAN]
      /\ T.next \in PointerType /\ T.prev \in PointerType
      /\ T.active \in [Conns -> Legs \cup {NoLeg}] /\ T.outbuf \in [Conns -> Nat]
  BY DEF Shape
<1>2. PICK q, b : q = [T.queue EXCEPT ![l] = 0] /\ b = [T.blocked EXCEPT ![l] = FALSE]
  OBVIOUS
<1>3. U = [T EXCEPT !.queue = q, !.blocked = b]
  BY <1>2 DEF ClearQueue, Shape
<1>4. q \in [Legs -> Nat] /\ b \in [Legs -> BOOLEAN]
  BY <1>1, <1>2
<1>5. /\ U.queue = q /\ U.next = T.next /\ U.prev = T.prev
      /\ U.active = T.active /\ U.outbuf = T.outbuf /\ U.blocked = b
      /\ U = [queue |-> U.queue, blocked |-> U.blocked, next |-> U.next,
              prev |-> U.prev, active |-> U.active, outbuf |-> U.outbuf]
  BY <1>3 DEF Shape
<1>6. Shape(U)
  BY <1>1, <1>4, <1>5 DEF Shape
<1>7. q[l] = 0 /\ \A m \in Legs : m # l => q[m] = T.queue[m]
  BY <1>1, <1>2
<1>8. Full(U)
  BY <1>5, <1>7 DEF Full
<1>9. Stranded(U) \subseteq Stranded(T) \ {l}
  BY <1>5, <1>7 DEF Stranded
<1> QED
  BY <1>2, <1>5, <1>6, <1>8, <1>9

-----------------------------------------------------------------------------
(* The inductive invariant.                                                *)

Lines == [o \in Conns |-> Ring(o)]

\* Where a circuit stands with its connections.
Place(c) ==
  /\ status[c] = "none" => /\ conn[N(c)] = NoConn /\ conn[P(c)] = NoConn
                           /\ queue[N(c)] = 0 /\ queue[P(c)] = 0
  /\ status[c] = "live" /\ c \notin Origins => conn[P(c)] # NoConn
  /\ conn[N(c)] # NoConn => conn[N(c)] # conn[P(c)]

\* Cells that nobody sends are those of circuits that let go of the connection
\* or are about to be freed.
StrandedOK ==
  ~crashed => \A l \in Legs :
                queue[l] > 0 /\ next[l] = NoLeg =>
                  conn[l] = NoConn \/ status[l[1]] # "live"

QueueInv ==
  /\ TypeOK
  /\ Lined(next, prev, active, conn, Lines)
  /\ \A l \in Legs : next[l] # NoLeg => queue[l] > 0
  /\ StrandedOK
  /\ \A o \in Conns :
       filling[o] = 0 /\ active[o] # NoLeg /\ ~marked[o] => outbuf[o] > 0
  /\ \A c \in Circuits : Place(c)

\* The two legs of a circuit.
LEMMA LegFacts ==
  /\ \A c \in Circuits : N(c) \in Legs /\ P(c) \in Legs /\ N(c) # P(c)
                         /\ N(c)[1] = c /\ P(c)[1] = c
  /\ \A c, d : N(c) # P(d) /\ (N(c) = N(d) => c = d) /\ (P(c) = P(d) => c = d)
  /\ \A l \in Legs : l[1] \in Circuits /\ (l = N(l[1]) \/ l = P(l[1]))
BY DEF N, P, Legs, Sides

\* In a state of the invariant, the queue and ring variables have their shape.
LEMMA CurrentShape ==
  ASSUME QueueInv
  PROVE  /\ Shape(Current) /\ Full(Current)
         /\ Rings(Current, conn, Lines)
         /\ \A o \in Conns : filling[o] = 0 => AwakeAt(Current, o)
         /\ Current.queue = queue /\ Current.next = next
         /\ Current.active = active /\ Current.outbuf = outbuf
         /\ Lines \in [Conns -> Seq(Legs)]
         /\ marked \in [Conns -> BOOLEAN]
         /\ \A l \in Legs : next[l] # NoLeg => conn[l] \in Conns
<1>1. Shape(Current)
  BY DEF QueueInv, TypeOK, Shape, Current, PointerType
<1>2. /\ Current.queue = queue /\ Current.next = next /\ Current.prev = prev
      /\ Current.active = active /\ Current.outbuf = outbuf
  BY DEF Current
<1>3. Full(Current)
  BY <1>2 DEF QueueInv, Full
<1>4. Lined(next, prev, active, conn, Lines)
  BY DEF QueueInv
<1>5. Rings(Current, conn, Lines)
  BY <1>2, <1>4 DEF Rings
<1>6. \A o \in Conns : filling[o] = 0 => AwakeAt(Current, o)
  BY <1>2 DEF QueueInv, AwakeAt
<1>7. Lines \in [Conns -> Seq(Legs)] /\ \A l \in Legs : next[l] # NoLeg => conn[l] \in Conns
  BY <1>4 DEF Lined
<1>8. marked \in [Conns -> BOOLEAN]
  BY DEF QueueInv, TypeOK
<1> QED
  BY <1>1, <1>2, <1>3, <1>5, <1>6, <1>7, <1>8

\* What has to be shown of every step.
Proper == QueueInv' /\ \A o \in Conns : Lines'[o] \in Line!Moves(Lines[o])

\* The state U that a handler reaches satisfies the invariant again, and the
\* rings have moved from Lines to M.
LEMMA Conclude ==
  ASSUME NEW U, Shape(U), Become(U), NEW M, Rings(U, conn', M), Full(U),
         conn' \in [Legs -> Conns \cup {NoConn}],
         status' \in [Circuits -> {"none", "live", "marked"}],
         marked' \in [Conns -> BOOLEAN], filling' \in [Conns -> Nat],
         crashed' \in BOOLEAN,
         ~crashed' => \A l \in Stranded(U) : conn'[l] = NoConn \/ status'[l[1]] # "live",
         \A o \in Conns :
           filling'[o] = 0 /\ U.active[o] # NoLeg /\ ~marked'[o] => U.outbuf[o] > 0,
         \A c \in Circuits : Place(c)',
         \A o \in Conns : M[o] \in Line!Moves(Lines[o])
  PROVE  Proper
<1>1. /\ queue' = U.queue /\ blocked' = U.blocked /\ next' = U.next
      /\ prev' = U.prev /\ active' = U.active /\ outbuf' = U.outbuf
  BY DEF Become
<1>2. TypeOK'
  <2>1. /\ U.queue \in [Legs -> Nat] /\ U.blocked \in [Legs -> BOOLEAN]
        /\ U.next \in PointerType /\ U.prev \in PointerType
        /\ U.active \in [Conns -> Legs \cup {NoLeg}] /\ U.outbuf \in [Conns -> Nat]
    BY DEF Shape
  <2> QED
    BY <1>1, <2>1 DEF TypeOK, PointerType
<1>3. Lined(next', prev', active', conn', M)
  BY <1>1 DEF Rings
<1>4. M = Lines'
  <2>1. M \in [Conns -> Seq(Legs)]
    BY <1>3 DEF Lined
  <2>2. ASSUME NEW o \in Conns PROVE RingOf(next', active'[o]) = M[o]
    <3> PICK nxt, prv, act, s, n :
          nxt = next' /\ prv = prev' /\ act = active'[o] /\ s = M[o] /\ n = Len(M[o])
      OBVIOUS
    <3>1. Circle(nxt, prv, s, n) /\ act = IF n = 0 THEN NoLeg ELSE s[1]
      BY <1>3 DEF Lined
    <3>2. RingOf(nxt, act) = s
      BY ONLY <3>1, WalkIsLine
    <3> QED
      BY <3>2
  <2>3. Lines' = [o \in Conns |-> RingOf(next', active'[o])]
    BY DEF Lines, Ring
  <2> QED
    BY <2>1, <2>2, <2>3
<1>5. Lined(next, prev, active, conn, Lines)'
  BY <1>3, <1>4
<1>6. (\A l \in Legs : next[l] # NoLeg => queue[l] > 0)'
  BY <1>1 DEF Full
<1>7. StrandedOK'
  BY <1>1 DEF StrandedOK, Stranded
<1>8. (\A o \in Conns :
        filling[o] = 0 /\ active[o] # NoLeg /\ ~marked[o] => outbuf[o] > 0)'
  BY <1>1
<1>9. QueueInv'
  BY <1>2, <1>5, <1>6, <1>7, <1>8 DEF QueueInv
<1> QED
  BY <1>4, <1>9 DEF Proper

\* A line may stay as it is.
LEMMA StayPut == \A s : s \in Line!Moves(s)
BY DEF Line!Moves, Line!Join

\* The line of one connection moves and the others stay as they are.
LEMMA OneMoves ==
  ASSUME QueueInv, NEW o \in Conns, NEW s \in Line!Moves(Lines[o]),
         NEW M, M = [Lines EXCEPT ![o] = s]
  PROVE  \A p \in Conns : M[p] \in Line!Moves(Lines[p])
<1>1. Lines \in [Conns -> Seq(Legs)]
  BY CurrentShape
<1> QED
  BY <1>1, StayPut

\* Connections of legs that are on no ring do not matter.
LEMMA RingsConn ==
  ASSUME NEW T, NEW cn, NEW L, Rings(T, cn, L),
         NEW cn2, \A l \in Legs : T.next[l] # NoLeg => cn2[l] = cn[l]
  PROVE  Rings(T, cn2, L)
<1> PICK nxt, prv, act : nxt = T.next /\ prv = T.prev /\ act = T.active
  OBVIOUS
<1>1. Lined(nxt, prv, act, cn, L) /\ \A l \in Legs : nxt[l] # NoLeg => cn2[l] = cn[l]
  BY DEF Rings
<1>2. Lined(nxt, prv, act, cn2, L)
  BY ONLY <1>1, LinedConn
<1> QED
  BY <1>2 DEF Rings

\* A handler that is about one circuit leaves the places of the others.
LEMMA PlacesKept ==
  ASSUME QueueInv, NEW c \in Circuits, Place(c)',
         \A d \in Circuits : d # c => status'[d] = status[d],
         \A l \in Legs : l # N(c) /\ l # P(c) =>
                          conn'[l] = conn[l] /\ (queue[l] = 0 => queue'[l] = 0)
  PROVE  \A d \in Circuits : Place(d)'
<1> SUFFICES ASSUME NEW d \in Circuits, d # c PROVE Place(d)'
  OBVIOUS
<1>1. N(d) \in Legs /\ P(d) \in Legs /\ N(d) # N(c) /\ N(d) # P(c)
      /\ P(d) # N(c) /\ P(d) # P(c)
  BY LegFacts
<1>2. Place(d)
  BY DEF QueueInv
<1> QED
  BY <1>1, <1>2 DEF Place

\* The case of Conclude in which connections are neither marked nor served.
LEMMA ConcludeHandler ==
  ASSUME QueueInv, UNCHANGED <<marked, filling, crashed>>,
         NEW U, Shape(U), Become(U), NEW M, Rings(U, conn', M), Full(U),
         conn' \in [Legs -> Conns \cup {NoConn}],
         status' \in [Circuits -> {"none", "live", "marked"}],
         \A l \in Stranded(U) : conn'[l] = NoConn \/ status'[l[1]] # "live",
         \A o \in Conns : filling[o] = 0 => AwakeAt(U, o),
         \A c \in Circuits : Place(c)',
         \A o \in Conns : M[o] \in Line!Moves(Lines[o])
  PROVE  Proper
<1>1. /\ marked' \in [Conns -> BOOLEAN] /\ filling' \in [Conns -> Nat]
      /\ crashed' \in BOOLEAN
  BY DEF QueueInv, TypeOK
<1>2. \A o \in Conns :
        filling'[o] = 0 /\ U.active[o] # NoLeg /\ ~marked'[o] => U.outbuf[o] > 0
  BY DEF AwakeAt
<1> QED
  BY <1>1, <1>2, Conclude

-----------------------------------------------------------------------------
(* Every handler keeps the invariant.                                      *)

\* or_circuit_new, origin_circuit_new
LEMMA NewCircuitStep ==
  ASSUME QueueInv, NEW c \in Circuits, NewCircuit(c)
  PROVE  Proper
<1>1. /\ Shape(Current) /\ Full(Current) /\ Rings(Current, conn, Lines)
      /\ \A o \in Conns : filling[o] = 0 => AwakeAt(Current, o)
      /\ Current.queue = queue /\ Current.next = next /\ Current.active = active
      /\ Current.outbuf = outbuf
      /\ \A l \in Legs : next[l] # NoLeg => conn[l] \in Conns
  BY CurrentShape
<1>2. Become(Current)
  BY DEF NewCircuit, legVars, Become, Current
<1>3. TypeOK /\ \A d \in Circuits : Place(d)
  BY DEF QueueInv
<1>4. /\ status[c] = "none" /\ conn[N(c)] = NoConn /\ conn[P(c)] = NoConn
      /\ queue[N(c)] = 0 /\ queue[P(c)] = 0
  BY <1>3 DEF NewCircuit, Place
<1>5. /\ N(c) \in Legs /\ P(c) \in Legs /\ N(c) # P(c)
      /\ \A d \in Circuits : d # c => N(d) # P(c) /\ P(d) # P(c)
      /\ \A l \in Legs : l[1] \in Circuits /\ (l = N(l[1]) \/ l = P(l[1]))
  BY LegFacts
<1>6. /\ status' = [status EXCEPT ![c] = "live"]
      /\ marked' = marked /\ filling' = filling /\ crashed' = crashed
      /\ queue' = queue
  BY DEF NewCircuit, legVars
<1>7. /\ conn' \in [Legs -> Conns \cup {NoConn}]
      /\ \A l \in Legs : l # P(c) => conn'[l] = conn[l]
      /\ c \notin Origins => conn'[P(c)] # NoConn
  BY <1>3, <1>5, CellQueueAssumption DEF NewCircuit, TypeOK
<1>8. status' \in [Circuits -> {"none", "live", "marked"}]
  BY <1>3, <1>6 DEF TypeOK
<1>9. Rings(Current, conn', Lines)
  <2>1. \A l \in Legs : Current.next[l] # NoLeg => conn'[l] = conn[l]
    BY <1>1, <1>4, <1>7, CellQueueAssumption
  <2> QED
    BY <1>1, <2>1, RingsConn
<1>10. ASSUME NEW l \in Stranded(Current)
       PROVE  conn'[l] = NoConn \/ status'[l[1]] # "live"
  <2>1. l \in Legs /\ queue[l] > 0 /\ next[l] = NoLeg
    BY <1>1 DEF Stranded
  <2>2. l # N(c) /\ l # P(c)
    BY <1>4, <2>1
  <2>3. l[1] # c /\ l[1] \in Circuits
    BY <1>5, <2>1, <2>2
  <2>4. conn[l] = NoConn \/ status[l[1]] # "live"
    BY <2>1 DEF QueueInv, StrandedOK, NewCircuit, Calm, Idle
  <2> QED
    BY <1>3, <1>6, <1>7, <2>1, <2>2, <2>3, <2>4 DEF TypeOK
<1>11. \A d \in Circuits : Place(d)'
  <2>1. status'[c] = "live" /\ conn'[N(c)] = NoConn
    BY <1>3, <1>4, <1>5, <1>6, <1>7 DEF TypeOK
  <2>2. Place(c)'
    BY <1>7, <2>1 DEF Place
  <2> QED
    BY <1>3, <1>6, <1>7, <2>2, PlacesKept DEF TypeOK
<1> QED
  BY <1>1, <1>2, <1>6, <1>7, <1>8, <1>9, <1>10, <1>11, ConcludeHandler, StayPut

\* What holds when a handler starts.
LEMMA Started ==
  ASSUME QueueInv, Idle
  PROVE  /\ ~crashed /\ \A o \in Conns : AwakeAt(Current, o)
         /\ \A l \in Stranded(Current) : conn[l] = NoConn \/ status[l[1]] # "live"
         /\ status \in [Circuits -> {"none", "live", "marked"}]
         /\ conn \in [Legs -> Conns \cup {NoConn}]
         /\ NoConn \notin Conns
<1>1. /\ \A o \in Conns : filling[o] = 0 => AwakeAt(Current, o)
      /\ Current.queue = queue /\ Current.next = next
  BY CurrentShape
<1>2. \A l \in Stranded(Current) : conn[l] = NoConn \/ status[l[1]] # "live"
  BY <1>1 DEF QueueInv, StrandedOK, Stranded, Idle
<1> QED
  BY <1>1, <1>2, CellQueueAssumption DEF Idle, QueueInv, TypeOK

\* Every connection is awake when this one is and the others are left alone.
LEMMA AwakeAll ==
  ASSUME NEW T, NEW U, NEW o \in Conns, \A p \in Conns : AwakeAt(T, p),
         AwakeAt(U, o), OthersAlone(T, U, o)
  PROVE  \A p \in Conns : AwakeAt(U, p)
BY DEF AwakeAt, OthersAlone

\* circuit_deliver_create_cell
LEMMA ExtendStep ==
  ASSUME QueueInv, NEW c \in Circuits, NEW o \in Conns, Extend(c, o)
  PROVE  Proper
<1>1. /\ Shape(Current) /\ Full(Current) /\ Rings(Current, conn, Lines)
      /\ Current.queue = queue /\ Current.next = next
      /\ Lines \in [Conns -> Seq(Legs)] /\ marked \in [Conns -> BOOLEAN]
      /\ \A l \in Legs : next[l] # NoLeg => conn[l] \in Conns
  BY CurrentShape
<1>2. /\ ~crashed /\ \A p \in Conns : AwakeAt(Current, p)
      /\ \A l \in Stranded(Current) : conn[l] = NoConn \/ status[l[1]] # "live"
      /\ status \in [Circuits -> {"none", "live", "marked"}]
      /\ conn \in [Legs -> Conns \cup {NoConn}]
      /\ NoConn \notin Conns
  BY Started DEF Extend, Calm
<1>3. /\ N(c) \in Legs /\ P(c) \in Legs /\ N(c) # P(c)
      /\ N(c)[1] = c /\ P(c)[1] = c
  BY LegFacts
<1>4. /\ status[c] = "live" /\ conn[N(c)] = NoConn /\ conn[P(c)] # o
      /\ conn' = [conn EXCEPT ![N(c)] = o]
      /\ status' = status /\ marked' = marked /\ filling' = filling
  BY DEF Extend
<1>5. /\ conn' \in [Legs -> Conns \cup {NoConn}] /\ conn'[N(c)] = o
      /\ \A l \in Legs : l # N(c) => conn'[l] = conn[l]
  BY <1>2, <1>3, <1>4
<1>6. Rings(Current, conn', Lines)
  <2>1. \A l \in Legs : Current.next[l] # NoLeg => conn'[l] = conn[l]
    BY <1>1, <1>2, <1>3, <1>4, <1>5
  <2> QED
    BY <1>1, <2>1, RingsConn
<1>7. Place(c)'
  BY <1>3, <1>4, <1>5 DEF Place, QueueInv
<1>8. CASE (queue[N(c)] > 0) = (next[N(c)] # NoLeg)
  <2>1. N(c) \notin Stranded(Current)
    BY <1>1, <1>8 DEF Stranded
  <2>2. PICK U : U = Append1(Current, N(c), o)
    OBVIOUS
  <2>3. Become(U) /\ crashed' = crashed
    BY <1>8, <2>2 DEF Extend
  <2>4. /\ Shape(U) /\ Full(U) /\ Stranded(U) \subseteq Stranded(Current)
        /\ AwakeAt(U, o) /\ OthersAlone(Current, U, o)
        /\ \A m \in Legs : m # N(c) /\ Current.queue[m] = 0 => U.queue[m] = 0
        /\ \E s \in Line!Moves(Lines[o]) : Rings(U, conn', [Lines EXCEPT ![o] = s])
    <3> PICK cn, l, T, L : cn = conn' /\ l = N(c) /\ T = Current /\ L = Lines
      OBVIOUS
    <3>1. /\ Shape(T) /\ Full(T) /\ Rings(T, cn, L) /\ cn[l] = o /\ l \in Legs
          /\ l \notin Stranded(T) /\ U = Append1(T, l, o)
          /\ marked \in [Conns -> BOOLEAN]
      BY <1>1, <1>3, <1>5, <1>6, <2>1, <2>2
    <3>2. /\ Shape(U) /\ Full(U) /\ Stranded(U) \subseteq Stranded(T)
          /\ AwakeAt(U, o) /\ OthersAlone(T, U, o)
          /\ \A m \in Legs : m # l /\ T.queue[m] = 0 => U.queue[m] = 0
          /\ \E s \in Line!Moves(L[o]) : Rings(U, cn, [L EXCEPT ![o] = s])
      BY ONLY <3>1, Append1Rings, o \in Conns
    <3> QED
      BY <3>2
  <2>5. PICK s \in Line!Moves(Lines[o]) : Rings(U, conn', [Lines EXCEPT ![o] = s])
    BY <2>4
  <2>6. PICK M : M = [Lines EXCEPT ![o] = s]
    OBVIOUS
  <2>7. \A p \in Conns : M[p] \in Line!Moves(Lines[p])
    BY <2>5, <2>6, OneMoves
  <2>8. \A p \in Conns : AwakeAt(U, p)
    BY <1>2, <2>4, AwakeAll
  <2>9. ASSUME NEW l \in Stranded(U)
        PROVE  conn'[l] = NoConn \/ status'[l[1]] # "live"
    <3>1. l \in Stranded(Current) /\ l # N(c) /\ l \in Legs
      BY <2>1, <2>4 DEF Stranded
    <3> QED
      BY <1>2, <1>4, <1>5, <3>1
  <2>10. \A d \in Circuits : Place(d)'
    <3>1. \A l \in Legs : l # N(c) => (queue[l] = 0 => queue'[l] = 0)
      BY <1>1, <2>3, <2>4 DEF Become
    <3> QED
      BY <1>4, <1>5, <1>7, <3>1, PlacesKept
  <2> QED
    BY <1>2, <1>4, <1>5, <2>3, <2>4, <2>5, <2>6, <2>7, <2>8, <2>9, <2>10,
       ConcludeHandler
<1>9. CASE ~((queue[N(c)] > 0) = (next[N(c)] # NoLeg))
  <2>1. crashed' = TRUE /\ UNCHANGED legVars
    BY <1>9 DEF Extend
  <2>2. Become(Current)
    BY <2>1 DEF legVars, Become, Current
  <2>3. queue' = queue
    BY <2>1 DEF legVars
  <2>4. \A d \in Circuits : Place(d)'
    BY <1>4, <1>5, <1>7, <2>3, PlacesKept
  <2>5. \A p \in Conns :
          filling'[p] = 0 /\ Current.active[p] # NoLeg /\ ~marked'[p]
            => Current.outbuf[p] > 0
    BY <1>2, <1>4 DEF AwakeAt
  <2>6. /\ marked' \in [Conns -> BOOLEAN] /\ filling' \in [Conns -> Nat]
        /\ crashed' \in BOOLEAN
    BY <1>4, <2>1 DEF QueueInv, TypeOK
  <2>7. status' \in [Circuits -> {"none", "live", "marked"}]
    BY <1>2, <1>4
  <2>8. \A p \in Conns : Lines[p] \in Line!Moves(Lines[p])
    BY StayPut
  <2> QED
    BY <1>1, <1>5, <1>6, <2>1, <2>2, <2>4, <2>5, <2>6, <2>7, <2>8, Conclude
<1> QED
  BY <1>8, <1>9

\* circuit_deliver_create_cell without a circuit id
LEMMA ExtendNoIdStep ==
  ASSUME QueueInv, NEW c \in Circuits, NEW o \in Conns, ExtendNoId(c, o)
  PROVE  Proper
<1>1. /\ Shape(Current) /\ Full(Current) /\ Rings(Current, conn, Lines)
      /\ Current.queue = queue /\ Current.next = next
      /\ marked \in [Conns -> BOOLEAN]
      /\ \A l \in Legs : next[l] # NoLeg => conn[l] \in Conns
  BY CurrentShape
<1>2. /\ ~crashed /\ \A p \in Conns : AwakeAt(Current, p)
      /\ \A l \in Stranded(Current) : conn[l] = NoConn \/ status[l[1]] # "live"
      /\ status \in [Circuits -> {"none", "live", "marked"}]
      /\ conn \in [Legs -> Conns \cup {NoConn}]
      /\ NoConn \notin Conns
  BY Started DEF ExtendNoId, Calm
<1>3. /\ N(c) \in Legs /\ P(c) \in Legs /\ N(c) # P(c)
      /\ N(c)[1] = c /\ P(c)[1] = c
  BY LegFacts
<1>4. /\ status[c] = "live" /\ conn[N(c)] = NoConn /\ conn[P(c)] # o
      /\ conn' = [conn EXCEPT ![N(c)] = o]
      /\ status' = [status EXCEPT ![c] = "marked"]
      /\ UNCHANGED <<marked, filling, crashed>>
  BY DEF ExtendNoId
<1>5. /\ conn' \in [Legs -> Conns \cup {NoConn}] /\ conn'[N(c)] = o
      /\ \A l \in Legs : l # N(c) => conn'[l] = conn[l]
      /\ status' \in [Circuits -> {"none", "live", "marked"}]
      /\ status'[c] = "marked" /\ \A d \in Circuits : d # c => status'[d] = status[d]
  BY <1>2, <1>3, <1>4
<1>6. PICK T, U : T = SendDestroys(Current, {P(c)}) /\ U = WriteOne(T, o)
  OBVIOUS
<1>7. Become(U)
  BY <1>6 DEF ExtendNoId, WriteOne
<1>8. /\ Shape(T) /\ T.queue = Current.queue /\ T.next = Current.next
      /\ T.prev = Current.prev /\ T.active = Current.active
      /\ \A p \in Conns : AwakeAt(Current, p) => AwakeAt(T, p)
  BY <1>1, <1>3, <1>6, SendDestroysShape
<1>9. /\ Shape(U) /\ U.queue = T.queue /\ U.next = T.next
      /\ U.prev = T.prev /\ U.active = T.active
      /\ \A p \in Conns : AwakeAt(T, p) => AwakeAt(U, p)
  <2>1. Shape(T) /\ marked \in [Conns -> BOOLEAN] /\ U = WriteOne(T, o)
    BY <1>1, <1>6, <1>8
  <2> QED
    BY ONLY <2>1, WriteCellsShape, o \in Conns
<1>10. Full(U) /\ Stranded(U) = Stranded(Current)
  BY <1>1, <1>8, <1>9 DEF Full, Stranded
<1>11. Rings(U, conn', Lines)
  <2>1. \A l \in Legs : Current.next[l] # NoLeg => conn'[l] = conn[l]
    BY <1>1, <1>2, <1>3, <1>4, <1>5
  <2>2. Rings(Current, conn', Lines)
    BY <1>1, <2>1, RingsConn
  <2> QED
    BY <1>8, <1>9, <2>2 DEF Rings
<1>12. \A d \in Circuits : Place(d)'
  <2>1. Place(c)'
    BY <1>3, <1>4, <1>5 DEF Place
  <2>2. queue' = queue
    BY <1>1, <1>7, <1>8, <1>9 DEF Become
  <2> QED
    BY <1>5, <2>1, <2>2, PlacesKept
<1>13. ASSUME NEW l \in Stranded(U)
       PROVE  conn'[l] = NoConn \/ status'[l[1]] # "live"
  <2>1. l \in Legs /\ l[1] \in Circuits
    BY LegFacts DEF Stranded
  <2>2. conn[l] = NoConn \/ status[l[1]] # "live"
    BY <1>2, <1>10
  <2>3. CASE l[1] = c
    BY <1>5, <2>3
  <2>4. CASE l[1] # c
    BY <1>3, <1>5, <2>1, <2>2, <2>4
  <2> QED
    BY <2>3, <2>4
<1> QED
  BY <1>2, <1>4, <1>5, <1>7, <1>8, <1>9, <1>10, <1>11, <1>12, <1>13,
     ConcludeHandler, StayPut

\* append_cell_to_circuit_queue, for a relayed or packaged cell
LEMMA AppendCellStep ==
  ASSUME QueueInv, NEW l \in Legs, AppendCell(l)
  PROVE  Proper
<1>1. /\ Shape(Current) /\ Full(Current) /\ Rings(Current, conn, Lines)
      /\ Current.queue = queue
      /\ marked \in [Conns -> BOOLEAN]
  BY CurrentShape
<1>2. /\ ~crashed /\ \A p \in Conns : AwakeAt(Current, p)
      /\ \A m \in Stranded(Current) : conn[m] = NoConn \/ status[m[1]] # "live"
      /\ status \in [Circuits -> {"none", "live", "marked"}]
      /\ conn \in [Legs -> Conns \cup {NoConn}]
  BY Started DEF AppendCell, Calm
<1>3. /\ status[l[1]] = "live" /\ conn[l] \in Conns /\ l \notin Stranded(Current)
      /\ UNCHANGED <<marked, filling, crashed>> /\ conn' = conn /\ status' = status
  BY <1>2 DEF AppendCell
<1>4. PICK o \in Conns : o = conn[l]
  BY <1>3
<1>5. PICK U : U = Append1(Current, l, o)
  OBVIOUS
<1>6. Become(U)
  BY <1>4, <1>5 DEF AppendCell
<1>7. /\ Shape(U) /\ Full(U) /\ Stranded(U) \subseteq Stranded(Current)
      /\ AwakeAt(U, o) /\ OthersAlone(Current, U, o)
      /\ \A m \in Legs : m # l /\ Current.queue[m] = 0 => U.queue[m] = 0
      /\ \E s \in Line!Moves(Lines[o]) : Rings(U, conn, [Lines EXCEPT ![o] = s])
  BY <1>1, <1>3, <1>4, <1>5, Append1Rings
<1>8. PICK s \in Line!Moves(Lines[o]) : Rings(U, conn, [Lines EXCEPT ![o] = s])
  BY <1>7
<1>9. PICK M : M = [Lines EXCEPT ![o] = s]
  OBVIOUS
<1>10. \A p \in Conns : M[p] \in Line!Moves(Lines[p])
  BY <1>8, <1>9, OneMoves
<1>11. \A p \in Conns : AwakeAt(U, p)
  BY <1>2, <1>7, AwakeAll
<1>12. \A d \in Circuits : Place(d)'
  <2>1. l[1] \in Circuits /\ (l = N(l[1]) \/ l = P(l[1]))
    BY LegFacts
  <2>2. Place(l[1])'
    BY <1>3, <2>1 DEF Place, QueueInv
  <2>3. \A m \in Legs : m # l => (queue[m] = 0 => queue'[m] = 0)
    BY <1>1, <1>6, <1>7 DEF Become
  <2> QED
    BY <1>3, <2>1, <2>2, <2>3, PlacesKept
<1>13. Rings(U, conn', M)
  BY <1>3, <1>8, <1>9
<1>14. /\ conn' \in [Legs -> Conns \cup {NoConn}]
       /\ status' \in [Circuits -> {"none", "live", "marked"}]
       /\ \A m \in Stranded(U) : conn'[m] = NoConn \/ status'[m[1]] # "live"
  BY <1>2, <1>3, <1>7
<1> QED
  BY <1>3, <1>6, <1>7, <1>10, <1>11, <1>12, <1>13, <1>14, ConcludeHandler

\* What holds of a circuit's legs and of the state when a handler starts.
LEMMA StartedCircuit ==
  ASSUME QueueInv, Idle, NEW c \in Circuits
  PROVE  /\ Shape(Current) /\ Full(Current) /\ Rings(Current, conn, Lines)
         /\ Current.queue = queue /\ Current.next = next
         /\ Lines \in [Conns -> Seq(Legs)] /\ marked \in [Conns -> BOOLEAN]
         /\ \A l \in Legs : next[l] # NoLeg => conn[l] \in Conns
         /\ \A p \in Conns : AwakeAt(Current, p)
         /\ \A l \in Stranded(Current) : conn[l] = NoConn \/ status[l[1]] # "live"
         /\ status \in [Circuits -> {"none", "live", "marked"}]
         /\ conn \in [Legs -> Conns \cup {NoConn}]
         /\ NoConn \notin Conns
         /\ N(c) \in Legs /\ P(c) \in Legs /\ N(c) # P(c)
         /\ N(c)[1] = c /\ P(c)[1] = c
         /\ Place(c)
<1>1. Place(c)
  BY DEF QueueInv
<1>2. /\ N(c) \in Legs /\ P(c) \in Legs /\ N(c) # P(c)
      /\ N(c)[1] = c /\ P(c)[1] = c
  BY LegFacts
<1> QED
  BY <1>1, <1>2, CurrentShape, Started

\* Taking a leg off its ring keeps every connection awake.
LEMMA DetachAwake ==
  ASSUME NEW T, NEW U, U.outbuf = T.outbuf,
         \A o \in Conns : T.active[o] = NoLeg => U.active[o] = NoLeg,
         \A o \in Conns : AwakeAt(T, o)
  PROVE  \A o \in Conns : AwakeAt(U, o)
BY DEF AwakeAt

\* A relay lets go of the next hop and tells the previous one: the part that
\* RELAY_COMMAND_TRUNCATE and a DESTROY from the next hop have in common.
LEMMA LetGo ==
  ASSUME QueueInv, Calm, NEW c \in Circuits, status[c] = "live", c \notin Origins,
         conn[N(c)] # NoConn,
         NEW T, Shape(T), T.queue = queue, T.next = next, T.prev = prev,
         T.active = active, \A o \in Conns : AwakeAt(T, o),
         Become(Append1(Detach(T, N(c)), P(c), conn[P(c)])),
         conn' = [conn EXCEPT ![N(c)] = NoConn],
         UNCHANGED <<status, marked, filling, crashed>>
  PROVE  Proper
<1>1. /\ Full(Current) /\ Rings(Current, conn, Lines)
      /\ Current.queue = queue /\ Current.next = next
      /\ Lines \in [Conns -> Seq(Legs)] /\ marked \in [Conns -> BOOLEAN]
      /\ \A l \in Stranded(Current) : conn[l] = NoConn \/ status[l[1]] # "live"
      /\ status \in [Circuits -> {"none", "live", "marked"}]
      /\ conn \in [Legs -> Conns \cup {NoConn}]
      /\ NoConn \notin Conns
      /\ N(c) \in Legs /\ P(c) \in Legs /\ N(c) # P(c)
      /\ N(c)[1] = c /\ P(c)[1] = c
      /\ Place(c)
  BY StartedCircuit DEF Calm
<1>2. conn[P(c)] \in Conns /\ conn[P(c)] # conn[N(c)]
  BY <1>1 DEF Place
<1>3. /\ conn' \in [Legs -> Conns \cup {NoConn}] /\ conn'[N(c)] = NoConn
      /\ \A l \in Legs : l # N(c) => conn'[l] = conn[l]
  BY <1>1
<1>4. Full(T) /\ Stranded(T) = Stranded(Current) /\ Rings(T, conn, Lines)
  <2>1. Current.prev = prev /\ Current.active = active
    BY DEF Current
  <2> QED
    BY <1>1, <2>1 DEF Full, Stranded, Rings
<1>5. PICK l, m \in Legs : l = N(c) /\ m = P(c)
  BY <1>1
<1>6. PICK D, U : D = Detach(T, l) /\ U = Append1(D, m, conn[m])
  OBVIOUS
<1>7. Become(U)
  BY <1>5, <1>6
<1>8. /\ Shape(D) /\ Full(D) /\ Stranded(D) \subseteq Stranded(T) \cup {l}
      /\ D.queue = T.queue /\ D.outbuf = T.outbuf
      /\ D.next[l] = NoLeg
      /\ \A o \in Conns : T.active[o] = NoLeg => D.active[o] = NoLeg
      /\ \E M : /\ Rings(D, conn, M)
                /\ \A o \in Conns : M[o] \in Line!Moves(Lines[o])
                /\ \A o \in Conns : o # conn[l] => M[o] = Lines[o]
  <2> PICK L : L = Lines
    OBVIOUS
  <2>1. /\ Shape(T) /\ Rings(T, conn, L) /\ Full(T)
        /\ l \in Legs /\ conn[l] \in Conns \cup {NoConn} /\ D = Detach(T, l)
    BY <1>1, <1>4, <1>5, <1>6
  <2>2. /\ Shape(D) /\ Full(D) /\ Stranded(D) \subseteq Stranded(T) \cup {l}
        /\ D.queue = T.queue /\ D.outbuf = T.outbuf
        /\ D.next[l] = NoLeg
        /\ \A o \in Conns : T.active[o] = NoLeg => D.active[o] = NoLeg
        /\ \E M : /\ Rings(D, conn, M)
                  /\ \A o \in Conns : M[o] \in Line!Moves(L[o])
                  /\ \A o \in Conns : o # conn[l] => M[o] = L[o]
    BY ONLY <2>1, DetachRings
  <2> QED
    BY <2>2
<1>9. PICK M : /\ Rings(D, conn, M)
               /\ \A o \in Conns : M[o] \in Line!Moves(Lines[o])
               /\ \A o \in Conns : o # conn[l] => M[o] = Lines[o]
  BY <1>8
<1>10. \A o \in Conns : AwakeAt(D, o)
  BY <1>8, DetachAwake
<1>11. m \notin Stranded(D)
  BY <1>1, <1>2, <1>4, <1>5, <1>8
<1>12. PICK o \in Conns, cn \in {conn'} : o = conn[m]
  BY <1>2, <1>5
<1>13. Rings(D, cn, M) /\ cn[m] = o
  <2>1. \A x \in Legs : D.next[x] # NoLeg => cn[x] = conn[x]
    BY <1>3, <1>5, <1>8
  <2> QED
    BY <1>1, <1>3, <1>5, <1>9, <1>12, <2>1, RingsConn
<1>14. /\ Shape(U) /\ Full(U) /\ Stranded(U) \subseteq Stranded(D)
       /\ AwakeAt(U, o) /\ OthersAlone(D, U, o)
       /\ \A x \in Legs : x # m /\ D.queue[x] = 0 => U.queue[x] = 0
       /\ \E s \in Line!Moves(M[o]) : Rings(U, cn, [M EXCEPT ![o] = s])
  <2>1. /\ Shape(D) /\ Full(D) /\ Rings(D, cn, M) /\ cn[m] = o /\ m \in Legs
        /\ m \notin Stranded(D) /\ U = Append1(D, m, o)
        /\ marked \in [Conns -> BOOLEAN]
    BY <1>1, <1>5, <1>6, <1>8, <1>11, <1>12, <1>13
  <2> QED
    BY ONLY <2>1, Append1Rings, o \in Conns
<1>15. PICK s \in Line!Moves(M[o]) : Rings(U, cn, [M EXCEPT ![o] = s])
  BY <1>14
<1>16. PICK M2 : M2 = [M EXCEPT ![o] = s]
  OBVIOUS
<1>17. \A p \in Conns : M2[p] \in Line!Moves(Lines[p])
  <2>1. M \in [Conns -> Seq(Legs)] /\ M[o] = Lines[o]
    BY <1>2, <1>5, <1>9, <1>12 DEF Rings, Lined
  <2> QED
    BY <1>9, <1>15, <1>16, <2>1
<1>18. \A p \in Conns : AwakeAt(U, p)
  BY <1>10, <1>14, AwakeAll
<1>19. ASSUME NEW x \in Stranded(U)
       PROVE  conn'[x] = NoConn \/ status'[x[1]] # "live"
  <2>1. x \in Legs /\ (x \in Stranded(Current) \/ x = N(c))
    BY <1>4, <1>5, <1>8, <1>14 DEF Stranded
  <2> QED
    BY <1>1, <1>3, <2>1
<1>20. \A d \in Circuits : Place(d)'
  <2>1. \A x \in Legs : x # P(c) => (queue[x] = 0 => queue'[x] = 0)
    BY <1>5, <1>7, <1>8, <1>14 DEF Become
  <2>2. Place(c)'
    BY <1>1, <1>2, <1>3 DEF Place
  <2> QED
    BY <1>3, <2>1, <2>2, PlacesKept
<1>21. Rings(U, conn', M2)
  BY <1>12, <1>15, <1>16
<1>22. status' \in [Circuits -> {"none", "live", "marked"}]
  BY <1>1
<1> QED
  BY <1>3, <1>7, <1>14, <1>17, <1>18, <1>19, <1>20, <1>21, <1>22, ConcludeHandler

\* RELAY_COMMAND_TRUNCATE
LEMMA TruncateStep ==
  ASSUME QueueInv, NEW c \in Circuits, Truncate(c)
  PROVE  Proper
<1>1. /\ Calm /\ Idle /\ status[c] = "live" /\ c \notin Origins /\ conn[N(c)] # NoConn
      /\ conn' = [conn EXCEPT ![N(c)] = NoConn]
      /\ UNCHANGED <<status, marked, filling, crashed>>
  BY DEF Truncate, Calm
<1>2. /\ Shape(Current) /\ marked \in [Conns -> BOOLEAN]
      /\ Current.queue = queue /\ Current.next = next
      /\ \A p \in Conns : AwakeAt(Current, p)
      /\ N(c) \in Legs
  BY <1>1, StartedCircuit
<1>3. PICK T : T = SendDestroys(Current, {N(c)})
  OBVIOUS
<1>4. /\ Shape(T) /\ T.queue = Current.queue /\ T.next = Current.next
      /\ T.prev = Current.prev /\ T.active = Current.active
      /\ \A o \in Conns : AwakeAt(Current, o) => AwakeAt(T, o)
  BY <1>2, <1>3, SendDestroysShape
<1>5. Become(Append1(Detach(T, N(c)), P(c), conn[P(c)]))
  BY <1>3 DEF Truncate
<1>6. T.prev = prev /\ T.active = active
  BY <1>4 DEF Current
<1> QED
  BY <1>1, <1>2, <1>4, <1>5, <1>6, LetGo

\* command_process_destroy_cell, from the next hop
LEMMA DestroyFromAheadStep ==
  ASSUME QueueInv, NEW c \in Circuits, DestroyFromAhead(c)
  PROVE  Proper
<1>1. /\ Calm /\ Idle /\ status[c] = "live" /\ conn[N(c)] # NoConn
      /\ conn' = [conn EXCEPT ![N(c)] = NoConn]
      /\ UNCHANGED <<marked, filling, crashed>>
  BY DEF DestroyFromAhead, Calm
<1>2. /\ Shape(Current) /\ Full(Current) /\ Rings(Current, conn, Lines)
      /\ Current.queue = queue /\ Current.next = next
      /\ Lines \in [Conns -> Seq(Legs)] /\ marked \in [Conns -> BOOLEAN]
      /\ \A p \in Conns : AwakeAt(Current, p)
      /\ \A l \in Stranded(Current) : conn[l] = NoConn \/ status[l[1]] # "live"
      /\ status \in [Circuits -> {"none", "live", "marked"}]
      /\ conn \in [Legs -> Conns \cup {NoConn}]
      /\ NoConn \notin Conns
      /\ N(c) \in Legs /\ P(c) \in Legs /\ N(c) # P(c)
      /\ N(c)[1] = c /\ P(c)[1] = c
  BY <1>1, StartedCircuit
<1>3. CASE c \notin Origins
  <2>1. Become(Append1(Detach(Current, N(c)), P(c), conn[P(c)])) /\ status' = status
    BY <1>3 DEF DestroyFromAhead
  <2>2. Current.prev = prev /\ Current.active = active
    BY DEF Current
  <2>3. UNCHANGED <<status, marked, filling, crashed>>
    BY <1>1, <2>1
  <2>4. PICK T : T = Current
    OBVIOUS
  <2>5. /\ Shape(T) /\ T.queue = queue /\ T.next = next /\ T.prev = prev
        /\ T.active = active /\ \A o \in Conns : AwakeAt(T, o)
        /\ Become(Append1(Detach(T, N(c)), P(c), conn[P(c)]))
    BY <1>2, <2>1, <2>2, <2>4
  <2> QED
    BY <1>1, <1>3, <2>3, <2>5, LetGo
<1>4. CASE c \in Origins
  <2>1. PICK l \in Legs : l = N(c)
    BY <1>2
  <2>2. PICK U : U = Detach(Current, l)
    OBVIOUS
  <2>3. Become(U) /\ status' = [status EXCEPT ![c] = "marked"]
    BY <1>4, <2>1, <2>2 DEF DestroyFromAhead
  <2>4. /\ Shape(U) /\ Full(U) /\ Stranded(U) \subseteq Stranded(Current) \cup {l}
        /\ U.queue = Current.queue /\ U.outbuf = Current.outbuf
        /\ U.next[l] = NoLeg
        /\ \A o \in Conns : Current.active[o] = NoLeg => U.active[o] = NoLeg
        /\ \E M : /\ Rings(U, conn, M)
                  /\ \A o \in Conns : M[o] \in Line!Moves(Lines[o])
                  /\ \A o \in Conns : o # conn[l] => M[o] = Lines[o]
    <3> PICK T, L : T = Current /\ L = Lines
      OBVIOUS
    <3>1. /\ Shape(T) /\ Rings(T, conn, L) /\ Full(T)
          /\ l \in Legs /\ conn[l] \in Conns \cup {NoConn} /\ U = Detach(T, l)
      BY <1>2, <2>1, <2>2
    <3>2. /\ Shape(U) /\ Full(U) /\ Stranded(U) \subseteq Stranded(T) \cup {l}
          /\ U.queue = T.queue /\ U.outbuf = T.outbuf
          /\ U.next[l] = NoLeg
          /\ \A o \in Conns : T.active[o] = NoLeg => U.active[o] = NoLeg
          /\ \E M : /\ Rings(U, conn, M)
                    /\ \A o \in Conns : M[o] \in Line!Moves(L[o])
                    /\ \A o \in Conns : o # conn[l] => M[o] = L[o]
      BY ONLY <3>1, DetachRings
    <3> QED
      BY <3>2
  <2>5. PICK M : Rings(U, conn, M) /\ \A o \in Conns : M[o] \in Line!Moves(Lines[o])
    BY <2>4
  <2>6. /\ conn' \in [Legs -> Conns \cup {NoConn}] /\ conn'[N(c)] = NoConn
        /\ \A x \in Legs : x # N(c) => conn'[x] = conn[x]
        /\ status' \in [Circuits -> {"none", "live", "marked"}]
        /\ status'[c] = "marked" /\ \A d \in Circuits : d # c => status'[d] = status[d]
    BY <1>1, <1>2, <2>3
  <2>7. Rings(U, conn', M)
    <3>1. \A x \in Legs : U.next[x] # NoLeg => conn'[x] = conn[x]
      BY <2>1, <2>4, <2>6
    <3> QED
      BY <2>5, <3>1, RingsConn
  <2>8. \A o \in Conns : AwakeAt(U, o)
    BY <1>2, <2>4, DetachAwake
  <2>9. ASSUME NEW x \in Stranded(U)
        PROVE  conn'[x] = NoConn \/ status'[x[1]] # "live"
    <3>1. x \in Legs /\ x[1] \in Circuits /\ (x \in Stranded(Current) \/ x = N(c))
      BY <2>1, <2>4, LegFacts DEF Stranded
    <3> QED
      BY <1>2, <2>6, <3>1
  <2>10. \A d \in Circuits : Place(d)'
    <3>1. Place(c)'
      BY <2>6 DEF Place
    <3>2. queue' = queue
      BY <1>2, <2>3, <2>4 DEF Become
    <3> QED
      BY <2>6, <3>1, <3>2, PlacesKept
  <2> QED
    BY <1>1, <2>3, <2>4, <2>5, <2>6, <2>7, <2>8, <2>9, <2>10, ConcludeHandler
<1> QED
  BY <1>3, <1>4

\* command_process_destroy_cell, from the previous hop
LEMMA DestroyFromBehindStep ==
  ASSUME QueueInv, NEW c \in Circuits, DestroyFromBehind(c)
  PROVE  Proper
<1>1. /\ Idle /\ status[c] = "live"
      /\ conn' = [conn EXCEPT ![P(c)] = NoConn]
      /\ status' = [status EXCEPT ![c] = "marked"]
      /\ UNCHANGED <<marked, filling, crashed>>
  BY DEF DestroyFromBehind, Calm
<1>2. /\ Shape(Current) /\ Full(Current) /\ Rings(Current, conn, Lines)
      /\ Current.queue = queue /\ Current.next = next
      /\ Lines \in [Conns -> Seq(Legs)] /\ marked \in [Conns -> BOOLEAN]
      /\ \A p \in Conns : AwakeAt(Current, p)
      /\ \A l \in Stranded(Current) : conn[l] = NoConn \/ status[l[1]] # "live"
      /\ status \in [Circuits -> {"none", "live", "marked"}]
      /\ conn \in [Legs -> Conns \cup {NoConn}]
      /\ NoConn \notin Conns
      /\ N(c) \in Legs /\ P(c) \in Legs /\ N(c) # P(c)
      /\ N(c)[1] = c /\ P(c)[1] = c
  BY <1>1, StartedCircuit
<1>3. PICK l \in Legs : l = P(c)
  BY <1>2
<1>4. PICK D, U : D = Detach(Current, l) /\ U = SendDestroys(D, {N(c)})
  OBVIOUS
<1>5. Become(U)
  BY <1>3, <1>4 DEF DestroyFromBehind
<1>6. /\ Shape(D) /\ Full(D) /\ Stranded(D) \subseteq Stranded(Current) \cup {l}
      /\ D.queue = Current.queue /\ D.outbuf = Current.outbuf
      /\ D.next[l] = NoLeg
      /\ \A o \in Conns : Current.active[o] = NoLeg => D.active[o] = NoLeg
      /\ \E M : /\ Rings(D, conn, M)
                /\ \A o \in Conns : M[o] \in Line!Moves(Lines[o])
                /\ \A o \in Conns : o # conn[l] => M[o] = Lines[o]
  <2> PICK T, L : T = Current /\ L = Lines
    OBVIOUS
  <2>1. /\ Shape(T) /\ Rings(T, conn, L) /\ Full(T)
        /\ l \in Legs /\ conn[l] \in Conns \cup {NoConn} /\ D = Detach(T, l)
    BY <1>2, <1>3, <1>4
  <2>2. /\ Shape(D) /\ Full(D) /\ Stranded(D) \subseteq Stranded(T) \cup {l}
        /\ D.queue = T.queue /\ D.outbuf = T.outbuf
        /\ D.next[l] = NoLeg
        /\ \A o \in Conns : T.active[o] = NoLeg => D.active[o] = NoLeg
        /\ \E M : /\ Rings(D, conn, M)
                  /\ \A o \in Conns : M[o] \in Line!Moves(L[o])
                  /\ \A o \in Conns : o # conn[l] => M[o] = L[o]
    BY ONLY <2>1, DetachRings
  <2> QED
    BY <2>2
<1>7. /\ Shape(U) /\ U.queue = D.queue /\ U.next = D.next /\ U.prev = D.prev
      /\ U.active = D.active
      /\ \A o \in Conns : AwakeAt(D, o) => AwakeAt(U, o)
  <2> PICK S : S = {N(c)}
    OBVIOUS
  <2>1. Shape(D) /\ S \in SUBSET Legs /\ marked \in [Conns -> BOOLEAN]
        /\ U = SendDestroys(D, S)
    BY <1>2, <1>4, <1>6
  <2> QED
    BY ONLY <2>1, SendDestroysShape
<1>8. PICK M : Rings(D, conn, M) /\ \A o \in Conns : M[o] \in Line!Moves(Lines[o])
  BY <1>6
<1>9. /\ conn' \in [Legs -> Conns \cup {NoConn}] /\ conn'[P(c)] = NoConn
      /\ \A x \in Legs : x # P(c) => conn'[x] = conn[x]
      /\ status' \in [Circuits -> {"none", "live", "marked"}]
      /\ status'[c] = "marked" /\ \A d \in Circuits : d # c => status'[d] = status[d]
  BY <1>1, <1>2
<1>10. Rings(U, conn', M)
  <2>1. \A x \in Legs : D.next[x] # NoLeg => conn'[x] = conn[x]
    BY <1>3, <1>6, <1>9
  <2>2. Rings(D, conn', M)
    BY <1>8, <2>1, RingsConn
  <2> QED
    BY <1>7, <2>2 DEF Rings
<1>11. \A o \in Conns : AwakeAt(U, o)
  BY <1>2, <1>6, <1>7, DetachAwake
<1>12. Full(U) /\ Stranded(U) = Stranded(D)
  BY <1>6, <1>7 DEF Full, Stranded
<1>13. ASSUME NEW x \in Stranded(U)
       PROVE  conn'[x] = NoConn \/ status'[x[1]] # "live"
  <2>1. x \in Legs /\ x[1] \in Circuits /\ (x \in Stranded(Current) \/ x = P(c))
    BY <1>3, <1>6, <1>12, LegFacts DEF Stranded
  <2> QED
    BY <1>2, <1>9, <2>1
<1>14. \A d \in Circuits : Place(d)'
  <2>1. Place(c)'
    BY <1>9 DEF Place
  <2>2. queue' = queue
    BY <1>2, <1>5, <1>6, <1>7 DEF Become
  <2> QED
    BY <1>9, <2>1, <2>2, PlacesKept
<1> QED
  BY <1>1, <1>5, <1>7, <1>8, <1>9, <1>10, <1>11, <1>12, <1>13, <1>14, ConcludeHandler

\* circuit_mark_for_close
LEMMA MarkCircuitStep ==
  ASSUME QueueInv, NEW c \in Circuits, MarkCircuit(c)
  PROVE  Proper
<1>1. /\ Idle /\ status[c] = "live" /\ conn' = conn
      /\ status' = [status EXCEPT ![c] = "marked"]
      /\ UNCHANGED <<marked, filling, crashed>>
  BY DEF MarkCircuit, Calm
<1>2. /\ Shape(Current) /\ Full(Current) /\ Rings(Current, conn, Lines)
      /\ Current.queue = queue /\ Current.next = next
      /\ marked \in [Conns -> BOOLEAN]
      /\ \A p \in Conns : AwakeAt(Current, p)
      /\ \A l \in Stranded(Current) : conn[l] = NoConn \/ status[l[1]] # "live"
      /\ status \in [Circuits -> {"none", "live", "marked"}]
      /\ conn \in [Legs -> Conns \cup {NoConn}]
      /\ N(c) \in Legs /\ P(c) \in Legs
      /\ Place(c)
  BY <1>1, StartedCircuit
<1>3. PICK S, U : S = {N(c), P(c)} /\ U = SendDestroys(Current, S)
  OBVIOUS
<1>4. Become(U)
  BY <1>3 DEF MarkCircuit
<1>5. /\ Shape(U) /\ U.queue = Current.queue /\ U.next = Current.next
      /\ U.prev = Current.prev /\ U.active = Current.active
      /\ \A o \in Conns : AwakeAt(Current, o) => AwakeAt(U, o)
  <2>1. Shape(Current) /\ S \in SUBSET Legs /\ marked \in [Conns -> BOOLEAN]
        /\ U = SendDestroys(Current, S)
    BY <1>2, <1>3
  <2> QED
    BY ONLY <2>1, SendDestroysShape
<1>6. /\ conn' \in [Legs -> Conns \cup {NoConn}]
      /\ status' \in [Circuits -> {"none", "live", "marked"}]
      /\ status'[c] = "marked" /\ \A d \in Circuits : d # c => status'[d] = status[d]
  BY <1>1, <1>2
<1>7. Rings(U, conn', Lines)
  BY <1>1, <1>2, <1>5 DEF Rings
<1>8. Full(U) /\ Stranded(U) = Stranded(Current)
  BY <1>2, <1>5 DEF Full, Stranded
<1>9. ASSUME NEW x \in Stranded(U)
      PROVE  conn'[x] = NoConn \/ status'[x[1]] # "live"
  <2>1. x \in Legs /\ x[1] \in Circuits
    BY LegFacts DEF Stranded
  <2> QED
    BY <1>1, <1>2, <1>6, <1>8, <2>1
<1>10. \A d \in Circuits : Place(d)'
  <2>1. Place(c)'
    BY <1>1, <1>2, <1>6 DEF Place
  <2>2. queue' = queue
    BY <1>2, <1>4, <1>5 DEF Become
  <2> QED
    BY <1>1, <1>6, <2>1, <2>2, PlacesKept
<1> QED
  BY <1>1, <1>2, <1>4, <1>5, <1>6, <1>7, <1>8, <1>9, <1>10, ConcludeHandler, StayPut

\* Off the ring, and then its queue is cleared: one leg of circuit_free.
LEMMA Released ==
  ASSUME NEW T, Shape(T), Full(T), NEW L, Rings(T, conn, L), NEW l \in Legs,
         conn[l] \in Conns \cup {NoConn}, marked \in [Conns -> BOOLEAN],
         \A o \in Conns : AwakeAt(T, o),
         NEW U, U = ClearQueue(Detach(T, l), l)
  PROVE  /\ Shape(U) /\ Full(U) /\ Stranded(U) \subseteq Stranded(T) \ {l}
         /\ \A o \in Conns : AwakeAt(U, o)
         /\ U.queue = [T.queue EXCEPT ![l] = 0]
         /\ U.next[l] = NoLeg
         /\ \E M : /\ Rings(U, conn, M)
                   /\ \A o \in Conns : M[o] \in Line!Moves(L[o])
                   /\ \A o \in Conns : o # conn[l] => M[o] = L[o]
<1>1. PICK D : D = Detach(T, l)
  OBVIOUS
<1>2. /\ Shape(D) /\ Full(D) /\ Stranded(D) \subseteq Stranded(T) \cup {l}
      /\ D.queue = T.queue /\ D.outbuf = T.outbuf
      /\ D.next[l] = NoLeg
      /\ \A o \in Conns : T.active[o] = NoLeg => D.active[o] = NoLeg
      /\ \E M : /\ Rings(D, conn, M)
                /\ \A o \in Conns : M[o] \in Line!Moves(L[o])
                /\ \A o \in Conns : o # conn[l] => M[o] = L[o]
  <2>1. /\ Shape(T) /\ Rings(T, conn, L) /\ Full(T)
        /\ l \in Legs /\ conn[l] \in Conns \cup {NoConn} /\ D = Detach(T, l)
    BY <1>1
  <2> QED
    BY ONLY <2>1, DetachRings
<1>3. /\ Shape(U) /\ Full(U) /\ Stranded(U) \subseteq Stranded(D) \ {l}
      /\ U.next = D.next /\ U.prev = D.prev
      /\ U.active = D.active /\ U.outbuf = D.outbuf
      /\ U.queue = [D.queue EXCEPT ![l] = 0]
  <2>1. Shape(D) /\ Full(D) /\ D.next[l] = NoLeg /\ U = ClearQueue(D, l)
    BY <1>1, <1>2
  <2> QED
    BY ONLY <2>1, ClearQueueShape, l \in Legs
<1>4. \A o \in Conns : AwakeAt(U, o)
  BY <1>2, <1>3 DEF AwakeAt
<1>5. \E M : /\ Rings(U, conn, M)
             /\ \A o \in Conns : M[o] \in Line!Moves(L[o])
             /\ \A o \in Conns : o # conn[l] => M[o] = L[o]
  BY <1>2, <1>3 DEF Rings
<1> QED
  BY <1>2, <1>3, <1>4, <1>5

\* circuit_free
LEMMA FreeCircuitStep ==
  ASSUME QueueInv, NEW c \in Circuits, FreeCircuit(c)
  PROVE  Proper
<1>1. /\ Idle /\ status[c] = "marked"
      /\ status' = [status EXCEPT ![c] = "none"]
      /\ conn' = [conn EXCEPT ![N(c)] = NoConn, ![P(c)] = NoConn]
      /\ UNCHANGED <<marked, filling, crashed>>
  BY DEF FreeCircuit
<1>2. /\ Shape(Current) /\ Full(Current) /\ Rings(Current, conn, Lines)
      /\ Current.queue = queue /\ Current.next = next
      /\ marked \in [Conns -> BOOLEAN]
      /\ \A p \in Conns : AwakeAt(Current, p)
      /\ \A l \in Stranded(Current) : conn[l] = NoConn \/ status[l[1]] # "live"
      /\ status \in [Circuits -> {"none", "live", "marked"}]
      /\ conn \in [Legs -> Conns \cup {NoConn}]
      /\ N(c) \in Legs /\ P(c) \in Legs /\ N(c) # P(c)
      /\ NoConn \notin Conns /\ Place(c)
  BY <1>1, StartedCircuit
<1>3. PICK l \in Legs : l = N(c)
  BY <1>2
<1>4. PICK m \in Legs : m = P(c)
  BY <1>2
<1>5. PICK T, D, U, L : /\ T = Current /\ L = Lines
                        /\ D = ClearQueue(Detach(T, m), m)
                        /\ U = ClearQueue(Detach(D, l), l)
  OBVIOUS
<1>6. Become(U)
  BY <1>3, <1>4, <1>5 DEF FreeCircuit
<1>7. /\ Shape(D) /\ Full(D) /\ Stranded(D) \subseteq Stranded(T) \ {m}
      /\ \A o \in Conns : AwakeAt(D, o)
      /\ D.queue = [T.queue EXCEPT ![m] = 0]
      /\ D.next[m] = NoLeg
      /\ \E M : /\ Rings(D, conn, M)
                /\ \A o \in Conns : M[o] \in Line!Moves(L[o])
                /\ \A o \in Conns : o # conn[m] => M[o] = L[o]
  <2>1. /\ Shape(T) /\ Full(T) /\ Rings(T, conn, L)
        /\ conn[m] \in Conns \cup {NoConn} /\ marked \in [Conns -> BOOLEAN]
        /\ \A o \in Conns : AwakeAt(T, o)
        /\ D = ClearQueue(Detach(T, m), m)
    BY <1>2, <1>5
  <2> QED
    BY ONLY <2>1, Released, m \in Legs
<1>8. PICK M : /\ Rings(D, conn, M)
               /\ \A o \in Conns : M[o] \in Line!Moves(L[o])
               /\ \A o \in Conns : o # conn[m] => M[o] = L[o]
  BY <1>7
<1>9. /\ Shape(U) /\ Full(U) /\ Stranded(U) \subseteq Stranded(D) \ {l}
      /\ \A o \in Conns : AwakeAt(U, o)
      /\ U.queue = [D.queue EXCEPT ![l] = 0]
      /\ U.next[l] = NoLeg
      /\ \E M2 : /\ Rings(U, conn, M2)
                 /\ \A o \in Conns : M2[o] \in Line!Moves(M[o])
                 /\ \A o \in Conns : o # conn[l] => M2[o] = M[o]
  <2>1. /\ Shape(D) /\ Full(D) /\ Rings(D, conn, M)
        /\ conn[l] \in Conns \cup {NoConn} /\ marked \in [Conns -> BOOLEAN]
        /\ \A o \in Conns : AwakeAt(D, o)
        /\ U = ClearQueue(Detach(D, l), l)
    BY <1>2, <1>5, <1>7, <1>8
  <2> QED
    BY ONLY <2>1, Released, l \in Legs
<1>10. PICK M2 : /\ Rings(U, conn, M2)
                 /\ \A o \in Conns : M2[o] \in Line!Moves(M[o])
                 /\ \A o \in Conns : o # conn[l] => M2[o] = M[o]
  BY <1>9
<1>11. /\ conn' \in [Legs -> Conns \cup {NoConn}]
       /\ conn'[N(c)] = NoConn /\ conn'[P(c)] = NoConn
       /\ \A x \in Legs : x # N(c) /\ x # P(c) => conn'[x] = conn[x]
       /\ status' \in [Circuits -> {"none", "live", "marked"}]
       /\ status'[c] = "none" /\ \A d \in Circuits : d # c => status'[d] = status[d]
  BY <1>1, <1>2
<1>12. /\ U.queue[l] = 0 /\ U.queue[m] = 0
       /\ \A x \in Legs : x # l /\ x # m => U.queue[x] = queue[x]
  <2>1. T.queue \in [Legs -> Nat] /\ T.queue = queue
    BY <1>2, <1>5 DEF Shape
  <2> QED
    BY <1>2, <1>3, <1>4, <1>7, <1>9, <2>1
<1>13. U.next[m] = NoLeg
  <2>1. m \notin Stranded(D)
    BY <1>7
  <2>2. ASSUME U.next[m] # NoLeg PROVE FALSE
    <3>1. U.queue[m] > 0
      BY <1>9, <2>2 DEF Full
    <3> QED
      BY <1>12, <3>1
  <2> QED
    BY <2>2
<1>14. Rings(U, conn', M2)
  <2>1. \A x \in Legs : U.next[x] # NoLeg => conn'[x] = conn[x]
    BY <1>3, <1>4, <1>9, <1>11, <1>13
  <2> QED
    BY <1>10, <2>1, RingsConn
<1>15. ASSUME NEW o \in Conns PROVE M2[o] \in Line!Moves(Lines[o])
  <2>1. CASE o = conn[m]
    <3>1. o # conn[l]
      BY <1>2, <1>3, <1>4, <2>1 DEF Place
    <3> QED
      BY <1>5, <1>8, <1>10, <3>1
  <2>2. CASE o # conn[m]
    BY <1>5, <1>8, <1>10, <2>2
  <2> QED
    BY <2>1, <2>2
<1>16. ASSUME NEW x \in Stranded(U)
       PROVE  conn'[x] = NoConn \/ status'[x[1]] # "live"
  <2>1. x \in Legs /\ x \in Stranded(Current) /\ x # N(c) /\ x # P(c)
    BY <1>3, <1>4, <1>5, <1>7, <1>9 DEF Stranded
  <2>2. x[1] \in Circuits /\ x[1] # c
    BY <2>1, LegFacts
  <2> QED
    BY <1>2, <1>11, <2>1, <2>2
<1>17. \A d \in Circuits : Place(d)'
  <2>1. queue' = U.queue
    BY <1>6 DEF Become
  <2>2. Place(c)'
    BY <1>3, <1>4, <1>11, <1>12, <2>1 DEF Place
  <2> QED
    BY <1>3, <1>4, <1>11, <1>12, <2>1, <2>2, PlacesKept
<1> QED
  BY <1>1, <1>6, <1>9, <1>11, <1>14, <1>15, <1>16, <1>17, ConcludeHandler

\* Padding and NETINFO cells.
LEMMA WriteOtherStep ==
  ASSUME QueueInv, NEW o \in Conns, WriteOther(o)
  PROVE  Proper
<1>1. /\ Idle /\ conn' = conn /\ status' = status
      /\ UNCHANGED <<marked, filling, crashed>>
  BY DEF WriteOther, Calm
<1>2. /\ Shape(Current) /\ Full(Current) /\ Rings(Current, conn, Lines)
      /\ Current.queue = queue
      /\ marked \in [Conns -> BOOLEAN]
  BY CurrentShape
<1>3. /\ \A p \in Conns : AwakeAt(Current, p)
      /\ \A l \in Stranded(Current) : conn[l] = NoConn \/ status[l[1]] # "live"
      /\ status \in [Circuits -> {"none", "live", "marked"}]
      /\ conn \in [Legs -> Conns \cup {NoConn}]
  BY <1>1, Started
<1>4. PICK U : U = WriteOne(Current, o)
  OBVIOUS
<1>5. Become(U)
  BY <1>4 DEF WriteOther, WriteOne
<1>6. /\ Shape(U) /\ U.queue = Current.queue /\ U.next = Current.next
      /\ U.prev = Current.prev /\ U.active = Current.active
      /\ \A p \in Conns : AwakeAt(Current, p) => AwakeAt(U, p)
  <2>1. Shape(Current) /\ marked \in [Conns -> BOOLEAN] /\ U = WriteOne(Current, o)
    BY <1>2, <1>4
  <2> QED
    BY ONLY <2>1, WriteCellsShape, o \in Conns
<1>7. Full(U) /\ Stranded(U) = Stranded(Current) /\ Rings(U, conn', Lines)
  BY <1>1, <1>2, <1>6 DEF Full, Stranded, Rings
<1>8. \A d \in Circuits : Place(d)'
  <2>1. queue' = queue
    BY <1>2, <1>5, <1>6 DEF Become
  <2> QED
    BY <1>1, <2>1 DEF QueueInv, Place
<1>9. /\ conn' \in [Legs -> Conns \cup {NoConn}]
      /\ status' \in [Circuits -> {"none", "live", "marked"}]
      /\ \A x \in Stranded(U) : conn'[x] = NoConn \/ status'[x[1]] # "live"
      /\ \A p \in Conns : filling[p] = 0 => AwakeAt(U, p)
  BY <1>1, <1>3, <1>6, <1>7
<1> QED
  BY <1>1, <1>5, <1>6, <1>7, <1>8, <1>9, ConcludeHandler, StayPut

\* connection_handle_write: the outbuf shrinks, and when it ends below the
\* low-water mark connection_or_flushed_some gets to run.
LEMMA HandleWriteStep ==
  ASSUME QueueInv, NEW o \in Conns, HandleWrite(o)
  PROVE  Proper
<1>1. /\ Idle /\ conn' = conn /\ status' = status /\ queue' = queue
      /\ blocked' = blocked /\ next' = next /\ prev' = prev /\ active' = active
      /\ marked' = marked /\ crashed' = crashed
  BY DEF HandleWrite
<1>2. /\ Shape(Current) /\ Full(Current) /\ Rings(Current, conn, Lines)
      /\ marked \in [Conns -> BOOLEAN]
  BY CurrentShape
<1>3. /\ ~crashed
      /\ \A l \in Stranded(Current) : conn[l] = NoConn \/ status[l[1]] # "live"
      /\ status \in [Circuits -> {"none", "live", "marked"}]
      /\ conn \in [Legs -> Conns \cup {NoConn}]
  BY <1>1, Started
<1>4. PICK left \in 0..(outbuf[o] - 1) :
        /\ outbuf' = [outbuf EXCEPT ![o] = left]
        /\ filling' = [filling EXCEPT ![o] =
             IF left < OR_CONN_LOWWATER /\ active[o] # NoLeg
               THEN OR_CONN_HIGHWATER - left ELSE 0]
  BY DEF HandleWrite
<1>5. /\ outbuf \in [Conns -> Nat] /\ filling \in [Conns -> Nat]
      /\ crashed \in BOOLEAN
      /\ OR_CONN_LOWWATER \in Nat \ {0} /\ OR_CONN_HIGHWATER \in Nat
      /\ OR_CONN_LOWWATER <= OR_CONN_HIGHWATER
  BY CellQueueAssumption DEF QueueInv, TypeOK
<1>6. outbuf[o] \in Nat /\ left \in Nat
  BY <1>4, <1>5
<1>7. left < OR_CONN_LOWWATER => OR_CONN_HIGHWATER - left \in Nat /\ OR_CONN_HIGHWATER - left # 0
  BY <1>5, <1>6
<1>8. outbuf' \in [Conns -> Nat] /\ filling' \in [Conns -> Nat]
  BY <1>4, <1>5, <1>6, <1>7
<1>9. PICK U : U = [Current EXCEPT !.outbuf = outbuf']
  OBVIOUS
<1>10. /\ U.queue = queue /\ U.next = next /\ U.prev = prev /\ U.active = active
       /\ U.blocked = blocked /\ U.outbuf = outbuf'
  BY <1>9 DEF Current
<1>11. /\ Become(U) /\ Full(U) /\ Stranded(U) = Stranded(Current)
       /\ Rings(U, conn', Lines)
  BY <1>1, <1>2, <1>10 DEF Become, Full, Stranded, Rings, Current
<1>12. Shape(U)
  BY <1>2, <1>8, <1>9 DEF Shape
<1>13. ASSUME NEW p \in Conns, filling'[p] = 0, U.active[p] # NoLeg, ~marked'[p]
       PROVE  U.outbuf[p] > 0
  <2>1. CASE p = o
    <3>1. active[o] # NoLeg /\ filling'[o] = 0 /\ outbuf'[o] = left
      BY <1>4, <1>5, <1>10, <1>13, <2>1
    <3>2. ~(left < OR_CONN_LOWWATER)
      BY <1>4, <1>5, <1>7, <3>1
    <3> QED
      BY <1>5, <1>6, <1>10, <2>1, <3>1, <3>2
  <2>2. CASE p # o
    <3>1. filling[p] = 0 /\ active[p] # NoLeg /\ ~marked[p] /\ outbuf'[p] = outbuf[p]
      BY <1>1, <1>4, <1>5, <1>10, <1>13, <2>2
    <3> QED
      BY <1>10, <3>1 DEF QueueInv
  <2> QED
    BY <2>1, <2>2
<1>14. \A d \in Circuits : Place(d)'
  BY <1>1 DEF QueueInv, Place
<1>15. /\ conn' \in [Legs -> Conns \cup {NoConn}]
       /\ status' \in [Circuits -> {"none", "live", "marked"}]
       /\ marked' \in [Conns -> BOOLEAN] /\ crashed' \in BOOLEAN
       /\ \A l \in Stranded(U) : conn'[l] = NoConn \/ status'[l[1]] # "live"
  BY <1>1, <1>2, <1>3, <1>5, <1>11
<1> QED
  BY <1>8, <1>11, <1>12, <1>13, <1>14, <1>15, Conclude, StayPut

\* One iteration of connection_or_flushed_some.
LEMMA FlushedSomeStep ==
  ASSUME QueueInv, NEW o \in Conns, FlushedSome(o)
  PROVE  Proper
<1>1. /\ ~crashed /\ filling[o] > 0 /\ conn' = conn /\ status' = status
      /\ marked' = marked /\ crashed' = crashed
      /\ filling' = [filling EXCEPT ![o] = IF active'[o] = NoLeg THEN 0 ELSE @ - 1]
  BY DEF FlushedSome
<1>2. /\ Shape(Current) /\ Full(Current) /\ Rings(Current, conn, Lines)
      /\ \A p \in Conns : filling[p] = 0 => AwakeAt(Current, p)
      /\ Current.queue = queue /\ Current.next = next
      /\ marked \in [Conns -> BOOLEAN]
  BY CurrentShape
<1>3. /\ status \in [Circuits -> {"none", "live", "marked"}]
      /\ conn \in [Legs -> Conns \cup {NoConn}]
      /\ filling \in [Conns -> Nat] /\ crashed \in BOOLEAN
  BY DEF QueueInv, TypeOK
<1>4. \A l \in Stranded(Current) : conn[l] = NoConn \/ status[l[1]] # "live"
  BY <1>1, <1>2 DEF QueueInv, StrandedOK, Stranded
<1>5. PICK U : U = FlushFirst(Current, o)
  OBVIOUS
<1>6. Become(U)
  BY <1>5 DEF FlushedSome
<1>7. /\ Shape(U) /\ Full(U) /\ Stranded(U) \subseteq Stranded(Current)
      /\ AwakeAt(U, o) /\ OthersAlone(Current, U, o)
      /\ \A m \in Legs : Current.queue[m] = 0 => U.queue[m] = 0
      /\ \E s \in {Lines[o]} \cup Line!Serve(Lines[o]) :
           Rings(U, conn, [Lines EXCEPT ![o] = s])
  <2> PICK T, L, cn : T = Current /\ L = Lines /\ cn = conn
    OBVIOUS
  <2>1. /\ Shape(T) /\ Full(T) /\ Rings(T, cn, L) /\ marked \in [Conns -> BOOLEAN]
        /\ U = FlushFirst(T, o)
    BY <1>2, <1>5
  <2>2. /\ Shape(U) /\ Full(U) /\ Stranded(U) \subseteq Stranded(T)
        /\ AwakeAt(U, o) /\ OthersAlone(T, U, o)
        /\ \A m \in Legs : T.queue[m] = 0 => U.queue[m] = 0
        /\ \E s \in {L[o]} \cup Line!Serve(L[o]) : Rings(U, cn, [L EXCEPT ![o] = s])
    BY <2>1, FlushFirstRings
  <2> QED
    BY <2>2
<1>8. PICK s \in {Lines[o]} \cup Line!Serve(Lines[o]) :
        Rings(U, conn, [Lines EXCEPT ![o] = s])
  BY <1>7
<1>9. s \in Line!Moves(Lines[o])
  <2> PICK t : t = Lines[o]
    OBVIOUS
  <2>1. t \in Line!Join(t)
    BY DEF Line!Join
  <2>2. s \in {t} \cup Line!Serve(t)
    BY <1>8
  <2>3. s \in Line!Moves(t)
    BY ONLY <2>1, <2>2 DEF Line!Moves
  <2> QED
    BY <2>3
<1>10. PICK M : M = [Lines EXCEPT ![o] = s]
  OBVIOUS
<1>11. \A p \in Conns : M[p] \in Line!Moves(Lines[p])
  BY <1>9, <1>10, OneMoves
<1>12. filling' \in [Conns -> Nat] /\ \A p \in Conns : p # o => filling'[p] = filling[p]
  <2>1. filling[o] \in Nat /\ filling[o] - 1 \in Nat
    BY <1>1, <1>3
  <2> QED
    BY <1>1, <1>3, <2>1
<1>13. ASSUME NEW p \in Conns, filling'[p] = 0, U.active[p] # NoLeg, ~marked'[p]
       PROVE  U.outbuf[p] > 0
  <2>1. CASE p = o
    BY <1>1, <1>7, <1>13, <2>1 DEF AwakeAt
  <2>2. CASE p # o
    BY <1>1, <1>2, <1>7, <1>12, <1>13, <2>2 DEF AwakeAt, OthersAlone
  <2> QED
    BY <2>1, <2>2
<1>14. \A d \in Circuits : Place(d)'
  <2>1. \A m \in Legs : queue[m] = 0 => queue'[m] = 0
    BY <1>2, <1>6, <1>7 DEF Become
  <2> QED
    BY <1>1, <2>1, LegFacts DEF QueueInv, Place
<1>15. /\ conn' \in [Legs -> Conns \cup {NoConn}]
       /\ status' \in [Circuits -> {"none", "live", "marked"}]
       /\ marked' \in [Conns -> BOOLEAN] /\ crashed' \in BOOLEAN
       /\ \A l \in Stranded(U) : conn'[l] = NoConn \/ status'[l[1]] # "live"
       /\ Rings(U, conn', M)
  BY <1>1, <1>2, <1>3, <1>4, <1>7, <1>8, <1>10
<1> QED
  BY <1>6, <1>7, <1>11, <1>12, <1>13, <1>14, <1>15, Conclude

\* connection_mark_for_close
LEMMA MarkConnStep ==
  ASSUME QueueInv, NEW o \in Conns, MarkConn(o)
  PROVE  Proper
<1>1. /\ Idle /\ conn' = conn /\ status' = status /\ queue' = queue
      /\ filling' = filling /\ crashed' = crashed
      /\ marked' = [marked EXCEPT ![o] = TRUE]
  BY DEF MarkConn, legVars
<1>2. Become(Current)
  BY DEF MarkConn, legVars, Become, Current
<1>3. /\ Shape(Current) /\ Full(Current) /\ Rings(Current, conn, Lines)
      /\ marked \in [Conns -> BOOLEAN]
      /\ Current.active = active /\ Current.outbuf = outbuf
  BY CurrentShape
<1>4. /\ \A l \in Stranded(Current) : conn[l] = NoConn \/ status[l[1]] # "live"
      /\ status \in [Circuits -> {"none", "live", "marked"}]
      /\ conn \in [Legs -> Conns \cup {NoConn}]
  BY <1>1, Started
<1>5. /\ conn' \in [Legs -> Conns \cup {NoConn}]
      /\ status' \in [Circuits -> {"none", "live", "marked"}]
      /\ marked' \in [Conns -> BOOLEAN] /\ crashed' \in BOOLEAN
      /\ filling' \in [Conns -> Nat]
      /\ \A l \in Stranded(Current) : conn'[l] = NoConn \/ status'[l[1]] # "live"
      /\ Rings(Current, conn', Lines)
  BY <1>1, <1>3, <1>4 DEF QueueInv, TypeOK
<1>6. ASSUME NEW p \in Conns, filling'[p] = 0, Current.active[p] # NoLeg, ~marked'[p]
      PROVE  Current.outbuf[p] > 0
  <2>1. filling[p] = 0 /\ active[p] # NoLeg /\ ~marked[p]
    BY <1>1, <1>3, <1>6
  <2> QED
    BY <1>3, <2>1 DEF QueueInv
<1>7. \A d \in Circuits : Place(d)'
  BY <1>1 DEF QueueInv, Place
<1> QED
  BY <1>2, <1>3, <1>5, <1>6, <1>7, Conclude, StayPut

\* The legs on the ring of o are those that stand in its line: the linked legs
\* that belong to o.
LEMMA OnRingStands ==
  ASSUME QueueInv, NEW o \in Conns
  PROVE  \A l \in Legs : /\ l \in OnRing(o) <=> Stands(l, Lines[o])
                         /\ l \in OnRing(o) <=> conn[l] = o /\ next[l] # NoLeg
<1>1. Lined(next, prev, active, conn, Lines)
  BY DEF QueueInv
<1>2. Lines[o] \in Seq(Legs) /\ Lines[o] = Ring(o)
  BY <1>1 DEF Lined, Lines
<1>3. DOMAIN Ring(o) = 1..Len(Lines[o])
  BY <1>2, LenProperties
<1>4. \A l \in Legs : l \in OnRing(o) <=> Stands(l, Lines[o])
  BY <1>2, <1>3 DEF OnRing, Stands
<1>5. \A l \in Legs : Stands(l, Lines[o]) <=> conn[l] = o /\ next[l] # NoLeg
  BY <1>1 DEF Lined
<1> QED
  BY <1>4, <1>5

\* circuit_unlink_all_from_or_conn
LEMMA CloseConnStep ==
  ASSUME QueueInv, NEW o \in Conns, CloseConn(o)
  PROVE  Proper
<1> DEFINE gone == {l \in Legs : conn[l] = o}
           dying == {c \in Circuits : status[c] = "live" /\
                                      {N(c), P(c)} \cap gone # {}}
           S == {l \in Legs \ gone : l[1] \in dying}
           cut(ptr) == [l \in Legs |-> IF l \in OnRing(o) THEN NoLeg ELSE ptr[l]]
<1>1. PICK T : T = SendDestroys(Current, S)
  OBVIOUS
<1>2. PICK U : U = [T EXCEPT !.next = cut(@), !.prev = cut(@),
                             !.active[o] = NoLeg, !.outbuf[o] = 0]
  OBVIOUS
<1>3. /\ Idle /\ Become(U)
      /\ conn' = [l \in Legs |-> IF l \in gone THEN NoConn ELSE conn[l]]
      /\ status' = [c \in Circuits |-> IF c \in dying THEN "marked" ELSE status[c]]
      /\ marked' = [marked EXCEPT ![o] = FALSE]
      /\ filling' = filling /\ crashed' = crashed
  BY <1>1, <1>2 DEF CloseConn
<1>4. /\ Shape(Current) /\ Full(Current) /\ Rings(Current, conn, Lines)
      /\ Current.queue = queue /\ Current.next = next
      /\ marked \in [Conns -> BOOLEAN]
  BY CurrentShape
<1>5. /\ ~crashed /\ \A p \in Conns : AwakeAt(Current, p)
      /\ \A l \in Stranded(Current) : conn[l] = NoConn \/ status[l[1]] # "live"
      /\ status \in [Circuits -> {"none", "live", "marked"}]
      /\ conn \in [Legs -> Conns \cup {NoConn}]
      /\ NoConn \notin Conns
  BY <1>3, Started
<1>6. /\ Shape(T) /\ T.queue = Current.queue /\ T.next = Current.next
      /\ T.prev = Current.prev /\ T.active = Current.active
      /\ \A p \in Conns : AwakeAt(Current, p) => AwakeAt(T, p)
  <2>1. PICK X, V : X = S /\ V = Current
    OBVIOUS
  <2>2. Shape(V) /\ X \in SUBSET Legs /\ marked \in [Conns -> BOOLEAN]
        /\ T = SendDestroys(V, X)
    BY <1>1, <1>4, <2>1
  <2>3. /\ Shape(T) /\ T.queue = V.queue /\ T.next = V.next
        /\ T.prev = V.prev /\ T.active = V.active
        /\ \A p \in Conns : AwakeAt(V, p) => AwakeAt(T, p)
    BY ONLY <2>2, SendDestroysShape
  <2> QED
    BY <2>1, <2>3
<1>7. /\ U.next = cut(T.next) /\ U.prev = cut(T.prev) /\ U.queue = T.queue
      /\ U.blocked = T.blocked /\ U.active = [T.active EXCEPT ![o] = NoLeg]
      /\ U.outbuf = [T.outbuf EXCEPT ![o] = 0]
      /\ U = [queue |-> U.queue, blocked |-> U.blocked, next |-> U.next,
              prev |-> U.prev, active |-> U.active, outbuf |-> U.outbuf]
  BY <1>2, <1>6 DEF Shape
<1>8. \A l \in Legs : /\ l \in OnRing(o) <=> Stands(l, Lines[o])
                      /\ l \in OnRing(o) <=> conn[l] = o /\ next[l] # NoLeg
  BY OnRingStands
<1>9. PICK M : M = [Lines EXCEPT ![o] = << >>]
  OBVIOUS
<1>10. /\ Rings(U, conn, M)
       /\ \A l \in Legs : U.next[l] # NoLeg <=> T.next[l] # NoLeg /\ conn[l] # o
  <2>1. PICK nxt, prv, act, cn, L, nxt2, prv2, act2 :
          /\ nxt = T.next /\ prv = T.prev /\ act = T.active /\ cn = conn /\ L = Lines
          /\ nxt2 = U.next /\ prv2 = U.prev /\ act2 = U.active
    OBVIOUS
  <2>2. Lined(nxt, prv, act, cn, L)
    BY <1>4, <1>6, <2>1 DEF Rings
  <2>3. /\ nxt2 = Cut(nxt, L[o]) /\ prv2 = Cut(prv, L[o])
        /\ act2 = Headless(act, o) /\ M = Emptied(L, o)
    BY <1>7, <1>8, <1>9, <2>1 DEF Cut, Headless, Emptied
  <2>4. /\ Lined(nxt2, prv2, act2, cn, M)
        /\ \A l \in Legs : nxt2[l] # NoLeg <=> nxt[l] # NoLeg /\ cn[l] # o
    BY ONLY <2>2, <2>3, LinedCut, o \in Conns
  <2> QED
    BY <1>9, <2>1, <2>4 DEF Rings
<1>11. Shape(U)
  <2>1. /\ T.queue \in [Legs -> Nat] /\ T.blocked \in [Legs -> BOOLEAN]
        /\ T.outbuf \in [Conns -> Nat]
    BY <1>6 DEF Shape
  <2>2. U.next \in PointerType /\ U.prev \in PointerType
        /\ U.active \in [Conns -> Legs \cup {NoLeg}]
    BY <1>10 DEF Rings, Lined
  <2>3. U.outbuf \in [Conns -> Nat]
    BY <1>7, <2>1
  <2> HIDE DEF cut
  <2> QED
    BY <1>7, <2>1, <2>2, <2>3 DEF Shape
<1> HIDE DEF cut, S
<1>12. /\ conn' \in [Legs -> Conns \cup {NoConn}]
       /\ \A l \in Legs : conn[l] = o => conn'[l] = NoConn
       /\ \A l \in Legs : conn[l] # o => conn'[l] = conn[l]
  BY <1>3, <1>5
<1>13. /\ status' \in [Circuits -> {"none", "live", "marked"}]
       /\ \A c \in Circuits : status'[c] = "live" =>
            status[c] = "live" /\ conn[N(c)] # o /\ conn[P(c)] # o
       /\ \A c \in Circuits : status[c] # "live" => status'[c] = status[c]
       /\ \A c \in Circuits : status'[c] = "none" => status[c] = "none"
  BY <1>3, <1>5, LegFacts
<1> HIDE DEF dying, gone
<1>14. Rings(U, conn', M)
  <2>1. \A l \in Legs : U.next[l] # NoLeg => conn'[l] = conn[l]
    BY <1>10, <1>12
  <2> QED
    BY <1>10, <2>1, RingsConn
<1>15. Full(U)
  BY <1>4, <1>6, <1>7, <1>10 DEF Full
<1>16. ASSUME NEW l \in Stranded(U)
       PROVE  conn'[l] = NoConn \/ status'[l[1]] # "live"
  <2>1. l \in Legs /\ queue[l] > 0 /\ U.next[l] = NoLeg
    BY <1>4, <1>6, <1>7 DEF Stranded
  <2>2. CASE conn[l] = o
    BY <1>12, <2>1, <2>2
  <2>3. CASE conn[l] # o
    <3>1. l \in Stranded(Current)
      BY <1>4, <1>6, <1>10, <2>1, <2>3 DEF Stranded
    <3>2. l[1] \in Circuits
      BY <2>1, LegFacts
    <3> QED
      BY <1>5, <1>12, <1>13, <2>1, <2>3, <3>1, <3>2
  <2> QED
    BY <2>2, <2>3
<1>17. ASSUME NEW p \in Conns, filling'[p] = 0, U.active[p] # NoLeg, ~marked'[p]
       PROVE  U.outbuf[p] > 0
  <2>1. T.active \in [Conns -> Legs \cup {NoLeg}] /\ T.outbuf \in [Conns -> Nat]
    BY <1>6 DEF Shape
  <2>2. p # o
    BY <1>7, <1>17, <2>1
  <2>3. T.active[p] # NoLeg /\ ~marked[p] /\ U.outbuf[p] = T.outbuf[p]
    BY <1>3, <1>4, <1>7, <1>17, <2>1, <2>2
  <2> QED
    BY <1>5, <1>6, <2>3 DEF AwakeAt
<1>18. ASSUME NEW c \in Circuits PROVE Place(c)'
  <2>1. Place(c)
    BY DEF QueueInv
  <2>2. N(c) \in Legs /\ P(c) \in Legs
    BY LegFacts
  <2>3. queue' = queue
    BY <1>3, <1>4, <1>6, <1>7 DEF Become
  <2>4. status'[c] = "none" => conn'[N(c)] = NoConn /\ conn'[P(c)] = NoConn
                               /\ queue'[N(c)] = 0 /\ queue'[P(c)] = 0
    BY <1>12, <1>13, <2>1, <2>2, <2>3 DEF Place
  <2>5. status'[c] = "live" /\ c \notin Origins => conn'[P(c)] # NoConn
    BY <1>12, <1>13, <2>1, <2>2 DEF Place
  <2>6. conn'[N(c)] # NoConn => conn'[N(c)] # conn'[P(c)]
    BY <1>12, <2>1, <2>2 DEF Place
  <2> QED
    BY <2>4, <2>5, <2>6 DEF Place
<1>19. \A p \in Conns : M[p] \in Line!Moves(Lines[p])
  <2>1. PICK s : s = << >>
    OBVIOUS
  <2>2. s \in Line!Moves(Lines[o])
    BY <2>1 DEF Line!Moves
  <2>3. M = [Lines EXCEPT ![o] = s]
    BY <1>9, <2>1
  <2> QED
    BY <2>2, <2>3, OneMoves
<1>20. marked' \in [Conns -> BOOLEAN] /\ crashed' \in BOOLEAN /\ filling' \in [Conns -> Nat]
  BY <1>3, <1>4 DEF QueueInv, TypeOK
<1> QED
  BY <1>3, <1>11, <1>12, <1>13, <1>14, <1>15, <1>16, <1>17, <1>18, <1>19, <1>20,
     Conclude

\* Nothing happens.
LEMMA Stuttering ==
  ASSUME QueueInv, UNCHANGED vars
  PROVE  Proper
<1>1. /\ conn' = conn /\ status' = status /\ queue' = queue
      /\ UNCHANGED <<marked, filling, crashed>>
  BY DEF vars, legVars
<1>2. Become(Current)
  BY DEF vars, legVars, Become, Current
<1>3. /\ Shape(Current) /\ Full(Current) /\ Rings(Current, conn, Lines)
      /\ \A o \in Conns : filling[o] = 0 => AwakeAt(Current, o)
      /\ Current.queue = queue /\ Current.next = next
      /\ Current.active = active /\ Current.outbuf = outbuf
  BY CurrentShape
<1>4. \A d \in Circuits : Place(d)'
  BY <1>1 DEF QueueInv, Place
<1>5. /\ conn' \in [Legs -> Conns \cup {NoConn}]
      /\ status' \in [Circuits -> {"none", "live", "marked"}]
      /\ marked' \in [Conns -> BOOLEAN] /\ filling' \in [Conns -> Nat]
      /\ crashed' \in BOOLEAN
      /\ Rings(Current, conn', Lines)
  BY <1>1, <1>3 DEF QueueInv, TypeOK
<1>6. ~crashed' => \A l \in Stranded(Current) :
                     conn'[l] = NoConn \/ status'[l[1]] # "live"
  BY <1>1, <1>3 DEF QueueInv, StrandedOK, Stranded
<1>7. \A o \in Conns :
        filling'[o] = 0 /\ Current.active[o] # NoLeg /\ ~marked'[o]
          => Current.outbuf[o] > 0
  BY <1>1, <1>3 DEF QueueInv
<1> QED
  BY <1>2, <1>3, <1>4, <1>5, <1>6, <1>7, Conclude, StayPut

\* Every step keeps the invariant and moves the rings as RoundRobin allows.
LEMMA NextStep ==
  ASSUME QueueInv, [Next]_vars
  PROVE  Proper
<1>1. ASSUME NEW c \in Circuits,
             \/ NewCircuit(c) \/ Truncate(c) \/ DestroyFromAhead(c)
             \/ DestroyFromBehind(c) \/ MarkCircuit(c) \/ FreeCircuit(c)
      PROVE  Proper
  BY <1>1, NewCircuitStep, TruncateStep, DestroyFromAheadStep,
     DestroyFromBehindStep, MarkCircuitStep, FreeCircuitStep
<1>2. ASSUME NEW c \in Circuits, NEW o \in Conns, Extend(c, o) \/ ExtendNoId(c, o)
      PROVE  Proper
  BY <1>2, ExtendStep, ExtendNoIdStep
<1>3. ASSUME NEW l \in Legs, AppendCell(l)
      PROVE  Proper
  BY <1>3, AppendCellStep
<1>4. ASSUME NEW o \in Conns,
             \/ WriteOther(o) \/ HandleWrite(o) \/ FlushedSome(o)
             \/ MarkConn(o) \/ CloseConn(o)
      PROVE  Proper
  BY <1>4, WriteOtherStep, HandleWriteStep, FlushedSomeStep, MarkConnStep,
     CloseConnStep
<1> QED
  BY <1>1, <1>2, <1>3, <1>4, Stuttering DEF Next

\* At first every line is empty.
LEMMA EmptyLines ==
  ASSUME Init
  PROVE  Lines = [o \in Conns |-> << >>]
<1>1. ASSUME NEW o \in Conns PROVE Ring(o) = << >>
  <2>1. PICK s, n, head : s = << >> /\ n = 0 /\ head = active[o]
    OBVIOUS
  <2>2. Circle(next, prev, s, n)
    BY <2>1 DEF Circle
  <2>3. head = IF n = 0 THEN NoLeg ELSE s[1]
    BY <2>1 DEF Init
  <2>4. PICK nxt, prv : nxt = next /\ prv = prev
    OBVIOUS
  <2>5. Circle(nxt, prv, s, n)
    BY <2>2, <2>4
  <2>6. RingOf(nxt, head) = s
    BY ONLY <2>3, <2>5, WalkIsLine
  <2> QED
    BY <2>1, <2>4, <2>6 DEF Ring
<1> QED
  BY <1>1 DEF Lines

\* The invariant holds at first.
LEMMA InitInv == Init => QueueInv
<1> SUFFICES ASSUME Init PROVE QueueInv
  OBVIOUS
<1>1. TypeOK
  BY DEF Init, TypeOK
<1>2. PICK s : s = << >>
  OBVIOUS
<1>3. s \in Seq(Legs) /\ Len(s) = 0
  BY <1>2
<1>4. \A o \in Conns : Lines[o] = s
  BY <1>2, EmptyLines
<1>5. Lines \in [Conns -> Seq(Legs)]
  BY <1>2, <1>3, EmptyLines
<1>6. Circle(next, prev, s, 0)
  BY <1>2 DEF Circle
<1>7. \A l : ~Stands(l, s)
  BY <1>3 DEF Stands
<1>8. \A l \in Legs : next[l] = NoLeg /\ prev[l] = NoLeg
  BY DEF Init
<1>9. next \in PointerType /\ prev \in PointerType
      /\ active = [o \in Conns |-> NoLeg]
  BY DEF Init, PointerType
<1>10. Lined(next, prev, active, conn, Lines)
  BY <1>3, <1>4, <1>5, <1>6, <1>7, <1>8, <1>9 DEF Lined
<1>11. StrandedOK /\ \A c \in Circuits : Place(c)
  BY LegFacts DEF Init, StrandedOK, Place
<1> QED
  BY <1>1, <1>8, <1>10, <1>11 DEF QueueInv, Init

-----------------------------------------------------------------------------
(* The theorems.                                                           *)

\* The inductive invariant of the queues and rings: the pointers describe one
\* line per connection, the legs in it have cells, cells that nobody sends
\* belong to circuits that have let go, and connections with work are awake.
THEOREM QueueInvHolds == Spec => []QueueInv
<1>1. QueueInv /\ [Next]_vars => QueueInv'
  BY NextStep DEF Proper
<1> QED
  BY <1>1, InitInv, PTL DEF Spec

\* Type correctness of the cell queues.
THEOREM TypeCorrect == Spec => []TypeOK
<1>1. QueueInv => TypeOK
  BY DEF QueueInv
<1> QED
  BY <1>1, QueueInvHolds, PTL

\* assert_active_circuits_ok never fails: the neighbours on a ring point at each
\* other and belong to the same connection, whatever the handlers do.
THEOREM RingsHold == Spec => []RingOK
<1>1. QueueInv => RingOK
  <2> SUFFICES ASSUME QueueInv PROVE RingOK
    OBVIOUS
  <2>1. Lined(next, prev, active, conn, Lines)
    BY DEF QueueInv
  <2>2. /\ \A o \in Conns : Circle(next, prev, Lines[o], Len(Lines[o]))
        /\ \A o \in Conns : Lines[o] \in Seq(Legs)
        /\ \A l \in Legs : next[l] # NoLeg => conn[l] \in Conns
        /\ \A l \in Legs : next[l] = NoLeg <=> prev[l] = NoLeg
        /\ \A o \in Conns, l \in Legs :
             Stands(l, Lines[o]) <=> conn[l] = o /\ next[l] # NoLeg
        /\ \A o \in Conns :
             active[o] = IF Len(Lines[o]) = 0 THEN NoLeg ELSE Lines[o][1]
    BY <2>1 DEF Lined
  <2>3. ASSUME NEW l \in Legs, next[l] # NoLeg
        PROVE  /\ conn[l] # NoConn /\ prev[l] # NoLeg
               /\ prev[next[l]] = l /\ next[prev[l]] = l
               /\ conn[next[l]] = conn[l]
    <3>1. PICK o \in Conns : o = conn[l]
      BY <2>2, <2>3
    <3>2. PICK s, n : s = Lines[o] /\ n = Len(Lines[o])
      OBVIOUS
    <3>3. PICK i \in 1..n : s[i] = l
      BY <2>2, <2>3, <3>1, <3>2 DEF Stands
    <3>4. n \in Nat
      BY <2>2, <3>2, LenProperties
    <3>5. /\ s \in [1..n -> Legs]
          /\ \A j \in 1..n : next[s[j]] = s[After(j, n)] /\ prev[s[j]] = s[Before(j, n)]
      BY <2>2, <3>2 DEF Circle
    <3>6. /\ After(i, n) \in 1..n /\ Before(i, n) \in 1..n
          /\ Before(After(i, n), n) = i /\ After(Before(i, n), n) = i
      BY <3>4, Neighbours
    <3>7. prev[next[l]] = l /\ next[prev[l]] = l
      BY <3>3, <3>5, <3>6
    <3>8. next[l] \in Legs /\ Stands(next[l], s)
      BY <3>2, <3>3, <3>5, <3>6 DEF Stands
    <3>9. conn[next[l]] = o
      BY <2>2, <3>2, <3>8
    <3> QED
      BY <2>2, <2>3, <3>1, <3>7, <3>9, CellQueueAssumption
  <2>4. ASSUME NEW o \in Conns, active[o] # NoLeg
        PROVE  conn[active[o]] = o /\ next[active[o]] # NoLeg
    <3>1. Len(Lines[o]) \in Nat /\ Len(Lines[o]) # 0 /\ active[o] = Lines[o][1]
      BY <2>2, <2>4, LenProperties
    <3>2. 1 \in 1..Len(Lines[o])
      BY <3>1
    <3>3. Stands(active[o], Lines[o])
      BY <3>1, <3>2 DEF Stands
    <3>4. active[o] \in Legs
      BY <2>4 DEF QueueInv, TypeOK
    <3> QED
      BY <2>2, <3>3, <3>4
  <2> QED
    BY <2>2, <2>3, <2>4 DEF RingOK
<1> QED
  BY <1>1, QueueInvHolds, PTL

\* No cell of a live circuit is stranded and no circuit without cells is given a
\* turn.
THEOREM NobodyStranded == Spec => []ActiveIffQueued
<1>1. QueueInv => ActiveIffQueued
  <2> SUFFICES ASSUME QueueInv, ~crashed, NEW l \in Legs, conn[l] # NoConn
               PROVE  /\ l \in OnRing(conn[l]) => queue[l] > 0
                      /\ queue[l] > 0 /\ status[l[1]] = "live" => l \in OnRing(conn[l])
    BY DEF ActiveIffQueued
  <2>1. PICK o \in Conns : o = conn[l]
    BY DEF QueueInv, TypeOK
  <2>2. l \in OnRing(o) <=> next[l] # NoLeg
    BY <2>1, OnRingStands
  <2> QED
    BY <2>1, <2>2 DEF QueueInv, StrandedOK
<1> QED
  BY <1>1, QueueInvHolds, PTL

\* No wakeup is lost: between two handlers a connection with active circuits has
\* something on its outbuf, so connection_or_flushed_some will run again.
THEOREM NeverAsleep == Spec => []NoLostWakeup
<1>1. QueueInv => NoLostWakeup
  BY DEF QueueInv, NoLostWakeup, Idle
<1> QED
  BY <1>1, QueueInvHolds, PTL

\* The rings implement RoundRobin: every handler moves every line as the
\* abstract specification allows, so nobody is ever overtaken.
THEOREM Refines == Spec => ImplementsRoundRobin
<1>1. Init => Line!Init
  BY EmptyLines DEF Lines, Line!Init
<1>2. QueueInv /\ [Next]_vars => [Line!Next]_[o \in Conns |-> Ring(o)]
  <2> SUFFICES ASSUME QueueInv, [Next]_vars
               PROVE  Line!Next
    OBVIOUS
  <2>1. \A o \in Conns : Lines'[o] \in Line!Moves(Lines[o])
    BY NextStep DEF Proper
  <2>2. Lines' = [o \in Conns |-> Lines'[o]]
    BY DEF Lines
  <2> QED
    BY <2>1, <2>2 DEF Line!Next, Lines
<1> QED
  BY <1>1, <1>2, QueueInvHolds, PTL DEF Spec, ImplementsRoundRobin, Line!Spec
=============================================================================
