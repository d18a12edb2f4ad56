-------------------------- MODULE CpuWorkerProofs --------------------------
(***************************************************************************)
(* Proofs about CpuWorker, for every set of circuits, connections and      *)
(* workers, every number of processors and every length of the queue.      *)
(*                                                                         *)
(* The functions of the model take a state T to a set of states.  Good(T)  *)
(* is the inductive invariant, stated of such a T; each function gets a    *)
(* lemma that it leaves a good state, and the actions follow from those.   *)
(***************************************************************************)
EXTENDS CpuWorker, FiniteSetTheorems, SequenceTheorems, FunctionTheorems, TLAPS

----------------------------------------------------------------------------
(* Queues: filtering, and moving an element to the end.                  *)

\* In a finite set of integers, the elements are ranked 1, 2, ... without gaps:
\* what makes Keep well defined.
LEMMA RankBijective ==
  ASSUME NEW P \in SUBSET Int, IsFiniteSet(P)
  PROVE  /\ Cardinality(P) \in Nat
         /\ \A i \in P : Rank(P, i) \in 1..Cardinality(P)
         /\ \A i, j \in P : Rank(P, i) = Rank(P, j) => i = j
         /\ \A k \in 1..Cardinality(P) : \E i \in P : Rank(P, i) = k
<1> DEFINE n == Cardinality(P)
           below(i) == {j \in P : j <= i}
<1>1. n \in Nat
  BY FS_CardinalityType
<1>2. ASSUME NEW i \in P
      PROVE  /\ IsFiniteSet(below(i)) /\ Rank(P, i) = Cardinality(below(i))
             /\ Rank(P, i) \in 1..n
  <2>1. below(i) \subseteq P /\ i \in below(i)
    OBVIOUS
  <2>2. IsFiniteSet(below(i)) /\ Cardinality(below(i)) <= n
    BY <2>1, FS_Subset
  <2>3. Cardinality(below(i)) \in Nat /\ Cardinality(below(i)) # 0
    BY <2>1, <2>2, FS_CardinalityType, FS_EmptySet
  <2>4. Rank(P, i) = Cardinality(below(i))
    BY DEF Rank
  <2> QED
    BY <1>1, <2>2, <2>3, <2>4
<1>3. ASSUME NEW i \in P, NEW j \in P, i < j
      PROVE  Rank(P, i) # Rank(P, j)
  <2>1. below(i) \subseteq below(j) /\ below(i) # below(j)
    <3>1. j \in below(j) /\ j \notin below(i)
      BY <1>3
    <3>2. ASSUME NEW x \in below(i) PROVE x \in below(j)
      <4>1. x \in Int /\ i \in Int /\ j \in Int /\ x <= i
        OBVIOUS
      <4> QED
        BY <1>3, <4>1
    <3> QED
      BY <3>1, <3>2
  <2>2. IsFiniteSet(below(j))
    BY <1>2
  <2>3. Cardinality(below(i)) # Cardinality(below(j))
    BY <2>1, <2>2, FS_Subset
  <2> QED
    BY <1>2, <2>3
<1>4. \A i, j \in P : Rank(P, i) = Rank(P, j) => i = j
  <2> SUFFICES ASSUME NEW i \in P, NEW j \in P, i # j
               PROVE  Rank(P, i) # Rank(P, j)
    OBVIOUS
  <2>1. i < j \/ j < i
    OBVIOUS
  <2> QED
    BY <1>3, <2>1
<1>5. ASSUME NEW k \in 1..n PROVE \E i \in P : Rank(P, i) = k
  <2> DEFINE f == [i \in P |-> Rank(P, i)]
             R == {Rank(P, i) : i \in P}
  <2>1. f \in Bijection(P, R)
    BY <1>4 DEF Bijection, Injection, IsInjective, Surjection
  <2>2. IsFiniteSet(R) /\ Cardinality(R) = n
    BY <2>1, FS_Bijection DEF ExistsBijection
  <2>3. R \subseteq 1..n
    BY <1>2
  <2>4. IsFiniteSet(1..n) /\ Cardinality(1..n) = n
    BY <1>1, FS_Interval
  <2>5. R = 1..n
    BY <2>2, <2>3, <2>4, FS_Subset
  <2> QED
    BY <2>5
<1> QED
  BY <1>1, <1>2, <1>4, <1>5

\* No element occurs twice.
Distinct(q) == \A i, j \in DOMAIN q : q[i] = q[j] => i = j

\* Keep(q, S) has exactly the elements of q that are in S, each as often as q.
LEMMA KeepProperties ==
  ASSUME NEW X, NEW q \in Seq(X), NEW S, NEW L, L = Keep(q, S)
  PROVE  /\ L \in Seq(X)
         /\ \A k \in DOMAIN L : L[k] \in S /\ \E i \in DOMAIN q : q[i] = L[k]
         /\ \A i \in DOMAIN q : q[i] \in S => \E k \in DOMAIN L : L[k] = q[i]
         /\ Distinct(q) => Distinct(L)
<1> DEFINE P == Places(q, S)
           n == Cardinality(P)
           nth(k) == CHOOSE i \in P : Rank(P, i) = k
<1>1. DOMAIN q = 1..Len(q) /\ Len(q) \in Nat
  BY LenProperties
<1>2. P \subseteq 1..Len(q) /\ IsFiniteSet(P) /\ P \in SUBSET Int
  <2>1. P \subseteq 1..Len(q)
    BY <1>1 DEF Places
  <2>2. IsFiniteSet(1..Len(q))
    BY <1>1, FS_Interval
  <2> QED
    BY <2>1, <2>2, FS_Subset
<1>3. \A i \in P : i \in DOMAIN q /\ q[i] \in S /\ q[i] \in X
  BY <1>1, LenProperties DEF Places
<1>a. \A i \in DOMAIN q : q[i] \in S => i \in P
  BY DEF Places
<1> HIDE DEF P
<1>4. /\ n \in Nat
      /\ \A i \in P : Rank(P, i) \in 1..n
      /\ \A i, j \in P : Rank(P, i) = Rank(P, j) => i = j
      /\ \A k \in 1..n : \E i \in P : Rank(P, i) = k
  BY <1>2, RankBijective
<1>5. \A k \in 1..n : nth(k) \in P /\ Rank(P, nth(k)) = k
  BY <1>4
<1>6. L = [k \in 1..n |-> q[nth(k)]]
  BY DEF Keep, P
<1> HIDE DEF nth, n
<1>7. DOMAIN L = 1..n /\ \A k \in 1..n : L[k] = q[nth(k)]
  BY <1>6
<1>8. L \in Seq(X)
  BY <1>3, <1>4, <1>5, <1>6, SeqDef
<1>9. ASSUME NEW i \in DOMAIN q, q[i] \in S
      PROVE  \E k \in DOMAIN L : L[k] = q[i]
  <2>1. i \in P
    BY <1>9, <1>a
  <2>2. Rank(P, i) \in 1..n /\ nth(Rank(P, i)) = i
    BY <1>4, <1>5, <2>1
  <2> QED
    BY <1>7, <2>2
<1>10. ASSUME Distinct(q),
              NEW k \in DOMAIN L, NEW l \in DOMAIN L,
              L[k] = L[l]
       PROVE  k = l
  <2>1. nth(k) = nth(l)
    BY <1>3, <1>5, <1>7, <1>10 DEF Distinct
  <2> QED
    BY <1>5, <1>7, <2>1
<1>11. \A k \in DOMAIN L :
         L[k] \in S /\ \E i \in DOMAIN q : q[i] = L[k]
  BY <1>3, <1>5, <1>7
<1> QED
  BY <1>8, <1>9, <1>10, <1>11 DEF Distinct

\* The k oldest elements leave a queue and a new one joins it.
LEMMA RequeueProperties ==
  ASSUME NEW X, NEW q \in Seq(X), NEW c \in X, NEW k \in 0..Len(q),
         NEW L, L = SubSeq(q, k + 1, Len(q)) \o <<c>>
  PROVE  /\ L \in Seq(X)
         /\ DOMAIN L = 1..(Len(q) - k + 1)
         /\ L[Len(q) - k + 1] = c
         /\ \A i \in 1..(Len(q) - k) : L[i] = q[k + i]
<1> DEFINE n == Len(q)
           R == SubSeq(q, k + 1, n)
<1>1. n \in Nat /\ DOMAIN q = 1..n /\ \A i \in 1..n : q[i] \in X
  BY LenProperties
<1>2. \A i \in (k + 1)..n : q[i] \in X
  BY <1>1
<1>3. /\ R \in Seq(X)
      /\ Len(R) = IF k + 1 <= n THEN n - (k + 1) + 1 ELSE 0
      /\ \A i \in 1..(n - (k + 1) + 1) : R[i] = q[k + 1 + i - 1]
  BY <1>1, <1>2, SubSeqProperties
<1> HIDE DEF R
<1>4. /\ R \in Seq(X) /\ Len(R) = n - k
      /\ \A i \in 1..(n - k) : R[i] = q[k + i]
  <2> HIDE DEF n
  <2>1. n \in Nat /\ k \in Nat /\ k <= n
    BY <1>1 DEF n
  <2>2. Len(R) = n - k
    BY <1>3, <2>1
  <2>3. ASSUME NEW i \in 1..(n - k) PROVE R[i] = q[k + i]
    <3>1. i \in 1..(n - (k + 1) + 1) /\ k + 1 + i - 1 = k + i
      BY <2>1
    <3> QED
      BY <1>3, <3>1
  <2> QED
    BY <1>3, <2>2, <2>3
<1>5. <<c>> \in Seq(X) /\ Len(<<c>>) = 1 /\ <<c>>[1] = c
  OBVIOUS
<1>6. /\ L \in Seq(X) /\ Len(L) = Len(R) + Len(<<c>>)
      /\ \A i \in 1..(Len(R) + Len(<<c>>)) :
           L[i] = IF i <= Len(R) THEN R[i] ELSE <<c>>[i - Len(R)]
  <2>1. L = R \o <<c>>
    BY DEF R
  <2> QED
    BY <1>4, <1>5, <2>1, ConcatProperties
<1>7. n - k \in Nat
  BY <1>1
<1>8. Len(L) = n - k + 1 /\ L[n - k + 1] = c
  <2>1. n - k + 1 \in 1..(Len(R) + Len(<<c>>)) /\ ~(n - k + 1 <= Len(R))
        /\ n - k + 1 - Len(R) = 1
    <3> DEFINE d == n - k
    <3>1. d \in Nat /\ Len(R) = d
      BY <1>4, <1>7
    <3> HIDE DEF d
    <3>2. d + 1 \in 1..(Len(R) + Len(<<c>>)) /\ ~(d + 1 <= Len(R))
          /\ d + 1 - Len(R) = 1
      BY <1>5, <3>1
    <3> QED
      BY <3>2 DEF d
  <2> QED
    BY ONLY <1>4, <1>5, <1>6, <1>7, <2>1
<1>9. \A i \in 1..(n - k) : L[i] = q[k + i]
  BY <1>4, <1>5, <1>6, <1>7
<1>10. DOMAIN L = 1..(n - k + 1)
  BY <1>6, <1>8, LenProperties
<1> QED
  BY <1>6, <1>8, <1>9, <1>10

USE CpuWorkerAssumption

----------------------------------------------------------------------------
(* The inductive invariant.                                                *)

CircStates == {"none", "pending", "open", "marked", "freed"}
WorkerStates == {"none", "idle", "busy", "closing"}

States ==
  [state : [Circuits -> CircStates],
   linked : [Circuits -> BOOLEAN],
   ol_list : Seq(Circuits),
   worker : [Workers -> WorkerStates],
   job : [Workers -> Circuits \cup {NoCirc}],
   reply : [Workers -> {"none", "ok", "bad"}],
   old : [Workers -> BOOLEAN],
   num : Int, busy : Int, crashed : BOOLEAN]

\* num_cpuworkers_busy also counts workers whose connection failed, so it is only
\* bounded below by the number of busy ones.
Counted(T) ==
  /\ T.num - T.busy = Cardinality(In(T, "idle"))
  /\ Cardinality(In(T, "busy")) <= T.busy

OnList(T, c) == \E i \in DOMAIN T.ol_list : T.ol_list[i] = c

ListOK(q, st, li) ==
  /\ \A i \in DOMAIN q : st[q[i]] = "pending" /\ li[q[i]]
  /\ \A i, j \in DOMAIN q : q[i] = q[j] => i = j

Listed(T) == ListOK(T.ol_list, T.state, T.linked)

\* A busy worker works for a circuit that was created, and that does not wait.
AskOK(B, jobs, st, q) ==
  \A w \in B : /\ jobs[w] \in Circuits /\ st[jobs[w]] # "none"
               /\ ~\E i \in DOMAIN q : q[i] = jobs[w]

Asked(T) == AskOK(In(T, "busy"), T.job, T.state, T.ol_list)

Sound(T) == T \in States /\ Counted(T)

Queued(T) == Listed(T) /\ Asked(T) /\ ~T.crashed

\* A peer does not use a circuit id again.  Without this a late answer can open
\* another circuit than the one it is for, while that one waits on ol_list.
TagsDistinct == \A c, d \in Circuits : TagOf[c] = TagOf[d] => c = d

Good(T) == Sound(T) /\ (TagsDistinct => Queued(T))

\* The circuit c may be queued or given to a worker.
Ready(T, c) ==
  /\ T.state[c] = "pending" /\ T.linked[c] /\ ~OnList(T, c)
  /\ \A w \in In(T, "busy") : T.job[w] # c

----------------------------------------------------------------------------
(* States as records.                                                      *)

St(st, li, ol, wo, jo, re, ag, nu, bu, cr) ==
  [state |-> st, linked |-> li, ol_list |-> ol, worker |-> wo, job |-> jo,
   reply |-> re, old |-> ag, num |-> nu, busy |-> bu, crashed |-> cr]

\* The parts of a state have the types States gives them.
LEMMA Fields ==
  ASSUME NEW T \in States
  PROVE  /\ T.state \in [Circuits -> CircStates]
         /\ T.linked \in [Circuits -> BOOLEAN]
         /\ T.ol_list \in Seq(Circuits)
         /\ T.worker \in [Workers -> WorkerStates]
         /\ T.job \in [Workers -> Circuits \cup {NoCirc}]
         /\ T.reply \in [Workers -> {"none", "ok", "bad"}]
         /\ T.old \in [Workers -> BOOLEAN]
         /\ T.num \in Int /\ T.busy \in Int /\ T.crashed \in BOOLEAN
BY DEF States

\* After Become(T) the variables are those of T.
LEMMA BecomeIs ==
  ASSUME NEW T \in States, Become(T)
  PROVE  Current' = T
<1>1. T = St(T.state, T.linked, T.ol_list, T.worker, T.job, T.reply, T.old,
             T.num, T.busy, T.crashed)
  BY DEF States, St
<1>2. Current' = St(T.state, T.linked, T.ol_list, T.worker, T.job, T.reply,
                    T.old, T.num, T.busy, T.crashed)
  BY DEF Become, Current, St
<1> QED
  BY <1>1, <1>2

----------------------------------------------------------------------------
(* Counting workers.                                                       *)

\* The workers in one state are finitely many, and so is any set of them.
LEMMA InFinite ==
  ASSUME NEW T, NEW s
  PROVE  /\ IsFiniteSet(In(T, s)) /\ Cardinality(In(T, s)) \in Nat
         /\ \A S \in SUBSET In(T, s) : IsFiniteSet(S) /\ Cardinality(S) \in Nat
<1>1. IsFiniteSet(Workers) /\ In(T, s) \subseteq Workers
  BY DEF In
<1>2. \A S \in SUBSET Workers : IsFiniteSet(S) /\ Cardinality(S) \in Nat
  BY <1>1, FS_Subset, FS_CardinalityType
<1> QED
  BY <1>1, <1>2

\* Taking a set out of a finite set ...
LEMMA CardMinus ==
  ASSUME NEW A, IsFiniteSet(A), NEW S \in SUBSET A
  PROVE  Cardinality(A \ S) = Cardinality(A) - Cardinality(S)
<1>1. A \cap S = S /\ IsFiniteSet(S)
  BY FS_Subset
<1> QED
  BY <1>1, FS_Difference

\* ... or adding a disjoint one.
LEMMA CardPlus ==
  ASSUME NEW A, NEW B, IsFiniteSet(A), IsFiniteSet(B), A \cap B = {}
  PROVE  Cardinality(A \cup B) = Cardinality(A) + Cardinality(B)
<1>1. Cardinality(A \cap B) = 0
  BY FS_EmptySet
<1>2. Cardinality(A) \in Nat /\ Cardinality(B) \in Nat
  BY FS_CardinalityType
<1>3. Cardinality(A \cup B)
        = Cardinality(A) + Cardinality(B) - Cardinality(A \cap B)
  BY FS_Union
<1> QED
  BY <1>1, <1>2, <1>3

\* The same for a single worker.
LEMMA CardOne ==
  ASSUME NEW A, IsFiniteSet(A), NEW x
  PROVE  /\ x \in A => Cardinality(A \ {x}) = Cardinality(A) - 1
         /\ x \notin A => Cardinality(A \cup {x}) = Cardinality(A) + 1
         /\ Cardinality(A) \in Nat
<1>1. IsFiniteSet({x}) /\ Cardinality({x}) = 1
  BY FS_Singleton
<1>2. ASSUME x \in A PROVE Cardinality(A \ {x}) = Cardinality(A) - 1
  BY <1>1, <1>2, CardMinus
<1>3. ASSUME x \notin A PROVE Cardinality(A \cup {x}) = Cardinality(A) + 1
  <2>1. A \cap {x} = {}
    BY <1>3
  <2> QED
    BY <1>1, <2>1, CardPlus
<1> QED
  BY <1>2, <1>3, FS_CardinalityType

----------------------------------------------------------------------------
(* The functions of cpuworker.c and onion.c.                               *)

\* Between T and U no circuit has changed its state but by being marked.
OnlyMarks(T, U) ==
  \A d \in Circuits : U.state[d] = T.state[d] \/ U.state[d] = "marked"

\* cull_wedged_cpuworkers gives up busy workers and nothing else.
LEMMA CullsGood ==
  ASSUME NEW T, Good(T), NEW U \in Culls(T)
  PROVE  /\ Good(U)
         /\ In(U, "idle") = In(T, "idle") /\ In(U, "busy") \subseteq In(T, "busy")
         /\ U.state = T.state /\ U.linked = T.linked
         /\ U.ol_list = T.ol_list /\ U.job = T.job
<1>1. PICK S \in SUBSET In(T, "busy") :
        U = [T EXCEPT !.worker = SetAll(@, S, "closing"),
                      !.num = @ - Cardinality(S), !.busy = @ - Cardinality(S)]
  BY DEF Culls
<1>2. T \in States
  BY DEF Good, Sound
<1>3. Cardinality(S) \in Nat /\ S \subseteq Workers
  BY InFinite DEF In
<1>4. U = St(T.state, T.linked, T.ol_list, SetAll(T.worker, S, "closing"),
             T.job, T.reply, T.old, T.num - Cardinality(S),
             T.busy - Cardinality(S), T.crashed)
  BY <1>1, <1>2 DEF States, St
<1>5. U \in States
  <2>1. SetAll(T.worker, S, "closing")
          \in [Workers -> WorkerStates]
    BY <1>2, <1>3, Fields DEF SetAll, WorkerStates
  <2>2. T.num - Cardinality(S) \in Int /\ T.busy - Cardinality(S) \in Int
    BY <1>2, <1>3, Fields
  <2> QED
    BY <1>2, <1>4, <2>1, <2>2, Fields DEF States, St
<1>6. /\ In(U, "idle") = In(T, "idle")
      /\ In(U, "busy") = In(T, "busy") \ S
  BY <1>2, <1>4, Fields DEF In, SetAll, St
<1>7. Counted(U)
  <2>1. Cardinality(In(U, "busy")) = Cardinality(In(T, "busy")) - Cardinality(S)
    BY <1>6, InFinite, CardMinus
  <2>2. Counted(T) /\ T.num \in Int /\ T.busy \in Int
    BY <1>2, Fields DEF Good, Sound
  <2>3. U.num = T.num - Cardinality(S) /\ U.busy = T.busy - Cardinality(S)
    BY <1>4 DEF St
  <2>4. /\ Cardinality(In(T, "idle")) \in Nat
        /\ Cardinality(In(T, "busy")) \in Nat
    BY InFinite
  <2> QED
    BY <1>3, <1>6, <2>1, <2>2, <2>3, <2>4 DEF Counted
<1>8. ASSUME TagsDistinct PROVE Queued(U)
  BY <1>4, <1>6, <1>8 DEF Good, Queued, Listed, ListOK, Asked, AskOK, OnList, St
<1> QED
  BY <1>4, <1>5, <1>6, <1>7, <1>8 DEF Good, Sound, St

\* spawn_enough_cpuworkers makes idle workers and nothing else.
LEMMA SpawnsGood ==
  ASSUME NEW T, Good(T), NEW U \in Spawns(T)
  PROVE  /\ Good(U)
         /\ In(T, "idle") \subseteq In(U, "idle") /\ In(U, "busy") = In(T, "busy")
         /\ U.state = T.state /\ U.linked = T.linked
         /\ U.ol_list = T.ol_list /\ U.job = T.job
<1>1. PICK S \in SUBSET In(T, "none") :
        U = [T EXCEPT !.worker = SetAll(@, S, "idle"),
                      !.num = @ + Cardinality(S), !.old = SetAll(@, S, FALSE)]
  BY DEF Spawns
<1>2. T \in States
  BY DEF Good, Sound
<1>3. Cardinality(S) \in Nat /\ S \subseteq Workers /\ IsFiniteSet(S)
  BY InFinite DEF In
<1>4. U = St(T.state, T.linked, T.ol_list, SetAll(T.worker, S, "idle"),
             T.job, T.reply, SetAll(T.old, S, FALSE), T.num + Cardinality(S),
             T.busy, T.crashed)
  BY <1>1, <1>2 DEF States, St
<1>5. U \in States
  <2>1. /\ SetAll(T.worker, S, "idle")
             \in [Workers -> WorkerStates]
        /\ SetAll(T.old, S, FALSE) \in [Workers -> BOOLEAN]
    BY <1>2, <1>3, Fields DEF SetAll, WorkerStates
  <2>2. T.num + Cardinality(S) \in Int /\ T.busy + Cardinality(S) \in Int
    BY <1>2, <1>3, Fields
  <2> QED
    BY <1>2, <1>4, <2>1, <2>2, Fields DEF States, St
<1>6. /\ In(U, "idle") = In(T, "idle") \cup S
      /\ In(T, "idle") \cap S = {}
      /\ In(U, "busy") = In(T, "busy")
  BY <1>2, <1>3, <1>4, Fields DEF In, SetAll, St
<1>7. Counted(U)
  <2>1. Cardinality(In(U, "idle")) = Cardinality(In(T, "idle")) + Cardinality(S)
    BY <1>3, <1>6, InFinite, CardPlus
  <2>2. Counted(T) /\ T.num \in Int /\ T.busy \in Int
    BY <1>2, Fields DEF Good, Sound
  <2>3. U.num = T.num + Cardinality(S) /\ U.busy = T.busy
    BY <1>4 DEF St
  <2>4. /\ Cardinality(In(T, "idle")) \in Nat
        /\ Cardinality(In(T, "busy")) \in Nat
    BY InFinite
  <2> QED
    BY <1>3, <1>6, <2>1, <2>2, <2>3, <2>4 DEF Counted
<1>8. ASSUME TagsDistinct PROVE Queued(U)
  BY <1>4, <1>6, <1>8 DEF Good, Queued, Listed, ListOK, Asked, AskOK, OnList, St
<1> QED
  BY <1>4, <1>5, <1>6, <1>7, <1>8 DEF Good, Sound, St

\* The circuits of L may wait on ol_list once those of O are marked.
MayWait(T, L, O, li) ==
  /\ \A i, j \in DOMAIN L : L[i] = L[j] => i = j
  /\ \A i \in DOMAIN L :
       /\ T.state[L[i]] = "pending" /\ li[L[i]] /\ L[i] \notin O
       /\ \A w \in In(T, "busy") : T.job[w] # L[i]

\* A change of ol_list, of the links and of some circuits to marked is good when
\* what is left on the list may wait there.
LEMMA ListChangeGood ==
  ASSUME NEW T, Good(T), NEW L \in Seq(Circuits), NEW O \in SUBSET Circuits,
         NEW li \in [Circuits -> BOOLEAN],
         TagsDistinct => MayWait(T, L, O, li),
         NEW U,
         U = St(SetAll(T.state, O, "marked"), li, L, T.worker, T.job, T.reply,
                T.old, T.num, T.busy, T.crashed)
  PROVE  Good(U) /\ OnlyMarks(T, U) /\ U.worker = T.worker
<1>1. T \in States
  BY DEF Good, Sound
<1>2. /\ U.state = SetAll(T.state, O, "marked") /\ U.linked = li
      /\ U.ol_list = L /\ U.worker = T.worker /\ U.job = T.job
      /\ U.num = T.num /\ U.busy = T.busy /\ U.crashed = T.crashed
  BY DEF St
<1>3. /\ U.state \in [Circuits -> CircStates]
      /\ \A d \in Circuits :
           U.state[d] = IF d \in O THEN "marked" ELSE T.state[d]
  <2>1. T.state \in [Circuits -> CircStates]
    BY <1>1, Fields
  <2>2. /\ SetAll(T.state, O, "marked")
             \in [Circuits -> CircStates]
        /\ \A d \in Circuits : SetAll(T.state, O, "marked")[d]
                                = IF d \in O THEN "marked" ELSE T.state[d]
    BY <2>1 DEF SetAll, CircStates
  <2> QED
    BY <1>2, <2>2
<1>4. U \in States
  BY <1>1, <1>2, <1>3, Fields DEF States, St
<1>5. Counted(U) /\ In(U, "busy") = In(T, "busy")
  BY <1>2 DEF Good, Sound, Counted, In
<1>6. \A i \in DOMAIN L : L[i] \in Circuits
  BY LenProperties
<1>7. ASSUME TagsDistinct PROVE Listed(U)
  <2>1. ASSUME NEW i \in DOMAIN L
        PROVE  U.state[L[i]] = "pending" /\ U.linked[L[i]]
    <3>1. T.state[L[i]] = "pending" /\ L[i] \notin O /\ L[i] \in Circuits
      BY <1>6, <1>7 DEF MayWait
    <3>2. li[L[i]]
      BY <1>7 DEF MayWait
    <3> QED
      BY <1>2, <1>3, <3>1, <3>2
  <2>2. \A i, j \in DOMAIN L : L[i] = L[j] => i = j
    BY <1>7 DEF MayWait
  <2> QED
    BY <1>2, <2>1, <2>2 DEF Listed, ListOK
<1>8. ASSUME TagsDistinct PROVE Asked(U)
  <2> SUFFICES ASSUME NEW w \in In(T, "busy")
               PROVE  /\ T.job[w] \in Circuits /\ U.state[T.job[w]] # "none"
                      /\ \A i \in DOMAIN L : L[i] # T.job[w]
    BY <1>2, <1>5 DEF Asked, AskOK, OnList
  <2>1. T.job[w] \in Circuits /\ T.state[T.job[w]] # "none"
    BY <1>8 DEF Good, Queued, Asked, AskOK
  <2>2. \A i \in DOMAIN L : L[i] # T.job[w]
    BY <1>8 DEF MayWait
  <2> QED
    BY <1>3, <2>1, <2>2
<1>9. Good(U)
  BY <1>2, <1>4, <1>5, <1>7, <1>8 DEF Good, Sound, Queued
<1> QED
  BY <1>2, <1>3, <1>9 DEF OnlyMarks

\* onion_pending_add puts a ready circuit at the end of ol_list, and may give up
\* the oldest ones.
LEMMA PendingAddGood ==
  ASSUME NEW T, Good(T), NEW c \in Circuits, TagsDistinct => Ready(T, c),
         NEW U \in PendingAdd(T, c)
  PROVE  Good(U) /\ OnlyMarks(T, U)
<1> DEFINE n == Len(T.ol_list)
           tooOld(k) == {T.ol_list[i] : i \in 1..k}
<1>1. T \in States
  BY DEF Good, Sound
<1>2. /\ T.ol_list \in Seq(Circuits) /\ n \in Nat /\ DOMAIN T.ol_list = 1..n
      /\ \A i \in 1..n : T.ol_list[i] \in Circuits
  BY <1>1, Fields
<1>3. CASE n = 0
  <2>1. U = [T EXCEPT !.ol_list = <<c>>]
    BY <1>3 DEF PendingAdd
  <2>2. U = St(T.state, T.linked, <<c>>, T.worker, T.job, T.reply, T.old,
               T.num, T.busy, T.crashed)
    BY <1>1, <2>1 DEF States, St
  <2>3. T.state = SetAll(T.state, {}, "marked")
    BY <1>1, Fields DEF SetAll
  <2>4. <<c>> \in Seq(Circuits) /\ DOMAIN <<c>> = {1} /\ <<c>>[1] = c
    OBVIOUS
  <2>5. T.linked \in [Circuits -> BOOLEAN]
    BY <1>1, Fields
  <2>6. U = St(SetAll(T.state, {}, "marked"), T.linked, <<c>>, T.worker, T.job,
               T.reply, T.old, T.num, T.busy, T.crashed)
    BY <2>2, <2>3
  <2> DEFINE L == <<c>>
  <2>7. TagsDistinct => MayWait(T, L, {}, T.linked)
    BY <2>4 DEF Ready, MayWait
  <2> HIDE DEF L
  <2> QED
    BY <2>4, <2>5, <2>6, <2>7, ListChangeGood DEF L
<1>4. CASE n # 0
  <2>1. PICK k \in 0..n :
          U = [T EXCEPT !.ol_list = SubSeq(@, k + 1, n) \o <<c>>,
                        !.state = SetAll(@, tooOld(k), "marked")]
    BY <1>2, <1>4 DEF PendingAdd
  <2> DEFINE L == SubSeq(T.ol_list, k + 1, n) \o <<c>>
             O == tooOld(k)
  <2>2. U = St(SetAll(T.state, O, "marked"), T.linked, L, T.worker, T.job,
               T.reply, T.old, T.num, T.busy, T.crashed)
    BY <1>1, <2>1 DEF States, St
  <2>3. /\ L \in Seq(Circuits) /\ DOMAIN L = 1..(n - k + 1)
        /\ L[n - k + 1] = c
        /\ \A i \in 1..(n - k) : L[i] = T.ol_list[k + i]
    <3> DEFINE q == T.ol_list
    <3>1. q \in Seq(Circuits) /\ k \in 0..Len(q) /\ c \in Circuits
      BY <1>2
    <3> HIDE DEF q
    <3>2. L = SubSeq(q, k + 1, Len(q)) \o <<c>>
      BY DEF q
    <3> HIDE DEF L
    <3>3. /\ L \in Seq(Circuits)
          /\ DOMAIN L = 1..(Len(q) - k + 1)
          /\ L[Len(q) - k + 1] = c
          /\ \A i \in 1..(Len(q) - k) : L[i] = q[k + i]
      BY ONLY <3>1, <3>2, RequeueProperties
    <3> QED
      BY <3>3 DEF q
  <2>4. O \in SUBSET Circuits /\ T.linked \in [Circuits -> BOOLEAN]
    BY <1>1, <1>2, Fields
  <2> HIDE DEF L
  <2>5. ASSUME TagsDistinct PROVE MayWait(T, L, O, T.linked)
    <3>1. Listed(T) /\ Asked(T) /\ Ready(T, c)
      BY <2>5 DEF Good, Queued
    <3>2. ASSUME NEW i \in 1..(n - k)
          PROVE  /\ k + i \in 1..n /\ T.ol_list[k + i] \notin O
                 /\ T.ol_list[k + i] # c
                 /\ T.state[L[i]] = "pending" /\ T.linked[L[i]]
                 /\ \A w \in In(T, "busy") : T.job[w] # L[i]
      <4>1. k + i \in 1..n /\ \A j \in 1..k : j \in 1..n /\ j # k + i
        BY <1>2
      <4>2. T.ol_list[k + i] \notin O
        BY <1>2, <3>1, <4>1 DEF Listed, ListOK
      <4>3. T.ol_list[k + i] # c
        BY <1>2, <3>1, <4>1 DEF Ready, OnList
      <4>4. L[i] = T.ol_list[k + i]
        BY <2>3
      <4>5. T.state[L[i]] = "pending" /\ T.linked[L[i]]
        BY <1>2, <3>1, <4>1, <4>4 DEF Listed, ListOK
      <4>6. \A w \in In(T, "busy") : T.job[w] # L[i]
        BY <1>2, <3>1, <4>1, <4>4 DEF Asked, AskOK, OnList
      <4> QED
        BY <4>1, <4>2, <4>3, <4>5, <4>6
    <3>3. c \notin O
      <4>1. \A j \in 1..k : j \in DOMAIN T.ol_list
        BY <1>2
      <4> QED
        BY <3>1, <4>1 DEF Ready, OnList
    <3> HIDE DEF O
    <3>4. \A i \in DOMAIN L : i = n - k + 1 \/ i \in 1..(n - k)
      <4>1. DOMAIN L = 1..(n - k + 1) /\ n - k \in Nat
        BY <1>2, <2>3
      <4>2. \A m \in Nat : \A i \in 1..(m + 1) : i = m + 1 \/ i \in 1..m
        OBVIOUS
      <4> QED
        BY ONLY <4>1, <4>2
    <3>5. ASSUME NEW i \in DOMAIN L
          PROVE  /\ T.state[L[i]] = "pending" /\ T.linked[L[i]] /\ L[i] \notin O
                 /\ \A w \in In(T, "busy") : T.job[w] # L[i]
      BY <2>3, <3>1, <3>2, <3>3, <3>4 DEF Ready
    <3>6. ASSUME NEW i \in DOMAIN L, NEW j \in DOMAIN L, L[i] = L[j]
          PROVE  i = j
      <4>1. CASE i = n - k + 1 \/ j = n - k + 1
        BY <2>3, <3>2, <3>4, <3>6, <4>1
      <4>2. CASE i \in 1..(n - k) /\ j \in 1..(n - k)
        <5>1. /\ L[i] = T.ol_list[k + i] /\ k + i \in DOMAIN T.ol_list
              /\ L[j] = T.ol_list[k + j] /\ k + j \in DOMAIN T.ol_list
          BY <1>2, <2>3, <3>2, <4>2
        <5>2. k + i = k + j
          BY <3>1, <3>6, <5>1 DEF Listed, ListOK
        <5> QED
          BY <4>2, <5>2
      <4> QED
        BY <3>4, <4>1, <4>2
    <3> QED
      BY <3>5, <3>6 DEF MayWait
  <2> HIDE DEF O
  <2> QED
    BY <2>2, <2>3, <2>4, <2>5, ListChangeGood
<1> QED
  BY <1>3, <1>4

\* Worker w takes the onionskin of c.
Give(T, w, c) ==
  [T EXCEPT !.worker[w] = "busy", !.job[w] = c, !.busy = @ + 1]

\* An idle worker w is given the ready circuit c.
LEMMA GiveGood ==
  ASSUME NEW T, Good(T), NEW c \in Circuits, TagsDistinct => Ready(T, c),
         NEW w \in In(T, "idle"), NEW U, U = Give(T, w, c)
  PROVE  Good(U) /\ U.state = T.state
<1>1. T \in States /\ w \in Workers /\ T.worker[w] = "idle"
  BY DEF Good, Sound, In
<1>2. U = St(T.state, T.linked, T.ol_list, [T.worker EXCEPT ![w] = "busy"],
             [T.job EXCEPT ![w] = c], T.reply, T.old, T.num, T.busy + 1,
             T.crashed)
  BY <1>1 DEF States, St, Give
<1>3. /\ U.state = T.state /\ U.linked = T.linked /\ U.ol_list = T.ol_list
      /\ U.worker = [T.worker EXCEPT ![w] = "busy"]
      /\ U.job = [T.job EXCEPT ![w] = c]
      /\ U.num = T.num /\ U.busy = T.busy + 1 /\ U.crashed = T.crashed
  BY <1>2 DEF St
<1>4. /\ T.worker \in [Workers -> WorkerStates]
      /\ T.job \in [Workers -> Circuits \cup {NoCirc}]
      /\ T.num \in Int /\ T.busy \in Int
  BY <1>1, Fields
<1>5. U \in States
  <2>1. /\ [T.worker EXCEPT ![w] = "busy"] \in [Workers -> WorkerStates]
        /\ [T.job EXCEPT ![w] = c] \in [Workers -> Circuits \cup {NoCirc}]
        /\ T.busy + 1 \in Int
    BY <1>1, <1>4 DEF WorkerStates
  <2> QED
    BY <1>1, <1>2, <2>1, Fields DEF States, St
<1>6. /\ In(U, "idle") = In(T, "idle") \ {w}
      /\ In(U, "busy") = In(T, "busy") \cup {w} /\ w \notin In(T, "busy")
  BY <1>1, <1>3, <1>4 DEF In
<1>7. Counted(U)
  <2>1. Cardinality(In(U, "idle")) = Cardinality(In(T, "idle")) - 1
    BY <1>6, InFinite, CardOne
  <2>2. Cardinality(In(U, "busy")) = Cardinality(In(T, "busy")) + 1
    BY <1>6, InFinite, CardOne
  <2>3. /\ Cardinality(In(T, "idle")) \in Nat
        /\ Cardinality(In(T, "busy")) \in Nat
    BY InFinite
  <2> QED
    BY <1>3, <1>4, <2>1, <2>2, <2>3 DEF Counted, Good, Sound
<1>8. ASSUME TagsDistinct PROVE Asked(U)
  <2> SUFFICES ASSUME NEW x \in In(U, "busy")
               PROVE  /\ U.job[x] \in Circuits /\ T.state[U.job[x]] # "none"
                      /\ ~OnList(T, U.job[x])
    BY <1>3 DEF Asked, AskOK, OnList
  <2>1. CASE x = w
    <3>1. U.job[x] = c
      BY <1>1, <1>3, <1>4, <2>1
    <3> QED
      BY <1>8, <3>1 DEF Ready
  <2>2. CASE x # w
    <3>1. x \in In(T, "busy") /\ x \in Workers
      BY <1>6, <2>2 DEF In
    <3>2. U.job[x] = T.job[x]
      BY <1>3, <1>4, <2>2, <3>1
    <3> QED
      BY <1>8, <3>1, <3>2 DEF Good, Queued, Asked, AskOK, OnList
  <2> QED
    BY <2>1, <2>2
<1>9. ASSUME TagsDistinct PROVE Listed(U) /\ ~U.crashed
  BY <1>3, <1>9 DEF Good, Queued, Listed, ListOK
<1> QED
  BY <1>3, <1>5, <1>7, <1>8, <1>9 DEF Good, Sound, Queued

\* assign_onionskin_to_cpuworker never fails its assertion: when the counters say
\* that a worker is idle, one is.
LEMMA AssignsGood ==
  ASSUME NEW T0, Good(T0), NEW c \in Circuits, TagsDistinct => Ready(T0, c),
         NEW W \in SUBSET In(T0, "idle"), NEW r \in Assigns(T0, W, c)
  PROVE  Good(r.T) /\ OnlyMarks(T0, r.T)
<1> DEFINE queue(T) == IF PendingAdd(T, c) = {} THEN {[ok |-> FALSE, T |-> T]}
                       ELSE {[ok |-> TRUE, T |-> U] : U \in PendingAdd(T, c)}
           idle(T) == IF W = {} THEN In(T, "idle") ELSE W
           result(T) ==
             CASE T.busy = T.num -> queue(T)
               [] T.busy # T.num /\ idle(T) = {} ->
                    {[ok |-> TRUE, T |-> [T EXCEPT !.crashed = TRUE]]}
               [] T.busy # T.num /\ idle(T) # {} /\ ~T.linked[c] ->
                    {[ok |-> FALSE, T |-> T]}
               [] OTHER -> {[ok |-> TRUE, T |-> Give(T, w, c)] : w \in idle(T)}
<1>1. r \in UNION {result(T) : T \in UNION {Spawns(S) : S \in Culls(T0)}}
  BY DEF Assigns, Give
<1> HIDE DEF result
<1>2. PICK T \in UNION {Spawns(S) : S \in Culls(T0)} : r \in result(T)
  BY <1>1
<1>a. PICK S \in Culls(T0) : T \in Spawns(S)
  OBVIOUS
<1>3. /\ Good(S) /\ In(S, "idle") = In(T0, "idle")
      /\ In(S, "busy") \subseteq In(T0, "busy")
      /\ S.state = T0.state /\ S.linked = T0.linked
      /\ S.ol_list = T0.ol_list /\ S.job = T0.job
  BY CullsGood
<1>4. /\ Good(T) /\ In(S, "idle") \subseteq In(T, "idle")
      /\ In(T, "busy") = In(S, "busy")
      /\ T.state = S.state /\ T.linked = S.linked
      /\ T.ol_list = S.ol_list /\ T.job = S.job
  BY <1>3, <1>a, SpawnsGood
<1>5. /\ TagsDistinct => Ready(T, c)
      /\ T.state = T0.state /\ W \subseteq In(T, "idle")
  BY <1>3, <1>4 DEF Ready, OnList
<1>6. OnlyMarks(T0, T)
  BY <1>5 DEF OnlyMarks
<1>7. CASE T.busy = T.num
  <2>1. r \in queue(T)
    BY <1>2, <1>7 DEF result
  <2>2. CASE PendingAdd(T, c) = {}
    <3>1. r.T = T
      BY <2>1, <2>2
    <3> QED
      BY <1>4, <1>6, <3>1
  <2>3. CASE PendingAdd(T, c) # {}
    <3>1. PICK U \in PendingAdd(T, c) : r = [ok |-> TRUE, T |-> U]
      BY <2>1, <2>3
    <3>2. Good(U) /\ OnlyMarks(T, U)
      BY <1>4, <1>5, PendingAddGood
    <3> QED
      BY <1>5, <3>1, <3>2 DEF OnlyMarks
  <2> QED
    BY <2>2, <2>3
<1>8. CASE T.busy # T.num
  <2>1. In(T, "idle") # {}
    <3>1. T.num - T.busy = Cardinality(In(T, "idle"))
      BY <1>4 DEF Good, Sound, Counted
    <3>2. T.num \in Int /\ T.busy \in Int
      BY <1>4, Fields DEF Good, Sound
    <3>3. Cardinality(In(T, "idle")) # 0
      BY <1>8, <3>1, <3>2
    <3> QED
      BY <3>3, FS_EmptySet
  <2>2. idle(T) # {} /\ idle(T) \subseteq In(T, "idle")
    BY <1>5, <2>1
  <2> HIDE DEF idle
  <2>3. CASE ~T.linked[c]
    <3>1. r = [ok |-> FALSE, T |-> T]
      BY <1>2, <1>8, <2>2, <2>3 DEF result
    <3> QED
      BY <1>4, <1>6, <3>1
  <2>4. CASE T.linked[c]
    <3>1. PICK w \in idle(T) : r = [ok |-> TRUE, T |-> Give(T, w, c)]
      BY <1>2, <1>8, <2>2, <2>4 DEF result
    <3> DEFINE U == Give(T, w, c)
    <3>2. r.T = U
      BY <3>1
    <3>3. w \in In(T, "idle")
      BY <2>2
    <3>4. Good(U) /\ U.state = T.state
      BY <1>4, <1>5, <3>3, GiveGood
    <3> QED
      BY <1>5, <3>2, <3>4 DEF OnlyMarks
  <2> QED
    BY <2>3, <2>4
<1> QED
  BY <1>7, <1>8

\* The first circuit leaves ol_list.
LEMMA TailGood ==
  ASSUME NEW T, Good(T), T.ol_list # << >>, NEW V,
         V = [T EXCEPT !.ol_list = Tail(@)]
  PROVE  Good(V)
<1> DEFINE L == Tail(T.ol_list)
<1>1. T \in States /\ T.ol_list \in Seq(Circuits)
  BY Fields DEF Good, Sound
<1>2. /\ L \in Seq(Circuits) /\ DOMAIN L = 1..Len(L)
      /\ \A i \in DOMAIN L : /\ i + 1 \in DOMAIN T.ol_list /\ i + 1 # 1
                             /\ L[i] = T.ol_list[i + 1]
  BY <1>1, HeadTailProperties
<1>3. V = St(SetAll(T.state, {}, "marked"), T.linked, L, T.worker, T.job,
             T.reply, T.old, T.num, T.busy, T.crashed)
  <2>1. SetAll(T.state, {}, "marked") = T.state
    BY <1>1, Fields DEF SetAll
  <2>2. V = St(T.state, T.linked, L, T.worker, T.job, T.reply, T.old, T.num,
               T.busy, T.crashed)
    BY <1>1 DEF States, St
  <2> QED
    BY <2>1, <2>2
<1> HIDE DEF L
<1>4. ASSUME TagsDistinct PROVE MayWait(T, L, {}, T.linked)
  <2>1. Listed(T) /\ Asked(T)
    BY <1>4 DEF Good, Queued
  <2>2. ASSUME NEW i \in DOMAIN L, NEW j \in DOMAIN L, L[i] = L[j] PROVE i = j
    <3>1. i + 1 = j + 1
      BY <1>2, <2>1, <2>2 DEF Listed, ListOK
    <3>2. i \in Int /\ j \in Int
      BY <1>2
    <3> QED
      BY <3>1, <3>2
  <2>3. ASSUME NEW i \in DOMAIN L
        PROVE  /\ T.state[L[i]] = "pending" /\ T.linked[L[i]] /\ L[i] \notin {}
               /\ \A x \in In(T, "busy") : T.job[x] # L[i]
    BY <1>2, <2>1 DEF Listed, ListOK, Asked, AskOK, OnList
  <2> QED
    BY <2>2, <2>3 DEF MayWait
<1>5. T.linked \in [Circuits -> BOOLEAN]
  BY <1>1, Fields
<1>6. L \in Seq(Circuits)
  BY <1>2
<1> DEFINE O == {}
           li == T.linked
<1>7. /\ O \in SUBSET Circuits /\ li \in [Circuits -> BOOLEAN]
      /\ TagsDistinct => MayWait(T, L, O, li)
      /\ V = St(SetAll(T.state, O, "marked"), li, L, T.worker, T.job,
                T.reply, T.old, T.num, T.busy, T.crashed)
  BY <1>3, <1>4, <1>5
<1> HIDE DEF O, li
<1> QED
  BY ONLY Good(T), <1>6, <1>7, ListChangeGood, SMTT(30)

\* process_pending_task: the circuit it takes from ol_list is still valid, and
\* the worker that has just finished can have it.
LEMMA ProcessPendingTaskGood ==
  ASSUME NEW T, Good(T), NEW w \in In(T, "idle"),
         NEW U \in ProcessPendingTask(T, w)
  PROVE  Good(U) /\ OnlyMarks(T, U)
<1> DEFINE c == Head(T.ol_list)
<1>1. T \in States /\ T.ol_list \in Seq(Circuits)
  BY Fields DEF Good, Sound
<1>2. CASE T.ol_list = << >>
  <2>1. U = T
    BY <1>2 DEF ProcessPendingTask
  <2> QED
    BY <2>1 DEF OnlyMarks
<1>3. CASE T.ol_list # << >> /\ ~T.linked[c]
  <2>1. /\ c \in Circuits /\ 1 \in DOMAIN T.ol_list /\ c = T.ol_list[1]
    BY <1>1, <1>3, HeadTailProperties
  <2>2. U = [T EXCEPT !.crashed = TRUE]
    BY <1>3 DEF ProcessPendingTask
  <2>3. U = St(T.state, T.linked, T.ol_list, T.worker, T.job, T.reply, T.old,
               T.num, T.busy, TRUE)
    BY <1>1, <2>2 DEF States, St
  <2>4. U \in States
    BY <1>1, <2>3, Fields DEF States, St
  <2>5. Counted(U) /\ OnlyMarks(T, U)
    BY <2>3 DEF Good, Sound, Counted, In, OnlyMarks, St
  <2>6. ~TagsDistinct
    BY <1>3, <2>1 DEF Good, Queued, Listed, ListOK
  <2> QED
    BY <2>4, <2>5, <2>6 DEF Good, Sound
<1>4. CASE T.ol_list # << >> /\ T.linked[c]
  <2> DEFINE V == [T EXCEPT !.ol_list = Tail(@)]
             L == Tail(T.ol_list)
  <2>1. /\ c \in Circuits /\ L \in Seq(Circuits) /\ DOMAIN L = 1..Len(L)
        /\ 1 \in DOMAIN T.ol_list /\ c = T.ol_list[1]
        /\ \A i \in DOMAIN L : /\ i + 1 \in DOMAIN T.ol_list /\ i + 1 # 1
                               /\ L[i] = T.ol_list[i + 1]
    BY <1>1, <1>4, HeadTailProperties
  <2>2. ASSUME NEW x, x = [T EXCEPT !.ol_list = Tail(@)]
        PROVE  x = St(T.state, T.linked, L, T.worker, T.job, T.reply, T.old,
                      T.num, T.busy, T.crashed)
    BY <1>1, <2>2 DEF States, St
  <2>4. PICK r \in Assigns(V, {w}, c) : U = r.T
    BY <1>4 DEF ProcessPendingTask
  <2> HIDE DEF V, L, c
  <2>7. Good(V)
    BY <1>4, TailGood DEF V
  <2>8. /\ V.state = T.state /\ V.linked = T.linked /\ V.ol_list = L
        /\ V.worker = T.worker /\ V.job = T.job
    <3>1. V = St(T.state, T.linked, L, T.worker, T.job, T.reply, T.old,
                 T.num, T.busy, T.crashed)
      BY <2>2 DEF V
    <3> QED
      BY <3>1 DEF St
  <2>9. In(V, "busy") = In(T, "busy") /\ In(V, "idle") = In(T, "idle")
    BY <2>8 DEF In
  <2>10. ASSUME TagsDistinct PROVE Ready(V, c)
    <3>1. Listed(T) /\ Asked(T)
      BY <2>10 DEF Good, Queued
    <3>2. \A i \in DOMAIN L : L[i] # c
      BY <2>1, <3>1 DEF Listed, ListOK
    <3>3. \A x \in In(T, "busy") : T.job[x] # c
      BY <2>1, <3>1 DEF Asked, AskOK, OnList
    <3>4. T.state[c] = "pending" /\ T.linked[c]
      BY <2>1, <3>1 DEF Listed, ListOK
    <3> QED
      BY <2>8, <2>9, <3>2, <3>3, <3>4 DEF Ready, OnList
  <2>11. {w} \in SUBSET In(V, "idle")
    BY <2>9
  <2>12. Good(r.T) /\ OnlyMarks(V, r.T)
    BY <2>1, <2>7, <2>10, <2>11, AssignsGood
  <2> QED
    BY <2>4, <2>8, <2>12 DEF OnlyMarks
<1> QED
  BY <1>2, <1>3, <1>4

\* _circuit_mark_for_close, of a circuit whose p_conn may just have been unset.
LEMMA MarkForCloseGood ==
  ASSUME NEW T, Good(T), NEW c \in Circuits, NEW b \in BOOLEAN, NEW U,
         U = MarkForClose([T EXCEPT !.linked[c] = b], c)
  PROVE  Good(U) /\ OnlyMarks(T, U) /\ U.worker = T.worker
<1> DEFINE li == [T.linked EXCEPT ![c] = b]
           q == T.ol_list
           L == IF T.state[c] = "pending" THEN Without(q, c) ELSE q
<1>1. T \in States /\ q \in Seq(Circuits)
  BY Fields DEF Good, Sound
<1>2. U = St([T.state EXCEPT ![c] = "marked"], li, L, T.worker, T.job, T.reply,
             T.old, T.num, T.busy, T.crashed)
  <2> DEFINE V == [T EXCEPT !.linked[c] = b]
  <2>1. ASSUME NEW x, x = [T EXCEPT !.linked[c] = b]
        PROVE  x = St(T.state, li, q, T.worker, T.job, T.reply, T.old, T.num,
                      T.busy, T.crashed)
    BY <1>1, <2>1 DEF States, St
  <2>2. V = St(T.state, li, q, T.worker, T.job, T.reply, T.old, T.num, T.busy,
               T.crashed)
    BY <2>1
  <2>3. V \in States /\ V.state = T.state /\ V.ol_list = q /\ V.linked = li
        /\ V.worker = T.worker /\ V.job = T.job /\ V.reply = T.reply
        /\ V.old = T.old /\ V.num = T.num /\ V.busy = T.busy
        /\ V.crashed = T.crashed
    <3>1. li \in [Circuits -> BOOLEAN]
      BY <1>1, Fields
    <3> HIDE DEF V, li
    <3> QED
      BY <1>1, <2>2, <3>1, Fields DEF States, St
  <2>4. U = MarkForClose(V, c)
    OBVIOUS
  <2> HIDE DEF V
  <2>5. U = [V EXCEPT !.state[c] = "marked",
                      !.ol_list = IF V.state[c] = "pending"
                                  THEN Without(@, c) ELSE @]
    BY <2>4 DEF MarkForClose
  <2>6. U = St([V.state EXCEPT ![c] = "marked"], V.linked,
               IF V.state[c] = "pending" THEN Without(V.ol_list, c) ELSE V.ol_list,
               V.worker, V.job, V.reply, V.old, V.num, V.busy, V.crashed)
    BY <2>3, <2>5 DEF States, St
  <2> QED
    BY <2>3, <2>6
<1>3. [T.state EXCEPT ![c] = "marked"] = SetAll(T.state, {c}, "marked")
  BY <1>1, Fields DEF SetAll
<1>4. li \in [Circuits -> BOOLEAN]
      /\ \A d \in Circuits : d # c => li[d] = T.linked[d]
  BY <1>1, Fields
<1>5. L \in Seq(Circuits)
  <2>1. Keep(q, Circuits \ {c}) \in Seq(Circuits)
    <3> HIDE DEF q
    <3> QED
      BY <1>1, KeepProperties
  <2> QED
    BY <1>1, <2>1 DEF Without
<1>6. ASSUME TagsDistinct
      PROVE  /\ \A i \in DOMAIN L : L[i] \in Circuits \ {c} /\ OnList(T, L[i])
             /\ Distinct(L)
  <2>1. Listed(T) /\ Distinct(q)
    BY <1>6 DEF Good, Queued, Listed, ListOK, Distinct
  <2>2. CASE T.state[c] = "pending"
    <3> DEFINE D == Circuits \ {c}
    <3>1. L = Keep(q, D)
      BY <2>2 DEF Without
    <3> HIDE DEF q, L, D
    <3>2. /\ \A k \in DOMAIN L : L[k] \in D /\ \E i \in DOMAIN q : q[i] = L[k]
          /\ Distinct(L)
      BY <1>1, <2>1, <3>1, KeepProperties
    <3> QED
      BY <3>2 DEF OnList, q, D
  <2>3. CASE T.state[c] # "pending"
    <3>1. \A i \in DOMAIN q : q[i] \in Circuits /\ T.state[q[i]] = "pending"
      BY <1>1, <2>1, LenProperties DEF Listed, ListOK
    <3> QED
      BY <2>1, <2>3, <3>1 DEF OnList
  <2> QED
    BY <2>2, <2>3
<1> HIDE DEF L, li
<1>7. ASSUME TagsDistinct PROVE MayWait(T, L, {c}, li)
  <2>1. Listed(T) /\ Asked(T)
    BY <1>7 DEF Good, Queued
  <2>2. ASSUME NEW i \in DOMAIN L
        PROVE  /\ T.state[L[i]] = "pending" /\ li[L[i]] /\ L[i] \notin {c}
               /\ \A w \in In(T, "busy") : T.job[w] # L[i]
    <3>1. PICK k \in DOMAIN T.ol_list : T.ol_list[k] = L[i]
      BY <1>6, <1>7 DEF OnList
    <3>2. T.state[L[i]] = "pending" /\ T.linked[L[i]]
      BY <2>1, <3>1 DEF Listed, ListOK
    <3>3. \A w \in In(T, "busy") : T.job[w] # L[i]
      BY <2>1, <3>1 DEF Asked, AskOK
    <3> QED
      BY <1>4, <1>6, <1>7, <3>2, <3>3
  <2> QED
    BY <1>6, <1>7, <2>2 DEF MayWait, Distinct
<1> DEFINE O == {c}
<1>8. /\ O \in SUBSET Circuits
      /\ TagsDistinct => MayWait(T, L, O, li)
      /\ U = St(SetAll(T.state, O, "marked"), li, L, T.worker, T.job, T.reply,
                T.old, T.num, T.busy, T.crashed)
  BY <1>2, <1>3, <1>7
<1> HIDE DEF O
<1>9. li \in [Circuits -> BOOLEAN]
  BY <1>4
<1> QED
  BY ONLY Good(T), <1>5, <1>8, <1>9, ListChangeGood, SMTT(30)

\* ... and of one whose p_conn is left alone.
LEMMA MarkOnlyGood ==
  ASSUME NEW T, Good(T), NEW c \in Circuits, NEW U, U = MarkForClose(T, c)
  PROVE  Good(U) /\ OnlyMarks(T, U) /\ U.worker = T.worker
<1>1. T \in States /\ T.linked \in [Circuits -> BOOLEAN]
  BY Fields DEF Good, Sound
<1>2. ASSUME NEW x, x = [T EXCEPT !.linked[c] = T.linked[c]]
      PROVE  x = T
  <2>1. x = St(T.state, [T.linked EXCEPT ![c] = T.linked[c]], T.ol_list, T.worker,
               T.job, T.reply, T.old, T.num, T.busy, T.crashed)
    BY <1>1, <1>2 DEF States, St
  <2>2. [T.linked EXCEPT ![c] = T.linked[c]] = T.linked
    BY <1>1
  <2>3. T = St(T.state, T.linked, T.ol_list, T.worker, T.job, T.reply, T.old,
               T.num, T.busy, T.crashed)
    BY <1>1 DEF States, St
  <2> QED
    BY <2>1, <2>2, <2>3
<1> DEFINE b == T.linked[c]
<1>3. b \in BOOLEAN
  BY <1>1
<1>4. U = MarkForClose([T EXCEPT !.linked[c] = b], c)
  BY <1>2
<1> HIDE DEF b
<1> QED
  BY <1>3, <1>4, MarkForCloseGood

\* A circuit that is not on ol_list takes any state but "none".
LEMMA OffListGood ==
  ASSUME NEW T, Good(T), NEW c \in Circuits, NEW s \in CircStates \ {"none"},
         NEW b \in BOOLEAN, TagsDistinct => ~OnList(T, c), NEW U,
         U = St([T.state EXCEPT ![c] = s], [T.linked EXCEPT ![c] = b], T.ol_list,
                T.worker, T.job, T.reply, T.old, T.num, T.busy, T.crashed)
  PROVE  Good(U)
<1>1. T \in States
  BY DEF Good, Sound
<1>2. /\ U.state = [T.state EXCEPT ![c] = s]
      /\ U.linked = [T.linked EXCEPT ![c] = b]
      /\ U.ol_list = T.ol_list /\ U.worker = T.worker /\ U.job = T.job
      /\ U.num = T.num /\ U.busy = T.busy /\ U.crashed = T.crashed
  BY DEF St
<1>3. /\ T.state \in [Circuits -> CircStates]
      /\ T.linked \in [Circuits -> BOOLEAN] /\ T.ol_list \in Seq(Circuits)
  BY <1>1, Fields
<1>4. /\ U.state \in [Circuits -> CircStates] /\ U.state[c] = s
      /\ U.linked \in [Circuits -> BOOLEAN]
      /\ \A d \in Circuits \ {c} : U.state[d] = T.state[d]
                                   /\ U.linked[d] = T.linked[d]
  <2>1. /\ U.state \in [Circuits -> CircStates] /\ U.state[c] = s
        /\ \A d \in Circuits \ {c} : U.state[d] = T.state[d]
    BY <1>2, <1>3
  <2>2. /\ U.linked \in [Circuits -> BOOLEAN]
        /\ \A d \in Circuits \ {c} : U.linked[d] = T.linked[d]
    BY <1>2, <1>3
  <2> QED
    BY <2>1, <2>2
<1>5. U \in States
  BY <1>1, <1>2, <1>4, Fields DEF States, St
<1>6. Counted(U) /\ In(U, "busy") = In(T, "busy")
  <2>1. In(U, "busy") = In(T, "busy") /\ In(U, "idle") = In(T, "idle")
    BY <1>2 DEF In
  <2>2. Counted(T)
    BY DEF Good, Sound
  <2> QED
    BY <1>2, <2>1, <2>2 DEF Counted
<1>7. ASSUME TagsDistinct PROVE Queued(U)
  <2>1. Listed(T) /\ Asked(T) /\ ~T.crashed /\ ~OnList(T, c)
    BY <1>7 DEF Good, Queued
  <2>2. \A i \in DOMAIN T.ol_list : T.ol_list[i] \in Circuits \ {c}
    BY <1>3, <2>1, LenProperties DEF OnList
  <2>3. Listed(U)
    <3>1. ASSUME NEW i \in DOMAIN T.ol_list
          PROVE  U.state[T.ol_list[i]] = "pending" /\ U.linked[T.ol_list[i]]
      <4>1. /\ U.state[T.ol_list[i]] = T.state[T.ol_list[i]]
            /\ U.linked[T.ol_list[i]] = T.linked[T.ol_list[i]]
        BY <1>4, <2>2
      <4> QED
        BY <2>1, <4>1 DEF Listed, ListOK
    <3>2. \A i, j \in DOMAIN T.ol_list : T.ol_list[i] = T.ol_list[j] => i = j
      BY <2>1 DEF Listed, ListOK
    <3>3. ListOK(T.ol_list, U.state, U.linked)
      BY <3>1, <3>2 DEF ListOK
    <3> QED
      BY <1>2, <3>3 DEF Listed
  <2>4. s # "none"
    OBVIOUS
  <2>5. Asked(U)
    BY <1>2, <1>4, <1>6, <2>1, <2>4 DEF Asked, AskOK, OnList
  <2> QED
    BY <1>2, <2>1, <2>3, <2>5 DEF Queued
<1> QED
  BY <1>5, <1>6, <1>7 DEF Good, Sound

\* Which workers are older than the last rotation.
AgeOK(ag) == ag \in [Workers -> BOOLEAN]

\* Workers that leave: idle ones (S) and busy ones (B).
LEMMA RetireGood ==
  ASSUME NEW T, Good(T), NEW S \in SUBSET In(T, "idle"),
         NEW B \in SUBSET In(T, "busy"), NEW ag, AgeOK(ag), NEW U,
         U = St(T.state, T.linked, T.ol_list, SetAll(T.worker, S \cup B, "closing"),
                T.job, T.reply, ag, T.num - Cardinality(S) - Cardinality(B),
                T.busy - Cardinality(B), T.crashed)
  PROVE  Good(U) /\ U.state = T.state
<1>1. T \in States
  BY DEF Good, Sound
<1>2. /\ Cardinality(S) \in Nat /\ IsFiniteSet(S) /\ S \subseteq Workers
      /\ Cardinality(B) \in Nat /\ IsFiniteSet(B) /\ B \subseteq Workers
  BY InFinite DEF In
<1>3. /\ U.state = T.state /\ U.linked = T.linked /\ U.ol_list = T.ol_list
      /\ U.worker = SetAll(T.worker, S \cup B, "closing") /\ U.job = T.job
      /\ U.num = T.num - Cardinality(S) - Cardinality(B)
      /\ U.busy = T.busy - Cardinality(B) /\ U.crashed = T.crashed
  BY DEF St
<1>4. T.worker \in [Workers -> WorkerStates] /\ T.num \in Int /\ T.busy \in Int
  BY <1>1, Fields
<1>5. U \in States
  <2>1. SetAll(T.worker, S \cup B, "closing") \in [Workers -> WorkerStates]
    BY <1>4 DEF SetAll, WorkerStates
  <2>2. /\ T.num - Cardinality(S) - Cardinality(B) \in Int
        /\ T.busy - Cardinality(B) \in Int
    BY <1>2, <1>4
  <2> QED
    BY <1>1, <2>1, <2>2, Fields DEF States, St, AgeOK
<1>6. /\ In(U, "idle") = In(T, "idle") \ S
      /\ In(U, "busy") = In(T, "busy") \ B
  BY <1>3, <1>4 DEF In, SetAll
<1>7. Counted(U)
  <2>1. /\ Cardinality(In(U, "idle")) = Cardinality(In(T, "idle")) - Cardinality(S)
        /\ Cardinality(In(U, "busy")) = Cardinality(In(T, "busy")) - Cardinality(B)
    BY <1>6, InFinite, CardMinus
  <2>2. /\ Cardinality(In(T, "idle")) \in Nat
        /\ Cardinality(In(T, "busy")) \in Nat
    BY InFinite
  <2> QED
    BY <1>2, <1>3, <1>4, <2>1, <2>2 DEF Counted, Good, Sound
<1>8. ASSUME TagsDistinct PROVE Queued(U)
  <2>1. Listed(T) /\ Asked(T) /\ ~T.crashed
    BY <1>8 DEF Good, Queued
  <2>2. Listed(U)
    BY <1>3, <2>1 DEF Listed
  <2>3. Asked(U)
    <3>1. AskOK(In(T, "busy") \ B, T.job, T.state, T.ol_list)
      BY <2>1 DEF Asked, AskOK
    <3> QED
      BY <1>3, <1>6, <3>1 DEF Asked
  <2> QED
    BY <1>3, <2>1, <2>2, <2>3 DEF Queued
<1> QED
  BY <1>3, <1>5, <1>7, <1>8 DEF Good, Sound

\* A busy worker is done.
LEMMA DoneGood ==
  ASSUME NEW T, Good(T), NEW w \in In(T, "busy"), NEW U,
         U = St(T.state, T.linked, T.ol_list, [T.worker EXCEPT ![w] = "idle"],
                [T.job EXCEPT ![w] = NoCirc], [T.reply EXCEPT ![w] = "none"],
                T.old, T.num, T.busy - 1, T.crashed)
  PROVE  Good(U) /\ U.state = T.state /\ w \in In(U, "idle")
<1>1. T \in States /\ w \in Workers /\ T.worker[w] = "busy"
  BY DEF Good, Sound, In
<1>2. /\ U.state = T.state /\ U.linked = T.linked /\ U.ol_list = T.ol_list
      /\ U.worker = [T.worker EXCEPT ![w] = "idle"]
      /\ U.job = [T.job EXCEPT ![w] = NoCirc]
      /\ U.num = T.num /\ U.busy = T.busy - 1 /\ U.crashed = T.crashed
  BY DEF St
<1>3. /\ T.worker \in [Workers -> WorkerStates]
      /\ T.job \in [Workers -> Circuits \cup {NoCirc}]
      /\ T.reply \in [Workers -> {"none", "ok", "bad"}]
      /\ T.num \in Int /\ T.busy \in Int
  BY <1>1, Fields
<1>4. U \in States
  <2>1. /\ [T.worker EXCEPT ![w] = "idle"] \in [Workers -> WorkerStates]
        /\ [T.job EXCEPT ![w] = NoCirc] \in [Workers -> Circuits \cup {NoCirc}]
        /\ [T.reply EXCEPT ![w] = "none"] \in [Workers -> {"none", "ok", "bad"}]
        /\ T.busy - 1 \in Int
    BY <1>1, <1>3 DEF WorkerStates
  <2> QED
    BY <1>1, <2>1, Fields DEF States, St
<1>5. /\ In(U, "idle") = In(T, "idle") \cup {w} /\ w \notin In(T, "idle")
      /\ In(U, "busy") = In(T, "busy") \ {w}
  BY <1>1, <1>2, <1>3 DEF In
<1>6. Counted(U)
  <2>1. /\ Cardinality(In(U, "idle")) = Cardinality(In(T, "idle")) + 1
        /\ Cardinality(In(U, "busy")) = Cardinality(In(T, "busy")) - 1
    BY <1>5, InFinite, CardOne
  <2>2. /\ Cardinality(In(T, "idle")) \in Nat
        /\ Cardinality(In(T, "busy")) \in Nat
    BY InFinite
  <2> QED
    BY <1>2, <1>3, <2>1, <2>2 DEF Counted, Good, Sound
<1>7. ASSUME TagsDistinct PROVE Queued(U)
  <2>1. \A x \in In(U, "busy") : x \in In(T, "busy") /\ U.job[x] = T.job[x]
    BY <1>2, <1>3, <1>5 DEF In
  <2>2. Listed(T) /\ Asked(T) /\ ~T.crashed
    BY <1>7 DEF Good, Queued
  <2>3. Listed(U)
    BY <1>2, <2>2 DEF Listed
  <2>4. Asked(U)
    BY <1>2, <2>1, <2>2 DEF Asked, AskOK, OnList
  <2> QED
    BY <1>2, <2>2, <2>3, <2>4 DEF Queued
<1> QED
  BY <1>2, <1>4, <1>5, <1>6, <1>7 DEF Good, Sound

----------------------------------------------------------------------------
(* The actions.                                                            *)

Inv == up \in [Conns -> {"open", "marked", "closed"}] /\ Good(Current)

\* The fields of the current state are the variables.
LEMMA CurrentFields ==
  /\ Current.state = state /\ Current.linked = linked
  /\ Current.ol_list = ol_list /\ Current.worker = worker /\ Current.job = job
  /\ Current.reply = reply /\ Current.old = old /\ Current.num = num_cpuworkers
  /\ Current.busy = num_cpuworkers_busy /\ Current.crashed = crashed
BY DEF Current

\* A step to a good state keeps the invariant.
LEMMA StepGood ==
  ASSUME up' \in [Conns -> {"open", "marked", "closed"}], NEW T, Good(T), Become(T)
  PROVE  Inv'
<1>1. T \in States
  BY DEF Good, Sound
<1>2. Current' = T
  BY <1>1, BecomeIs
<1> QED
  BY <1>2 DEF Inv

\* CREATE: the new circuit is on no list and at no worker.
LEMMA CreateStep ==
  ASSUME Inv, NEW c \in Circuits, Create(c)
  PROVE  Inv'
<1> DEFINE T == Current
           V == [T EXCEPT !.state[c] = "pending", !.linked[c] = TRUE]
<1>1. Good(T) /\ T \in States /\ T.state[c] = "none" /\ T.state = state
  BY CurrentFields DEF Inv, Good, Sound, Create
<1>2. PICK r \in Assigns(V, {}, c) :
        Become(IF r.ok THEN r.T ELSE MarkForClose(r.T, c))
  BY DEF Create
<1>3. up' \in [Conns -> {"open", "marked", "closed"}]
  BY DEF Inv, Create
<1> HIDE DEF T
<1>4. V = St([T.state EXCEPT ![c] = "pending"], [T.linked EXCEPT ![c] = TRUE],
             T.ol_list, T.worker, T.job, T.reply, T.old, T.num, T.busy, T.crashed)
  <2>1. ASSUME NEW x, x = [T EXCEPT !.state[c] = "pending", !.linked[c] = TRUE]
        PROVE  x = St([T.state EXCEPT ![c] = "pending"],
                      [T.linked EXCEPT ![c] = TRUE], T.ol_list, T.worker, T.job,
                      T.reply, T.old, T.num, T.busy, T.crashed)
    BY <1>1, <2>1 DEF States, St
  <2> QED
    BY <2>1
<1> HIDE DEF V
<1>5. ASSUME TagsDistinct
      PROVE  ~OnList(T, c) /\ \A w \in In(T, "busy") : T.job[w] # c
  BY <1>1, <1>5 DEF Good, Queued, Listed, ListOK, Asked, AskOK, OnList
<1>6. Good(V)
  <2>1. "pending" \in CircStates \ {"none"} /\ TRUE \in BOOLEAN
    BY DEF CircStates
  <2> QED
    BY <1>1, <1>4, <1>5, <2>1, OffListGood
<1>7. /\ V.state = [T.state EXCEPT ![c] = "pending"]
      /\ V.linked = [T.linked EXCEPT ![c] = TRUE]
      /\ V.ol_list = T.ol_list /\ V.worker = T.worker /\ V.job = T.job
  BY <1>4 DEF St
<1>8. /\ V.state[c] = "pending" /\ V.linked[c]
      /\ \A d \in Circuits \ {c} : V.state[d] = T.state[d]
  BY <1>1, <1>7, Fields
<1>9. ASSUME TagsDistinct PROVE Ready(V, c)
  BY <1>5, <1>7, <1>8, <1>9 DEF Ready, OnList, In
<1>10. Good(r.T) /\ OnlyMarks(V, r.T)
  BY <1>6, <1>9, AssignsGood
<1> DEFINE U == IF r.ok THEN r.T ELSE MarkForClose(r.T, c)
<1>11. Good(U) /\ OnlyMarks(V, U)
  <2>1. CASE r.ok
    BY <1>10, <2>1
  <2>2. CASE ~r.ok
    <3>1. U = MarkForClose(r.T, c)
      BY <2>2
    <3>2. Good(U) /\ OnlyMarks(r.T, U)
      BY <1>10, <3>1, MarkOnlyGood
    <3> QED
      BY <1>10, <3>2 DEF OnlyMarks
  <2> QED
    BY <2>1, <2>2
<1> HIDE DEF U
<1> QED
  BY <1>2, <1>3, <1>11, StepGood DEF U

\* A circuit that is not pending and not on ol_list changes its state.
LEMMA OffListStep ==
  ASSUME Inv, UNCHANGED up, NEW c \in Circuits, state[c] # "pending",
         NEW s \in CircStates \ {"none"}, NEW b \in BOOLEAN,
         Become([Current EXCEPT !.state[c] = s, !.linked[c] = b])
  PROVE  Inv'
<1> DEFINE T == Current
           V == [T EXCEPT !.state[c] = s, !.linked[c] = b]
<1>1. Good(T) /\ T \in States /\ T.state[c] # "pending" /\ T.state = state
  BY CurrentFields DEF Inv, Good, Sound
<1>2. up' \in [Conns -> {"open", "marked", "closed"}]
  BY DEF Inv
<1>3. Become(V)
  OBVIOUS
<1> HIDE DEF T
<1>4. V = St([T.state EXCEPT ![c] = s], [T.linked EXCEPT ![c] = b],
             T.ol_list, T.worker, T.job, T.reply, T.old, T.num, T.busy, T.crashed)
  <2>1. ASSUME NEW x, x = [T EXCEPT !.state[c] = s, !.linked[c] = b]
        PROVE  x = St([T.state EXCEPT ![c] = s], [T.linked EXCEPT ![c] = b],
                      T.ol_list, T.worker, T.job, T.reply, T.old, T.num, T.busy,
                      T.crashed)
    BY <1>1, <2>1 DEF States, St
  <2> QED
    BY <2>1
<1> HIDE DEF V
<1>5. TagsDistinct => ~OnList(T, c)
  BY <1>1 DEF Good, Queued, Listed, ListOK, OnList
<1>6. Good(V)
  BY <1>1, <1>4, <1>5, OffListGood
<1> QED
  BY <1>2, <1>3, <1>6, StepGood

\* CREATE_FAST: the circuit never waits.
LEMMA CreateFastStep ==
  ASSUME Inv, NEW c \in Circuits, CreateFast(c)
  PROVE  Inv'
<1>1. PICK s \in {"open", "marked"} :
        Become([Current EXCEPT !.state[c] = s, !.linked[c] = TRUE])
  BY DEF CreateFast
<1>2. s \in CircStates \ {"none"} /\ TRUE \in BOOLEAN
  BY DEF CircStates
<1>3. state[c] # "pending" /\ UNCHANGED up
  BY DEF CreateFast
<1> QED
  BY <1>1, <1>2, <1>3, OffListStep

\* circuit_free: a marked circuit is on no list.
LEMMA FreeCircuitStep ==
  ASSUME Inv, NEW c \in Circuits, FreeCircuit(c)
  PROVE  Inv'
<1>1. Become([Current EXCEPT !.state[c] = "freed", !.linked[c] = FALSE])
  BY DEF FreeCircuit
<1>2. "freed" \in CircStates \ {"none"} /\ FALSE \in BOOLEAN
  BY DEF CircStates
<1>3. state[c] # "pending" /\ UNCHANGED up
  BY DEF FreeCircuit
<1> QED
  BY <1>1, <1>2, <1>3, OffListStep

\* circuit_mark_for_close takes a pending circuit off ol_list.
LEMMA MarkCircuitStep ==
  ASSUME Inv, NEW c \in Circuits, MarkCircuit(c)
  PROVE  Inv'
<1> DEFINE U == MarkForClose(Current, c)
<1>1. Become(U) /\ up' \in [Conns -> {"open", "marked", "closed"}]
  BY DEF MarkCircuit, Inv
<1>2. U = MarkForClose(Current, c)
  OBVIOUS
<1> HIDE DEF U
<1>3. Good(U) /\ OnlyMarks(Current, U)
  BY <1>2, MarkOnlyGood DEF Inv
<1> QED
  BY <1>1, <1>3, StepGood

\* DESTROY takes the circuit off ol_list and off its connection at once.
LEMMA DestroyFromBehindStep ==
  ASSUME Inv, NEW c \in Circuits, DestroyFromBehind(c)
  PROVE  Inv'
<1> DEFINE U == MarkForClose([Current EXCEPT !.linked[c] = FALSE], c)
<1>1. Become(U) /\ up' \in [Conns -> {"open", "marked", "closed"}]
  BY DEF DestroyFromBehind, Inv
<1>2. U = MarkForClose([Current EXCEPT !.linked[c] = FALSE], c)
  OBVIOUS
<1> HIDE DEF U
<1>3. Good(U) /\ OnlyMarks(Current, U)
  BY <1>2, MarkForCloseGood DEF Inv
<1> QED
  BY <1>1, <1>3, StepGood

\* Marking an OR connection changes no circuit.
LEMMA MarkConnStep ==
  ASSUME Inv, NEW o \in Conns, MarkConn(o)
  PROVE  Inv'
<1>1. Become(Current) /\ up' \in [Conns -> {"open", "marked", "closed"}]
  BY DEF MarkConn, Inv
<1>2. Good(Current) /\ OnlyMarks(Current, Current)
  BY DEF Inv, OnlyMarks
<1> QED
  BY <1>1, <1>2, StepGood

\* The connection closes: its circuits are unlinked and marked, and the pending
\* ones leave ol_list.
LEMMA CloseConnStep ==
  ASSUME Inv, NEW o \in Conns, CloseConn(o)
  PROVE  Inv'
<1> DEFINE T == Current
           gone == {c \in Circuits : linked[c] /\ TagOf[c][1] = o}
           K == {c \in Circuits : ~(c \in gone /\ state[c] = "pending")}
           L == Keep(ol_list, K)
           V == [T EXCEPT !.linked = SetAll(@, gone, FALSE),
                          !.state = SetAll(@, gone, "marked"),
                          !.ol_list = L]
<1>1. /\ Good(T) /\ T \in States /\ T.state = state /\ T.ol_list = ol_list
      /\ T.linked = linked
  BY CurrentFields DEF Inv, Good, Sound
<1>2. Become(V) /\ up' \in [Conns -> {"open", "marked", "closed"}]
  BY DEF CloseConn, Inv
<1>3. /\ \A c \in K : c \in Circuits /\ ~(c \in gone /\ state[c] = "pending")
      /\ gone \in SUBSET Circuits
  OBVIOUS
<1> HIDE DEF T, gone, K
<1>4. ol_list \in Seq(Circuits)
  BY <1>1, Fields
<1>5. /\ L \in Seq(Circuits)
      /\ \A k \in DOMAIN L :
           L[k] \in K /\ \E i \in DOMAIN ol_list : ol_list[i] = L[k]
      /\ Distinct(ol_list) => Distinct(L)
  BY <1>4, KeepProperties
<1> HIDE DEF L
<1> DEFINE li == SetAll(T.linked, gone, FALSE)
<1>6. V = St(SetAll(T.state, gone, "marked"), li, L, T.worker, T.job, T.reply,
             T.old, T.num, T.busy, T.crashed)
  <2>1. ASSUME NEW x, x = [T EXCEPT !.linked = SetAll(@, gone, FALSE),
                                    !.state = SetAll(@, gone, "marked"),
                                    !.ol_list = L]
        PROVE  x = St(SetAll(T.state, gone, "marked"), li, L, T.worker, T.job,
                      T.reply, T.old, T.num, T.busy, T.crashed)
    BY <1>1, <2>1 DEF States, St
  <2> QED
    BY <2>1
<1>7. /\ li \in [Circuits -> BOOLEAN]
      /\ \A c \in Circuits : c \notin gone => li[c] = T.linked[c]
  BY <1>1, Fields DEF SetAll
<1> HIDE DEF V, li
<1>8. ASSUME TagsDistinct PROVE MayWait(T, L, gone, li)
  <2>1. Listed(T) /\ Asked(T)
    BY <1>1, <1>8 DEF Good, Queued
  <2>2. Distinct(L)
    BY <1>1, <1>5, <2>1 DEF Listed, ListOK, Distinct
  <2>3. ASSUME NEW i \in DOMAIN L
        PROVE  /\ T.state[L[i]] = "pending" /\ li[L[i]] /\ L[i] \notin gone
               /\ \A w \in In(T, "busy") : T.job[w] # L[i]
    <3>1. PICK k \in DOMAIN T.ol_list : T.ol_list[k] = L[i]
      BY <1>1, <1>5
    <3>2. T.state[L[i]] = "pending" /\ T.linked[L[i]]
      BY <2>1, <3>1 DEF Listed, ListOK
    <3>3. L[i] \in Circuits /\ L[i] \notin gone
      BY <1>1, <1>3, <1>5, <3>2
    <3>4. \A w \in In(T, "busy") : T.job[w] # L[i]
      BY <2>1, <3>1 DEF Asked, AskOK
    <3> QED
      BY <1>7, <3>2, <3>3, <3>4
  <2> QED
    BY <2>2, <2>3 DEF MayWait, Distinct
<1>9. li \in [Circuits -> BOOLEAN]
  BY <1>7
<1>10. Good(T) /\ L \in Seq(Circuits) /\ gone \in SUBSET Circuits
  BY <1>1, <1>3, <1>5
<1>11. Good(V) /\ OnlyMarks(T, V)
  BY ONLY <1>6, <1>8, <1>9, <1>10, ListChangeGood, SMTT(30)
<1> QED
  BY <1>2, <1>11, StepGood

\* A worker's answer changes nothing before it is read.
LEMMA ComputeStep ==
  ASSUME Inv, NEW w \in Workers, Compute(w)
  PROVE  Inv'
<1> DEFINE T == Current
           U == Current'
<1>1. Good(T) /\ T \in States
  BY DEF Inv, Good, Sound
<1>2. PICK r \in {"ok", "bad"} : reply' = [reply EXCEPT ![w] = r]
  BY DEF Compute
<1>3. /\ U.state = T.state /\ U.linked = T.linked /\ U.ol_list = T.ol_list
      /\ U.worker = T.worker /\ U.job = T.job /\ U.old = T.old /\ U.num = T.num
      /\ U.busy = T.busy /\ U.crashed = T.crashed
      /\ U.reply = [T.reply EXCEPT ![w] = r]
  BY <1>2 DEF Compute, Current
<1>4. U = St(U.state, U.linked, U.ol_list, U.worker, U.job, U.reply, U.old, U.num,
             U.busy, U.crashed)
  BY DEF Current, St
<1>5. UNCHANGED <<up, state>>
  BY DEF Compute
<1> HIDE DEF T, U
<1>6. U \in States
  <2>1. [T.reply EXCEPT ![w] = r] \in [Workers -> {"none", "ok", "bad"}]
    BY <1>1, Fields
  <2> QED
    BY <1>1, <1>3, <1>4, <2>1, Fields DEF States, St
<1>7. In(U, "idle") = In(T, "idle") /\ In(U, "busy") = In(T, "busy")
  BY <1>3 DEF In
<1>8. Good(U)
  BY <1>1, <1>3, <1>6, <1>7 DEF Good, Sound, Counted, Queued, Listed, Asked
<1> QED
  BY <1>5, <1>8 DEF Inv, U

\* A worker dies: it is given up, whether it was idle or busy, and replaced.
LEMMA ReachedEofStep ==
  ASSUME Inv, NEW w \in Workers, ReachedEof(w)
  PROVE  Inv'
<1> DEFINE C == Current
           bz == IF worker[w] = "busy" THEN num_cpuworkers_busy - 1
                 ELSE num_cpuworkers_busy
           T == [C EXCEPT !.busy = IF worker[w] = "busy" THEN @ - 1 ELSE @,
                          !.num = @ - 1]
<1>1. /\ Good(C) /\ C \in States /\ C.worker = worker /\ C.state = state
      /\ C.busy = num_cpuworkers_busy
  BY CurrentFields DEF Inv, Good, Sound
<1>2. worker[w] \in {"idle", "busy"} /\ UNCHANGED up
  BY DEF ReachedEof
<1>3. PICK Q \in Spawns(T) : Become([Q EXCEPT !.worker[w] = "closing"])
  BY DEF ReachedEof
<1> HIDE DEF C
<1>4. /\ C.worker \in [Workers -> WorkerStates] /\ C.num \in Int /\ C.busy \in Int
      /\ C.old \in [Workers -> BOOLEAN]
  BY <1>1, Fields
<1>5. ASSUME NEW x, x = [C EXCEPT !.busy = IF worker[w] = "busy" THEN @ - 1 ELSE @,
                                  !.num = @ - 1]
      PROVE  x = St(C.state, C.linked, C.ol_list, C.worker, C.job, C.reply, C.old,
                    C.num - 1, bz, C.crashed)
  BY <1>1, <1>5 DEF States, St
<1>6. T = St(C.state, C.linked, C.ol_list, C.worker, C.job, C.reply, C.old,
             C.num - 1, bz, C.crashed)
  BY <1>5
<1>7. bz \in Int
  BY <1>1, <1>4
<1> HIDE DEF T, bz
<1>8. /\ T \in States /\ T.worker = C.worker /\ T.old = C.old /\ T.num = C.num - 1
      /\ T.state = C.state /\ T.linked = C.linked /\ T.ol_list = C.ol_list
      /\ T.job = C.job /\ T.reply = C.reply /\ T.busy = bz
      /\ T.crashed = C.crashed
  BY <1>1, <1>4, <1>6, <1>7, Fields DEF States, St
<1>9. PICK X \in SUBSET In(T, "none") :
        /\ X = {} \/ T.num + Cardinality(X) <= NumCpus
        /\ Q = [T EXCEPT !.worker = SetAll(@, X, "idle"), !.num = @ + Cardinality(X),
                         !.old = SetAll(@, X, FALSE)]
  BY <1>3 DEF Spawns
<1>10. Q = St(C.state, C.linked, C.ol_list, SetAll(C.worker, X, "idle"), C.job,
              C.reply, SetAll(C.old, X, FALSE), C.num - 1 + Cardinality(X), bz,
              C.crashed)
  BY <1>8, <1>9 DEF States, St
<1>11. Cardinality(X) \in Nat /\ X \subseteq Workers /\ w \notin X
  <2>1. X \in SUBSET In(T, "none")
    BY <1>9
  <2>2. X \subseteq Workers /\ w \notin X
    BY <1>1, <1>2, <1>8, <2>1 DEF In
  <2>3. Cardinality(X) \in Nat
    BY ONLY <2>1, InFinite, Zenon
  <2> QED
    BY <2>2, <2>3
<1>12. Q \in States
  <2>1. /\ SetAll(C.worker, X, "idle") \in [Workers -> WorkerStates]
        /\ SetAll(C.old, X, FALSE) \in [Workers -> BOOLEAN]
    BY <1>4 DEF SetAll, WorkerStates
  <2>2. C.num - 1 + Cardinality(X) \in Int
    BY <1>4, <1>11
  <2> QED
    BY <1>1, <1>7, <1>10, <2>1, <2>2, Fields DEF States, St
<1> DEFINE U == [Q EXCEPT !.worker[w] = "closing"]
<1>13. U = St(C.state, C.linked, C.ol_list,
              [SetAll(C.worker, X, "idle") EXCEPT ![w] = "closing"], C.job,
              C.reply, SetAll(C.old, X, FALSE), C.num - 1 + Cardinality(X), bz,
              C.crashed)
  <2>1. ASSUME NEW x, x = [Q EXCEPT !.worker[w] = "closing"]
        PROVE  x = St(Q.state, Q.linked, Q.ol_list,
                      [Q.worker EXCEPT ![w] = "closing"], Q.job, Q.reply, Q.old,
                      Q.num, Q.busy, Q.crashed)
    BY <1>12, <2>1 DEF States, St
  <2>2. /\ Q.state = C.state /\ Q.linked = C.linked /\ Q.ol_list = C.ol_list
        /\ Q.worker = SetAll(C.worker, X, "idle") /\ Q.job = C.job
        /\ Q.reply = C.reply /\ Q.old = SetAll(C.old, X, FALSE)
        /\ Q.num = C.num - 1 + Cardinality(X) /\ Q.busy = bz
        /\ Q.crashed = C.crashed
    BY <1>10 DEF St
  <2>3. U = St(Q.state, Q.linked, Q.ol_list, [Q.worker EXCEPT ![w] = "closing"],
               Q.job, Q.reply, Q.old, Q.num, Q.busy, Q.crashed)
    BY <2>1
  <2> QED
    BY <2>2, <2>3
<1>14. Become(U)
  BY <1>3
<1> DEFINE S == {w} \cap In(C, "idle")
           B == {w} \cap In(C, "busy")
           R == St(C.state, C.linked, C.ol_list, SetAll(C.worker, S \cup B, "closing"),
                   C.job, C.reply, C.old, C.num - Cardinality(S) - Cardinality(B),
                   C.busy - Cardinality(B), C.crashed)
<1>15. /\ S \in SUBSET In(C, "idle") /\ B \in SUBSET In(C, "busy")
       /\ S \cup B = {w}
       /\ C.num - Cardinality(S) - Cardinality(B) = C.num - 1
       /\ C.busy - Cardinality(B) = bz
  <2>1. S \cup B = {w}
    BY <1>1, <1>2 DEF In
  <2>2. CASE worker[w] = "busy"
    <3>1. S = {} /\ B = {w}
      BY <1>1, <2>2 DEF In
    <3>2. Cardinality(S) = 0 /\ Cardinality(B) = 1
      BY <3>1, FS_Singleton, FS_EmptySet
    <3> HIDE DEF S, B
    <3> QED
      BY <1>1, <1>4, <2>1, <2>2, <3>1, <3>2, <1>2 DEF bz, S, B
  <2>3. CASE worker[w] = "idle"
    <3>1. S = {w} /\ B = {}
      BY <1>1, <2>3 DEF In
    <3>2. Cardinality(S) = 1 /\ Cardinality(B) = 0
      BY <3>1, FS_Singleton, FS_EmptySet
    <3> QED
      BY <1>1, <1>4, <2>1, <2>3, <3>2 DEF bz
  <2> QED
    BY <1>2, <2>2, <2>3
<1>16. /\ R.worker = SetAll(C.worker, {w}, "closing") /\ R.old = C.old
       /\ R.num = C.num - 1 /\ R.state = C.state /\ R.linked = C.linked
       /\ R.ol_list = C.ol_list /\ R.job = C.job /\ R.reply = C.reply
       /\ R.busy = bz /\ R.crashed = C.crashed
  BY <1>15 DEF St
<1>17. R = St(C.state, C.linked, C.ol_list, SetAll(C.worker, S \cup B, "closing"),
              C.job, C.reply, C.old, C.num - Cardinality(S) - Cardinality(B),
              C.busy - Cardinality(B), C.crashed)
  OBVIOUS
<1> HIDE DEF R, S, B, U
<1>18. Good(R) /\ R \in States
  <2>1. Good(R)
    <3>1. AgeOK(C.old)
      BY <1>4 DEF AgeOK
    <3> QED
      BY ONLY <1>1, <1>15, <1>17, <3>1, RetireGood, Zenon
  <2> QED
    BY <2>1 DEF Good, Sound
<1>19. U \in Spawns(R)
  <2>1. In(R, "none") = In(T, "none")
    BY <1>1, <1>2, <1>4, <1>8, <1>16 DEF In, SetAll
  <2>2. X = {} \/ R.num + Cardinality(X) <= NumCpus
    BY <1>8, <1>9, <1>16
  <2>3. [SetAll(C.worker, X, "idle") EXCEPT ![w] = "closing"]
          = SetAll(R.worker, X, "idle")
    BY <1>4, <1>11, <1>16 DEF SetAll
  <2>4. ASSUME NEW x, x = [R EXCEPT !.worker = SetAll(@, X, "idle"),
                                    !.num = @ + Cardinality(X),
                                    !.old = SetAll(@, X, FALSE)]
        PROVE  x = St(R.state, R.linked, R.ol_list, SetAll(R.worker, X, "idle"),
                      R.job, R.reply, SetAll(R.old, X, FALSE),
                      R.num + Cardinality(X), R.busy, R.crashed)
    BY <1>18, <2>4 DEF States, St
  <2>5. U = St(R.state, R.linked, R.ol_list, SetAll(R.worker, X, "idle"),
               R.job, R.reply, SetAll(R.old, X, FALSE),
               R.num + Cardinality(X), R.busy, R.crashed)
    BY <1>13, <1>16, <2>3
  <2>6. U = [R EXCEPT !.worker = SetAll(@, X, "idle"), !.num = @ + Cardinality(X),
                      !.old = SetAll(@, X, FALSE)]
    BY <2>4, <2>5
  <2> QED
    BY <2>1, <2>2, <2>6 DEF Spawns
<1>20. Good(U) /\ U.state = state
  BY <1>1, <1>16, <1>18, <1>19, SpawnsGood
<1>21. up' \in [Conns -> {"open", "marked", "closed"}]
  BY <1>2 DEF Inv
<1> QED
  BY <1>14, <1>20, <1>21, StepGood

\* The connection to a busy worker fails: the worker goes on being counted.
LEMMA SocketErrorStep ==
  ASSUME Inv, NEW w \in Workers, SocketError(w)
  PROVE  Inv'
<1> DEFINE T == Current
           U == [T EXCEPT !.worker[w] = "closing"]
<1>1. /\ Good(T) /\ T \in States /\ T.state = state /\ T.worker[w] = "busy"
  BY CurrentFields DEF Inv, Good, Sound, SocketError
<1>2. up' \in [Conns -> {"open", "marked", "closed"}] /\ Become(U)
  BY DEF Inv, SocketError
<1> HIDE DEF T
<1>3. U = St(T.state, T.linked, T.ol_list, [T.worker EXCEPT ![w] = "closing"],
             T.job, T.reply, T.old, T.num, T.busy, T.crashed)
  <2>1. ASSUME NEW x, x = [T EXCEPT !.worker[w] = "closing"]
        PROVE  x = St(T.state, T.linked, T.ol_list,
                      [T.worker EXCEPT ![w] = "closing"], T.job, T.reply, T.old,
                      T.num, T.busy, T.crashed)
    BY <1>1, <2>1 DEF States, St
  <2> QED
    BY <2>1
<1> HIDE DEF U
<1>4. T.worker \in [Workers -> WorkerStates] /\ T.busy \in Int /\ T.num \in Int
  BY <1>1, Fields
<1>5. U \in States
  <2>1. [T.worker EXCEPT ![w] = "closing"] \in [Workers -> WorkerStates]
    BY <1>4 DEF WorkerStates
  <2> QED
    BY <1>1, <1>3, <2>1, Fields DEF States, St
<1>6. /\ U.state = T.state /\ U.linked = T.linked /\ U.ol_list = T.ol_list
      /\ U.worker = [T.worker EXCEPT ![w] = "closing"] /\ U.job = T.job
      /\ U.num = T.num /\ U.busy = T.busy /\ U.crashed = T.crashed
  BY <1>3 DEF St
<1>7. /\ In(U, "idle") = In(T, "idle") /\ w \in In(T, "busy")
      /\ In(U, "busy") = In(T, "busy") \ {w}
  BY <1>1, <1>4, <1>6 DEF In
<1>8. Counted(U)
  <2>1. Cardinality(In(U, "busy")) = Cardinality(In(T, "busy")) - 1
    BY <1>7, InFinite, CardOne
  <2>2. Cardinality(In(T, "busy")) \in Nat
    BY InFinite
  <2> QED
    BY <1>1, <1>4, <1>6, <1>7, <2>1, <2>2 DEF Counted, Good, Sound
<1>9. ASSUME TagsDistinct PROVE Queued(U)
  <2>1. Listed(T) /\ Asked(T) /\ ~T.crashed
    BY <1>1, <1>9 DEF Good, Queued
  <2>2. AskOK(In(T, "busy") \ {w}, T.job, T.state, T.ol_list)
    BY <2>1 DEF Asked, AskOK
  <2> QED
    BY <1>6, <1>7, <2>1, <2>2 DEF Queued, Listed, Asked
<1>10. Good(U)
  BY <1>5, <1>8, <1>9 DEF Good, Sound
<1> QED
  BY <1>2, <1>10, StepGood

\* A marked worker connection is closed: its place is free again.
LEMMA CloseWorkerStep ==
  ASSUME Inv, NEW w \in Workers, CloseWorker(w)
  PROVE  Inv'
<1> DEFINE T == Current
           U == [T EXCEPT !.worker[w] = "none", !.job[w] = NoCirc,
                          !.reply[w] = "none", !.old[w] = FALSE]
<1>1. /\ Good(T) /\ T \in States /\ T.state = state /\ T.worker[w] = "closing"
  BY CurrentFields DEF Inv, Good, Sound, CloseWorker
<1>2. up' \in [Conns -> {"open", "marked", "closed"}] /\ Become(U)
  BY DEF Inv, CloseWorker
<1> HIDE DEF T
<1>3. U = St(T.state, T.linked, T.ol_list, [T.worker EXCEPT ![w] = "none"],
             [T.job EXCEPT ![w] = NoCirc], [T.reply EXCEPT ![w] = "none"],
             [T.old EXCEPT ![w] = FALSE], T.num, T.busy, T.crashed)
  <2>1. ASSUME NEW x, x = [T EXCEPT !.worker[w] = "none", !.job[w] = NoCirc,
                                    !.reply[w] = "none", !.old[w] = FALSE]
        PROVE  x = St(T.state, T.linked, T.ol_list,
                      [T.worker EXCEPT ![w] = "none"],
                      [T.job EXCEPT ![w] = NoCirc],
                      [T.reply EXCEPT ![w] = "none"], [T.old EXCEPT ![w] = FALSE],
                      T.num, T.busy, T.crashed)
    BY <1>1, <2>1 DEF States, St
  <2> QED
    BY <2>1
<1> HIDE DEF U
<1>4. /\ T.worker \in [Workers -> WorkerStates] /\ T.busy \in Int /\ T.num \in Int
      /\ T.job \in [Workers -> Circuits \cup {NoCirc}]
      /\ T.reply \in [Workers -> {"none", "ok", "bad"}]
      /\ T.old \in [Workers -> BOOLEAN]
  BY <1>1, Fields
<1>5. U \in States
  <2>1. /\ [T.worker EXCEPT ![w] = "none"] \in [Workers -> WorkerStates]
        /\ [T.job EXCEPT ![w] = NoCirc] \in [Workers -> Circuits \cup {NoCirc}]
        /\ [T.reply EXCEPT ![w] = "none"] \in [Workers -> {"none", "ok", "bad"}]
        /\ [T.old EXCEPT ![w] = FALSE] \in [Workers -> BOOLEAN]
    BY <1>4 DEF WorkerStates
  <2> QED
    BY <1>1, <1>3, <2>1, Fields DEF States, St
<1>6. /\ U.state = T.state /\ U.linked = T.linked /\ U.ol_list = T.ol_list
      /\ U.worker = [T.worker EXCEPT ![w] = "none"]
      /\ U.job = [T.job EXCEPT ![w] = NoCirc]
      /\ U.num = T.num /\ U.busy = T.busy /\ U.crashed = T.crashed
  BY <1>3 DEF St
<1>7. In(U, "idle") = In(T, "idle") /\ In(U, "busy") = In(T, "busy")
  BY <1>1, <1>4, <1>6 DEF In
<1>8. Counted(U)
  BY <1>1, <1>6, <1>7 DEF Counted, Good, Sound
<1>9. ASSUME TagsDistinct PROVE Queued(U)
  <2>1. Listed(T) /\ Asked(T) /\ ~T.crashed
    BY <1>1, <1>9 DEF Good, Queued
  <2>2. \A x \in In(T, "busy") : U.job[x] = T.job[x]
    BY <1>1, <1>4, <1>6 DEF In
  <2>3. AskOK(In(T, "busy"), U.job, T.state, T.ol_list)
    BY <2>1, <2>2 DEF Asked, AskOK
  <2> QED
    BY <1>6, <1>7, <2>1, <2>3 DEF Queued, Listed, Asked
<1>10. Good(U)
  BY <1>5, <1>8, <1>9 DEF Good, Sound
<1> QED
  BY <1>2, <1>10, StepGood

\* The onion keys are rotated: the idle workers leave, and new ones are spawned.
LEMMA RotateStep ==
  ASSUME Inv, Rotate
  PROVE  Inv'
<1> DEFINE T == Current
           S == In(T, "idle")
           B == {}
<1>1. Good(T) /\ T \in States /\ T.state = state
  BY CurrentFields DEF Inv, Good, Sound
<1>2. PICK X \in SUBSET In(T, "busy") :
        \E U \in Spawns([T EXCEPT !.worker = SetAll(@, S, "closing"),
                                 !.num = @ - Cardinality(S),
                                 !.old = SetAll(@, X, TRUE)]) : Become(U)
  BY DEF Rotate
<1> DEFINE ag == SetAll(T.old, X, TRUE)
           R == [T EXCEPT !.worker = SetAll(@, S, "closing"),
                          !.num = @ - Cardinality(S),
                          !.old = SetAll(@, X, TRUE)]
<1>3. up' \in [Conns -> {"open", "marked", "closed"}]
  BY DEF Inv, Rotate
<1>4. PICK U \in Spawns(R) : Become(U)
  BY <1>2
<1> HIDE DEF T, S
<1>5. ASSUME NEW x, x = [T EXCEPT !.worker = SetAll(@, S, "closing"),
                                  !.num = @ - Cardinality(S),
                                  !.old = SetAll(@, X, TRUE)]
      PROVE  x = St(T.state, T.linked, T.ol_list, SetAll(T.worker, S, "closing"),
                    T.job, T.reply, ag, T.num - Cardinality(S), T.busy, T.crashed)
  BY <1>1, <1>5 DEF States, St
<1>6. R = St(T.state, T.linked, T.ol_list, SetAll(T.worker, S, "closing"),
             T.job, T.reply, ag, T.num - Cardinality(S), T.busy, T.crashed)
  BY <1>5
<1>7. AgeOK(ag)
  BY <1>1, Fields DEF AgeOK, SetAll
<1> HIDE DEF ag, R
<1>8. T.num \in Int /\ T.busy \in Int /\ Cardinality(S) \in Nat
  BY <1>1, Fields, InFinite DEF S
<1>9. Cardinality(B) = 0 /\ S \cup B = S
  BY FS_EmptySet
<1>10. S \in SUBSET In(T, "idle") /\ B \in SUBSET In(T, "busy")
  BY DEF S
<1> HIDE DEF B
<1>11. /\ T.num - Cardinality(S) = T.num - Cardinality(S) - Cardinality(B)
       /\ T.busy = T.busy - Cardinality(B)
  BY <1>8, <1>9
<1>12. R = St(T.state, T.linked, T.ol_list, SetAll(T.worker, S \cup B, "closing"),
              T.job, T.reply, ag, T.num - Cardinality(S) - Cardinality(B),
              T.busy - Cardinality(B), T.crashed)
  BY <1>6, <1>9, <1>11
<1>13. Good(R) /\ R.state = T.state
  <2>1. Good(R)
    BY ONLY <1>1, <1>7, <1>10, <1>12, RetireGood, Zenon
  <2> QED
    BY <1>12, <2>1 DEF St
<1>14. Good(U) /\ U.state = R.state
  BY <1>4, <1>13, SpawnsGood
<1> QED
  BY <1>3, <1>4, <1>14, StepGood

----------------------------------------------------------------------------
(* No onionskin is forgotten, whatever ids the peers use: a second pass    *)
(* over the functions, for who tends to which circuit.                     *)

Tends(T, c) ==
  OnList(T, c) \/ \E w \in Workers : T.worker[w] = "busy" /\ T.job[w] = c

\* From T to U no circuit begins to wait, and a worker keeps its circuit until it
\* is given up.
Steady(T, U) ==
  /\ U.linked = T.linked
  /\ \A d \in Circuits : U.state[d] = "pending" => T.state[d] = "pending"
  /\ \A v \in Workers : T.worker[v] \in {"busy", "closing"} =>
       U.job[v] = T.job[v] /\ U.worker[v] \in {T.worker[v], "closing"}

\* ... and a circuit that goes on waiting stays on ol_list.
Carries(T, U) ==
  /\ Steady(T, U)
  /\ \A d \in Circuits : OnList(T, d) /\ U.state[d] = "pending" => OnList(U, d)

\* Both hold of two steps when they hold of each.
LEMMA Transitive ==
  ASSUME NEW T, NEW U, NEW V, Steady(T, U), Steady(U, V)
  PROVE  Steady(T, V) /\ (Carries(T, U) /\ Carries(U, V) => Carries(T, V))
<1>1. Steady(T, V)
  <2>1. V.linked = T.linked
    BY DEF Steady
  <2>2. \A d \in Circuits : V.state[d] = "pending" => T.state[d] = "pending"
    BY DEF Steady
  <2>3. ASSUME NEW v \in Workers, T.worker[v] \in {"busy", "closing"}
        PROVE  V.job[v] = T.job[v] /\ V.worker[v] \in {T.worker[v], "closing"}
    <3>1. U.job[v] = T.job[v] /\ U.worker[v] \in {T.worker[v], "closing"}
      BY <2>3 DEF Steady
    <3>2. U.worker[v] \in {"busy", "closing"}
      BY <2>3, <3>1
    <3>3. V.job[v] = U.job[v] /\ V.worker[v] \in {U.worker[v], "closing"}
      BY <3>2 DEF Steady
    <3> QED
      BY <3>1, <3>3
  <2> QED
    BY <2>1, <2>2, <2>3 DEF Steady
<1>2. ASSUME Carries(T, U), Carries(U, V), NEW d \in Circuits, OnList(T, d),
             V.state[d] = "pending"
      PROVE  OnList(V, d)
  <2>1. U.state[d] = "pending"
    BY <1>2 DEF Steady
  <2>2. OnList(U, d)
    BY <1>2, <2>1 DEF Carries
  <2> QED
    BY <1>2, <2>2 DEF Carries
<1> QED
  BY <1>1, <1>2 DEF Carries

\* Workers are only marked for close, or made where there were none.
LEMMA WorkersChange ==
  ASSUME NEW T, T \in States, NEW S \in SUBSET Workers, NEW s \in WorkerStates,
         s = "closing" \/ \A w \in S : T.worker[w] \in {"none", "idle"},
         NEW U, U.state = T.state, U.linked = T.linked, U.ol_list = T.ol_list,
         U.job = T.job, U.worker = SetAll(T.worker, S, s)
  PROVE  Carries(T, U)
<1>1. T.worker \in [Workers -> WorkerStates]
  BY Fields
<1>2. ASSUME NEW v \in Workers, T.worker[v] \in {"busy", "closing"}
      PROVE  U.worker[v] \in {T.worker[v], "closing"}
  BY <1>1, <1>2 DEF SetAll
<1>3. Steady(T, U)
  BY <1>2 DEF Steady
<1> QED
  BY <1>3 DEF Carries, OnList

\* cull_wedged_cpuworkers: a culled worker is closing, with its circuit.
LEMMA CullsCarry ==
  ASSUME NEW T, T \in States, NEW U \in Culls(T)
  PROVE  Carries(T, U)
<1>1. PICK S \in SUBSET In(T, "busy") :
        U = [T EXCEPT !.worker = SetAll(@, S, "closing"),
                      !.num = @ - Cardinality(S), !.busy = @ - Cardinality(S)]
  BY DEF Culls
<1>2. /\ U.state = T.state /\ U.linked = T.linked /\ U.ol_list = T.ol_list
      /\ U.job = T.job /\ U.worker = SetAll(T.worker, S, "closing")
  BY <1>1 DEF States
<1>3. S \in SUBSET Workers /\ "closing" \in WorkerStates
  BY DEF In, WorkerStates
<1> QED
  BY ONLY T \in States, <1>2, <1>3, WorkersChange

\* spawn_enough_cpuworkers disturbs no worker that is there.
LEMMA SpawnsCarry ==
  ASSUME NEW T, T \in States, NEW U \in Spawns(T)
  PROVE  Carries(T, U)
<1>1. PICK S \in SUBSET In(T, "none") :
        U = [T EXCEPT !.worker = SetAll(@, S, "idle"),
                      !.num = @ + Cardinality(S), !.old = SetAll(@, S, FALSE)]
  BY DEF Spawns
<1>2. /\ U.state = T.state /\ U.linked = T.linked /\ U.ol_list = T.ol_list
      /\ U.job = T.job /\ U.worker = SetAll(T.worker, S, "idle")
  BY <1>1 DEF States
<1>3. S \in SUBSET Workers /\ "idle" \in WorkerStates
      /\ \A w \in S : T.worker[w] \in {"none", "idle"}
  BY DEF In, WorkerStates
<1> QED
  BY ONLY T \in States, <1>2, <1>3, WorkersChange

\* onion_pending_add queues the circuit; those it gives up are marked.
LEMMA PendingAddCarries ==
  ASSUME NEW T, T \in States, NEW c \in Circuits, NEW U \in PendingAdd(T, c)
  PROVE  Carries(T, U) /\ OnList(U, c)
<1> DEFINE n == Len(T.ol_list)
           tooOld(k) == {T.ol_list[i] : i \in 1..k}
<1>1. /\ T.ol_list \in Seq(Circuits) /\ n \in Nat /\ DOMAIN T.ol_list = 1..n
      /\ \A i \in 1..n : T.ol_list[i] \in Circuits
      /\ T.state \in [Circuits -> CircStates]
  BY Fields
<1>2. CASE n = 0
  <2>1. U = [T EXCEPT !.ol_list = <<c>>]
    BY <1>2 DEF PendingAdd
  <2>2. /\ U.state = T.state /\ U.linked = T.linked /\ U.ol_list = <<c>>
        /\ U.job = T.job /\ U.worker = T.worker
    BY <2>1 DEF States
  <2>3. OnList(U, c)
    BY <2>2 DEF OnList
  <2>4. \A d : ~OnList(T, d)
    BY <1>1, <1>2 DEF OnList
  <2>5. Steady(T, U)
    BY <2>2 DEF Steady
  <2> QED
    BY <2>3, <2>4, <2>5 DEF Carries
<1>3. CASE n # 0
  <2>1. PICK k \in 0..n :
          U = [T EXCEPT !.ol_list = SubSeq(@, k + 1, n) \o <<c>>,
                        !.state = SetAll(@, tooOld(k), "marked")]
    BY <1>1, <1>3 DEF PendingAdd
  <2> DEFINE L == SubSeq(T.ol_list, k + 1, n) \o <<c>>
             O == tooOld(k)
  <2>2. /\ U.state = SetAll(T.state, O, "marked") /\ U.linked = T.linked
        /\ U.ol_list = L /\ U.job = T.job /\ U.worker = T.worker
    BY <2>1 DEF States
  <2>3. /\ DOMAIN L = 1..(n - k + 1) /\ L[n - k + 1] = c
        /\ \A i \in 1..(n - k) : L[i] = T.ol_list[k + i]
    <3> DEFINE q == T.ol_list
    <3>1. q \in Seq(Circuits) /\ k \in 0..Len(q) /\ c \in Circuits
      BY <1>1
    <3> HIDE DEF q
    <3>2. L = SubSeq(q, k + 1, Len(q)) \o <<c>>
      BY DEF q
    <3> HIDE DEF L
    <3>3. /\ L \in Seq(Circuits)
          /\ DOMAIN L = 1..(Len(q) - k + 1)
          /\ L[Len(q) - k + 1] = c
          /\ \A i \in 1..(Len(q) - k) : L[i] = q[k + i]
      BY ONLY <3>1, <3>2, RequeueProperties
    <3> QED
      BY <3>3 DEF q
  <2> HIDE DEF L
  <2>4. n - k + 1 \in DOMAIN L
    BY <1>1, <2>3
  <2>5. OnList(U, c)
    BY <2>2, <2>3, <2>4 DEF OnList
  <2>6. \A d \in Circuits : U.state[d] = IF d \in O THEN "marked" ELSE T.state[d]
    BY <1>1, <2>2 DEF SetAll
  <2>7. Steady(T, U)
    BY <2>2, <2>6 DEF Steady
  <2>8. ASSUME NEW d \in Circuits, OnList(T, d), U.state[d] = "pending"
        PROVE  OnList(U, d)
    <3>1. d \notin O
      BY <2>6, <2>8
    <3>2. PICK i \in 1..n : T.ol_list[i] = d
      BY <1>1, <2>8 DEF OnList
    <3>3. i \notin 1..k
      BY <3>1, <3>2
    <3> DEFINE j == i - k
    <3>4. j \in 1..(n - k) /\ k + j = i
      BY <1>1, <3>3
    <3> HIDE DEF j
    <3>5. j \in DOMAIN L
      BY <1>1, <2>3, <3>4
    <3> QED
      BY <2>2, <2>3, <3>2, <3>4, <3>5 DEF OnList
  <2> QED
    BY <2>5, <2>7, <2>8 DEF Carries
<1> QED
  BY <1>2, <1>3

\* An idle worker takes the onionskin of c.
LEMMA GiveCarries ==
  ASSUME NEW T, T \in States, NEW c \in Circuits, NEW w \in In(T, "idle"),
         NEW U, U = Give(T, w, c)
  PROVE  Carries(T, U) /\ Tends(U, c)
<1>1. /\ U.state = T.state /\ U.linked = T.linked /\ U.ol_list = T.ol_list
      /\ U.worker = [T.worker EXCEPT ![w] = "busy"]
      /\ U.job = [T.job EXCEPT ![w] = c]
  BY DEF States, Give
<1>2. /\ T.worker \in [Workers -> WorkerStates] /\ w \in Workers
      /\ T.job \in [Workers -> Circuits \cup {NoCirc}] /\ T.worker[w] = "idle"
  BY Fields DEF In
<1>3. Steady(T, U)
  BY <1>1, <1>2 DEF Steady
<1>4. Carries(T, U)
  BY <1>1, <1>3 DEF Carries, OnList
<1>5. U.worker[w] = "busy" /\ U.job[w] = c
  BY <1>1, <1>2
<1> QED
  BY <1>2, <1>4, <1>5 DEF Tends

\* assign_onionskin_to_cpuworker reports an error or sees that the circuit is
\* tended; given an idle worker it does the latter.
LEMMA AssignsCarries ==
  ASSUME NEW T0, Good(T0), NEW c \in Circuits, T0.linked[c],
         NEW W \in SUBSET In(T0, "idle"), NEW r \in Assigns(T0, W, c)
  PROVE  Carries(T0, r.T) /\ (r.ok => Tends(r.T, c)) /\ (W # {} => r.ok)
<1> DEFINE queue(T) == IF PendingAdd(T, c) = {} THEN {[ok |-> FALSE, T |-> T]}
                       ELSE {[ok |-> TRUE, T |-> U] : U \in PendingAdd(T, c)}
           idle(T) == IF W = {} THEN In(T, "idle") ELSE W
           result(T) ==
             CASE T.busy = T.num -> queue(T)
               [] T.busy # T.num /\ idle(T) = {} ->
                    {[ok |-> TRUE, T |-> [T EXCEPT !.crashed = TRUE]]}
               [] T.busy # T.num /\ idle(T) # {} /\ ~T.linked[c] ->
                    {[ok |-> FALSE, T |-> T]}
               [] OTHER -> {[ok |-> TRUE, T |-> Give(T, w, c)] : w \in idle(T)}
<1>1. r \in UNION {result(T) : T \in UNION {Spawns(S) : S \in Culls(T0)}}
  BY DEF Assigns, Give
<1> HIDE DEF result
<1>2. PICK T \in UNION {Spawns(S) : S \in Culls(T0)} : r \in result(T)
  BY <1>1
<1>3. PICK S \in Culls(T0) : T \in Spawns(S)
  OBVIOUS
<1>4. Good(S) /\ In(S, "idle") = In(T0, "idle") /\ S.linked = T0.linked
  BY CullsGood
<1>5. Good(T) /\ In(S, "idle") \subseteq In(T, "idle") /\ T.linked = S.linked
  BY <1>3, <1>4, SpawnsGood
<1>6. T0 \in States /\ S \in States /\ T \in States
  BY <1>4, <1>5 DEF Good, Sound
<1>7. Carries(T0, T)
  <2>1. Carries(T0, S) /\ Carries(S, T)
    BY <1>3, <1>6, CullsCarry, SpawnsCarry
  <2> QED
    BY <2>1, Transitive DEF Carries
<1>8. T.linked[c] /\ W \subseteq In(T, "idle")
  BY <1>4, <1>5
<1>9. /\ T.num - T.busy = Cardinality(In(T, "idle"))
      /\ T.num \in Int /\ T.busy \in Int
  BY <1>5, <1>6, Fields DEF Good, Sound, Counted
<1>10. CASE T.busy = T.num
  <2>1. r \in queue(T)
    BY <1>2, <1>10 DEF result
  <2>2. W = {}
    <3>1. Cardinality(In(T, "idle")) = 0
      BY <1>9, <1>10
    <3>2. IsFiniteSet(In(T, "idle"))
      BY InFinite
    <3>3. In(T, "idle") = {}
      BY <3>1, <3>2, FS_EmptySet
    <3> QED
      BY <1>8, <3>3
  <2>3. CASE PendingAdd(T, c) = {}
    <3>1. r = [ok |-> FALSE, T |-> T]
      BY <2>1, <2>3
    <3>2. r.T = T /\ r.ok = FALSE
      BY <3>1
    <3> QED
      BY <1>7, <2>2, <3>2
  <2>4. CASE PendingAdd(T, c) # {}
    <3>1. PICK U \in PendingAdd(T, c) : r = [ok |-> TRUE, T |-> U]
      BY <2>1, <2>4
    <3>2. Carries(T, U) /\ OnList(U, c)
      BY <1>6, PendingAddCarries
    <3>3. Carries(T0, U) /\ Tends(U, c)
      BY <1>7, <3>2, Transitive DEF Carries, Tends
    <3>4. r.T = U
      BY <3>1
    <3> QED
      BY <2>2, <3>3, <3>4
  <2> QED
    BY <2>3, <2>4
<1>11. CASE T.busy # T.num
  <2>1. In(T, "idle") # {}
    <3>1. Cardinality(In(T, "idle")) # 0
      BY <1>9, <1>11
    <3> QED
      BY <3>1, FS_EmptySet
  <2>2. idle(T) # {} /\ idle(T) \subseteq In(T, "idle")
    BY <1>8, <2>1
  <2> HIDE DEF idle
  <2>3. PICK w \in idle(T) : r = [ok |-> TRUE, T |-> Give(T, w, c)]
    BY <1>2, <1>8, <1>11, <2>2 DEF result
  <2>4. w \in In(T, "idle")
    BY <2>2
  <2>5. PICK U : U = Give(T, w, c)
    OBVIOUS
  <2>6. Carries(T, U) /\ Tends(U, c)
    BY <1>6, <2>4, <2>5, GiveCarries
  <2>7. r.T = U /\ r.ok = TRUE
    BY <2>3, <2>5
  <2> QED
    BY <1>7, <2>6, <2>7, Transitive DEF Carries
<1> QED
  BY <1>10, <1>11

\* process_pending_task: whoever waits on ol_list is tended afterwards.
LEMMA ProcessPendingTaskCarries ==
  ASSUME NEW T, Good(T), NEW w \in In(T, "idle"),
         \A d \in Circuits : T.state[d] = "pending" => T.linked[d],
         NEW U \in ProcessPendingTask(T, w)
  PROVE  /\ Steady(T, U)
         /\ \A d \in Circuits :
              OnList(T, d) /\ U.state[d] = "pending" => Tends(U, d)
<1> DEFINE c == Head(T.ol_list)
<1>1. T \in States /\ T.ol_list \in Seq(Circuits)
  BY Fields DEF Good, Sound
<1>2. CASE T.ol_list = << >>
  <2>1. U = T
    BY <1>2 DEF ProcessPendingTask
  <2> QED
    BY <2>1 DEF Steady, Tends
<1>3. CASE T.ol_list # << >> /\ ~T.linked[c]
  <2>1. U = [T EXCEPT !.crashed = TRUE]
    BY <1>3 DEF ProcessPendingTask
  <2>2. /\ U.state = T.state /\ U.linked = T.linked /\ U.ol_list = T.ol_list
        /\ U.worker = T.worker /\ U.job = T.job
    BY <1>1, <2>1 DEF States
  <2> QED
    BY <2>2 DEF Steady, Tends, OnList
<1>4. CASE T.ol_list # << >> /\ T.linked[c]
  <2> DEFINE L == Tail(T.ol_list)
  <2>1. /\ c \in Circuits /\ L \in Seq(Circuits) /\ c = T.ol_list[1]
        /\ DOMAIN L = 1..(Len(T.ol_list) - 1) /\ DOMAIN T.ol_list = 1..Len(T.ol_list)
        /\ Len(T.ol_list) \in Nat
        /\ \A i \in DOMAIN L : L[i] = T.ol_list[i + 1]
    BY <1>1, <1>4, HeadTailProperties
  <2>2. PICK V : V = [T EXCEPT !.ol_list = Tail(@)]
    OBVIOUS
  <2>3. PICK r \in Assigns(V, {w}, c) : U = r.T
    BY <1>4, <2>2 DEF ProcessPendingTask
  <2>4. /\ V.state = T.state /\ V.linked = T.linked /\ V.ol_list = L
        /\ V.worker = T.worker /\ V.job = T.job
    BY <1>1, <2>2 DEF States
  <2> HIDE DEF L, c
  <2>5. ASSUME NEW d \in Circuits, OnList(T, d), d # c PROVE OnList(V, d)
    <3>1. PICK i \in DOMAIN T.ol_list : T.ol_list[i] = d
      BY <2>5 DEF OnList
    <3>2. i - 1 \in DOMAIN L /\ L[i - 1] = T.ol_list[i]
      BY <2>1, <2>5, <3>1
    <3> QED
      BY <2>4, <3>1, <3>2 DEF OnList
  <2>6. Good(V) /\ {w} \in SUBSET In(V, "idle") /\ V.linked[c]
    BY <1>1, <1>4, <2>1, <2>2, <2>4, TailGood DEF c, In
  <2>7. Carries(V, r.T) /\ (r.ok => Tends(r.T, c)) /\ r.ok
    <3> DEFINE W == {w}
    <3>1. W \in SUBSET In(V, "idle") /\ W # {} /\ r \in Assigns(V, W, c)
      BY <2>3, <2>6
    <3> HIDE DEF W
    <3> QED
      BY <2>1, <2>6, <3>1, AssignsCarries
  <2>8. Steady(V, U) /\ Tends(U, c)
        /\ \A d \in Circuits : OnList(V, d) /\ U.state[d] = "pending" => OnList(U, d)
    BY <2>3, <2>7 DEF Carries
  <2>9. Steady(T, U)
    BY <2>4, <2>8 DEF Steady
  <2> QED
    BY <2>5, <2>8, <2>9 DEF Tends
<1> QED
  BY <1>2, <1>3, <1>4

\* _circuit_mark_for_close: the other circuits stay on ol_list.
LEMMA MarkCarries ==
  ASSUME NEW T, T \in States, NEW c \in Circuits, NEW U, U = MarkForClose(T, c)
  PROVE  Carries(T, U) /\ U.state[c] = "marked"
<1> DEFINE q == T.ol_list
           L == IF T.state[c] = "pending" THEN Without(q, c) ELSE q
<1>1. /\ U.state = [T.state EXCEPT ![c] = "marked"] /\ U.linked = T.linked
      /\ U.ol_list = L /\ U.worker = T.worker /\ U.job = T.job
  BY DEF MarkForClose, States
<1>2. q \in Seq(Circuits) /\ T.state \in [Circuits -> CircStates]
  BY Fields
<1>3. U.state[c] = "marked" /\ \A d \in Circuits \ {c} : U.state[d] = T.state[d]
  BY <1>1, <1>2
<1>4. ASSUME NEW d \in Circuits, OnList(T, d), U.state[d] = "pending"
      PROVE  OnList(U, d)
  <2> DEFINE D == Circuits \ {c}
  <2>1. d \in D
    BY <1>3, <1>4
  <2>2. PICK i \in DOMAIN q : q[i] = d
    BY <1>4 DEF OnList
  <2>3. CASE T.state[c] = "pending"
    <3>1. L = Keep(q, D)
      BY <2>3 DEF Without
    <3> HIDE DEF q, L, D
    <3>2. \A k \in DOMAIN q : q[k] \in D => \E j \in DOMAIN L : L[j] = q[k]
      BY <1>2, <3>1, KeepProperties
    <3> QED
      BY <1>1, <2>1, <2>2, <3>2 DEF OnList
  <2>4. CASE T.state[c] # "pending"
    BY <1>1, <2>2, <2>4 DEF OnList
  <2> QED
    BY <2>3, <2>4
<1>5. Steady(T, U)
  BY <1>1, <1>3 DEF Steady
<1> QED
  BY <1>3, <1>4, <1>5 DEF Carries

\* A circuit that waits for its answer has its connection, and no other circuit
\* has its tag there.
LinkOK(st, li) ==
  /\ \A d \in Circuits : st[d] = "pending" => li[d]
  /\ \A d, e \in Circuits : li[d] /\ li[e] /\ TagOf[d] = TagOf[e] => d = e

Links == LinkOK(state, linked)

\* The step of NeverForgotten.
ForgetsNone ==
  \A c \in Circuits :
    state'[c] = "pending" /\ up'[TagOf[c][1]] = "open" =>
      \/ Tended(c)'
      \/ state[c] = "pending" /\ ~Tended(c)
      \/ \E w \in Workers : /\ worker[w] = "busy" /\ job[w] = c
                            /\ worker'[w] = "closing"

\* Links that are only cut, of circuits that do not wait, stay in order.
LEMMA LinksCut ==
  ASSUME NEW st, NEW li, NEW su, NEW lj, LinkOK(st, li),
         \A d \in Circuits : lj[d] => li[d],
         \A d \in Circuits : su[d] = "pending" => st[d] = "pending" /\ (li[d] => lj[d])
  PROVE  LinkOK(su, lj)
BY DEF LinkOK

\* The worker w has given the circuit d back, or did not have it.
LeftOr(T, U, d) ==
  \A w \in Workers : T.worker[w] = "busy" /\ T.job[w] = d =>
    \/ U.job[w] = d /\ U.worker[w] \in {"busy", "closing"}
    \/ U.worker[w] = "closing"

\* A step from T to U forgets nobody when those on ol_list are tended after it and
\* every worker keeps its circuit or is given up.
LEMMA KeptStep ==
  ASSUME NEW U, Become(U), U \in States, LinkOK(U.state, U.linked),
         \A d \in Circuits :
           U.state[d] = "pending" /\ up'[TagOf[d][1]] = "open" =>
             \/ Tends(U, d)
             \/ /\ state[d] = "pending"
                /\ OnList(Current, d) => Tends(U, d)
                /\ LeftOr(Current, U, d)
  PROVE  Links' /\ ForgetsNone
<1>1. Current' = U
  BY BecomeIs
<1>2. /\ state' = U.state /\ linked' = U.linked /\ worker' = U.worker
      /\ job' = U.job /\ ol_list' = U.ol_list
  BY DEF Become
<1>3. ASSUME NEW d \in Circuits, state'[d] = "pending", up'[TagOf[d][1]] = "open"
      PROVE  \/ Tended(d)'
             \/ state[d] = "pending" /\ ~Tended(d)
             \/ \E w \in Workers : /\ worker[w] = "busy" /\ job[w] = d
                                   /\ worker'[w] = "closing"
  <2>1. Tends(U, d) <=> Tended(d)'
    BY <1>2 DEF Tends, Tended, OnList
  <2>2. CASE Tends(U, d)
    BY <2>1, <2>2
  <2>3. CASE ~Tends(U, d)
    <3>1. state[d] = "pending" /\ ~OnList(Current, d) /\ LeftOr(Current, U, d)
      BY <1>2, <1>3, <2>3
    <3>2. ASSUME Tended(d)
          PROVE  \E w \in Workers : /\ worker[w] = "busy" /\ job[w] = d
                                    /\ worker'[w] = "closing"
      <4>1. PICK w \in Workers : worker[w] = "busy" /\ job[w] = d
        BY <3>1, <3>2, CurrentFields DEF Tended, OnList
      <4>2. \/ U.job[w] = d /\ U.worker[w] \in {"busy", "closing"}
            \/ U.worker[w] = "closing"
        BY <3>1, <4>1, CurrentFields DEF LeftOr
      <4>3. ~(U.job[w] = d /\ U.worker[w] = "busy")
        BY <2>3 DEF Tends
      <4> QED
        BY <1>2, <4>1, <4>2, <4>3
    <3> QED
      BY <3>1, <3>2
  <2> QED
    BY <2>2, <2>3
<1>4. Links'
  BY <1>2 DEF Links
<1>5. ForgetsNone
  BY <1>3 DEF ForgetsNone
<1> QED
  BY <1>4, <1>5

\* The usual case: the step carries everything but some links that are cut.
LEMMA CarriedStep ==
  ASSUME Inv, Links, NEW T, NEW U, Become(U), U \in States, Carries(T, U),
         T.state = state, T.ol_list = ol_list, T.worker = worker, T.job = job,
         \A d \in Circuits : T.linked[d] => linked[d],
         \A d \in Circuits : U.state[d] = "pending" /\ linked[d] => T.linked[d]
  PROVE  Links' /\ ForgetsNone
<1>1. LinkOK(U.state, U.linked)
  <2>1. /\ LinkOK(state, linked) /\ U.linked = T.linked
        /\ \A d \in Circuits : U.state[d] = "pending" => state[d] = "pending"
    BY DEF Links, Carries, Steady
  <2>2. \A d \in Circuits : U.linked[d] => linked[d]
    BY <2>1
  <2>3. \A d \in Circuits : U.state[d] = "pending" =>
          state[d] = "pending" /\ (linked[d] => U.linked[d])
    BY <2>1
  <2> QED
    BY <2>1, <2>2, <2>3 DEF LinkOK
<1>2. ASSUME NEW d \in Circuits, U.state[d] = "pending"
      PROVE  /\ state[d] = "pending"
             /\ OnList(Current, d) => Tends(U, d)
             /\ LeftOr(Current, U, d)
  <2>1. state[d] = "pending"
    BY <1>2 DEF Carries, Steady
  <2>2. OnList(Current, d) => Tends(U, d)
    BY <1>2, CurrentFields DEF Carries, Tends, OnList
  <2>3. LeftOr(Current, U, d)
    <3>1. \A v \in Workers : worker[v] \in {"busy", "closing"} =>
            U.job[v] = job[v] /\ U.worker[v] \in {worker[v], "closing"}
      BY DEF Carries, Steady
    <3> QED
      BY <3>1, CurrentFields DEF LeftOr
  <2> QED
    BY <2>1, <2>2, <2>3
<1> QED
  BY <1>1, <1>2, KeptStep

\* CREATE: the new circuit is queued, at a worker or marked.
LEMMA CreateKeeps ==
  ASSUME Inv, Links, NEW c \in Circuits, Create(c)
  PROVE  Links' /\ ForgetsNone
<1> DEFINE T == Current
           V == [T EXCEPT !.state[c] = "pending", !.linked[c] = TRUE]
<1>1. /\ Good(T) /\ T \in States /\ T.state[c] = "none" /\ T.state = state
      /\ T.linked = linked
      /\ \A d \in Circuits : linked[d] => TagOf[d] # TagOf[c]
  BY CurrentFields DEF Inv, Good, Sound, Create
<1>2. PICK r \in Assigns(V, {}, c) :
        Become(IF r.ok THEN r.T ELSE MarkForClose(r.T, c))
  BY DEF Create
<1> HIDE DEF T
<1>4. V = St([T.state EXCEPT ![c] = "pending"], [T.linked EXCEPT ![c] = TRUE],
             T.ol_list, T.worker, T.job, T.reply, T.old, T.num, T.busy, T.crashed)
  <2>1. ASSUME NEW x, x = [T EXCEPT !.state[c] = "pending", !.linked[c] = TRUE]
        PROVE  x = St([T.state EXCEPT ![c] = "pending"],
                      [T.linked EXCEPT ![c] = TRUE], T.ol_list, T.worker, T.job,
                      T.reply, T.old, T.num, T.busy, T.crashed)
    BY <1>1, <2>1 DEF States, St
  <2> QED
    BY <2>1
<1> HIDE DEF V
<1>5. ASSUME TagsDistinct
      PROVE  ~OnList(T, c) /\ \A w \in In(T, "busy") : T.job[w] # c
  BY <1>1, <1>5 DEF Good, Queued, Listed, ListOK, Asked, AskOK, OnList
<1>6. Good(V)
  <2>1. "pending" \in CircStates \ {"none"} /\ TRUE \in BOOLEAN
    BY DEF CircStates
  <2> QED
    BY <1>1, <1>4, <1>5, <2>1, OffListGood
<1>7. /\ V.state = [T.state EXCEPT ![c] = "pending"]
      /\ V.linked = [T.linked EXCEPT ![c] = TRUE]
      /\ V.ol_list = T.ol_list /\ V.worker = T.worker /\ V.job = T.job
  BY <1>4 DEF St
<1>8. /\ V.state[c] = "pending" /\ V.linked[c]
      /\ \A d \in Circuits \ {c} : /\ V.state[d] = state[d]
                                   /\ V.linked[d] = linked[d]
  BY <1>1, <1>7, Fields
<1>9. ASSUME TagsDistinct PROVE Ready(V, c)
  BY <1>5, <1>7, <1>8, <1>9 DEF Ready, OnList, In
<1>10. Good(r.T)
  <2> DEFINE W == {}
  <2>1. W \in SUBSET In(V, "idle") /\ r \in Assigns(V, W, c)
    BY <1>2
  <2> HIDE DEF W
  <2> QED
    BY <1>6, <1>9, <2>1, AssignsGood
<1>11. Carries(V, r.T) /\ (r.ok => Tends(r.T, c))
  <2> DEFINE W == {}
  <2>1. W \in SUBSET In(V, "idle") /\ r \in Assigns(V, W, c)
    BY <1>2
  <2> HIDE DEF W
  <2> QED
    BY <1>6, <1>8, <2>1, AssignsCarries
<1> DEFINE U == IF r.ok THEN r.T ELSE MarkForClose(r.T, c)
<1>12. /\ U \in States /\ Carries(V, U)
       /\ U.state[c] = "pending" => Tends(U, c)
  <2>1. r.T \in States
    BY <1>10 DEF Good, Sound
  <2>2. CASE r.ok
    BY <1>11, <2>1, <2>2
  <2>3. CASE ~r.ok
    <3>1. U = MarkForClose(r.T, c)
      BY <2>3
    <3> HIDE DEF U
    <3>2. Good(U)
      BY <1>10, <3>1, MarkOnlyGood
    <3>3. Carries(r.T, U) /\ U.state[c] = "marked"
      BY <2>1, <3>1, MarkCarries
    <3>4. Carries(V, U)
      BY <1>11, <3>3, Transitive DEF Carries
    <3> QED
      BY <3>2, <3>3, <3>4 DEF Good, Sound
  <2> QED
    BY <2>2, <2>3
<1> HIDE DEF U
<1>13. LinkOK(U.state, U.linked)
  <2>1. LinkOK(V.state, V.linked)
    <3>1. \A d \in Circuits : state[d] = "pending" => linked[d]
      BY DEF Links, LinkOK
    <3>2. \A d, e \in Circuits :
            linked[d] /\ linked[e] /\ TagOf[d] = TagOf[e] => d = e
      BY DEF Links, LinkOK
    <3>3. ASSUME NEW d \in Circuits, NEW e \in Circuits, V.linked[d], V.linked[e],
                 TagOf[d] = TagOf[e]
          PROVE  d = e
      BY <1>1, <1>8, <3>2, <3>3
    <3>4. \A d \in Circuits : V.state[d] = "pending" => V.linked[d]
      BY <1>8, <3>1
    <3> QED
      BY <3>3, <3>4 DEF LinkOK
  <2>2. /\ U.linked = V.linked
        /\ \A d \in Circuits : U.state[d] = "pending" => V.state[d] = "pending"
    BY <1>12 DEF Carries, Steady
  <2> QED
    BY <2>1, <2>2, LinksCut
<1>14. ASSUME NEW d \in Circuits, U.state[d] = "pending", d # c
       PROVE  /\ state[d] = "pending"
              /\ OnList(T, d) => Tends(U, d)
              /\ LeftOr(T, U, d)
  <2>1. state[d] = "pending"
    BY <1>8, <1>12, <1>14 DEF Carries, Steady
  <2>2. OnList(T, d) => Tends(U, d)
    BY <1>7, <1>12, <1>14 DEF Carries, OnList, Tends
  <2>3. LeftOr(T, U, d)
    <3>1. \A v \in Workers : T.worker[v] \in {"busy", "closing"} =>
            U.job[v] = T.job[v] /\ U.worker[v] \in {T.worker[v], "closing"}
      BY <1>7, <1>12 DEF Carries, Steady
    <3> QED
      BY <3>1 DEF LeftOr
  <2> QED
    BY <2>1, <2>2, <2>3
<1>15. Become(U)
  BY <1>2 DEF U
<1> QED
  BY <1>12, <1>13, <1>14, <1>15, KeptStep DEF T

\* The answer of a worker.  With distinct tags the circuit that is opened is the
\* one the worker was asked about, which is not on ol_list.  With any tags, if
\* the circuit it was asked about still waits on an open connection, that circuit
\* is the one that is found, and waits no longer.
LEMMA ProcessInbufStep ==
  ASSUME Inv, NEW w \in Workers, ProcessInbuf(w)
  PROVE  Inv' /\ (Links => Links' /\ ForgetsNone)
<1> DEFINE T == Current
           found == Found(T, TagOf[job[w]])
           c == CHOOSE x \in found : TRUE
           opened == [T EXCEPT !.state[c] = "open"]
           answered ==
             CASE found = {} -> {T}
               [] found # {} /\ reply[w] = "ok" -> {opened, MarkForClose(opened, c)}
               [] OTHER -> {MarkForClose(T, c)}
           done(A) == [A EXCEPT !.worker[w] = "idle", !.job[w] = NoCirc,
                                !.reply[w] = "none", !.busy = @ - 1]
           replaced(A) ==
             Spawns([A EXCEPT !.worker[w] = "closing", !.num = @ - 1])
<1>1. /\ Good(T) /\ T \in States /\ T.state = state /\ T.worker = worker
      /\ T.job = job /\ T.linked = linked /\ T.ol_list = ol_list
      /\ state \in [Circuits -> CircStates]
  <2>1. Good(T) /\ T \in States
    BY DEF Inv, Good, Sound
  <2> QED
    BY <2>1, CurrentFields, Fields
<1>2. /\ worker[w] = "busy" /\ reply[w] # "none" /\ up' = up
      /\ w \in In(T, "busy")
  BY <1>1 DEF ProcessInbuf, In
<1>3. PICK A \in answered :
        \E U \in IF old[w] THEN replaced(done(A))
                 ELSE ProcessPendingTask(done(A), w) : Become(U)
  BY DEF ProcessInbuf
<1>4. found # {} => /\ c \in found /\ c \in Circuits /\ linked[c]
                    /\ TagOf[c] = TagOf[job[w]]
  BY <1>1 DEF Found
<1>5. ASSUME Links, NEW d \in Circuits, state[d] = "pending", job[w] = d,
             up[TagOf[d][1]] = "open"
      PROVE  d \in found
  <2>1. linked[d] /\ state[d] # "marked"
    BY <1>5 DEF Links, LinkOK
  <2> QED
    BY <1>1, <1>5, <2>1 DEF Found
<1> HIDE DEF T, found, c
<1>6. ASSUME found # {}, NEW V, V = opened
      PROVE  /\ Good(V) /\ Carries(T, V) /\ V.worker = T.worker
             /\ V.state[c] = "open"
  <2> DEFINE b == T.linked[c]
  <2>1. c \in Circuits /\ TagOf[c] = TagOf[job[w]]
    BY <1>4, <1>6
  <2>2. V = St([T.state EXCEPT ![c] = "open"], T.linked, T.ol_list, T.worker,
               T.job, T.reply, T.old, T.num, T.busy, T.crashed)
    BY <1>1, <1>6 DEF States, St
  <2>3. /\ T.linked = [T.linked EXCEPT ![c] = b] /\ b \in BOOLEAN
        /\ T.state \in [Circuits -> CircStates]
    BY <1>1, <2>1, Fields
  <2> HIDE DEF b
  <2>4. V = St([T.state EXCEPT ![c] = "open"], [T.linked EXCEPT ![c] = b],
               T.ol_list, T.worker, T.job, T.reply, T.old, T.num, T.busy,
               T.crashed)
    BY <2>2, <2>3
  <2>5. ASSUME TagsDistinct PROVE ~OnList(T, c)
    <3>1. Asked(T)
      BY <1>1, <2>5 DEF Good, Queued
    <3>2. job[w] \in Circuits /\ ~\E i \in DOMAIN T.ol_list : T.ol_list[i] = job[w]
      BY <1>1, <1>2, <3>1 DEF Asked, AskOK
    <3>3. c = job[w]
      BY <2>1, <2>5, <3>2 DEF TagsDistinct
    <3> QED
      BY <3>2, <3>3 DEF OnList
  <2>6. "open" \in CircStates \ {"none"}
    BY DEF CircStates
  <2>7. Good(V)
    BY <1>1, <2>1, <2>3, <2>4, <2>5, <2>6, OffListGood
  <2>8. /\ V.state = [T.state EXCEPT ![c] = "open"] /\ V.linked = T.linked
        /\ V.ol_list = T.ol_list /\ V.worker = T.worker /\ V.job = T.job
    BY <2>2 DEF St
  <2>9. /\ V.state[c] = "open"
        /\ \A d \in Circuits : V.state[d] = "pending" => T.state[d] = "pending"
    BY <2>1, <2>3, <2>8
  <2>10. Carries(T, V)
    BY <2>8, <2>9 DEF Carries, Steady, OnList
  <2> QED
    BY <2>7, <2>8, <2>9, <2>10
<1>7. /\ Good(A) /\ Carries(T, A) /\ A.worker = T.worker
      /\ found # {} => A.state[c] # "pending"
  <2>1. CASE found = {}
    <3>1. A = T
      BY <1>3, <2>1
    <3> QED
      BY <1>1, <2>1, <3>1 DEF Carries, Steady
  <2>2. CASE found # {} /\ reply[w] = "ok"
    <3>1. A = opened \/ A = MarkForClose(opened, c)
      BY <1>3, <2>2
    <3>2. PICK V : V = opened
      OBVIOUS
    <3> HIDE DEF opened
    <3>3. /\ Good(V) /\ Carries(T, V) /\ V.worker = T.worker
          /\ V.state[c] = "open"
      BY <1>6, <2>2, <3>2
    <3>4. CASE A = opened
      BY <3>2, <3>3, <3>4
    <3>5. CASE A = MarkForClose(opened, c)
      <4>1. A = MarkForClose(V, c) /\ c \in Circuits /\ V \in States
        BY <1>4, <2>2, <3>2, <3>3, <3>5 DEF Good, Sound
      <4>2. Carries(V, A) /\ A.state[c] = "marked"
        BY <4>1, MarkCarries
      <4>3. Good(A) /\ A.worker = V.worker
        BY <3>3, <4>1, MarkOnlyGood
      <4>4. Carries(T, A)
        BY <3>3, <4>2, Transitive DEF Carries
      <4> QED
        BY <3>3, <4>2, <4>3, <4>4
    <3> QED
      BY <3>1, <3>4, <3>5
  <2>3. CASE found # {} /\ reply[w] # "ok"
    <3>1. A = MarkForClose(T, c) /\ c \in Circuits
      BY <1>3, <1>4, <2>3
    <3>2. Carries(T, A) /\ A.state[c] = "marked"
      BY <1>1, <3>1, MarkCarries
    <3>3. Good(A) /\ A.worker = T.worker
      BY <1>1, <3>1, MarkOnlyGood
    <3> QED
      BY <3>2, <3>3
  <2> QED
    BY <2>1, <2>2, <2>3
<1> HIDE DEF answered
<1> DEFINE D == done(A)
<1>8. /\ Good(D) /\ w \in In(D, "idle")
      /\ D.state = A.state /\ D.linked = A.linked /\ D.ol_list = A.ol_list
      /\ D.worker = [A.worker EXCEPT ![w] = "idle"]
      /\ D.job = [A.job EXCEPT ![w] = NoCirc]
      /\ A.worker \in [Workers -> WorkerStates]
      /\ A.job \in [Workers -> Circuits \cup {NoCirc}]
  <2>1. A \in States
    BY <1>7 DEF Good, Sound
  <2>2. ASSUME NEW x, x = [A EXCEPT !.worker[w] = "idle", !.job[w] = NoCirc,
                                    !.reply[w] = "none", !.busy = @ - 1]
        PROVE  x = St(A.state, A.linked, A.ol_list, [A.worker EXCEPT ![w] = "idle"],
                      [A.job EXCEPT ![w] = NoCirc], [A.reply EXCEPT ![w] = "none"],
                      A.old, A.num, A.busy - 1, A.crashed)
    BY <2>1, <2>2 DEF States, St
  <2>3. D = St(A.state, A.linked, A.ol_list, [A.worker EXCEPT ![w] = "idle"],
               [A.job EXCEPT ![w] = NoCirc], [A.reply EXCEPT ![w] = "none"],
               A.old, A.num, A.busy - 1, A.crashed)
    BY <2>2
  <2> HIDE DEF D, done
  <2>4. w \in In(A, "busy")
    BY <1>1, <1>2, <1>7 DEF In
  <2>5. Good(D) /\ w \in In(D, "idle")
    BY <1>7, <2>3, <2>4, DoneGood
  <2> QED
    BY <2>1, <2>3, <2>5, Fields DEF St
<1>9. PICK U \in IF old[w] THEN replaced(D) ELSE ProcessPendingTask(D, w) :
        Become(U)
  BY <1>3
<1> HIDE DEF D, done
<1>10. /\ Good(U)
       /\ Links => /\ Steady(D, U)
                   /\ \A d \in Circuits :
                        OnList(D, d) /\ U.state[d] = "pending" => Tends(U, d)
  <2>1. CASE ~old[w]
    <3>1. U \in ProcessPendingTask(D, w)
      BY <1>9, <2>1
    <3>2. Good(U)
      BY <1>8, <3>1, ProcessPendingTaskGood
    <3>3. ASSUME Links, NEW d \in Circuits, D.state[d] = "pending"
          PROVE  D.linked[d]
      BY <1>1, <1>7, <1>8, <3>3 DEF Carries, Steady, Links, LinkOK
    <3> QED
      BY <1>8, <3>1, <3>2, <3>3, ProcessPendingTaskCarries
  <2>2. CASE old[w]
    <3> DEFINE R == [D EXCEPT !.worker[w] = "closing", !.num = @ - 1]
    <3>1. U \in Spawns(R)
      BY <1>9, <2>2
    <3>2. /\ D \in States /\ D.worker \in [Workers -> WorkerStates]
          /\ D.old \in [Workers -> BOOLEAN]
          /\ D.num \in Int /\ D.busy \in Int
      BY <1>8, Fields DEF Good, Sound
    <3>3. ASSUME NEW x, x = [D EXCEPT !.worker[w] = "closing", !.num = @ - 1]
          PROVE  x = St(D.state, D.linked, D.ol_list,
                        [D.worker EXCEPT ![w] = "closing"], D.job, D.reply, D.old,
                        D.num - 1, D.busy, D.crashed)
      BY <3>2, <3>3 DEF States, St
    <3> DEFINE S == {w}
               B == {}
    <3>4. /\ [D.worker EXCEPT ![w] = "closing"] = SetAll(D.worker, S \cup B, "closing")
          /\ S \in SUBSET In(D, "idle") /\ B \in SUBSET In(D, "busy")
          /\ AgeOK(D.old) /\ S \cup B \in SUBSET Workers
      BY <1>8, <3>2 DEF SetAll, AgeOK
    <3>5. Cardinality(S) = 1 /\ Cardinality(B) = 0
      BY FS_Singleton, FS_EmptySet
    <3> HIDE DEF S, B
    <3>6. /\ D.num - 1 = D.num - Cardinality(S) - Cardinality(B)
          /\ D.busy = D.busy - Cardinality(B)
      BY <3>2, <3>5
    <3>7. R = St(D.state, D.linked, D.ol_list,
                 SetAll(D.worker, S \cup B, "closing"), D.job, D.reply, D.old,
                 D.num - Cardinality(S) - Cardinality(B),
                 D.busy - Cardinality(B), D.crashed)
      BY <3>3, <3>4, <3>6
    <3> HIDE DEF R
    <3>8. Good(R)
      BY ONLY <1>8, <3>4, <3>7, RetireGood, Zenon
    <3>9. Good(U)
      BY <3>1, <3>8, SpawnsGood
    <3>10. /\ R.state = D.state /\ R.linked = D.linked /\ R.ol_list = D.ol_list
           /\ R.job = D.job /\ R.worker = SetAll(D.worker, S \cup B, "closing")
      BY <3>7 DEF St
    <3>11. Carries(D, R)
      <4> DEFINE X == S \cup B
      <4>1. X \in SUBSET Workers /\ R.worker = SetAll(D.worker, X, "closing")
        BY <3>4, <3>10
      <4>2. "closing" \in WorkerStates
        BY DEF WorkerStates
      <4> HIDE DEF X
      <4> QED
        BY ONLY <3>2, <3>10, <4>1, <4>2, WorkersChange
    <3>12. Carries(R, U)
      BY <3>1, <3>8, SpawnsCarry DEF Good, Sound
    <3>13. Carries(D, U)
      BY <3>11, <3>12, Transitive DEF Carries
    <3> QED
      BY <3>9, <3>13 DEF Carries, Tends
  <2> QED
    BY <2>1, <2>2
<1>11. U \in States
  BY <1>10 DEF Good, Sound
<1>a. Inv'
  <2>1. Current' = U
    BY <1>9, <1>11, BecomeIs
  <2> QED
    BY <1>2, <1>10, <2>1 DEF Inv
<1> SUFFICES ASSUME Links PROVE Links' /\ ForgetsNone
  BY <1>a
<1>b. LinkOK(U.state, U.linked)
  <2>1. /\ U.linked = linked
        /\ \A d \in Circuits : U.state[d] = "pending" => state[d] = "pending"
    BY <1>1, <1>7, <1>8, <1>10 DEF Carries, Steady
  <2> QED
    BY <2>1, LinksCut DEF Links
<1>12. ASSUME NEW d \in Circuits, U.state[d] = "pending",
              up'[TagOf[d][1]] = "open"
       PROVE  /\ state[d] = "pending"
              /\ OnList(T, d) => Tends(U, d)
              /\ LeftOr(T, U, d)
  <2>1. state[d] = "pending" /\ A.state[d] = "pending"
    BY <1>1, <1>7, <1>8, <1>10, <1>12 DEF Carries, Steady
  <2>2. OnList(T, d) => Tends(U, d)
    <3>1. ASSUME OnList(T, d) PROVE OnList(D, d)
      BY <1>7, <1>8, <2>1, <3>1 DEF Carries, OnList
    <3> QED
      BY <1>10, <1>12, <3>1
  <2>3. ASSUME NEW v \in Workers, T.worker[v] = "busy", T.job[v] = d
        PROVE  \/ U.job[v] = d /\ U.worker[v] \in {"busy", "closing"}
               \/ U.worker[v] = "closing"
    <3>1. CASE v = w
      <4>1. d \in found
        BY <1>1, <1>2, <1>5, <1>12, <2>1, <2>3, <3>1
      <4>2. c = d
        <5>1. linked[c] /\ linked[d] /\ TagOf[c] = TagOf[d] /\ c \in Circuits
          BY <1>1, <1>4, <2>1, <2>3, <3>1, <4>1 DEF Links, LinkOK
        <5> QED
          BY <5>1 DEF Links, LinkOK
      <4> QED
        BY <1>7, <2>1, <4>1, <4>2
    <3>2. CASE v # w
      <4>1. A.worker[v] = "busy" /\ A.job[v] = d
        BY <1>7, <2>3 DEF Carries, Steady
      <4>2. D.worker[v] = "busy" /\ D.job[v] = d
        BY <1>8, <3>2, <4>1
      <4> QED
        BY <1>10, <4>2 DEF Steady
    <3> QED
      BY <3>1, <3>2
  <2> QED
    BY <2>1, <2>2, <2>3 DEF LeftOr
<1> QED
  BY <1>9, <1>11, <1>12, <1>b, KeptStep DEF T

\* CREATE_FAST and circuit_free: a circuit that does not wait changes its state.
LEMMA OffListKeeps ==
  ASSUME Links, Inv', NEW c \in Circuits, NEW s, s # "pending", NEW b \in BOOLEAN,
         b => \A d \in Circuits : linked[d] => TagOf[d] # TagOf[c],
         Become([Current EXCEPT !.state[c] = s, !.linked[c] = b]), Inv
  PROVE  Links' /\ ForgetsNone
<1>1. /\ state \in [Circuits -> CircStates] /\ linked \in [Circuits -> BOOLEAN]
  BY Fields, CurrentFields DEF Inv, Good, Sound
<1>2. /\ state' = [state EXCEPT ![c] = s] /\ linked' = [linked EXCEPT ![c] = b]
      /\ ol_list' = ol_list /\ worker' = worker /\ job' = job
  BY DEF Become, Current
<1>3. /\ state'[c] = s /\ linked'[c] = b
      /\ \A d \in Circuits \ {c} : state'[d] = state[d] /\ linked'[d] = linked[d]
  BY <1>1, <1>2
<1>4. Links'
  <2>1. \A d \in Circuits : state'[d] = "pending" => linked'[d]
    BY <1>3 DEF Links, LinkOK
  <2>2. ASSUME NEW d \in Circuits, NEW e \in Circuits, linked'[d], linked'[e],
               TagOf[d] = TagOf[e]
        PROVE  d = e
    BY <1>3, <2>2 DEF Links, LinkOK
  <2> QED
    BY <2>1, <2>2 DEF Links, LinkOK
<1>5. ForgetsNone
  BY <1>2, <1>3 DEF ForgetsNone, Tended
<1> QED
  BY <1>4, <1>5

\* Marking a circuit, or cutting its link first as DESTROY does.
LEMMA MarkKeeps ==
  ASSUME Links, Inv, NEW c \in Circuits, NEW T, T \in States,
         T.state = state, T.ol_list = ol_list, T.worker = worker, T.job = job,
         \A d \in Circuits : T.linked[d] => linked[d],
         \A d \in Circuits \ {c} : T.linked[d] = linked[d],
         Become(MarkForClose(T, c)), Inv'
  PROVE  Links' /\ ForgetsNone
<1>1. PICK U : U = MarkForClose(T, c)
  OBVIOUS
<1>2. Become(U) /\ Carries(T, U) /\ U.state[c] = "marked"
  BY <1>1, MarkCarries
<1>3. U \in States
  <2>1. Current' \in States
    BY DEF Inv, Good, Sound
  <2>2. U = [T EXCEPT !.state[c] = "marked",
                      !.ol_list = IF T.state[c] = "pending"
                                  THEN Without(@, c) ELSE @]
    BY <1>1 DEF MarkForClose
  <2>3. U = St(U.state, U.linked, U.ol_list, U.worker, U.job, U.reply, U.old, U.num,
               U.busy, U.crashed)
    BY <2>2 DEF States, St
  <2>4. Current' = St(U.state, U.linked, U.ol_list, U.worker, U.job, U.reply, U.old,
                      U.num, U.busy, U.crashed)
    BY <1>2 DEF Become, Current, St
  <2> QED
    BY <2>1, <2>3, <2>4
<1>4. \A d \in Circuits : U.state[d] = "pending" /\ linked[d] => T.linked[d]
  BY <1>2
<1> QED
  BY <1>2, <1>3, <1>4, CarriedStep

\* circuit_mark_for_close ...
LEMMA MarkCircuitKeeps ==
  ASSUME Links, Inv, Inv', NEW c \in Circuits, MarkCircuit(c)
  PROVE  Links' /\ ForgetsNone
<1>1. Current \in States
  BY DEF Inv, Good, Sound
<1>2. Become(MarkForClose(Current, c))
  BY DEF MarkCircuit
<1> QED
  BY <1>1, <1>2, CurrentFields, MarkKeeps

\* ... and a DESTROY cell.
LEMMA DestroyFromBehindKeeps ==
  ASSUME Links, Inv, Inv', NEW c \in Circuits, DestroyFromBehind(c)
  PROVE  Links' /\ ForgetsNone
<1>1. Current \in States /\ linked \in [Circuits -> BOOLEAN]
  BY Fields, CurrentFields DEF Inv, Good, Sound
<1>2. PICK T : T = [Current EXCEPT !.linked[c] = FALSE]
  OBVIOUS
<1>3. Become(MarkForClose(T, c))
  BY <1>2 DEF DestroyFromBehind
<1>4. /\ T.state = state /\ T.ol_list = ol_list /\ T.worker = worker /\ T.job = job
      /\ T.linked = [linked EXCEPT ![c] = FALSE]
  BY <1>2 DEF Current
<1>5. T \in States
  <2>1. T = St(Current.state, T.linked, Current.ol_list, Current.worker, Current.job,
               Current.reply, Current.old, Current.num, Current.busy,
               Current.crashed)
    BY <1>1, <1>2 DEF States, St
  <2>2. T.linked \in [Circuits -> BOOLEAN]
    BY <1>1, <1>4
  <2> QED
    BY <1>1, <2>1, <2>2, Fields DEF States, St
<1>6. /\ \A d \in Circuits : T.linked[d] => linked[d]
      /\ \A d \in Circuits \ {c} : T.linked[d] = linked[d]
  BY <1>1, <1>4
<1> QED
  BY <1>3, <1>4, <1>5, <1>6, MarkKeeps

\* Steps that change no circuit and keep ol_list: a worker keeps its circuit or is
\* closed, or was not busy.
LEMMA WorkerKeeps ==
  ASSUME Links, UNCHANGED <<state, linked, ol_list>>,
         \A v \in Workers : worker[v] = "busy" =>
           /\ worker'[v] \in {"busy", "closing"}
           /\ job'[v] = job[v]
  PROVE  Links' /\ ForgetsNone
<1>1. Links'
  BY DEF Links, LinkOK
<1>2. ForgetsNone
  BY DEF ForgetsNone, Tended
<1> QED
  BY <1>1, <1>2

\* A connection closes: its circuits do not wait any longer.
LEMMA CloseConnKeeps ==
  ASSUME Links, Inv, NEW o \in Conns, CloseConn(o)
  PROVE  Links' /\ ForgetsNone
<1> DEFINE gone == {c \in Circuits : linked[c] /\ TagOf[c][1] = o}
           K == {c \in Circuits : ~(c \in gone /\ state[c] = "pending")}
           L == Keep(ol_list, K)
<1>1. /\ state \in [Circuits -> CircStates] /\ linked \in [Circuits -> BOOLEAN]
      /\ ol_list \in Seq(Circuits)
  BY Fields, CurrentFields DEF Inv, Good, Sound
<1>2. /\ state' = SetAll(state, gone, "marked")
      /\ linked' = SetAll(linked, gone, FALSE)
      /\ ol_list' = L /\ worker' = worker /\ job' = job
  BY DEF CloseConn, Become, Current
<1>3. \A d \in Circuits :
        /\ state'[d] = IF d \in gone THEN "marked" ELSE state[d]
        /\ linked'[d] = IF d \in gone THEN FALSE ELSE linked[d]
  BY <1>1, <1>2 DEF SetAll
<1>4. Links'
  BY <1>3 DEF Links, LinkOK
<1>5. ASSUME NEW d \in Circuits, state'[d] = "pending", NEW i \in DOMAIN ol_list,
             ol_list[i] = d
      PROVE  \E k \in DOMAIN L : L[k] = d
  <2>1. d \in K
    BY <1>3, <1>5
  <2>2. L = Keep(ol_list, K)
    OBVIOUS
  <2> HIDE DEF K, L
  <2>3. \A j \in DOMAIN ol_list : ol_list[j] \in K =>
          \E k \in DOMAIN L : L[k] = ol_list[j]
    BY <1>1, <2>2, KeepProperties
  <2> QED
    BY <1>5, <2>1, <2>3
<1>6. \A d \in Circuits : state'[d] = "pending" => state[d] = "pending"
  BY <1>3
<1>7. ASSUME NEW d \in Circuits, state'[d] = "pending", Tended(d)
      PROVE  Tended(d)'
  <2>1. CASE \E i \in DOMAIN ol_list : ol_list[i] = d
    <3>1. \E k \in DOMAIN L : L[k] = d
      BY <1>5, <1>7, <2>1
    <3> HIDE DEF L
    <3> QED
      BY <1>2, <3>1 DEF Tended
  <2>2. CASE \E v \in Workers : worker[v] = "busy" /\ job[v] = d
    BY <1>2, <2>2 DEF Tended
  <2> QED
    BY <1>7, <2>1, <2>2 DEF Tended
<1>8. ForgetsNone
  BY <1>6, <1>7 DEF ForgetsNone
<1> QED
  BY <1>4, <1>8

\* Workers that die, are given up or made anew keep what they were asked.
LEMMA ReachedEofKeeps ==
  ASSUME Links, Inv, NEW w \in Workers, ReachedEof(w)
  PROVE  Links' /\ ForgetsNone
<1> DEFINE T == [Current EXCEPT
                   !.busy = IF worker[w] = "busy" THEN @ - 1 ELSE @,
                   !.num = @ - 1]
<1>1. PICK S \in Spawns(T) : Become([S EXCEPT !.worker[w] = "closing"])
  BY DEF ReachedEof
<1>2. PICK X \in SUBSET In(T, "none") :
        S = [T EXCEPT !.worker = SetAll(@, X, "idle"), !.num = @ + Cardinality(X),
                      !.old = SetAll(@, X, FALSE)]
  BY DEF Spawns
<1>3. /\ worker \in [Workers -> WorkerStates]
  BY Fields, CurrentFields DEF Inv, Good, Sound
<1>4. \A x \in X : worker[x] = "none"
  BY DEF In, Current
<1>5. /\ S.state = state /\ S.linked = linked /\ S.ol_list = ol_list /\ S.job = job
      /\ S.worker = SetAll(worker, X, "idle")
  BY <1>2 DEF Current
<1>6. /\ UNCHANGED <<state, linked, ol_list, job>>
      /\ worker' = [SetAll(worker, X, "idle") EXCEPT ![w] = "closing"]
  <2>1. PICK U : U = [S EXCEPT !.worker[w] = "closing"]
    OBVIOUS
  <2>2. /\ U.state = state /\ U.linked = linked /\ U.ol_list = ol_list
        /\ U.job = job
        /\ U.worker = [SetAll(worker, X, "idle") EXCEPT ![w] = "closing"]
    BY <1>2, <1>5, <2>1 DEF Current
  <2> QED
    BY <1>1, <2>1, <2>2 DEF Become
<1>7. \A v \in Workers : worker[v] = "busy" => worker'[v] \in {"busy", "closing"}
  BY <1>3, <1>4, <1>6 DEF SetAll
<1> QED
  BY <1>6, <1>7, WorkerKeeps

\* cpuworkers_rotate: the busy workers stay.
LEMMA RotateKeeps ==
  ASSUME Links, Inv, Rotate
  PROVE  Links' /\ ForgetsNone
<1> DEFINE idle == In(Current, "idle")
<1>1. PICK S \in SUBSET In(Current, "busy") :
        \E U \in Spawns([Current EXCEPT !.worker = SetAll(@, idle, "closing"),
                                        !.num = @ - Cardinality(idle),
                                        !.old = SetAll(@, S, TRUE)]) :
          Become(U)
  BY DEF Rotate
<1>2. PICK T : T = [Current EXCEPT !.worker = SetAll(@, idle, "closing"),
                                   !.num = @ - Cardinality(idle),
                                   !.old = SetAll(@, S, TRUE)]
  OBVIOUS
<1>3. PICK U \in Spawns(T) : Become(U)
  BY <1>1, <1>2
<1>4. PICK X \in SUBSET In(T, "none") :
        U = [T EXCEPT !.worker = SetAll(@, X, "idle"), !.num = @ + Cardinality(X),
                      !.old = SetAll(@, X, FALSE)]
  BY <1>3 DEF Spawns
<1>5. /\ T.state = state /\ T.linked = linked /\ T.ol_list = ol_list /\ T.job = job
      /\ T.worker = SetAll(worker, idle, "closing")
  BY <1>2 DEF Current
<1>6. /\ UNCHANGED <<state, linked, ol_list, job>>
      /\ worker' = SetAll(T.worker, X, "idle")
  <2>1. /\ U.state = state /\ U.linked = linked /\ U.ol_list = ol_list
        /\ U.job = job /\ U.worker = SetAll(T.worker, X, "idle")
    BY <1>2, <1>4, <1>5 DEF Current
  <2> QED
    BY <1>3, <2>1 DEF Become
<1>7. worker \in [Workers -> WorkerStates]
  BY Fields, CurrentFields DEF Inv, Good, Sound
<1>8. \A v \in Workers : worker[v] = "busy" => v \notin idle
  BY CurrentFields DEF In
<1>9. \A v \in X : T.worker[v] = "none" /\ v \in Workers
  BY DEF In
<1> HIDE DEF idle
<1>10. /\ \A v \in Workers : worker[v] = "busy" => T.worker[v] = "busy"
       /\ T.worker \in [Workers -> WorkerStates]
  BY <1>5, <1>7, <1>8 DEF SetAll, WorkerStates
<1>11. \A v \in Workers : worker[v] = "busy" => worker'[v] = "busy"
  BY <1>6, <1>9, <1>10 DEF SetAll
<1> QED
  BY <1>6, <1>11, WorkerKeeps

\* Whatever the step, the links stay in order and no onionskin is forgotten.
LEMMA NextKeeps ==
  ASSUME Inv, Links, Next, Inv'
  PROVE  Links' /\ ForgetsNone
<1>1. ASSUME NEW c \in Circuits, Create(c) PROVE Links' /\ ForgetsNone
  BY <1>1, CreateKeeps
<1>2. ASSUME NEW c \in Circuits, CreateFast(c) PROVE Links' /\ ForgetsNone
  <2>1. PICK s \in {"open", "marked"} :
          Become([Current EXCEPT !.state[c] = s, !.linked[c] = TRUE])
    BY <1>2 DEF CreateFast
  <2>2. s # "pending" /\ \A d \in Circuits : linked[d] => TagOf[d] # TagOf[c]
    BY <1>2 DEF CreateFast
  <2> QED
    BY <2>1, <2>2, OffListKeeps
<1>3. ASSUME NEW c \in Circuits, FreeCircuit(c) PROVE Links' /\ ForgetsNone
  <2>1. Become([Current EXCEPT !.state[c] = "freed", !.linked[c] = FALSE])
    BY <1>3 DEF FreeCircuit
  <2> QED
    BY <2>1, OffListKeeps
<1>4. ASSUME NEW o \in Conns, MarkConn(o) PROVE Links' /\ ForgetsNone
  <2>1. UNCHANGED <<state, linked, ol_list, worker, job>>
    BY <1>4 DEF MarkConn, Become, Current
  <2> QED
    BY <2>1, WorkerKeeps
<1>5. ASSUME NEW w \in Workers, Compute(w) PROVE Links' /\ ForgetsNone
  BY <1>5, WorkerKeeps DEF Compute
<1>6. ASSUME NEW w \in Workers, SocketError(w) PROVE Links' /\ ForgetsNone
  <2>1. /\ UNCHANGED <<state, linked, ol_list, job>>
        /\ worker' = [worker EXCEPT ![w] = "closing"]
    BY <1>6 DEF SocketError, Become, Current
  <2>2. worker \in [Workers -> WorkerStates]
    BY Fields, CurrentFields DEF Inv, Good, Sound
  <2> QED
    BY <2>1, <2>2, WorkerKeeps
<1>7. ASSUME NEW w \in Workers, CloseWorker(w) PROVE Links' /\ ForgetsNone
  <2>1. /\ UNCHANGED <<state, linked, ol_list>> /\ worker[w] = "closing"
        /\ worker' = [worker EXCEPT ![w] = "none"]
        /\ job' = [job EXCEPT ![w] = NoCirc]
    BY <1>7 DEF CloseWorker, Become, Current
  <2>2. /\ worker \in [Workers -> WorkerStates]
        /\ job \in [Workers -> Circuits \cup {NoCirc}]
    BY Fields, CurrentFields DEF Inv, Good, Sound
  <2> QED
    BY <2>1, <2>2, WorkerKeeps
<1>8. ASSUME NEW c \in Circuits, MarkCircuit(c) PROVE Links' /\ ForgetsNone
  BY <1>8, MarkCircuitKeeps
<1>9. ASSUME NEW c \in Circuits, DestroyFromBehind(c) PROVE Links' /\ ForgetsNone
  BY <1>9, DestroyFromBehindKeeps
<1>10. ASSUME NEW o \in Conns, CloseConn(o) PROVE Links' /\ ForgetsNone
  BY <1>10, CloseConnKeeps
<1>11. ASSUME NEW w \in Workers, ProcessInbuf(w) PROVE Links' /\ ForgetsNone
  BY <1>11, ProcessInbufStep
<1>12. ASSUME NEW w \in Workers, ReachedEof(w) PROVE Links' /\ ForgetsNone
  BY <1>12, ReachedEofKeeps
<1>13. ASSUME Rotate PROVE Links' /\ ForgetsNone
  BY <1>13, RotateKeeps
<1> QED
  BY <1>1, <1>2, <1>3, <1>4, <1>5, <1>6, <1>7, <1>8, <1>9, <1>10, <1>11, <1>12,
     <1>13 DEF Next

----------------------------------------------------------------------------
(* The theorems.                                                           *)

\* The invariant holds at the start.
LEMMA InitInv == Init => Inv
<1> SUFFICES ASSUME Init PROVE Inv
  OBVIOUS
<1>1. PICK S \in SUBSET Workers :
        /\ worker = [w \in Workers |-> IF w \in S THEN "idle" ELSE "none"]
        /\ num_cpuworkers = Cardinality(S)
  BY DEF Init
<1>2. Cardinality(S) \in Nat
  BY FS_Subset, FS_CardinalityType
<1>3. Current \in States
  <2>1. /\ worker \in [Workers -> WorkerStates] /\ num_cpuworkers \in Int
        /\ num_cpuworkers_busy \in Int
    BY <1>1, <1>2 DEF Init, WorkerStates
  <2>2. /\ state \in [Circuits -> CircStates] /\ linked \in [Circuits -> BOOLEAN]
        /\ ol_list \in Seq(Circuits) /\ crashed \in BOOLEAN
    <3>1. ol_list \in Seq(Circuits)
      BY DEF Init
    <3>2. state \in [Circuits -> CircStates]
      BY DEF Init, CircStates
    <3>3. linked \in [Circuits -> BOOLEAN]
      BY DEF Init
    <3>4. crashed \in BOOLEAN
      BY DEF Init
    <3> QED
      BY <3>1, <3>2, <3>3, <3>4
  <2>3. /\ job \in [Workers -> Circuits \cup {NoCirc}]
        /\ reply \in [Workers -> {"none", "ok", "bad"}]
        /\ old \in [Workers -> BOOLEAN]
    BY DEF Init
  <2> QED
    BY <2>1, <2>2, <2>3 DEF Current, States
<1>4. In(Current, "idle") = S /\ In(Current, "busy") = {}
  BY <1>1, CurrentFields DEF In
<1>5. Cardinality({}) = 0
  BY FS_EmptySet
<1>6. Counted(Current)
  <2>1. Current.num = Cardinality(S) /\ Current.busy = 0
    BY <1>1, CurrentFields DEF Init
  <2>2. /\ Cardinality(In(Current, "idle")) = Cardinality(S)
        /\ Cardinality(In(Current, "busy")) = 0
    BY <1>4, <1>5
  <2> QED
    BY <1>2, <2>1, <2>2 DEF Counted
<1>7. Queued(Current)
  <2>1. Current.ol_list = << >> /\ ~Current.crashed
    BY CurrentFields DEF Init
  <2> QED
    BY <1>4, <2>1 DEF Queued, Listed, ListOK, Asked, AskOK
<1>8. up \in [Conns -> {"open", "marked", "closed"}]
  BY DEF Init
<1> QED
  BY <1>3, <1>6, <1>7, <1>8 DEF Inv, Good, Sound

\* Every step keeps the invariant.
LEMMA NextInv == Inv /\ [Next]_vars => Inv'
<1> SUFFICES ASSUME Inv, [Next]_vars PROVE Inv'
  OBVIOUS
<1>1. CASE UNCHANGED vars
  BY <1>1 DEF vars, Inv, Good, Sound, States, Counted, In, Queued, Listed, ListOK,
              Asked, AskOK, Current
<1>2. ASSUME NEW c \in Circuits, Create(c) PROVE Inv'
  BY <1>2, CreateStep
<1>3. ASSUME NEW c \in Circuits, CreateFast(c) PROVE Inv'
  BY <1>3, CreateFastStep
<1>4. ASSUME NEW c \in Circuits, MarkCircuit(c) PROVE Inv'
  BY <1>4, MarkCircuitStep
<1>5. ASSUME NEW c \in Circuits, DestroyFromBehind(c)
      PROVE  Inv'
  BY <1>5, DestroyFromBehindStep
<1>6. ASSUME NEW c \in Circuits, FreeCircuit(c) PROVE Inv'
  BY <1>6, FreeCircuitStep
<1>7. ASSUME NEW o \in Conns, MarkConn(o) PROVE Inv'
  BY <1>7, MarkConnStep
<1>8. ASSUME NEW o \in Conns, CloseConn(o) PROVE Inv'
  BY <1>8, CloseConnStep
<1>9. ASSUME NEW w \in Workers, Compute(w) PROVE Inv'
  BY <1>9, ComputeStep
<1>10. ASSUME NEW w \in Workers, ProcessInbuf(w) PROVE Inv'
  BY <1>10, ProcessInbufStep
<1>11. ASSUME NEW w \in Workers, ReachedEof(w) PROVE Inv'
  BY <1>11, ReachedEofStep
<1>12. ASSUME NEW w \in Workers, SocketError(w) PROVE Inv'
  BY <1>12, SocketErrorStep
<1>13. ASSUME NEW w \in Workers, CloseWorker(w) PROVE Inv'
  BY <1>13, CloseWorkerStep
<1>14. ASSUME Rotate PROVE Inv'
  BY <1>14, RotateStep
<1> QED
  BY <1>1, <1>2, <1>3, <1>4, <1>5, <1>6, <1>7, <1>8, <1>9, <1>10, <1>11, <1>12,
     <1>13, <1>14 DEF Next

\* What the invariant says of the variables.
LEMMA InvMeans ==
  ASSUME Inv
  PROVE  TypeOK /\ IdleCounted /\ (TagsDistinct => QueueValid /\ ~crashed)
<1>1. Good(Current) /\ Current \in States /\ Counted(Current)
  BY DEF Inv, Good, Sound
<1>2. /\ Cardinality(In(Current, "idle")) \in Nat
      /\ Cardinality(In(Current, "busy")) \in Nat
  BY InFinite
<1>3. num_cpuworkers \in Int /\ num_cpuworkers_busy \in Int
  BY <1>1, Fields, CurrentFields
<1>4. num_cpuworkers \in Nat /\ num_cpuworkers_busy \in Nat /\ IdleCounted
  <2>1. /\ num_cpuworkers - num_cpuworkers_busy = Cardinality(In(Current, "idle"))
        /\ Cardinality(In(Current, "busy")) <= num_cpuworkers_busy
    BY <1>1, CurrentFields DEF Counted
  <2> QED
    BY <1>2, <1>3, <2>1 DEF IdleCounted
<1>5. TypeOK
  BY <1>1, <1>4, Fields, CurrentFields DEF TypeOK, Inv, CircStates, WorkerStates
<1>6. ASSUME TagsDistinct PROVE QueueValid /\ ~crashed
  <2>1. Queued(Current)
    BY <1>1, <1>6 DEF Good
  <2> QED
    BY <2>1, CurrentFields
       DEF Queued, Listed, ListOK, Asked, AskOK, QueueValid
<1> QED
  BY <1>4, <1>5, <1>6

\* Every reachable state of the workers and the queue is well typed; the two
\* counters of cpuworker.c never go below zero.
THEOREM TypeCorrect == Spec => []TypeOK
<1>1. Inv => TypeOK
  BY InvMeans
<1> QED
  BY <1>1, InitInv, NextInv, PTL DEF Spec

\* num_cpuworkers and num_cpuworkers_busy always differ by the number of idle
\* workers, however workers are culled, die, are rotated or fail to start.
THEOREM CountersAgree == Spec => []IdleCounted
<1>1. Inv => IdleCounted
  BY InvMeans
<1> QED
  BY <1>1, InitInv, NextInv, PTL DEF Spec

\* If peers do not use circuit ids again, every circuit on ol_list is pending, has
\* its connection, waits once and is not at a worker as well.
THEOREM QueueStaysValid == TagsDistinct => (Spec => []QueueValid)
<1> SUFFICES ASSUME TagsDistinct PROVE Spec => []QueueValid
  OBVIOUS
<1>1. Inv => QueueValid
  BY InvMeans
<1> QED
  BY <1>1, InitInv, NextInv, PTL DEF Spec

\* Under the same condition no assertion of cpuworker.c or onion.c fails: a worker
\* is idle when the counters say so, and a circuit taken from ol_list has its
\* connection.
THEOREM AssertionsHold == TagsDistinct => (Spec => []~crashed)
<1> SUFFICES ASSUME TagsDistinct PROVE Spec => []~crashed
  OBVIOUS
<1>1. Inv => ~crashed
  BY InvMeans
<1> QED
  BY <1>1, InitInv, NextInv, PTL DEF Spec

\* Whatever ids the peers use, and use again: an onionskin is on ol_list or at a
\* worker until its circuit is answered or closed, or the worker that has it is
\* given up.
THEOREM NoOnionskinForgotten == Spec => NeverForgotten
<1>1. Init => Links
  BY DEF Init, Links, LinkOK
<1>2. Inv /\ Links /\ [Next]_vars => Links' /\ (ForgetsNone \/ UNCHANGED vars)
  <2>1. CASE UNCHANGED vars
    BY <2>1 DEF vars, Links, LinkOK
  <2>2. CASE Next
    BY <2>2, NextInv, NextKeeps
  <2> QED
    BY <2>1, <2>2
<1>3. Inv /\ Links /\ [Next]_vars =>
        [\A c \in Circuits :
           state'[c] = "pending" /\ up'[TagOf[c][1]] = "open" =>
             \/ Tended(c)'
             \/ state[c] = "pending" /\ ~Tended(c)
             \/ \E w \in Workers : /\ worker[w] = "busy" /\ job[w] = c
                                   /\ worker'[w] = "closing"]_vars
  BY <1>2 DEF ForgetsNone
<1> QED
  BY <1>1, <1>2, <1>3, InitInv, NextInv, PTL DEF Spec, NeverForgotten
=============================================================================
