-------------------------- MODULE RendezvousProofs --------------------------
(***************************************************************************)
(* Proof that the service answers every handshake once (Rendezvous).  What *)
(* the client does is of no matter for it: any INTRODUCE2 may arrive at    *)
(* any time, any number of times.                                          *)
(***************************************************************************)
EXTENDS Rendezvous, FiniteSetTheorems, TLAPS

\* The circuit record r answers, or is to answer, the handshake x.
Claims(r, x) == r.cookie = x /\ (r.pending \/ r.purpose = "s_joined")

\* The fields of a circuit.
Shape(r) ==
  /\ r = [st |-> r.st, purpose |-> r.purpose, at |-> r.at, query |-> r.query,
          cookie |-> r.cookie, pending |-> r.pending, failures |-> r.failures]
  /\ r.pending \in BOOLEAN

\* A circuit to the rendezvous point that is being built has a handshake to send.
Armed(r) == r.st = "building" /\ r.purpose = "connect_rend" => r.pending

\* The circuits f of the service, when it has accepted the handshakes a: one at
\* most answers a handshake, and only for those it has accepted there are any.
Single(f, a) ==
  /\ f = [c \in SCircs |-> f[c]]
  /\ \A c \in SCircs : Shape(f[c]) /\ Armed(f[c])
  /\ \A c, d \in SCircs : \A x \in CCircs : Claims(f[c], x) /\ Claims(f[d], x) => c = d
  /\ \A c \in SCircs : \A x \in CCircs : f[c].cookie = x => x \in a

\* The fields of the service's state.
Fields(s) ==
  s = [circ |-> s.circ, out |-> s.out, intros |-> s.intros, accepted |-> s.accepted]

Service(s) == Fields(s) /\ Single(s.circ, s.accepted)

-----------------------------------------------------------------------------
\* A set of numbers that is not empty has a least one.
LEMMA LeastNat ==
  ASSUME NEW S, S \subseteq Nat, S # {}
  PROVE  \E x \in S : \A y \in S : x <= y
<1>1. \E x \in S : \A y \in S : ~(<<y, x>> \in OpToRel(<, Nat))
  BY WFMin, NatLessThanWellFounded
<1>2. PICK x \in S : \A y \in S : ~(<<y, x>> \in OpToRel(<, Nat))
  BY <1>1
<1>3. \A y \in S : ~(y < x)
  BY <1>2 DEF OpToRel
<1> QED
  BY <1>3

\* NextFree is a circuit that is not in use.
LEMMA NextFreeIsFree ==
  ASSUME NEW o, Free(o) \subseteq SCircs, Free(o) # {}
  PROVE  NextFree(o) \in Free(o)
<1>1. Free(o) \subseteq Nat
  BY RendezvousAssumption
<1>2. \E x \in Free(o) : \A y \in Free(o) : x <= y
  BY <1>1, LeastNat
<1> QED
  BY <1>2 DEF NextFree

\* One circuit becomes r: it may claim a handshake that no other one claims.
LEMMA Becomes ==
  ASSUME NEW f, NEW a, Single(f, a), NEW b, a \subseteq b, NEW c \in SCircs, NEW r,
         Shape(r), Armed(r),
         \A x \in CCircs : r.cookie = x => x \in b,
         \A x \in CCircs : Claims(r, x) => \A d \in SCircs \ {c} : ~Claims(f[d], x)
  PROVE  Single([f EXCEPT ![c] = r], b)
<1>1. PICK g : g = [f EXCEPT ![c] = r]
  OBVIOUS
<1>2. g = [d \in SCircs |-> g[d]] /\ g[c] = r /\ \A d \in SCircs \ {c} : g[d] = f[d]
  BY <1>1 DEF Single
<1>3. \A d \in SCircs : Shape(g[d]) /\ Armed(g[d])
  BY <1>2 DEF Single
<1>4. ASSUME NEW d \in SCircs, NEW e \in SCircs, NEW x \in CCircs,
             Claims(g[d], x), Claims(g[e], x)
      PROVE  d = e
  BY <1>2, <1>4 DEF Single
<1>5. \A d \in SCircs : \A x \in CCircs : g[d].cookie = x => x \in b
  BY <1>2 DEF Single
<1> QED
  BY <1>1, <1>2, <1>3, <1>4, <1>5 DEF Single

\* The same when it claims what it claimed before.
LEMMA Changes ==
  ASSUME NEW f, NEW a, Single(f, a), NEW c \in SCircs, NEW r, Shape(r), Armed(r),
         r.cookie = f[c].cookie,
         r.pending \/ r.purpose = "s_joined" => f[c].pending \/ f[c].purpose = "s_joined"
  PROVE  Single([f EXCEPT ![c] = r], a)
<1>1. \A x \in CCircs : r.cookie = x => x \in a
  BY DEF Single
<1>2. \A x \in CCircs : Claims(r, x) => Claims(f[c], x)
  BY DEF Claims
<1>3. \A x \in CCircs : Claims(r, x) => \A d \in SCircs \ {c} : ~Claims(f[d], x)
  BY <1>2 DEF Single
<1> QED
  BY <1>1, <1>3, Becomes

-----------------------------------------------------------------------------
(* The functions of rendservice.c, on the state s of the service.          *)

\* What s is put together from.
LEMMA Parts ==
  ASSUME NEW s, Service(s)
  PROVE  /\ DOMAIN s = {"circ", "out", "intros", "accepted"} /\ DOMAIN s.circ = SCircs
         /\ Single(s.circ, s.accepted)
         /\ \A c \in SCircs : Shape(s.circ[c]) /\ Armed(s.circ[c])
BY DEF Service, Single, Fields

\* The state of the service with circuits f, cells o, introduction points i, and
\* handshakes a.
State(f, o, i, a) == [circ |-> f, out |-> o, intros |-> i, accepted |-> a]

\* The state t is a good one with circuits f, and has accepted the handshakes a.
Serves(t, f, a) == Service(t) /\ t.circ = f /\ t.accepted = a

LEMMA Rebuild ==
  ASSUME NEW f, NEW o, NEW i, NEW a, Single(f, a)
  PROVE  Serves(State(f, o, i, a), f, a)
<1>1. PICK t : t = State(f, o, i, a)
  OBVIOUS
<1>2. t.circ = f /\ t.out = o /\ t.intros = i /\ t.accepted = a
  BY <1>1 DEF State
<1>3. Fields(t)
  BY <1>1, <1>2 DEF Fields, State
<1> QED
  BY <1>1, <1>2, <1>3 DEF Service, Serves

\* Cells sent change no circuit.
LEMMA SendOK ==
  ASSUME NEW s, Service(s), NEW c, NEW cell, NEW t, t = Send(s, c, cell)
  PROVE  Serves(t, s.circ, s.accepted)
<1>1. PICK o : o = [s.out EXCEPT ![c] = Append(@, cell)]
  OBVIOUS
<1>2. t = State(s.circ, o, s.intros, s.accepted)
  BY <1>1, Parts DEF Send, State
<1>3. Single(s.circ, s.accepted)
  BY Parts
<1> QED
  BY <1>2, <1>3, Rebuild

\* The circuit c becomes r.
LEMMA SetCircuit ==
  ASSUME NEW s, Service(s), NEW c, NEW r, Single([s.circ EXCEPT ![c] = r], s.accepted),
         NEW t, t = [s EXCEPT !.circ[c] = r]
  PROVE  Serves(t, [s.circ EXCEPT ![c] = r], s.accepted)
<1>1. PICK f, o, i, a : /\ f = [s.circ EXCEPT ![c] = r] /\ o = s.out
                        /\ i = s.intros /\ a = s.accepted
  OBVIOUS
<1>2. t = State(f, o, i, a)
  BY <1>1, Parts DEF State
<1>3. Single(f, a)
  BY <1>1
<1>4. Serves(t, f, a)
  BY <1>2, <1>3, Rebuild
<1> QED
  BY <1>1, <1>4

\* The circuit n of t takes over from c of s.
TakesOver(t, s, c, n, new, left) ==
  /\ Fields(t) /\ t.accepted = s.accepted
  /\ t.circ = [[s.circ EXCEPT ![n] = new] EXCEPT ![c] = left]
  /\ Shape(new) /\ new.st = "building" /\ new.purpose = s.circ[c].purpose
  /\ new.cookie = s.circ[c].cookie /\ new.pending = s.circ[c].pending
  /\ Shape(left) /\ left.purpose = s.circ[c].purpose
  /\ left.cookie = s.circ[c].cookie /\ left.pending = FALSE

\* rend_service_relaunch_rendezvous: the new circuit n takes over what the old one
\* gives up.
LEMMA RelaunchOK ==
  ASSUME NEW s, Service(s), NEW c \in SCircs, s.circ[c].st = "building",
         NEW t \in Relaunch(s, c), t # s
  PROVE  \E n \in SCircs \ {c} : \E new, left :
           TakesOver(t, s, c, n, new, left)
<1>1. PICK old : old = s.circ[c]
  OBVIOUS
<1>2. Shape(old) /\ DOMAIN s.circ = SCircs
  BY <1>1, Parts
<1>3. PICK n : n = NextFree(s)
  OBVIOUS
<1>4. PICK new, left : /\ new = [old EXCEPT !.failures = @ + 1]
                       /\ left = [old EXCEPT !.pending = FALSE]
  OBVIOUS
<1>5. /\ Free(s) # {}
      /\ t = [s EXCEPT !.circ[n] = new, !.circ[c].pending = FALSE]
  BY <1>1, <1>3, <1>4 DEF Relaunch
<1>6. n \in SCircs \ {c}
  BY <1>2, <1>3, <1>5, NextFreeIsFree DEF Free
<1>7. /\ Shape(new) /\ new.st = "building" /\ new.purpose = old.purpose
      /\ new.cookie = old.cookie /\ new.pending = old.pending
  BY <1>1, <1>2, <1>4 DEF Shape
<1>8. /\ Shape(left) /\ left.purpose = old.purpose
      /\ left.cookie = old.cookie /\ left.pending = FALSE
  BY <1>2, <1>4 DEF Shape
<1>9. PICK g : g = [[s.circ EXCEPT ![n] = new] EXCEPT ![c] = left]
  OBVIOUS
<1>10. t = [circ |-> g, out |-> s.out, intros |-> s.intros, accepted |-> s.accepted]
  <2>1. PICK f : f = [s.circ EXCEPT ![n] = new]
    OBVIOUS
  <2>2. f[c] = old /\ DOMAIN f = SCircs
    BY <1>1, <1>2, <1>6, <2>1
  <2>3. g = [f EXCEPT ![c].pending = FALSE]
    BY <1>4, <1>9, <2>1, <2>2
  <2>4. t = [s EXCEPT !.circ = [f EXCEPT ![c].pending = FALSE]]
    BY <1>5, <2>1, Parts
  <2> QED
    BY <2>3, <2>4, Parts
<1>11. Fields(t) /\ t.accepted = s.accepted /\ t.circ = g
  BY <1>10 DEF Fields
<1>12. TakesOver(t, s, c, n, new, left)
  BY <1>1, <1>7, <1>8, <1>9, <1>11 DEF TakesOver
<1> QED
  BY <1>6, <1>12

\* circuit_mark_for_close, of a state r that differs from s by a relaunch at most.
LEMMA ServiceCloseOK ==
  ASSUME NEW s, Service(s), NEW c \in SCircs, NEW told, NEW t \in ServiceClose(s, c, told)
  PROVE  Service(t)
<1>1. PICK r : /\ \/ r = s
                  \/ /\ s.circ[c].st = "building" /\ s.circ[c].purpose = "connect_rend"
                     /\ r \in Relaunch(s, c)
               /\ t = [(IF told THEN r ELSE Send(r, c, Destroy)) EXCEPT
                         !.circ[c].st = "marked"]
  BY DEF ServiceClose
<1>2. ASSUME Fields(r), DOMAIN r.circ = SCircs, r.accepted = s.accepted,
             NEW x, x = [r.circ[c] EXCEPT !.st = "marked"],
             Single([r.circ EXCEPT ![c] = x], s.accepted)
      PROVE  Service(t)
  <2>1. PICK q : q = IF told THEN r ELSE Send(r, c, Destroy)
    OBVIOUS
  <2>2. Fields(q) /\ q.circ = r.circ /\ q.accepted = r.accepted
    <3>1. CASE told
      BY <1>2, <2>1, <3>1
    <3>2. CASE ~told
      <4>1. PICK o : o = [r.out EXCEPT ![c] = Append(@, Destroy)]
        OBVIOUS
      <4>2. q = [circ |-> r.circ, out |-> o, intros |-> r.intros, accepted |-> r.accepted]
        BY <1>2, <2>1, <3>2, <4>1 DEF Send, Fields
      <4> QED
        BY <4>2 DEF Fields
    <3> QED
      BY <3>1, <3>2
  <2>3. PICK f : f = [r.circ EXCEPT ![c] = x]
    OBVIOUS
  <2>4. t = [q EXCEPT !.circ = f]
    BY <1>1, <1>2, <2>1, <2>2, <2>3
  <2>5. t = State(f, q.out, q.intros, q.accepted)
    BY <2>2, <2>4 DEF Fields, State
  <2>6. Single(f, q.accepted)
    BY <1>2, <2>2, <2>3
  <2>7. Serves(t, f, q.accepted)
    BY <2>5, <2>6, Rebuild
  <2> QED
    BY <2>7 DEF Serves
<1>3. Shape(s.circ[c]) /\ Armed(s.circ[c]) /\ Single(s.circ, s.accepted)
      /\ DOMAIN s.circ = SCircs
  BY Parts
<1>4. ASSUME NEW y, Shape(y), NEW x, x = [y EXCEPT !.st = "marked"]
      PROVE  /\ Shape(x) /\ Armed(x) /\ x.cookie = y.cookie /\ x.pending = y.pending
             /\ x.purpose = y.purpose
  BY <1>4 DEF Shape, Armed
<1>5. CASE r = s
  <2>1. PICK x, y : y = s.circ[c] /\ x = [y EXCEPT !.st = "marked"]
    OBVIOUS
  <2>2. /\ Shape(x) /\ Armed(x) /\ x.cookie = y.cookie /\ x.pending = y.pending
        /\ x.purpose = y.purpose
    BY <1>3, <1>4, <2>1
  <2>3. Single([s.circ EXCEPT ![c] = x], s.accepted)
    BY <1>3, <2>1, <2>2, Changes
  <2>4. Fields(s)
    BY DEF Fields, Service
  <2> QED
    BY <1>2, <1>3, <1>5, <2>1, <2>3, <2>4
<1>6. CASE r # s
  <2>0. PICK n \in SCircs \ {c} : \E new, left : TakesOver(r, s, c, n, new, left)
    BY <1>1, <1>6, RelaunchOK
  <2>1. PICK new, left : TakesOver(r, s, c, n, new, left)
    BY <2>0
  <2>2. s.circ[c].purpose = "connect_rend" /\ s.circ[c].pending
    BY <1>1, <1>3, <1>6 DEF Armed
  <2>3. PICK x : x = [left EXCEPT !.st = "marked"]
    OBVIOUS
  <2>4. /\ Shape(x) /\ Armed(x) /\ x.cookie = left.cookie /\ x.pending = left.pending
        /\ x.purpose = left.purpose
    BY <1>4, <2>1, <2>3 DEF TakesOver
  <2>5. PICK f : f = [s.circ EXCEPT ![c] = x]
    OBVIOUS
  <2>6. Single(f, s.accepted)
    BY <1>3, <2>1, <2>2, <2>4, <2>5, Changes DEF TakesOver
  <2>7. f[c] = x /\ \A d \in SCircs \ {c} : f[d] = s.circ[d]
    BY <1>3, <2>5
  <2>8. \A v \in CCircs : new.cookie = v => v \in s.accepted
    BY <1>3, <2>1 DEF Single, TakesOver
  <2>9. Armed(new)
    BY <2>1, <2>2 DEF Armed, TakesOver
  <2>10. ASSUME NEW v \in CCircs, Claims(new, v), NEW d \in SCircs \ {n}
         PROVE  ~Claims(f[d], v)
    <3>1. CASE d = c
      BY <2>1, <2>2, <2>4, <2>7, <3>1 DEF Claims, TakesOver
    <3>2. CASE d # c
      <4>1. Claims(s.circ[c], v)
        BY <2>1, <2>2, <2>10 DEF Claims, TakesOver
      <4>2. ~Claims(s.circ[d], v)
        BY <1>3, <3>2, <4>1 DEF Single
      <4> QED
        BY <2>7, <3>2, <4>2
    <3> QED
      BY <3>1, <3>2
  <2>11. Single([f EXCEPT ![n] = new], s.accepted)
    BY <2>1, <2>6, <2>8, <2>9, <2>10, Becomes DEF TakesOver
  <2>12. [r.circ EXCEPT ![c] = x] = [f EXCEPT ![n] = new] /\ r.circ[c] = left
         /\ DOMAIN r.circ = SCircs
    BY <1>3, <2>1, <2>5 DEF TakesOver
  <2> QED
    BY <1>2, <2>1, <2>3, <2>11, <2>12 DEF TakesOver
<1> QED
  BY <1>5, <1>6

\* Cells taken off a circuit change none.
LEMMA OutOK ==
  ASSUME NEW s, Service(s), NEW c, NEW v, NEW t, t = [s EXCEPT !.out[c] = v]
  PROVE  Service(t)
<1>1. PICK o : o = [s.out EXCEPT ![c] = v]
  OBVIOUS
<1>2. t = State(s.circ, o, s.intros, s.accepted)
  BY <1>1, Parts DEF State
<1>3. Single(s.circ, s.accepted)
  BY Parts
<1>4. Serves(t, s.circ, s.accepted)
  BY <1>2, <1>3, Rebuild
<1> QED
  BY <1>4 DEF Serves

\* circuit_has_opened: an introduction circuit is used or left for other use, a
\* circuit to the rendezvous point sends its handshake and claims it from now on.
LEMMA OpenedOK ==
  ASSUME NEW s, Service(s), NEW c \in SCircs, s.circ[c].st = "building",
         NEW o, o = [s EXCEPT !.circ[c].st = "open"], NEW t,
         \/ o.circ[c].purpose = "establish_intro" /\ t = IntroHasOpened(o, c)
         \/ o.circ[c].purpose = "connect_rend" /\ t = RendezvousHasOpened(o, c)
  PROVE  Service(t)
<1>1. PICK y, x : y = s.circ[c] /\ x = [y EXCEPT !.st = "open"]
  OBVIOUS
<1>2. Shape(y) /\ Armed(y) /\ Single(s.circ, s.accepted) /\ DOMAIN s.circ = SCircs
  BY <1>1, Parts
<1>3. /\ Shape(x) /\ Armed(x) /\ x.st = "open" /\ x.cookie = y.cookie
      /\ x.pending = y.pending /\ x.purpose = y.purpose
  BY <1>1, <1>2 DEF Shape, Armed
<1>4. Single([s.circ EXCEPT ![c] = x], s.accepted)
  BY <1>1, <1>2, <1>3, Changes
<1>5. o = [s EXCEPT !.circ[c] = x]
  BY <1>1, <1>2
<1>6. Service(o) /\ o.circ[c] = x
  <2>1. Serves(o, [s.circ EXCEPT ![c] = x], s.accepted)
    BY <1>4, <1>5, SetCircuit
  <2> QED
    BY <1>2, <2>1 DEF Serves
<1>7. CASE o.circ[c].purpose = "establish_intro" /\ t = IntroHasOpened(o, c)
  <2>1. CASE t = Send(o, c, Cell("establish_intro", c, Nobody))
    <3>1. PICK cell : cell = Cell("establish_intro", c, Nobody)
      OBVIOUS
    <3>2. Serves(t, o.circ, o.accepted)
      BY <1>6, <2>1, <3>1, SendOK
    <3> QED
      BY <3>2 DEF Serves
  <2>2. CASE t = [o EXCEPT !.circ[c].purpose = "general"]
    <3>1. PICK z : z = [x EXCEPT !.purpose = "general"]
      OBVIOUS
    <3>2. /\ Shape(z) /\ Armed(z) /\ z.cookie = x.cookie /\ z.pending = x.pending
          /\ z.purpose # "s_joined"
      BY <1>3, <3>1 DEF Shape, Armed
    <3>3. Single([o.circ EXCEPT ![c] = z], o.accepted)
      BY <1>6, <3>2, Parts, Changes
    <3>4. t = [o EXCEPT !.circ[c] = z]
      BY <1>6, <2>2, <3>1, Parts
    <3>5. Serves(t, [o.circ EXCEPT ![c] = z], o.accepted)
      BY <1>6, <3>3, <3>4, SetCircuit
    <3> QED
      BY <3>5 DEF Serves
  <2> QED
    BY <1>7, <2>1, <2>2 DEF IntroHasOpened
<1>8. CASE o.circ[c].purpose = "connect_rend" /\ t = RendezvousHasOpened(o, c)
  <2>1. PICK q, cell : /\ cell = Cell("rendezvous1", Nobody, o.circ[c].cookie)
                       /\ q = Send(o, c, cell)
    OBVIOUS
  <2>2. Service(q) /\ q.circ = o.circ /\ q.accepted = o.accepted
    <3>1. Serves(q, o.circ, o.accepted)
      BY <1>6, <2>1, SendOK
    <3> QED
      BY <3>1 DEF Serves
  <2>3. PICK z : z = [x EXCEPT !.purpose = "s_joined", !.pending = FALSE]
    OBVIOUS
  <2>4. Shape(z) /\ Armed(z) /\ z.cookie = x.cookie
    BY <1>3, <2>3 DEF Shape, Armed
  <2>5. x.pending
    BY <1>1, <1>2, <1>3, <1>6, <1>8 DEF Armed
  <2>6. Single([q.circ EXCEPT ![c] = z], q.accepted)
    BY <1>6, <2>2, <2>4, <2>5, Parts, Changes
  <2>7. t = [q EXCEPT !.circ[c] = z]
    <3>1. t = [q EXCEPT !.circ[c].purpose = "s_joined", !.circ[c].pending = FALSE]
      BY <1>8, <2>1 DEF RendezvousHasOpened
    <3>2. DOMAIN q = {"circ", "out", "intros", "accepted"} /\ DOMAIN q.circ = SCircs
          /\ q.circ[c] = x
      BY <1>6, <2>2, Parts
    <3> QED
      BY <1>3, <2>3, <3>1, <3>2 DEF Shape
  <2>8. Serves(t, [q.circ EXCEPT ![c] = z], q.accepted)
    BY <2>2, <2>6, <2>7, SetCircuit
  <2> QED
    BY <2>8 DEF Serves
<1> QED
  BY <1>7, <1>8

\* rend_service_introduce: a handshake that was not accepted before is claimed by
\* one new circuit at most.
LEMMA AnsweringOK ==
  ASSUME NEW s, Service(s), NEW cookie, cookie \notin s.accepted,
         NEW o, o = [s EXCEPT !.accepted = @ \cup {cookie}],
         NEW t, t = Answering(o, cookie)
  PROVE  Service(t)
<1>1. PICK b : b = s.accepted \cup {cookie}
  OBVIOUS
<1>2. Single(s.circ, s.accepted) /\ DOMAIN s.circ = SCircs
  BY Parts
<1>3. PICK f, u, i : f = s.circ /\ u = s.out /\ i = s.intros
  OBVIOUS
<1>4. Single(s.circ, b)
  BY <1>1, <1>2 DEF Single
<1>5. Service(o) /\ o.circ = s.circ /\ o.accepted = b
  <2>1. o = State(f, u, i, b)
    BY <1>1, <1>3, Parts DEF State
  <2>2. Single(f, b)
    BY <1>3, <1>4
  <2>3. Serves(o, f, b)
    BY <2>1, <2>2, Rebuild
  <2> QED
    BY <1>3, <2>3 DEF Serves
<1>6. CASE Free(o) = {}
  BY <1>5, <1>6 DEF Answering
<1>7. CASE Free(o) # {}
  <2>1. PICK n, r : /\ n = NextFree(o)
                    /\ r = [Unused EXCEPT !.st = "building", !.purpose = "connect_rend",
                              !.query = TRUE, !.cookie = cookie, !.pending = TRUE]
    OBVIOUS
  <2>2. n \in SCircs
    BY <1>2, <1>5, <1>7, <2>1, NextFreeIsFree DEF Free
  <2>3. Shape(r) /\ Armed(r) /\ r.cookie = cookie
    BY <2>1 DEF Shape, Armed, Unused
  <2>4. \A x \in CCircs : Claims(r, x) => \A d \in SCircs \ {n} : ~Claims(s.circ[d], x)
    BY <1>2, <2>3 DEF Claims, Single
  <2>5. \A x \in CCircs : r.cookie = x => x \in b
    BY <1>1, <2>3
  <2>6. Single([s.circ EXCEPT ![n] = r], b)
    BY <1>1, <1>2, <2>2, <2>3, <2>4, <2>5, Becomes
  <2>7. t = [o EXCEPT !.circ[n] = r]
    BY <1>7, <2>1 DEF Answering
  <2>8. Single([o.circ EXCEPT ![n] = r], o.accepted)
    BY <1>5, <2>6
  <2>9. Serves(t, [o.circ EXCEPT ![n] = r], o.accepted)
    BY <1>5, <2>7, <2>8, SetCircuit
  <2> QED
    BY <2>9 DEF Serves
<1> QED
  BY <1>6, <1>7

\* rend_services_introduce: circuits for new introduction points claim nothing.
LEMMA LaunchOK ==
  ASSUME NEW s, Service(s), s = sv, NEW seq, NEW free, NEW i,
         NEW t, t = [s EXCEPT !.intros = i, !.circ = LaunchEstablishIntro(seq, free)]
  PROVE  Service(t)
<1>1. PICK f : f = LaunchEstablishIntro(seq, free)
  OBVIOUS
<1>2. /\ f = [c \in SCircs |-> f[c]]
      /\ \A c \in SCircs :
           \/ f[c] = s.circ[c]
           \/ \E at : f[c] = [Unused EXCEPT !.st = "building", !.purpose = "establish_intro",
                                            !.at = at, !.query = TRUE]
  BY <1>1 DEF LaunchEstablishIntro
<1>3. ASSUME NEW at, NEW r,
             r = [Unused EXCEPT !.st = "building", !.purpose = "establish_intro",
                                !.at = at, !.query = TRUE]
      PROVE  Shape(r) /\ Armed(r) /\ r.cookie = 0 /\ r.pending = FALSE
             /\ r.purpose = "establish_intro"
  BY <1>3 DEF Unused, Shape, Armed, Nobody
<1>4. 0 \notin CCircs
  BY RendezvousAssumption
<1>5. \A c \in SCircs :
        \/ f[c] = s.circ[c]
        \/ Shape(f[c]) /\ Armed(f[c]) /\ \A x \in CCircs : f[c].cookie # x
  <2>1. SUFFICES ASSUME NEW c \in SCircs, f[c] # s.circ[c]
                 PROVE  Shape(f[c]) /\ Armed(f[c]) /\ \A x \in CCircs : f[c].cookie # x
    OBVIOUS
  <2>2. PICK at : f[c] = [Unused EXCEPT !.st = "building", !.purpose = "establish_intro",
                                        !.at = at, !.query = TRUE]
    BY <1>2, <2>1
  <2>3. PICK r : r = f[c]
    OBVIOUS
  <2>4. Shape(r) /\ Armed(r) /\ r.cookie = 0
    BY <1>3, <2>2, <2>3
  <2> QED
    BY <1>4, <2>3, <2>4
<1>6. Single(s.circ, s.accepted)
  BY Parts
<1>7. /\ \A c \in SCircs : Shape(f[c]) /\ Armed(f[c])
      /\ \A c \in SCircs : \A x \in CCircs : f[c].cookie = x => x \in s.accepted
  BY <1>5, <1>6 DEF Single
<1>8. \A c, d \in SCircs : \A x \in CCircs : Claims(f[c], x) /\ Claims(f[d], x) => c = d
  BY <1>5, <1>6 DEF Single, Claims
<1>9. Single(f, s.accepted)
  BY <1>2, <1>7, <1>8 DEF Single
<1>10. PICK o, a : o = s.out /\ a = s.accepted
  OBVIOUS
<1>11. t = State(f, o, i, a)
  BY <1>1, <1>10, Parts DEF State
<1>12. Single(f, a)
  BY <1>9, <1>10
<1>13. Serves(t, f, a)
  BY <1>11, <1>12, Rebuild
<1> QED
  BY <1>13 DEF Serves

-----------------------------------------------------------------------------
\* At the start the service has no circuits.
LEMMA InitService == Init => Service(sv)
<1>1. SUFFICES ASSUME Init PROVE Service(sv)
  OBVIOUS
<1>2. sv = [circ |-> [c \in SCircs |-> Unused], out |-> [c \in SCircs |-> << >>],
            intros |-> {}, accepted |-> {}]
  BY <1>1 DEF Init
<1>3. Shape(Unused) /\ Armed(Unused) /\ Unused.cookie = 0
  BY DEF Unused, Shape, Armed, Nobody
<1>4. 0 \notin CCircs
  BY RendezvousAssumption
<1>5. PICK f : f = [c \in SCircs |-> Unused]
  OBVIOUS
<1>6. Single(f, {})
  BY <1>3, <1>4, <1>5 DEF Single, Claims
<1> QED
  BY <1>2, <1>5, <1>6 DEF Service, Fields

\* IntroEstablished: an introduction circuit that is confirmed claims nothing new.
LEMMA EstablishedOK ==
  ASSUME NEW s, Service(s), NEW c \in SCircs, NEW t,
         t = [s EXCEPT !.circ[c].purpose = "intro"]
  PROVE  Service(t)
<1>1. PICK y, z : y = s.circ[c] /\ z = [y EXCEPT !.purpose = "intro"]
  OBVIOUS
<1>2. Shape(y) /\ Single(s.circ, s.accepted) /\ DOMAIN s.circ = SCircs
  BY <1>1, Parts
<1>3. /\ Shape(z) /\ Armed(z) /\ z.cookie = y.cookie /\ z.pending = y.pending
      /\ z.purpose # "s_joined"
  BY <1>1, <1>2 DEF Shape, Armed
<1>4. Single([s.circ EXCEPT ![c] = z], s.accepted)
  BY <1>1, <1>2, <1>3, Changes
<1>5. t = [s EXCEPT !.circ[c] = z]
  BY <1>1, <1>2, Parts
<1>6. Serves(t, [s.circ EXCEPT ![c] = z], s.accepted)
  BY <1>4, <1>5, SetCircuit
<1> QED
  BY <1>6 DEF Serves

\* What a circuit has sent changes: a relay takes a cell off, or cells are lost.
LEMMA LeavesOK ==
  ASSUME Service(sv), NEW c \in Circs, NEW rest, Leaves(c, rest)
  PROVE  Service(sv')
<1>1. CASE sv' = sv
  BY <1>1
<1>2. CASE sv' = [sv EXCEPT !.out[c] = rest]
  <2>1. PICK t : t = sv'
    OBVIOUS
  <2>2. Service(t)
    BY <1>2, <2>1, OutOK
  <2> QED
    BY <2>1, <2>2
<1> QED
  BY <1>1, <1>2 DEF Leaves

-----------------------------------------------------------------------------
\* Every step keeps the service's circuits in order.
LEMMA StepService == Service(sv) /\ [Next]_vars => Service(sv)'
<1>1. SUFFICES ASSUME Service(sv), [Next]_vars PROVE Service(sv')
  OBVIOUS
<1>2. CASE sv' = sv
  BY <1>1, <1>2
<1>3. CASE MidEstablishIntro \/ MidIntroduce \/ MidEstablishRendezvous \/ MidRendezvous
           \/ MidForward \/ MidDestroyed
  <2>1. PICK c \in Circs : \E rest : Leaves(c, rest)
    BY <1>3 DEF MidEstablishIntro, MidIntroduce, MidEstablishRendezvous, MidRendezvous,
                MidForward, MidDestroyed, Gets
  <2> QED
    BY <1>1, <2>1, LeavesOK
<1>4. CASE ServicesIntroduce
  <2>1. PICK i, seq, free :
          sv' = [sv EXCEPT !.intros = i, !.circ = LaunchEstablishIntro(seq, free)]
    BY <1>4 DEF ServicesIntroduce
  <2>2. PICK t : t = sv'
    OBVIOUS
  <2> QED
    BY <1>1, <2>1, <2>2, LaunchOK
<1>5. CASE ServiceOpened
  <2>1. PICK c \in SCircs :
          LET o == [sv EXCEPT !.circ[c].st = "open"] IN
          /\ sv.circ[c].st = "building"
          /\ \/ o.circ[c].purpose = "establish_intro" /\ sv' = IntroHasOpened(o, c)
             \/ o.circ[c].purpose = "connect_rend" /\ sv' = RendezvousHasOpened(o, c)
    BY <1>5 DEF ServiceOpened
  <2>2. PICK o, t : o = [sv EXCEPT !.circ[c].st = "open"] /\ t = sv'
    OBVIOUS
  <2>3. \/ o.circ[c].purpose = "establish_intro" /\ t = IntroHasOpened(o, c)
        \/ o.circ[c].purpose = "connect_rend" /\ t = RendezvousHasOpened(o, c)
    BY <2>1, <2>2
  <2>4. Service(t)
    BY <1>1, <2>1, <2>2, <2>3, OpenedOK
  <2> QED
    BY <2>2, <2>4
<1>6. CASE IntroEstablished
  <2>1. PICK c \in SCircs : \/ sv' = [sv EXCEPT !.circ[c].purpose = "intro"]
                            \/ sv' \in ServiceClose(sv, c, FALSE)
    BY <1>6 DEF IntroEstablished
  <2> QED
    BY <1>1, <2>1, EstablishedOK, ServiceCloseOK
<1>7. CASE ServiceIntroduce
  <2>1. PICK c \in SCircs : \/ sv' = sv
                            \/ \E x : /\ x \notin sv.accepted
                                      /\ sv' = Answering([sv EXCEPT !.accepted = @ \cup {x}], x)
    BY <1>7 DEF ServiceIntroduce
  <2>2. CASE sv' # sv
    <3>1. PICK x : /\ x \notin sv.accepted
                   /\ sv' = Answering([sv EXCEPT !.accepted = @ \cup {x}], x)
      BY <2>1, <2>2
    <3>2. PICK o, t : o = [sv EXCEPT !.accepted = @ \cup {x}] /\ t = sv'
      OBVIOUS
    <3>3. Service(t)
      BY <1>1, <3>1, <3>2, AnsweringOK
    <3> QED
      BY <3>2, <3>3
  <2> QED
    BY <1>2, <2>2
<1>8. CASE ServiceDestroyed \/ ServiceExpires
  <2>1. PICK c \in SCircs, told \in BOOLEAN : sv' \in ServiceClose(sv, c, told)
    BY <1>8 DEF ServiceDestroyed, ServiceExpires
  <2> QED
    BY <1>1, <2>1, ServiceCloseOK
<1>9. CASE PathFails
  <2>1. PICK c \in Circs : \E rest : Leaves(c, rest)
    BY <1>9 DEF PathFails
  <2> QED
    BY <1>1, <2>1, LeavesOK
<1>10. CASE NewStream \/ StreamTimeout \/ ClientSecond \/ FetchDone \/ FetchFails
            \/ RendezvousAcked \/ IntroductionAcked \/ IntroductionRefused
            \/ ReceiveRendezvous \/ ClientOpened \/ ClientDestroyed \/ ClientExpires
            \/ ClientExpiresOld \/ Upload \/ UNCHANGED vars
  <2>1. sv' = sv
    BY <1>10 DEF NewStream, StreamTimeout, ClientSecond, FetchDone, FetchFails,
         RendezvousAcked, IntroductionAcked, IntroductionRefused, ReceiveRendezvous,
         ClientOpened, ClientDestroyed, ClientExpires, ClientExpiresOld, Upload,
         NotClient, vars
  <2> QED
    BY <1>2, <2>1
<1> QED
  BY <1>1, <1>3, <1>4, <1>5, <1>6, <1>7, <1>8, <1>9, <1>10 DEF Next

\* What the invariant says of the circuits that answer one handshake.
LEMMA ServiceAnswersOnce == Service(sv) => OneAnswer
<1>1. SUFFICES ASSUME Service(sv), NEW h \in CCircs
               PROVE  Cardinality({c \in SCircs : Claims(sv.circ[c], h)}) <= 1
  BY DEF OneAnswer, Claims
<1>2. PICK S : S = {c \in SCircs : Claims(sv.circ[c], h)}
  OBVIOUS
<1>3. \A c, d \in S : c = d
  BY <1>1, <1>2, Parts DEF Single
<1>4. Cardinality(S) <= 1
  <2>1. CASE S = {}
    BY <2>1, FS_EmptySet
  <2>2. CASE S # {}
    <3>1. PICK c \in S : TRUE
      BY <2>2
    <3>2. S = {c}
      BY <1>3, <3>1
    <3>3. Cardinality({c}) = 1
      BY FS_Singleton
    <3> QED
      BY <3>2, <3>3
  <2> QED
    BY <2>1, <2>2
<1> QED
  BY <1>2, <1>4

\* The service answers a client's handshake on one circuit at most, however many
\* INTRODUCE2 cells bring it, in whatever order circuits open, fail, are relaunched
\* and expire (rend_service_introduce, rend_service_relaunch_rendezvous).
THEOREM AnswersOnce == Spec => []OneAnswer
<1>1. Spec => []Service(sv)
  BY InitService, StepService, PTL DEF Spec
<1> QED
  BY <1>1, ServiceAnswersOnce, PTL
=============================================================================
