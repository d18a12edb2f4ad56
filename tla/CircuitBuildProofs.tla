------------------------ MODULE CircuitBuildProofs ------------------------
(***************************************************************************)
(* The theorems about CircuitBuild, for every path length, every finite    *)
(* set of circuits and plans, and every number of connections and faults.  *)
(*                                                                         *)
(* CircuitViewProofs has the invariant of the view of one circuit, and     *)
(* what keeps it.  Here every handler is shown to do to the view of each   *)
(* circuit what it would do if there were no other, so that the world of   *)
(* all circuits stays sound; the theorems are at the end.                  *)
(***************************************************************************)
EXTENDS CircuitViewProofs

----------------------------------------------------------------------------
(* The world: what a handler does to it, and to the view of each circuit.  *)

\* World w with other circuits at node i, or another connection k of link l.
AtNode(w, i, f) == [circ |-> [w.circ EXCEPT ![i] = f], conn |-> w.conn, over |-> w.over]
AtConn(w, l, k, r) == [circ |-> w.circ, conn |-> [w.conn EXCEPT ![l][k] = r], over |-> w.over]

\* The invariant of every circuit of world w, circuit c of which is to have n[c] hops.
Sound(w, n) == IsWorld(w) /\ \A c \in Circuits : Inv(View(w, c, n[c]))

\* The record of one circuit changes.
LEMMA OneNode ==
  ASSUME NEW w, IsWorld(w), NEW i \in Nodes, NEW c \in Circuits, NEW x \in CircsOf(c),
         NEW v, v = AtNode(w, i, [w.circ[i] EXCEPT ![c] = x])
  PROVE  /\ IsWorld(v) /\ v.circ[i][c] = x /\ v.conn = w.conn
         /\ \A n : ZNode(View(w, c, n), View(v, c, n), i, x)
         /\ \A d \in Circuits : d # c => \A n : View(v, d, n) = View(w, d, n)
<1>1. PICK g : g = w.circ[i]
  OBVIOUS
<1>2. PICK f : f = [g EXCEPT ![c] = x]
  BY Zenon
<1>3. IsRow(g) /\ w.circ = [j \in Nodes |-> w.circ[j]]
  BY <1>1 DEF IsWorld
<1>4. IsRow(f) /\ f[c] = x /\ \A d \in Circuits : d # c => f[d] = g[d]
  BY <1>2, <1>3 DEF IsRow
<1>5. v = [circ |-> [w.circ EXCEPT ![i] = f], conn |-> w.conn, over |-> w.over]
  BY <1>1, <1>2 DEF AtNode
<1>6. v.circ[i][c] = x /\ v.conn = w.conn
  BY <1>3, <1>4, <1>5
<1>7. ASSUME NEW d \in Circuits, NEW n
      PROVE  /\ IsWorld(v) /\ ZNode(View(w, d, n), View(v, d, n), i, f[d])
             /\ f[d] = w.circ[i][d] => View(v, d, n) = View(w, d, n)
  BY ONLY <1>4, <1>5, IsWorld(w), i \in Nodes, d \in Circuits, NodeUpdate
<1>8. \A d \in Circuits : d # c => \A n : View(v, d, n) = View(w, d, n)
  BY ONLY <1>1, <1>4, <1>7
<1> QED
  BY <1>4, <1>6, <1>7, <1>8

\* The queues of one connection change.
LEMMA QueueUpdate ==
  ASSUME NEW w, IsWorld(w), NEW l \in Links, NEW k \in Conns, NEW r \in ConnRecs,
         r.near = w.conn[l][k].near, r.far = w.conn[l][k].far,
         NEW v, v = AtConn(w, l, k, r), NEW c \in Circuits, NEW n,
         NEW z, z = View(w, c, n), NEW y, y = View(v, c, n)
  PROVE  /\ IsWorld(v) /\ v.circ = w.circ
         /\ y.node = z.node /\ (\A i : Turn(z, y, i, l, k))
         /\ y.fwd[l][k] = Keep(r.fwd, CellsOf(c)) /\ y.bwd[l][k] = Keep(r.bwd, CellsOf(c))
         /\ Keep(r.fwd, CellsOf(c)) = Keep(w.conn[l][k].fwd, CellsOf(c))
            /\ Keep(r.bwd, CellsOf(c)) = Keep(w.conn[l][k].bwd, CellsOf(c)) => y = z
<1>1. v = [circ |-> w.circ, conn |-> [w.conn EXCEPT ![l][k] = r], over |-> w.over]
  BY DEF AtConn
<1>2. /\ IsWorld(v)
      /\ ZConn(View(w, c, n), View(v, c, n), l, k, r.near, r.far,
                  Keep(r.fwd, CellsOf(c)), Keep(r.bwd, CellsOf(c)))
      /\ r.near = w.conn[l][k].near /\ r.far = w.conn[l][k].far
            /\ Keep(r.fwd, CellsOf(c)) = Keep(w.conn[l][k].fwd, CellsOf(c))
            /\ Keep(r.bwd, CellsOf(c)) = Keep(w.conn[l][k].bwd, CellsOf(c))
            => View(v, c, n) = View(w, c, n)
  BY ONLY <1>1, IsWorld(w), l \in Links, k \in Conns, r \in ConnRecs, c \in Circuits, ConnUpdate
<1>3. ZConn(z, y, l, k, r.near, r.far, Keep(r.fwd, CellsOf(c)), Keep(r.bwd, CellsOf(c)))
  BY <1>2
<1>4. v.circ = w.circ /\ v.conn = [w.conn EXCEPT ![l][k] = r]
  BY ONLY <1>1
<1>5. \A m \in Links, h \in Conns : v.conn[m][h].near = w.conn[m][h].near
                                    /\ v.conn[m][h].far = w.conn[m][h].far
  <2>1. w.conn \in [Links -> [Conns -> ConnRecs]]
    BY DEF IsWorld
  <2>2. /\ v.conn[l][k] = r
        /\ \A m \in Links, h \in Conns : m # l \/ h # k => v.conn[m][h] = w.conn[m][h]
    BY ONLY <1>4, <2>1, l \in Links, k \in Conns, r \in ConnRecs
  <2> QED
    BY <2>2
<1>6. y.near = z.near /\ y.far = z.far
  <2>1. /\ [m \in Links |-> [h \in Conns |-> v.conn[m][h].near]]
             = [m \in Links |-> [h \in Conns |-> w.conn[m][h].near]]
        /\ [m \in Links |-> [h \in Conns |-> v.conn[m][h].far]]
             = [m \in Links |-> [h \in Conns |-> w.conn[m][h].far]]
    BY <1>5
  <2> QED
    BY ONLY <2>1, y = View(v, c, n), z = View(w, c, n) DEF View
<1>7. y.node = z.node /\ \A i : Turn(z, y, i, l, k)
  BY ONLY <1>3, <1>6 DEF ZConn, Turn
<1>8. y.fwd[l][k] = Keep(r.fwd, CellsOf(c)) /\ y.bwd[l][k] = Keep(r.bwd, CellsOf(c))
  BY ONLY <1>3 DEF ZConn
<1>9. Keep(r.fwd, CellsOf(c)) = Keep(w.conn[l][k].fwd, CellsOf(c))
      /\ Keep(r.bwd, CellsOf(c)) = Keep(w.conn[l][k].bwd, CellsOf(c)) => y = z
  BY <1>2
<1> QED
  BY <1>2, <1>4, <1>7, <1>8, <1>9

\* Whose cell it is.
LEMMA CellOwner ==
  ASSUME NEW e \in AllCells
  PROVE  /\ e.c \in Circuits /\ e.cmd \in Commands /\ e.to \in Nodes
         /\ e = Cell(e.cmd, e.c, e.to)
         /\ \A d \in Circuits : e \in CellsOf(d) <=> d = e.c
<1>1. e.c \in Circuits /\ e.cmd \in Commands /\ e.to \in Nodes
      /\ e = [cmd |-> e.cmd, c |-> e.c, to |-> e.to]
  BY DEF AllCells
<1>2. \A d : e \in CellsOf(d) => d = e.c
  BY DEF CellsOf
<1>3. e \in CellsOf(e.c)
  BY <1>1 DEF CellsOf
<1> QED
  BY <1>1, <1>2, <1>3 DEF Cell

\* The cells of a circuit are cells.
LEMMA CircuitCells ==
  ASSUME NEW d \in Circuits
  PROVE  CellsOf(d) \subseteq AllCells
BY DEF CellsOf, AllCells

\* The fields of a connection with another queue.
LEMMA ConnFields ==
  ASSUME NEW x \in ConnRecs, NEW q \in Seq(AllCells)
  PROVE  /\ x.near \in NearStates /\ x.far \in FarStates
         /\ x.fwd \in Seq(AllCells) /\ x.bwd \in Seq(AllCells)
         /\ \A r : r = [x EXCEPT !.fwd = q] =>
              r \in ConnRecs /\ r.near = x.near /\ r.far = x.far /\ r.fwd = q /\ r.bwd = x.bwd
         /\ \A r : r = [x EXCEPT !.bwd = q] =>
              r \in ConnRecs /\ r.near = x.near /\ r.far = x.far /\ r.fwd = x.fwd /\ r.bwd = q
BY Zenon DEF ConnRecs

\* A cell is taken from a connection, or put on one: only its circuit notices.
LEMMA QueueRead ==
  ASSUME NEW q \in Seq(AllCells), q # <<>>, NEW e, e = Head(q)
  PROVE  /\ e \in AllCells /\ Tail(q) \in Seq(AllCells)
         /\ Dropped(Keep(q, CellsOf(e.c)), e, Keep(Tail(q), CellsOf(e.c)))
         /\ \A d \in Circuits : d # e.c => Keep(Tail(q), CellsOf(d)) = Keep(q, CellsOf(d))
<1>1. e \in AllCells /\ Tail(q) \in Seq(AllCells)
  BY HeadTailProperties
<1>2. \A d \in Circuits : e \in CellsOf(d) <=> d = e.c
  BY <1>1, CellOwner
<1>3. \A d : IF Head(q) \in CellsOf(d)
             THEN /\ Keep(q, CellsOf(d)) # <<>> /\ Head(Keep(q, CellsOf(d))) = Head(q)
                  /\ Keep(Tail(q), CellsOf(d)) = Tail(Keep(q, CellsOf(d)))
             ELSE Keep(Tail(q), CellsOf(d)) = Keep(q, CellsOf(d))
  BY KeepTail
<1>4. e.c \in Circuits
  BY <1>1, CellOwner
<1>5. Dropped(Keep(q, CellsOf(e.c)), e, Keep(Tail(q), CellsOf(e.c)))
  <2>1. Head(q) \in CellsOf(e.c)
    BY <1>2, <1>4
  <2> QED
    BY <1>3, <2>1 DEF Dropped
<1>6. \A d \in Circuits : d # e.c => Keep(Tail(q), CellsOf(d)) = Keep(q, CellsOf(d))
  BY <1>2, <1>3
<1> QED
  BY <1>1, <1>5, <1>6

\* A cell added to a queue is seen by its own circuit only.
LEMMA QueueWrite ==
  ASSUME NEW q \in Seq(AllCells), NEW e \in AllCells
  PROVE  /\ Append(q, e) \in Seq(AllCells)
         /\ Keep(Append(q, e), CellsOf(e.c)) = Append(Keep(q, CellsOf(e.c)), e)
         /\ \A d \in Circuits : d # e.c => Keep(Append(q, e), CellsOf(d)) = Keep(q, CellsOf(d))
<1>1. Append(q, e) \in Seq(AllCells)
  BY AppendProperties
<1>2. e.c \in Circuits /\ \A d \in Circuits : e \in CellsOf(d) <=> d = e.c
  BY CellOwner
<1>3. \A S : Keep(Append(q, e), S) = IF e \in S THEN Append(Keep(q, S), e) ELSE Keep(q, S)
  BY KeepAppend
<1> QED
  BY <1>1, <1>2, <1>3

\* A cell e is taken from connection k of link l.
FwdTaken(z, y, l, k, e) ==
  /\ Dropped(z.fwd[l][k], e, y.fwd[l][k]) /\ y.bwd[l][k] = z.bwd[l][k]
  /\ y.node = z.node /\ \A i : Turn(z, y, i, l, k)
BwdTaken(z, y, l, k, e) ==
  /\ Dropped(z.bwd[l][k], e, y.bwd[l][k]) /\ y.fwd[l][k] = z.fwd[l][k]
  /\ y.node = z.node /\ \A i : Turn(z, y, i, l, k)

\* The world without the cell.
TakeFwd(w, l, k) == [w EXCEPT !.conn[l][k].fwd = Tail(@)]
TakeBwd(w, l, k) == [w EXCEPT !.conn[l][k].bwd = Tail(@)]

\* A change of one queue of a connection, written as a change of the connection.
LEMMA WorldConn ==
  ASSUME NEW w, IsWorld(w), NEW l \in Links, NEW k \in Conns
  PROVE  /\ w.conn[l][k] \in ConnRecs
         /\ \A q : [w EXCEPT !.conn[l][k].fwd = q] = AtConn(w, l, k, [w.conn[l][k] EXCEPT !.fwd = q])
         /\ \A q : [w EXCEPT !.conn[l][k].bwd = q] = AtConn(w, l, k, [w.conn[l][k] EXCEPT !.bwd = q])
<1>1. w = [circ |-> w.circ, conn |-> w.conn, over |-> w.over]
      /\ w.conn \in [Links -> [Conns -> ConnRecs]]
  BY DEF IsWorld
<1>2. w.conn[l][k] \in ConnRecs
  BY <1>1
<1>3. ASSUME NEW q
      PROVE  /\ [w EXCEPT !.conn[l][k].fwd = q] = AtConn(w, l, k, [w.conn[l][k] EXCEPT !.fwd = q])
             /\ [w EXCEPT !.conn[l][k].bwd = q] = AtConn(w, l, k, [w.conn[l][k] EXCEPT !.bwd = q])
  <2>1. ASSUME NEW C PROVE [w EXCEPT !.conn = C] = [circ |-> w.circ, conn |-> C, over |-> w.over]
    BY ONLY <1>1, SMTT(30)
  <2> QED
    BY ONLY <2>1 DEF AtConn
<1> QED
  BY <1>2, <1>3, Zenon

\* Taking a cell that goes towards the exit from the wire, in the views of all circuits.
LEMMA TakeFwdView ==
  ASSUME NEW w, IsWorld(w), NEW l \in Links, NEW k \in Conns, w.conn[l][k].fwd # <<>>,
         NEW e, e = Head(w.conn[l][k].fwd), NEW v, v = TakeFwd(w, l, k)
  PROVE  /\ IsWorld(v) /\ e \in AllCells /\ v.circ = w.circ
         /\ \A n : FwdTaken(View(w, e.c, n), View(v, e.c, n), l, k, e)
         /\ \A d \in Circuits : d # e.c => \A n : View(v, d, n) = View(w, d, n)
<1>x. PICK x : x = w.conn[l][k]
  OBVIOUS
<1>q. PICK q : q = x.fwd
  OBVIOUS
<1>1. x \in ConnRecs /\ q \in Seq(AllCells) /\ q # <<>> /\ e = Head(q)
  <2>1. x \in ConnRecs
    BY <1>x, WorldConn
  <2> QED
    BY <1>x, <1>q, <2>1 DEF ConnRecs
<1>2. /\ e \in AllCells /\ Tail(q) \in Seq(AllCells)
      /\ Dropped(Keep(q, CellsOf(e.c)), e, Keep(Tail(q), CellsOf(e.c)))
      /\ \A d \in Circuits : d # e.c => Keep(Tail(q), CellsOf(d)) = Keep(q, CellsOf(d))
  BY ONLY <1>1, QueueRead
<1>t. PICK t : t = Tail(q)
  BY Zenon
<1>r. PICK r : r = [x EXCEPT !.fwd = t]
  BY Zenon
<1>3. r \in ConnRecs /\ r.near = x.near /\ r.far = x.far /\ r.fwd = t /\ r.bwd = x.bwd
  <2>1. t \in Seq(AllCells)
    BY ONLY <1>2, <1>t
  <2> QED
    BY ONLY <1>1, <1>r, <2>1, ConnFields
<1>4. v = AtConn(w, l, k, r)
  <2>1. v = [w EXCEPT !.conn[l][k].fwd = t]
    BY <1>x, <1>q, <1>t DEF TakeFwd
  <2>2. \A s : [w EXCEPT !.conn[l][k].fwd = s] = AtConn(w, l, k, [w.conn[l][k] EXCEPT !.fwd = s])
    BY WorldConn
  <2> QED
    BY ONLY <1>x, <1>r, <2>1, <2>2
<1>5. ASSUME NEW d \in Circuits, NEW n, NEW z, z = View(w, d, n), NEW y, y = View(v, d, n)
      PROVE  /\ IsWorld(v) /\ v.circ = w.circ
             /\ y.node = z.node /\ (\A i : Turn(z, y, i, l, k))
             /\ y.fwd[l][k] = Keep(t, CellsOf(d)) /\ y.bwd[l][k] = z.bwd[l][k]
             /\ z.fwd[l][k] = Keep(q, CellsOf(d))
             /\ Keep(t, CellsOf(d)) = Keep(q, CellsOf(d)) => y = z
  <2>1. z.fwd[l][k] = Keep(q, CellsOf(d)) /\ z.bwd[l][k] = Keep(x.bwd, CellsOf(d))
    BY <1>5, <1>q, <1>x, ViewAt
  <2>2. r.near = w.conn[l][k].near /\ r.far = w.conn[l][k].far
    BY <1>3, <1>x
  <2>3. /\ IsWorld(v) /\ v.circ = w.circ
        /\ y.node = z.node /\ (\A i : Turn(z, y, i, l, k))
        /\ y.fwd[l][k] = Keep(r.fwd, CellsOf(d)) /\ y.bwd[l][k] = Keep(r.bwd, CellsOf(d))
        /\ Keep(r.fwd, CellsOf(d)) = Keep(w.conn[l][k].fwd, CellsOf(d))
           /\ Keep(r.bwd, CellsOf(d)) = Keep(w.conn[l][k].bwd, CellsOf(d)) => y = z
    BY ONLY <1>3, <1>4, <1>5, <2>2, IsWorld(w), l \in Links, k \in Conns, d \in Circuits, QueueUpdate
  <2> QED
    BY ONLY <1>3, <1>q, <1>x, <2>1, <2>3
<1>6. e.c \in Circuits
  BY <1>2, CellOwner
<1>7. IsWorld(v) /\ v.circ = w.circ
  BY <1>5, <1>6, Zenon
<1>8. ASSUME NEW n PROVE FwdTaken(View(w, e.c, n), View(v, e.c, n), l, k, e)
  <2>1. PICK z : z = View(w, e.c, n)
    OBVIOUS
  <2>2. PICK y : y = View(v, e.c, n)
    OBVIOUS
  <2>3. FwdTaken(z, y, l, k, e)
    BY ONLY <1>2, <1>5, <1>6, <1>t, <2>1, <2>2 DEF FwdTaken
  <2> QED
    BY ONLY <2>1, <2>2, <2>3
<1>9. ASSUME NEW d \in Circuits, d # e.c, NEW n PROVE View(v, d, n) = View(w, d, n)
  BY ONLY <1>2, <1>5, <1>t, <1>9, SMTT(30)
<1> QED
  BY <1>2, <1>7, <1>8, <1>9

\* Taking a cell that goes towards the origin from the wire, in the views of all circuits.
LEMMA TakeBwdView ==
  ASSUME NEW w, IsWorld(w), NEW l \in Links, NEW k \in Conns, w.conn[l][k].bwd # <<>>,
         NEW e, e = Head(w.conn[l][k].bwd), NEW v, v = TakeBwd(w, l, k)
  PROVE  /\ IsWorld(v) /\ e \in AllCells /\ v.circ = w.circ
         /\ \A n : BwdTaken(View(w, e.c, n), View(v, e.c, n), l, k, e)
         /\ \A d \in Circuits : d # e.c => \A n : View(v, d, n) = View(w, d, n)
<1>x. PICK x : x = w.conn[l][k]
  OBVIOUS
<1>q. PICK q : q = x.bwd
  OBVIOUS
<1>1. x \in ConnRecs /\ q \in Seq(AllCells) /\ q # <<>> /\ e = Head(q)
  <2>1. x \in ConnRecs
    BY <1>x, WorldConn
  <2> QED
    BY <1>x, <1>q, <2>1 DEF ConnRecs
<1>2. /\ e \in AllCells /\ Tail(q) \in Seq(AllCells)
      /\ Dropped(Keep(q, CellsOf(e.c)), e, Keep(Tail(q), CellsOf(e.c)))
      /\ \A d \in Circuits : d # e.c => Keep(Tail(q), CellsOf(d)) = Keep(q, CellsOf(d))
  BY ONLY <1>1, QueueRead
<1>t. PICK t : t = Tail(q)
  BY Zenon
<1>r. PICK r : r = [x EXCEPT !.bwd = t]
  BY Zenon
<1>3. r \in ConnRecs /\ r.near = x.near /\ r.far = x.far /\ r.fwd = x.fwd /\ r.bwd = t
  <2>1. t \in Seq(AllCells)
    BY ONLY <1>2, <1>t
  <2> QED
    BY ONLY <1>1, <1>r, <2>1, ConnFields
<1>4. v = AtConn(w, l, k, r)
  <2>1. v = [w EXCEPT !.conn[l][k].bwd = t]
    BY <1>x, <1>q, <1>t DEF TakeBwd
  <2>2. \A s : [w EXCEPT !.conn[l][k].bwd = s] = AtConn(w, l, k, [w.conn[l][k] EXCEPT !.bwd = s])
    BY WorldConn
  <2> QED
    BY ONLY <1>x, <1>r, <2>1, <2>2
<1>5. ASSUME NEW d \in Circuits, NEW n, NEW z, z = View(w, d, n), NEW y, y = View(v, d, n)
      PROVE  /\ IsWorld(v) /\ v.circ = w.circ
             /\ y.node = z.node /\ (\A i : Turn(z, y, i, l, k))
             /\ y.bwd[l][k] = Keep(t, CellsOf(d)) /\ y.fwd[l][k] = z.fwd[l][k]
             /\ z.bwd[l][k] = Keep(q, CellsOf(d))
             /\ Keep(t, CellsOf(d)) = Keep(q, CellsOf(d)) => y = z
  <2>1. z.bwd[l][k] = Keep(q, CellsOf(d)) /\ z.fwd[l][k] = Keep(x.fwd, CellsOf(d))
    BY <1>5, <1>q, <1>x, ViewAt
  <2>2. r.near = w.conn[l][k].near /\ r.far = w.conn[l][k].far
    BY <1>3, <1>x
  <2>3. /\ IsWorld(v) /\ v.circ = w.circ
        /\ y.node = z.node /\ (\A i : Turn(z, y, i, l, k))
        /\ y.fwd[l][k] = Keep(r.fwd, CellsOf(d)) /\ y.bwd[l][k] = Keep(r.bwd, CellsOf(d))
        /\ Keep(r.fwd, CellsOf(d)) = Keep(w.conn[l][k].fwd, CellsOf(d))
           /\ Keep(r.bwd, CellsOf(d)) = Keep(w.conn[l][k].bwd, CellsOf(d)) => y = z
    BY ONLY <1>3, <1>4, <1>5, <2>2, IsWorld(w), l \in Links, k \in Conns, d \in Circuits, QueueUpdate
  <2> QED
    BY ONLY <1>3, <1>q, <1>x, <2>1, <2>3
<1>6. e.c \in Circuits
  BY <1>2, CellOwner
<1>7. IsWorld(v) /\ v.circ = w.circ
  BY <1>5, <1>6, Zenon
<1>8. ASSUME NEW n PROVE BwdTaken(View(w, e.c, n), View(v, e.c, n), l, k, e)
  <2>1. PICK z : z = View(w, e.c, n)
    OBVIOUS
  <2>2. PICK y : y = View(v, e.c, n)
    OBVIOUS
  <2>3. BwdTaken(z, y, l, k, e)
    BY ONLY <1>2, <1>5, <1>6, <1>t, <2>1, <2>2 DEF BwdTaken
  <2> QED
    BY ONLY <2>1, <2>2, <2>3
<1>9. ASSUME NEW d \in Circuits, d # e.c, NEW n PROVE View(v, d, n) = View(w, d, n)
  BY ONLY <1>2, <1>5, <1>t, <1>9
<1> QED
  BY <1>2, <1>7, <1>8, <1>9

\* A row of circuits is unlinked from a connection, or given to one.
LEMMA RowView ==
  ASSUME NEW w, IsWorld(w), NEW i \in Nodes, NEW f, IsRow(f), NEW v, v = AtNode(w, i, f)
  PROVE  /\ IsWorld(v) /\ v.conn = w.conn /\ v.circ[i] = f
         /\ \A d \in Circuits : \A n :
              /\ ZNode(View(w, d, n), View(v, d, n), i, f[d])
              /\ f[d] = w.circ[i][d] => View(v, d, n) = View(w, d, n)
<1>1. v = [circ |-> [w.circ EXCEPT ![i] = f], conn |-> w.conn, over |-> w.over]
  BY DEF AtNode
<1>2. w.circ = [j \in Nodes |-> w.circ[j]]
  BY DEF IsWorld
<1>3. v.conn = w.conn /\ v.circ[i] = f
  BY <1>1, <1>2
<1>4. ASSUME NEW d \in Circuits, NEW n
      PROVE  /\ IsWorld(v) /\ ZNode(View(w, d, n), View(v, d, n), i, f[d])
             /\ f[d] = w.circ[i][d] => View(v, d, n) = View(w, d, n)
  BY ONLY <1>1, IsWorld(w), i \in Nodes, IsRow(f), d \in Circuits, NodeUpdate
<1>5. IsWorld(v)
  <2>1. /\ v = [circ |-> v.circ, conn |-> v.conn, over |-> v.over] /\ v.over = w.over
        /\ v.circ = [j \in Nodes |-> v.circ[j]]
        /\ \A j \in Nodes : j # i => v.circ[j] = w.circ[j]
    BY <1>1, <1>2
  <2> QED
    BY <1>3, <2>1 DEF IsWorld
<1> QED
  BY <1>3, <1>4, <1>5

\* A change of one field of a circuit, written as a change of its node.
LEMMA WorldNode ==
  ASSUME NEW w, IsWorld(w), NEW i \in Nodes
  PROVE  /\ \A f : [w EXCEPT !.circ[i] = f] = AtNode(w, i, f)
         /\ \A c, x : [w EXCEPT !.circ[i][c] = x] = AtNode(w, i, [w.circ[i] EXCEPT ![c] = x])
         /\ \A c, q : [w EXCEPT !.circ[i][c].state = q]
              = AtNode(w, i, [w.circ[i] EXCEPT ![c] = [w.circ[i][c] EXCEPT !.state = q]])
         /\ \A c, q : [w EXCEPT !.circ[i][c].outq = q]
              = AtNode(w, i, [w.circ[i] EXCEPT ![c] = [w.circ[i][c] EXCEPT !.outq = q]])
         /\ \A c, q : [w EXCEPT !.circ[i][c].inq = q]
              = AtNode(w, i, [w.circ[i] EXCEPT ![c] = [w.circ[i][c] EXCEPT !.inq = q]])
         /\ \A c, q : [w EXCEPT !.circ[i][c].hops = q]
              = AtNode(w, i, [w.circ[i] EXCEPT ![c] = [w.circ[i][c] EXCEPT !.hops = q]])
<1>1. w = [circ |-> w.circ, conn |-> w.conn, over |-> w.over]
  BY DEF IsWorld
<1>2. ASSUME NEW C PROVE [w EXCEPT !.circ = C] = [circ |-> C, conn |-> w.conn, over |-> w.over]
  BY ONLY <1>1
<1> QED
  BY ONLY <1>2 DEF AtNode

\* A circuit without its next, or its previous, connection.
CutN(x) == [x EXCEPT !.n = 0, !.outq = <<>>]
CutP(x) == [x EXCEPT !.p = 0, !.inq = <<>>]

\* Circuits leave their next connection, in the views of all circuits.
LEMMA UnlinkNView ==
  ASSUME NEW w, IsWorld(w), NEW i \in Nodes, NEW cs \in SUBSET Circuits,
         NEW v, v = UnlinkN(w, i, cs)
  PROVE  /\ IsWorld(v) /\ v.conn = w.conn
         /\ \A d \in Circuits : \A n :
              /\ d \in cs => ZNode(View(w, d, n), View(v, d, n), i,
                                   CutN(w.circ[i][d]))
              /\ d \notin cs => View(v, d, n) = View(w, d, n)
<1>1. PICK f : f = [c \in Circuits |->
     IF c \in cs THEN [w.circ[i][c] EXCEPT !.n = 0, !.outq = <<>>] ELSE w.circ[i][c]]
  BY Zenon
<1>2. v = AtNode(w, i, f)
  <2>1. v = [w EXCEPT !.circ[i] = f]
    BY <1>1, Zenon DEF UnlinkN
  <2> QED
    BY ONLY <2>1, IsWorld(w), i \in Nodes, WorldNode
<1>3. \A d \in Circuits : w.circ[i][d] \in CircsOf(d)
  BY Zenon DEF IsWorld, IsRow
<1>4. \A d \in Circuits : /\ f[d] \in CircsOf(d)
                          /\ d \in cs => f[d] = [w.circ[i][d] EXCEPT !.n = 0, !.outq = <<>>]
                          /\ d \notin cs => f[d] = w.circ[i][d]
  BY <1>1, <1>3, UnlinkFields, Zenon
<1>5. IsRow(f)
  <2>1. f = [c \in Circuits |-> f[c]]
    BY ONLY <1>1, Zenon
  <2> QED
    BY ONLY <1>4, <2>1, Zenon DEF IsRow
<1>6. /\ IsWorld(v) /\ v.conn = w.conn
      /\ \A d \in Circuits : \A n :
              /\ ZNode(View(w, d, n), View(v, d, n), i, f[d])
              /\ f[d] = w.circ[i][d] => View(v, d, n) = View(w, d, n)
  BY ONLY <1>2, <1>5, IsWorld(w), i \in Nodes, RowView
<1>7. \A d \in Circuits : /\ d \in cs => f[d] = CutN(w.circ[i][d])
                          /\ d \notin cs => f[d] = w.circ[i][d]
  BY ONLY <1>4, Zenon DEF CutN
<1> QED
  BY ONLY <1>6, <1>7

\* Circuits leave their previous connection, in the views of all circuits.
LEMMA UnlinkPView ==
  ASSUME NEW w, IsWorld(w), NEW i \in Nodes, NEW cs \in SUBSET Circuits,
         NEW v, v = UnlinkP(w, i, cs)
  PROVE  /\ IsWorld(v) /\ v.conn = w.conn
         /\ \A d \in Circuits : \A n :
              /\ d \in cs => ZNode(View(w, d, n), View(v, d, n), i,
                                   CutP(w.circ[i][d]))
              /\ d \notin cs => View(v, d, n) = View(w, d, n)
<1>1. PICK f : f = [c \in Circuits |->
     IF c \in cs THEN [w.circ[i][c] EXCEPT !.p = 0, !.inq = <<>>] ELSE w.circ[i][c]]
  BY Zenon
<1>2. v = AtNode(w, i, f)
  <2>1. v = [w EXCEPT !.circ[i] = f]
    BY <1>1, Zenon DEF UnlinkP
  <2> QED
    BY ONLY <2>1, IsWorld(w), i \in Nodes, WorldNode
<1>3. \A d \in Circuits : w.circ[i][d] \in CircsOf(d)
  BY DEF IsWorld, IsRow
<1>4. \A d \in Circuits : /\ f[d] \in CircsOf(d)
                          /\ d \in cs => f[d] = [w.circ[i][d] EXCEPT !.p = 0, !.inq = <<>>]
                          /\ d \notin cs => f[d] = w.circ[i][d]
  BY <1>1, <1>3, UnlinkFields, Zenon
<1>5. IsRow(f)
  <2>1. f = [c \in Circuits |-> f[c]]
    BY ONLY <1>1, Zenon
  <2> QED
    BY ONLY <1>4, <2>1, Zenon DEF IsRow
<1>6. /\ IsWorld(v) /\ v.conn = w.conn
      /\ \A d \in Circuits : \A n :
              /\ ZNode(View(w, d, n), View(v, d, n), i, f[d])
              /\ f[d] = w.circ[i][d] => View(v, d, n) = View(w, d, n)
  BY ONLY <1>2, <1>5, IsWorld(w), i \in Nodes, RowView
<1>7. \A d \in Circuits : /\ d \in cs => f[d] = CutP(w.circ[i][d])
                          /\ d \notin cs => f[d] = w.circ[i][d]
  BY ONLY <1>4, Zenon DEF CutP
<1> QED
  BY ONLY <1>6, <1>7

\* A circuit that can be given to a connection.
Fit(x, i) == ~ x.marked /\ (Up(x) \/ i = 0) /\ x.n = 0 /\ x.outq = <<>>

\* The circuit is given to connection k.
Given(z, y, i, k) == \E u : ZNode(z, y, i, u) /\ Takes(z.node[i], u, i, k)

\* circuit_deliver_create_cell for the circuits cs, in the views of all circuits.
LEMMA DeliverView ==
  ASSUME NEW w, IsWorld(w), NEW i \in Nodes, NEW cs \in SUBSET Circuits, NEW k \in Conns,
         \A d \in cs : Fit(w.circ[i][d], i), NEW v, v = DeliverCreate(w, i, cs, k)
  PROVE  /\ IsWorld(v) /\ v.conn = w.conn
         /\ \A d \in Circuits : \A n :
              /\ d \in cs => Given(View(w, d, n), View(v, d, n), i, k)
              /\ d \notin cs => View(v, d, n) = View(w, d, n)
<1>1. PICK f : f = [c \in Circuits |->
     IF c \notin cs THEN w.circ[i][c]
     ELSE [w.circ[i][c] EXCEPT !.n = k, !.state = IF i = 0 THEN "BUILDING" ELSE "OPEN",
             !.outq = Append(@, Cell(IF i = 0 THEN "CREATE_FAST" ELSE "CREATE", c, 0))]]
  BY Zenon
<1>2. v = AtNode(w, i, f)
  <2>1. v = [w EXCEPT !.circ[i] = f]
    BY <1>1, Zenon DEF DeliverCreate
  <2> QED
    BY ONLY <2>1, IsWorld(w), i \in Nodes, WorldNode
<1>3. \A d \in Circuits : w.circ[i][d] \in CircsOf(d)
  BY Zenon DEF IsWorld, IsRow
<1>4. ASSUME NEW d \in Circuits
      PROVE  /\ f[d] \in CircsOf(d)
             /\ d \in cs => Takes(w.circ[i][d], f[d], i, k)
             /\ d \notin cs => f[d] = w.circ[i][d]
  <2>1. CASE d \notin cs
    BY <1>1, <1>3, <2>1, Zenon
  <2>2. CASE d \in cs
    <3>1. PICK x : x = w.circ[i][d]
      OBVIOUS
    <3>2. PICK u : u = f[d]
      OBVIOUS
    <3>3. x \in CircsOf(d) /\ ~ x.marked /\ (Up(x) \/ i = 0) /\ x.n = 0 /\ x.outq = <<>>
      BY <1>3, <2>2, <3>1 DEF Fit
    <3>4. u = [x EXCEPT !.n = k, !.state = IF i = 0 THEN "BUILDING" ELSE "OPEN",
             !.outq = Append(x.outq, Cell(IF i = 0 THEN "CREATE_FAST" ELSE "CREATE", d, 0))]
      BY ONLY <1>1, <2>2, <3>1, <3>2, d \in Circuits, Zenon
    <3>5. u \in CircsOf(d) /\ Takes(x, u, i, k)
      BY ONLY <3>3, <3>4, d \in Circuits, k \in Conns, TakeFields, Zenon
    <3> QED
      BY ONLY <2>2, <3>1, <3>2, <3>5
  <2> QED
    BY <2>1, <2>2
<1>5. IsRow(f)
  <2>1. f = [c \in Circuits |-> f[c]]
    BY ONLY <1>1, Zenon
  <2> QED
    BY ONLY <1>4, <2>1 DEF IsRow
<1>6. /\ IsWorld(v) /\ v.conn = w.conn
      /\ \A d \in Circuits : \A n :
              /\ ZNode(View(w, d, n), View(v, d, n), i, f[d])
              /\ f[d] = w.circ[i][d] => View(v, d, n) = View(w, d, n)
  BY ONLY <1>2, <1>5, IsWorld(w), i \in Nodes, RowView
<1>7. ASSUME NEW d \in cs, NEW n PROVE Given(View(w, d, n), View(v, d, n), i, k)
  <2>1. PICK z : z = View(w, d, n)
    OBVIOUS
  <2>2. z.node[i] = w.circ[i][d]
    BY ONLY <2>1, i \in Nodes, ViewAt
  <2>3. ZNode(z, View(v, d, n), i, f[d]) /\ Takes(z.node[i], f[d], i, k)
    BY ONLY <1>4, <1>6, <2>1, <2>2, d \in cs, cs \in SUBSET Circuits
  <2> QED
    BY ONLY <2>1, <2>3 DEF Given
<1> QED
  BY ONLY <1>4, <1>6, <1>7

\* A connection changes its state and keeps its queues.
LEMMA StateUpdate ==
  ASSUME NEW w, IsWorld(w), NEW l \in Links, NEW k \in Conns, NEW r \in ConnRecs,
         r.fwd = w.conn[l][k].fwd, r.bwd = w.conn[l][k].bwd,
         NEW v, v = AtConn(w, l, k, r)
  PROVE  /\ IsWorld(v) /\ v.circ = w.circ
         /\ \A c \in Circuits : \A n : \A z, y : z = View(w, c, n) /\ y = View(v, c, n) =>
              ZConn(z, y, l, k, r.near, r.far, z.fwd[l][k], z.bwd[l][k])
<1>1. v = [circ |-> w.circ, conn |-> [w.conn EXCEPT ![l][k] = r], over |-> w.over]
  BY DEF AtConn
<1>2. IsWorld(v) /\ v.circ = w.circ
  <2>1. /\ v = [circ |-> v.circ, conn |-> v.conn, over |-> v.over] /\ v.over = w.over
        /\ v.circ = w.circ /\ v.conn = [w.conn EXCEPT ![l][k] = r]
    BY ONLY <1>1
  <2>2. w.conn \in [Links -> [Conns -> ConnRecs]]
    BY DEF IsWorld
  <2>3. v.conn \in [Links -> [Conns -> ConnRecs]]
    BY ONLY <2>1, <2>2, l \in Links, k \in Conns, r \in ConnRecs
  <2> QED
    BY <2>1, <2>3 DEF IsWorld
<1>3. ASSUME NEW c \in Circuits, NEW n, NEW z, NEW y, z = View(w, c, n), y = View(v, c, n)
      PROVE  ZConn(z, y, l, k, r.near, r.far, z.fwd[l][k], z.bwd[l][k])
  <2>1. ZConn(View(w, c, n), View(v, c, n), l, k, r.near, r.far,
                  Keep(r.fwd, CellsOf(c)), Keep(r.bwd, CellsOf(c)))
    BY ONLY <1>1, IsWorld(w), l \in Links, k \in Conns, r \in ConnRecs, c \in Circuits, ConnUpdate
  <2>2. z.fwd[l][k] = Keep(w.conn[l][k].fwd, CellsOf(c)) /\ z.bwd[l][k] = Keep(w.conn[l][k].bwd, CellsOf(c))
    BY ONLY <1>3, l \in Links, k \in Conns, ViewAt
  <2> QED
    BY ONLY <1>3, <2>1, <2>2, r.fwd = w.conn[l][k].fwd, r.bwd = w.conn[l][k].bwd
<1> QED
  BY <1>2, <1>3

\* A connection in other states.
MoveRec(x, q, s) == [x EXCEPT !.near = q, !.far = s]
MoveConn(w, l, k, q, s) == [w EXCEPT !.conn[l][k].near = q, !.conn[l][k].far = s]

\* A change of a connection's state, written as a change of the connection.
LEMMA WorldConnState ==
  ASSUME NEW w, IsWorld(w), NEW l \in Links, NEW k \in Conns, NEW q, NEW s
  PROVE  MoveConn(w, l, k, q, s) = AtConn(w, l, k, MoveRec(w.conn[l][k], q, s))
<1>1. w = [circ |-> w.circ, conn |-> w.conn, over |-> w.over]
      /\ w.conn \in [Links -> [Conns -> ConnRecs]]
  BY DEF IsWorld
<1>2. PICK C : C = w.conn
  OBVIOUS
<1>3. PICK D : D = [w EXCEPT !.conn[l][k].near = q, !.conn[l][k].far = s]
  OBVIOUS
<1>4. [C EXCEPT ![l][k].near = q, ![l][k].far = s]
        = [C EXCEPT ![l][k] = [C[l][k] EXCEPT !.near = q, !.far = s]]
  BY ONLY <1>1, <1>2, l \in Links, k \in Conns, Zenon
<1>5. D = [circ |-> w.circ, conn |-> [C EXCEPT ![l][k].near = q, ![l][k].far = s], over |-> w.over]
  BY ONLY <1>1, <1>2, <1>3, l \in Links, k \in Conns, Zenon
<1> QED
  BY ONLY <1>2, <1>3, <1>4, <1>5, Zenon DEF AtConn, MoveConn, MoveRec

\* The connection that is launched was not used before.
LEMMA LaunchIsUnused ==
  ASSUME NEW w, NEW l, Unused(w, l) # {}
  PROVE  Min(Unused(w, l)) \in Conns /\ w.conn[l][Min(Unused(w, l))].near = "none"
<1>1. PICK U : U = Unused(w, l)
  OBVIOUS
<1>2. U \in SUBSET Nat /\ U # {}
  BY <1>1, ConstFacts, Zenon DEF Unused
<1>3. \E m \in U : \A h \in U : m <= h
  BY <1>2, LeastNat
<1>4. Min(U) \in U
  BY <1>3 DEF Min
<1> QED
  BY <1>1, <1>4 DEF Unused

----------------------------------------------------------------------------
(* The handlers keep the world sound.                                      *)

\* circuit_mark_for_close gives a world.
LEMMA MarkWorld ==
  ASSUME NEW w, IsWorld(w), NEW i \in Nodes, NEW cs \in SUBSET Circuits
  PROVE  IsWorld(MarkForClose(w, i, cs))
<1>1. CASE Circuits # {}
  <2>1. PICK c \in Circuits : TRUE
    BY <1>1
  <2> QED
    BY <2>1, MarkView
<1>2. CASE Circuits = {}
  <2>1. PICK v : v = MarkForClose(w, i, cs)
    OBVIOUS
  <2>2. PICK F : F = [l \in Links |-> [k \in Conns |-> IF l = i + 1
          THEN Destroys({c \in {d \in cs : ~ w.circ[i][d].marked} : w.circ[i][c].n = k}) ELSE <<>>]]
    BY Zenon
  <2>3. PICK G : G = [l \in Links |-> [k \in Conns |-> IF l = i
          THEN Destroys({c \in {d \in cs : ~ w.circ[i][d].marked} : w.circ[i][c].p = k}) ELSE <<>>]]
    BY Zenon
  <2>4. PICK R : R = [c \in Circuits |->
                  IF c \in cs THEN [w.circ[i][c] EXCEPT !.marked = TRUE] ELSE w.circ[i][c]]
    BY Zenon
  <2>5. PICK O : O = {<<i, c>> : c \in {d \in {d \in cs : ~ w.circ[i][d].marked} :
                        w.circ[i][d].n # 0 /\ HasCreate(w.circ[i][d].outq)}}
    BY Zenon
  <2>6. v = [circ |-> [w.circ EXCEPT ![i] = R],
             conn |-> [l \in Links |-> [k \in Conns |->
               [w.conn[l][k] EXCEPT !.fwd = w.conn[l][k].fwd \o F[l][k],
                                    !.bwd = w.conn[l][k].bwd \o G[l][k]]]],
             over |-> w.over \cup O]
    BY ONLY <2>1, <2>2, <2>3, <2>4, <2>5, Zenon DEF MarkForClose
  <2>7. O = {}
    BY <1>2, <2>5
  <2>8. R = [c \in Circuits |-> R[c]] /\ IsRow(R)
    BY ONLY <1>2, <2>4 DEF IsRow
  <2>9. \A l \in Links, k \in Conns : F[l][k] \in Seq(AllCells) /\ G[l][k] \in Seq(AllCells)
    <3>1. \A E \in SUBSET Circuits : Destroys(E) \in Seq(AllCells)
      BY Deaths
    <3>2. Destroys({}) \in Seq(AllCells) /\ <<>> \in Seq(AllCells)
      BY <3>1
    <3>3. cs = {}
      BY <1>2
    <3>4. \A k : {c \in {d \in cs : ~ w.circ[i][d].marked} : w.circ[i][c].n = k} = {}
                 /\ {c \in {d \in cs : ~ w.circ[i][d].marked} : w.circ[i][c].p = k} = {}
      BY <3>3
    <3> QED
      BY <2>2, <2>3, <3>2, <3>4, Zenon
  <2>10. /\ w.circ = [j \in Nodes |-> w.circ[j]] /\ \A j \in Nodes : IsRow(w.circ[j])
         /\ w.conn \in [Links -> [Conns -> ConnRecs]]
         /\ w.over \subseteq Nodes \X Circuits
    BY DEF IsWorld
  <2>11. ASSUME NEW x \in ConnRecs, NEW f \in Seq(AllCells), NEW g \in Seq(AllCells)
         PROVE  [x EXCEPT !.fwd = x.fwd \o f, !.bwd = x.bwd \o g] \in ConnRecs
    <3>1. x.fwd \in Seq(AllCells) /\ x.bwd \in Seq(AllCells)
      BY DEF ConnRecs
    <3>2. PICK p : p = x.fwd \o f
      BY Zenon
    <3>3. PICK q : q = x.bwd \o g
      BY Zenon
    <3>4. p \in Seq(AllCells) /\ q \in Seq(AllCells)
      BY <3>1, <3>2, <3>3, ConcatProperties
    <3>5. [x EXCEPT !.fwd = p, !.bwd = q] \in ConnRecs
      BY ONLY <3>4, x \in ConnRecs, Zenon DEF ConnRecs
    <3> QED
      BY ONLY <3>2, <3>3, <3>5
  <2>12. /\ v.circ = [w.circ EXCEPT ![i] = R] /\ v.over = w.over \cup O
         /\ v.conn = [l \in Links |-> [k \in Conns |->
               [w.conn[l][k] EXCEPT !.fwd = w.conn[l][k].fwd \o F[l][k],
                                    !.bwd = w.conn[l][k].bwd \o G[l][k]]]]
         /\ v = [circ |-> v.circ, conn |-> v.conn, over |-> v.over]
    BY ONLY <2>6, Zenon
  <2>13. v.conn \in [Links -> [Conns -> ConnRecs]]
    <3>1. \A l \in Links, k \in Conns : w.conn[l][k] \in ConnRecs
      BY ONLY <2>10
    <3>2. \A l \in Links, k \in Conns :
            [w.conn[l][k] EXCEPT !.fwd = w.conn[l][k].fwd \o F[l][k],
                                    !.bwd = w.conn[l][k].bwd \o G[l][k]] \in ConnRecs
      BY ONLY <2>9, <2>11, <3>1, Zenon
    <3>3. PICK h : h = [l \in Links |-> [k \in Conns |->
               [w.conn[l][k] EXCEPT !.fwd = w.conn[l][k].fwd \o F[l][k],
                                    !.bwd = w.conn[l][k].bwd \o G[l][k]]]]
      BY Zenon
    <3>4. \A l \in Links, k \in Conns : h[l][k] \in ConnRecs
      BY ONLY <3>2, <3>3, Zenon
    <3>5. h = [l \in Links |-> [k \in Conns |-> h[l][k]]]
      BY ONLY <3>3, Zenon
    <3>6. h \in [Links -> [Conns -> ConnRecs]]
      BY ONLY <3>4, <3>5
    <3> QED
      BY ONLY <2>12, <3>3, <3>6, Zenon
  <2>14. v.circ = [j \in Nodes |-> v.circ[j]] /\ \A j \in Nodes : IsRow(v.circ[j])
    BY ONLY <2>8, <2>10, <2>12, i \in Nodes, Zenon
  <2> QED
    BY ONLY <2>1, <2>7, <2>10, <2>12, <2>13, <2>14, Zenon DEF IsWorld
<1> QED
  BY <1>1, <1>2

\* A circuit that circuit_mark_for_close may be called for.
MarkOK(z, i) == (z.node[i].marked /\ Inv(z)) \/ (MarkReady(z, i) /\ Up(z.node[i]))

\* circuit_mark_for_close keeps the invariant of every circuit that is ready for it.
LEMMA MarkSound ==
  ASSUME NEW w, IsWorld(w), NEW i \in Nodes, NEW cs \in SUBSET Circuits, NEW n,
         \A d \in cs : MarkOK(View(w, d, n[d]), i),
         \A d \in Circuits \ cs : Inv(View(w, d, n[d])),
         NEW v, v = MarkForClose(w, i, cs)
  PROVE  Sound(v, n)
<1>1. IsWorld(v)
  BY MarkWorld
<1>2. ASSUME NEW d \in Circuits PROVE Inv(View(v, d, n[d]))
  <2>0. PICK m : m = n[d]
    OBVIOUS
  <2>1. PICK z : z = View(w, d, m)
    OBVIOUS
  <2>2. PICK y : y = View(v, d, m)
    OBVIOUS
  <2>3. /\ d \in cs => ZMark(z, y, i, d)
        /\ d \notin cs => y = z
    BY ONLY <2>1, <2>2, v = MarkForClose(w, i, cs), MarkView, IsWorld(w), i \in Nodes, d \in Circuits,
            cs \in SUBSET Circuits
  <2>4. CASE d \notin cs
    BY <2>0, <2>1, <2>2, <2>3, <2>4
  <2>5. CASE d \in cs
    <3>1. MarkOK(z, i)
      BY <2>0, <2>1, <2>5
    <3>2. IsView(z, d)
      BY <2>1, ViewType
    <3>3. CASE z.node[i].marked /\ Inv(z)
      <4>1. y = z
        BY ONLY <2>3, <2>5, <3>3 DEF ZMark
      <4> QED
        BY ONLY <2>0, <2>2, <3>3, <4>1
    <3>4. CASE MarkReady(z, i) /\ Up(z.node[i])
      <4>1. Inv(y)
        BY ONLY <2>3, <2>5, <3>2, <3>4, d \in Circuits, i \in Nodes, MarkStep
      <4> QED
        BY ONLY <2>0, <2>2, <4>1
    <3> QED
      BY ONLY <3>1, <3>3, <3>4 DEF MarkOK
  <2> QED
    BY <2>4, <2>5
<1> QED
  BY <1>1, <1>2 DEF Sound

\* One circuit of a sound world changes.
LEMMA OneSound ==
  ASSUME NEW w, NEW v, NEW n, NEW c \in Circuits, IsWorld(v), Inv(View(v, c, n[c])),
         \A d \in Circuits : d # c => Inv(View(w, d, n[d])),
         \A d \in Circuits : d # c => \A m : View(v, d, m) = View(w, d, m)
  PROVE  Sound(v, n)
BY DEF Sound

\* Connection k of link l changes its state from that of x to that of r.
Moves(x, r) ==
  /\ r.fwd = x.fwd /\ r.bwd = x.bwd
  /\ \/ x.near = "connecting" /\ r.near \in {"open", "closing"} /\ r.far = "open"
     \/ x.near = "connecting" /\ r.near = "dying" /\ r.far = x.far
     \/ x.near = "open" /\ r.near = "closing" /\ r.far = x.far
     \/ x.near = "none" /\ r.near = "connecting" /\ r.far = x.far

\* A connection changes its state, in the views of all circuits.
LEMMA MoveView ==
  ASSUME NEW w, IsWorld(w), NEW l \in Links, NEW k \in Conns, NEW r \in ConnRecs,
         Moves(w.conn[l][k], r), NEW v, v = AtConn(w, l, k, r),
         NEW d \in Circuits, NEW m, NEW z, z = View(w, d, m), NEW y, y = View(v, d, m),
         SteadyButWaiters(z), \A j \in Nodes : j # l - 1 => Waiter(z, j)
  PROVE  /\ SteadyButWaiters(y) /\ \A j \in Nodes : j # l - 1 => Waiter(y, j)
         /\ ~(Up(y.node[l - 1]) /\ y.node[l - 1].state = "OR_WAIT") => Waiter(y, l - 1)
         /\ Waiter(z, l - 1) /\ r.near \notin {"open", "closing"} => Waiter(y, l - 1)
         /\ Waiter(z, l - 1) /\ w.conn[l][k].near # "connecting" => Waiter(y, l - 1)
         /\ r.near = "connecting" => Waiter(y, l - 1)
         /\ y.node = z.node /\ y.near[l][k] = r.near
<1>1. PICK x : x = w.conn[l][k]
  OBVIOUS
<1>2. x.near = z.near[l][k] /\ x.far = z.far[l][k]
  BY ONLY <1>1, z = View(w, d, m), l \in Links, k \in Conns, ViewAt
<1>3. PICK near : near = r.near
  OBVIOUS
<1>4. PICK far : far = r.far
  OBVIOUS
<1>5. r.fwd = w.conn[l][k].fwd /\ r.bwd = w.conn[l][k].bwd
  BY DEF Moves
<1>6. ConnMoves(z, l, k, near, far)
  BY ONLY <1>1, <1>2, <1>3, <1>4, Moves(w.conn[l][k], r) DEF Moves, ConnMoves
<1>7. ZConn(z, y, l, k, r.near, r.far, z.fwd[l][k], z.bwd[l][k])
  BY ONLY <1>5, IsWorld(w), l \in Links, k \in Conns, r \in ConnRecs, v = AtConn(w, l, k, r),
          d \in Circuits, z = View(w, d, m), y = View(v, d, m), StateUpdate
<1>8. ZConn(z, y, l, k, near, far, z.fwd[l][k], z.bwd[l][k])
  BY ONLY <1>3, <1>4, <1>7
<1>9. IsView(z, d)
  BY ONLY IsWorld(w), d \in Circuits, z = View(w, d, m), ViewType
<1>10. /\ SteadyButWaiters(y)
       /\ \A j \in Nodes : j # l - 1 => Waiter(y, j)
       /\ ~(Up(y.node[l - 1]) /\ y.node[l - 1].state = "OR_WAIT") => Waiter(y, l - 1)
       /\ Waiter(z, l - 1) /\ (near \notin {"open", "closing"} \/ z.near[l][k] # "connecting")
              => Waiter(y, l - 1)
       /\ near = "connecting" => Waiter(y, l - 1)
       /\ y.node = z.node
  BY ONLY <1>6, <1>8, <1>9, d \in Circuits, SteadyButWaiters(z), l \in Links, k \in Conns,
          \A j \in Nodes : j # l - 1 => Waiter(z, j), ConnState
<1>11. y.near[l][k] = r.near
  BY ONLY <1>7 DEF ZConn
<1> QED
  BY ONLY <1>1, <1>2, <1>3, <1>10, <1>11

\* connection_or_connect keeps the invariant.
LEMMA LaunchSound ==
  ASSUME NEW w, IsWorld(w), NEW l \in Links, Unused(w, l) # {}, NEW n,
         \A d \in Circuits : /\ SteadyButWaiters(View(w, d, n[d]))
                             /\ \A j \in Nodes : j # l - 1 => Waiter(View(w, d, n[d]), j),
         NEW v, v = LaunchConn(w, l)
  PROVE  Sound(v, n)
<1>1. PICK k : k = Min(Unused(w, l))
  OBVIOUS
<1>2. k \in Conns /\ w.conn[l][k].near = "none"
  BY <1>1, LaunchIsUnused
<1>3. PICK x : x = w.conn[l][k]
  OBVIOUS
<1>4. PICK r : r = [x EXCEPT !.near = "connecting"]
  BY Zenon
<1>5. v = AtConn(w, l, k, r) /\ x \in ConnRecs
  <2>1. v = [w EXCEPT !.conn[l][k].near = "connecting"]
    BY <1>1 DEF LaunchConn
  <2>2. /\ w.conn[l][k] \in ConnRecs
        /\ [w EXCEPT !.conn[l][k].near = "connecting"]
             = AtConn(w, l, k, [w.conn[l][k] EXCEPT !.near = "connecting"])
    <3>1. w = [circ |-> w.circ, conn |-> w.conn, over |-> w.over]
          /\ w.conn \in [Links -> [Conns -> ConnRecs]]
      BY DEF IsWorld
    <3>2. w.conn[l][k] \in ConnRecs
      BY ONLY <1>2, <3>1, l \in Links
    <3>3. ASSUME NEW C PROVE [w EXCEPT !.conn = C] = [circ |-> w.circ, conn |-> C, over |-> w.over]
      BY ONLY <3>1
    <3>4. [w EXCEPT !.conn[l][k].near = "connecting"]
            = AtConn(w, l, k, [w.conn[l][k] EXCEPT !.near = "connecting"])
      BY ONLY <3>3 DEF AtConn
    <3> QED
      BY ONLY <3>2, <3>4
  <2> QED
    BY ONLY <1>3, <1>4, <2>1, <2>2
<1>6. r \in ConnRecs /\ r.near = "connecting" /\ r.far = x.far /\ r.fwd = x.fwd /\ r.bwd = x.bwd
  BY ONLY <1>4, <1>5 DEF ConnRecs, NearStates
<1>7. Moves(w.conn[l][k], r)
  BY ONLY <1>2, <1>3, <1>6 DEF Moves
<1>8. IsWorld(v)
  BY ONLY <1>2, <1>3, <1>5, <1>6, IsWorld(w), l \in Links, StateUpdate
<1>9. ASSUME NEW d \in Circuits PROVE Inv(View(v, d, n[d]))
  <2>0. PICK m : m = n[d]
    OBVIOUS
  <2>1. PICK z : z = View(w, d, m)
    OBVIOUS
  <2>2. PICK y : y = View(v, d, m)
    OBVIOUS
  <2>3. SteadyButWaiters(z) /\ \A j \in Nodes : j # l - 1 => Waiter(z, j)
    BY <2>0, <2>1
  <2>4. /\ SteadyButWaiters(y) /\ \A j \in Nodes : j # l - 1 => Waiter(y, j)
        /\ Waiter(y, l - 1)
    BY ONLY <1>2, <1>5, <1>6, <1>7, <2>1, <2>2, <2>3, IsWorld(w), l \in Links, d \in Circuits, MoveView
  <2>5. Inv(y)
    BY ONLY <2>4, InvSteady
  <2> QED
    BY ONLY <2>0, <2>2, <2>5
<1> QED
  BY <1>8, <1>9 DEF Sound

\* Node i can take the handshake up.
CanTake(z, i) ==
  \A h \in Ks : \A y, u :
    ZNode(z, y, i, u) /\ Takes(z.node[i], u, i, h) /\ (h # 0 => z.near[i + 1][h] = "open") =>
      /\ SteadyButWaiters(y)
      /\ \A j \in Nodes : j # i => Waiter(y, j)
      /\ h # 0 => Inv(y)

\* circuit_extend and circuit_handle_first_hop
LEMMA ExtendSound ==
  ASSUME NEW w, IsWorld(w), NEW i \in Nodes, i # PathLen, NEW c \in Circuits, NEW n,
         Fit(w.circ[i][c], i), CanTake(View(w, c, n[c]), i),
         \A d \in Circuits : d # c => Inv(View(w, d, n[d])),
         NEW v \in Extend(w, i, c)
  PROVE  Sound(v, n)
<1>0. PICK m : m = n[c]
  OBVIOUS
<1>1. PICK z : z = View(w, c, m)
  OBVIOUS
<1>2. CanTake(z, i)
  BY <1>0, <1>1
<1>3. /\ z.node[i] = w.circ[i][c]
      /\ \A k \in Conns : z.near[i + 1][k] = w.conn[i + 1][k].near
  BY <1>1, ViewAt, ConstFacts
<1>4. PICK q : q = [w EXCEPT !.circ[i][c].state = "OR_WAIT"]
  BY Zenon
<1>5. /\ Usable(w, i + 1) # {} => \E k \in Usable(w, i + 1) : v = DeliverCreate(w, i, {c}, k)
      /\ Usable(w, i + 1) = {} =>
           \/ InProgress(w, i + 1) # {} /\ v = q
           \/ v = MarkForClose(q, i, {c})
           \/ Unused(w, i + 1) # {} /\ v = LaunchConn(q, i + 1)
  BY <1>4 DEF Extend
<1>6. i + 1 \in Links /\ 0 \in Ks /\ (i + 1) - 1 = i
  BY ConstFacts
<1>7. ASSUME NEW k \in Usable(w, i + 1), v = DeliverCreate(w, i, {c}, k) PROVE Sound(v, n)
  <2>1. k \in Conns /\ k \in Ks /\ k # 0 /\ z.near[i + 1][k] = "open"
    BY <1>3, <1>7, ConstFacts DEF Usable
  <2>2. {c} \in SUBSET Circuits /\ \A d \in {c} : Fit(w.circ[i][d], i)
    OBVIOUS
  <2>3. /\ IsWorld(v)
        /\ \A d \in Circuits : \A a :
              /\ d \in {c} => Given(View(w, d, a), View(v, d, a), i, k)
              /\ d \notin {c} => View(v, d, a) = View(w, d, a)
    <3>1. k \in Conns
      BY ONLY <2>1
    <3>2. PICK cs : cs = {c}
      BY Zenon
    <3>3. cs \in SUBSET Circuits /\ (\A d \in cs : Fit(w.circ[i][d], i)) /\ v = DeliverCreate(w, i, cs, k)
      BY ONLY <1>7, <2>2, <3>2
    <3>4. /\ IsWorld(v)
          /\ \A d \in Circuits : \A a :
                /\ d \in cs => Given(View(w, d, a), View(v, d, a), i, k)
                /\ d \notin cs => View(v, d, a) = View(w, d, a)
      BY ONLY <3>1, <3>3, IsWorld(w), i \in Nodes, DeliverView
    <3> QED
      BY ONLY <3>2, <3>4
  <2>4. PICK y : y = View(v, c, m)
    OBVIOUS
  <2>5. \E u : ZNode(z, y, i, u) /\ Takes(z.node[i], u, i, k)
    BY ONLY <1>1, <2>3, <2>4, c \in Circuits DEF Given
  <2>6. Inv(y)
    BY ONLY <1>2, <2>1, <2>5 DEF CanTake
  <2>7. Inv(View(v, c, n[c]))
    BY ONLY <1>0, <2>4, <2>6
  <2>8. \A d \in Circuits : d # c => \A a : View(v, d, a) = View(w, d, a)
    BY ONLY <2>3
  <2> QED
    BY ONLY <2>3, <2>7, <2>8, c \in Circuits, \A d \in Circuits : d # c => Inv(View(w, d, n[d])),
       OneSound
<1>8. PICK x : x = w.circ[i][c]
  OBVIOUS
<1>9. PICK u : u = [x EXCEPT !.state = "OR_WAIT"]
  BY Zenon
<1>10. x \in CircsOf(c)
  BY <1>8, Zenon DEF IsWorld, IsRow
<1>11. u \in CircsOf(c) /\ Takes(x, u, i, 0)
  <2>1. ~ x.marked /\ (Up(x) \/ i = 0) /\ x.n = 0 /\ x.outq = <<>>
    BY <1>8 DEF Fit
  <2> QED
    BY ONLY <1>9, <1>10, <2>1, c \in Circuits, TakeFields, Zenon
<1>12. q = AtNode(w, i, [w.circ[i] EXCEPT ![c] = u])
  BY ONLY <1>4, <1>8, <1>9, IsWorld(w), i \in Nodes, WorldNode
<1>13. /\ IsWorld(q) /\ q.circ[i][c] = u /\ q.conn = w.conn
       /\ \A a : ZNode(View(w, c, a), View(q, c, a), i, u)
       /\ \A d \in Circuits : d # c => \A a : View(q, d, a) = View(w, d, a)
  BY ONLY <1>11, <1>12, IsWorld(w), i \in Nodes, c \in Circuits, OneNode
<1>14. PICK y : y = View(q, c, m)
  OBVIOUS
<1>15. /\ SteadyButWaiters(y)
       /\ \A j \in Nodes : j # i => Waiter(y, j)
  <2>1. ZNode(z, y, i, u) /\ Takes(z.node[i], u, i, 0)
    BY ONLY <1>1, <1>3, <1>8, <1>11, <1>13, <1>14
  <2> QED
    BY ONLY <1>2, <1>6, <2>1 DEF CanTake
<1>16. Up(y.node[i]) /\ y.near = z.near
  <2>1. ZNode(z, y, i, u)
    BY ONLY <1>1, <1>13, <1>14
  <2> QED
    BY ONLY <1>11, <2>1 DEF Takes, ZNode
<1>17. \A d \in Circuits : d # c => Inv(View(q, d, n[d]))
  BY ONLY <1>13, \A d \in Circuits : d # c => Inv(View(w, d, n[d]))
<1>18. ASSUME InProgress(w, i + 1) # {}, v = q PROVE Sound(v, n)
  <2>1. \E k \in Conns : y.near[i + 1][k] \in {"connecting", "dying"}
    BY <1>3, <1>16, <1>18 DEF InProgress
  <2>2. Waiter(y, i)
    BY ONLY <2>1 DEF Waiter
  <2>3. Inv(y)
    BY ONLY <1>15, <2>2, InvSteady
  <2>4. Inv(View(q, c, n[c]))
    BY ONLY <1>0, <1>14, <2>3
  <2> QED
    BY ONLY <1>13, <1>17, <1>18, <2>4 DEF Sound
<1>19. ASSUME v = MarkForClose(q, i, {c}) PROVE Sound(v, n)
  <2>1. MarkReady(y, i)
    BY ONLY <1>15, i \in Nodes, ReadyToMark
  <2>2. MarkOK(y, i)
    BY ONLY <1>16, <2>1 DEF MarkOK
  <2>3. \A d \in {c} : MarkOK(View(q, d, n[d]), i)
    BY ONLY <1>0, <1>14, <2>2
  <2>4. {c} \in SUBSET Circuits /\ \A d \in Circuits \ {c} : Inv(View(q, d, n[d]))
    BY <1>17
  <2> QED
    BY ONLY <1>13, <1>19, <2>3, <2>4, i \in Nodes, MarkSound
<1>20. ASSUME Unused(w, i + 1) # {}, v = LaunchConn(q, i + 1) PROVE Sound(v, n)
  <2>1. ASSUME NEW d \in Circuits
        PROVE  /\ SteadyButWaiters(View(q, d, n[d]))
               /\ \A j \in Nodes : j # i => Waiter(View(q, d, n[d]), j)
    <3>1. CASE d = c
      BY ONLY <1>0, <1>14, <1>15, <3>1
    <3>2. CASE d # c
      <4>1. PICK p : p = View(q, d, n[d])
        OBVIOUS
      <4>2. Inv(p)
        BY ONLY <1>17, <3>2, <4>1, d \in Circuits
      <4>3. SteadyButWaiters(p) /\ \A j \in Nodes : Waiter(p, j)
        BY ONLY <4>2, InvSteady
      <4> QED
        BY ONLY <4>1, <4>3
    <3> QED
      BY <3>1, <3>2
  <2>2. Unused(q, i + 1) # {}
    BY ONLY <1>13, <1>20 DEF Unused
  <2>3. PICK l : l = i + 1
    OBVIOUS
  <2>4. l \in Links /\ l - 1 = i
    BY ONLY <1>6, <2>3
  <2>5. \A d \in Circuits : /\ SteadyButWaiters(View(q, d, n[d]))
                             /\ \A j \in Nodes : j # l - 1 => Waiter(View(q, d, n[d]), j)
    BY ONLY <2>1, <2>4
  <2>6. Unused(q, l) # {} /\ v = LaunchConn(q, l)
    BY ONLY <1>20, <2>2, <2>3
  <2> QED
    BY ONLY <1>13, <2>4, <2>5, <2>6, LaunchSound
<1> QED
  BY ONLY <1>5, <1>7, <1>18, <1>19, <1>20

\* Every circuit of a sound world sees a view, and its invariant.
LEMMA SoundViews ==
  ASSUME NEW w, NEW n, Sound(w, n), NEW d \in Circuits, NEW z, z = View(w, d, n[d])
  PROVE  IsWorld(w) /\ IsView(z, d) /\ Inv(z) /\ \A i \in Nodes : z.node[i] = w.circ[i][d]
<1>1. IsWorld(w) /\ Inv(z)
  BY DEF Sound
<1> QED
  BY <1>1, ViewType, ViewAt

\* A circuit that is up and waits can be given to a connection.
LEMMA WaiterFits ==
  ASSUME NEW z, NEW i \in Nodes, Shape(z), Ups(z), Up(z.node[i]), z.node[i].state = "OR_WAIT"
  PROVE  Fit(z.node[i], i)
<1>1. NodeShape(z, i) /\ NodeUp(z, i)
  BY DEF Shape, Ups
<1> QED
  BY <1>1 DEF NodeShape, NodeUp, Fit, Up

\* The connection opens, or is turned down: who waits for it is given to it, or closed.
LEMMA ConnectedSound ==
  ASSUME NEW w, NEW n, Sound(w, n), NEW l \in Links, NEW k \in Conns, w.conn[l][k].near = "connecting",
         NEW near \in {"open", "closing"}, NEW q,
         q = MoveConn(w, l, k, near, "open"), NEW v,
         v = IF near = "open" THEN NConnDone(q, l, k) ELSE NConnFailed(q, l)
  PROVE  Sound(v, n)
<1>0. IsWorld(w)
  BY DEF Sound
<1>1. PICK x : x = w.conn[l][k]
  OBVIOUS
<1>2. PICK r : r = [x EXCEPT !.near = near, !.far = "open"]
  OBVIOUS
<1>3. q = AtConn(w, l, k, r)
  <2>1. PICK s : s = "open"
    OBVIOUS
  <2>2. MoveConn(w, l, k, near, s) = AtConn(w, l, k, MoveRec(w.conn[l][k], near, s))
    BY ONLY <1>0, l \in Links, k \in Conns, WorldConnState
  <2>3. q = MoveConn(w, l, k, near, s)
    BY <2>1 DEF MoveConn
  <2> QED
    BY ONLY <1>1, <1>2, <2>1, <2>2, <2>3 DEF MoveRec
<1>4. x \in ConnRecs
  BY <1>0, <1>1 DEF IsWorld
<1>5. r \in ConnRecs /\ r.near = near /\ r.far = "open" /\ r.fwd = x.fwd /\ r.bwd = x.bwd
  BY ONLY <1>2, <1>4, near \in {"open", "closing"}, Zenon DEF ConnRecs, NearStates, FarStates
<1>6. Moves(w.conn[l][k], r)
  BY ONLY <1>1, <1>5, w.conn[l][k].near = "connecting", near \in {"open", "closing"} DEF Moves
<1>7. IsWorld(q) /\ q.circ = w.circ
  BY ONLY <1>0, <1>1, <1>3, <1>5, l \in Links, k \in Conns, StateUpdate
<1>8. PICK i : i = l - 1
  OBVIOUS
<1>9. i \in Nodes /\ i # PathLen /\ i + 1 = l /\ k # 0 /\ k \in Ks
  BY <1>8, ConstFacts
<1>10. PICK cs : cs = PendingOn(q, l)
  OBVIOUS
<1>11. /\ cs \in SUBSET Circuits
       /\ \A d \in Circuits : d \in cs <=> q.circ[i][d].state = "OR_WAIT" /\ ~ q.circ[i][d].marked
  BY <1>8, <1>10 DEF PendingOn
<1>12. ASSUME NEW d \in Circuits, NEW y, y = View(q, d, n[d])
       PROVE  /\ IsView(y, d) /\ SteadyButWaiters(y) /\ \A j \in Nodes : j # i => Waiter(y, j)
              /\ y.near[l][k] = near
              /\ d \notin cs => Inv(y)
              /\ d \in cs => /\ Up(y.node[i]) /\ y.node[i].state = "OR_WAIT"
                             /\ Fit(y.node[i], i) /\ y.node[i] = q.circ[i][d]
  <2>0. PICK m : m = n[d]
    OBVIOUS
  <2>1. PICK z : z = View(w, d, m)
    OBVIOUS
  <2>2. Inv(z)
    BY <2>0, <2>1 DEF Sound
  <2>3. SteadyButWaiters(z) /\ \A j \in Nodes : Waiter(z, j)
    BY ONLY <2>2, InvSteady
  <2>4. y = View(q, d, m)
    BY <1>12, <2>0
  <2>5. /\ SteadyButWaiters(y) /\ \A j \in Nodes : j # l - 1 => Waiter(y, j)
        /\ ~(Up(y.node[l - 1]) /\ y.node[l - 1].state = "OR_WAIT") => Waiter(y, l - 1)
        /\ y.near[l][k] = r.near
    BY ONLY <1>0, <1>3, <1>5, <1>6, <2>1, <2>3, <2>4, l \in Links, k \in Conns, d \in Circuits, MoveView
  <2>6. IsView(y, d) /\ y.node[i] = q.circ[i][d]
    BY ONLY <1>7, <1>9, <2>4, d \in Circuits, ViewType, ViewAt
  <2>7. d \in cs <=> Up(y.node[i]) /\ y.node[i].state = "OR_WAIT"
    BY ONLY <1>11, <2>6, d \in Circuits DEF Up
  <2>8. ASSUME d \notin cs PROVE Inv(y)
    <3>1. Waiter(y, i)
      BY ONLY <1>8, <2>5, <2>7, <2>8
    <3> QED
      BY ONLY <1>8, <2>5, <3>1, InvSteady
  <2>9. d \in cs => Fit(y.node[i], i)
    <3>1. Shape(y) /\ Ups(y)
      BY ONLY <2>5 DEF SteadyButWaiters
    <3> QED
      BY ONLY <1>9, <2>7, <3>1, WaiterFits
  <2> QED
    BY ONLY <1>5, <1>8, <2>5, <2>6, <2>7, <2>8, <2>9
<1>13. CASE near = "closing"
  <2>1. v = MarkForClose(q, i, cs)
    BY <1>8, <1>10, <1>13 DEF NConnFailed
  <2>2. ASSUME NEW d \in cs PROVE MarkOK(View(q, d, n[d]), i)
    <3>1. PICK y : y = View(q, d, n[d])
      OBVIOUS
    <3>2. SteadyButWaiters(y) /\ (\A j \in Nodes : j # i => Waiter(y, j)) /\ Up(y.node[i])
      BY ONLY <1>11, <1>12, <3>1, d \in cs
    <3>3. MarkReady(y, i)
      BY ONLY <1>9, <3>2, ReadyToMark
    <3> QED
      BY ONLY <3>1, <3>2, <3>3 DEF MarkOK
  <2>3. \A d \in Circuits \ cs : Inv(View(q, d, n[d]))
    BY ONLY <1>12
  <2> QED
    BY ONLY <1>7, <1>9, <1>11, <2>1, <2>2, <2>3, MarkSound
<1>14. CASE near = "open"
  <2>1. v = DeliverCreate(q, i, cs, k)
    BY <1>8, <1>10, <1>14 DEF NConnDone
  <2>2. \A d \in cs : Fit(q.circ[i][d], i)
    BY ONLY <1>11, <1>12
  <2>3. /\ IsWorld(v)
        /\ \A d \in Circuits : \A m :
              /\ d \in cs => Given(View(q, d, m), View(v, d, m), i, k)
              /\ d \notin cs => View(v, d, m) = View(q, d, m)
    <3>1. IsWorld(q) /\ i \in Nodes /\ cs \in SUBSET Circuits
      BY ONLY <1>7, <1>9, <1>11
    <3> QED
      BY ONLY <2>1, <2>2, <3>1, k \in Conns, DeliverView
  <2>4. ASSUME NEW d \in Circuits PROVE Inv(View(v, d, n[d]))
    <3>1. PICK y : y = View(q, d, n[d])
      OBVIOUS
    <3>2. PICK p : p = View(v, d, n[d])
      OBVIOUS
    <3>3. CASE d \notin cs
      BY ONLY <1>12, <2>3, <3>3, d \in Circuits
    <3>4. CASE d \in cs
      <4>1. /\ IsView(y, d) /\ SteadyButWaiters(y) /\ (\A j \in Nodes : j # i => Waiter(y, j))
            /\ y.near[l][k] = "open" /\ Up(y.node[i]) /\ y.node[i].state = "OR_WAIT"
            /\ y.node[i] = q.circ[i][d]
        BY ONLY <1>12, <1>14, <3>1, <3>4, d \in Circuits
      <4>2. PICK u : ZNode(y, p, i, u) /\ Takes(y.node[i], u, i, k)
        BY ONLY <2>3, <3>1, <3>2, <3>4, d \in Circuits DEF Given
      <4>4. y.near[i + 1][k] = "open"
        BY ONLY <1>9, <4>1
      <4>5. Inv(p)
        BY ONLY <1>9, <4>1, <4>2, <4>4, d \in Circuits, TakeUp
      <4> QED
        BY ONLY <3>2, <4>5
    <3> QED
      BY <3>3, <3>4
  <2> QED
    BY ONLY <2>3, <2>4 DEF Sound
<1> QED
  BY <1>13, <1>14

\* connection_mark_for_close
LEMMA MarkedSound ==
  ASSUME NEW w, NEW n, Sound(w, n), NEW l \in Links, NEW k \in Conns, NEW near, NEW v,
         v = [circ |-> w.circ, conn |-> [w.conn EXCEPT ![l][k].near = near], over |-> w.over],
         \/ w.conn[l][k].near = "connecting" /\ near = "dying"
         \/ w.conn[l][k].near = "open" /\ near = "closing"
  PROVE  Sound(v, n)
<1>0. IsWorld(w)
  BY DEF Sound
<1>1. PICK x : x = w.conn[l][k]
  OBVIOUS
<1>2. PICK r : r = [x EXCEPT !.near = near]
  BY Zenon
<1>3. v = AtConn(w, l, k, r)
  BY ONLY <1>1, <1>2,
     v = [circ |-> w.circ, conn |-> [w.conn EXCEPT ![l][k].near = near], over |-> w.over]
     DEF AtConn
<1>4. x \in ConnRecs
  BY <1>0, <1>1 DEF IsWorld
<1>5. near \in {"dying", "closing"}
  OBVIOUS
<1>6. r \in ConnRecs /\ r.near = near /\ r.far = x.far /\ r.fwd = x.fwd /\ r.bwd = x.bwd
  BY ONLY <1>2, <1>4, <1>5 DEF ConnRecs, NearStates
<1>7. Moves(w.conn[l][k], r)
  BY <1>1, <1>6 DEF Moves
<1>8. IsWorld(v)
  BY ONLY <1>0, <1>1, <1>3, <1>6, l \in Links, k \in Conns, StateUpdate
<1>9. r.near \notin {"open", "closing"} \/ w.conn[l][k].near # "connecting"
  BY <1>6
<1>10. ASSUME NEW d \in Circuits PROVE Inv(View(v, d, n[d]))
  <2>0. PICK m : m = n[d]
    OBVIOUS
  <2>1. PICK z : z = View(w, d, m)
    OBVIOUS
  <2>2. PICK y : y = View(v, d, m)
    OBVIOUS
  <2>3. Inv(z)
    BY <2>0, <2>1 DEF Sound
  <2>4. SteadyButWaiters(z) /\ \A j \in Nodes : Waiter(z, j)
    BY ONLY <2>3, InvSteady
  <2>5. /\ SteadyButWaiters(y) /\ (\A j \in Nodes : j # l - 1 => Waiter(y, j))
        /\ Waiter(z, l - 1) => Waiter(y, l - 1)
    BY ONLY <1>0, <1>3, <1>6, <1>7, <1>9, <2>1, <2>2, <2>4, l \in Links, k \in Conns,
       d \in Circuits, MoveView
  <2>6. l - 1 \in Nodes
    BY ConstFacts
  <2>7. Inv(y)
    BY ONLY <2>4, <2>5, <2>6, InvSteady
  <2> QED
    BY ONLY <2>0, <2>2, <2>7
<1> QED
  BY <1>8, <1>10 DEF Sound

\* Of an empty queue a circuit sees nothing.
LEMMA KeepNothing ==
  ASSUME NEW S
  PROVE  Keep(<<>>, S) = <<>>
<1>1. PICK q : q = <<>>
  OBVIOUS
<1>2. q \in Seq({}) /\ \A i \in DOMAIN q : q[i] \notin S
  BY <1>1
<1>3. Keep(q, S) = <<>>
  BY ONLY <1>2, KeepNone
<1> QED
  BY ONLY <1>1, <1>3

\* One end of connection k of link l closes.
NearRec(x) == [x EXCEPT !.near = "closed", !.bwd = <<>>,
                        !.fwd = IF x.far = "open" THEN x.fwd ELSE <<>>]
FarRec(x) == [x EXCEPT !.far = "closed", !.fwd = <<>>,
                       !.bwd = IF x.near = "closed" THEN <<>> ELSE x.bwd]
ShutNear(w, l, k) ==
  [w EXCEPT !.conn[l][k].near = "closed", !.conn[l][k].bwd = <<>>,
            !.conn[l][k].fwd = IF w.conn[l][k].far = "open" THEN @ ELSE <<>>]
ShutFar(w, l, k) ==
  [w EXCEPT !.conn[l][k].far = "closed", !.conn[l][k].fwd = <<>>,
            !.conn[l][k].bwd = IF w.conn[l][k].near = "closed" THEN <<>> ELSE @]

\* The fields of a connection one end of which closed.
LEMMA ShutRecs ==
  ASSUME NEW x \in ConnRecs
  PROVE  /\ NearRec(x) \in ConnRecs /\ NearRec(x).near = "closed" /\ NearRec(x).far = x.far
         /\ NearRec(x).bwd = <<>> /\ (NearRec(x).fwd = x.fwd \/ NearRec(x).fwd = <<>>)
         /\ FarRec(x) \in ConnRecs /\ FarRec(x).far = "closed" /\ FarRec(x).near = x.near
         /\ FarRec(x).fwd = <<>> /\ (FarRec(x).bwd = x.bwd \/ FarRec(x).bwd = <<>>)
<1>1. <<>> \in Seq(AllCells) /\ "closed" \in NearStates /\ "closed" \in FarStates
  BY DEF NearStates, FarStates
<1>2. PICK f : f = IF x.far = "open" THEN x.fwd ELSE <<>>
  OBVIOUS
<1>3. PICK b : b = IF x.near = "closed" THEN <<>> ELSE x.bwd
  OBVIOUS
<1>4. f \in Seq(AllCells) /\ b \in Seq(AllCells) /\ f \in {x.fwd, <<>>} /\ b \in {x.bwd, <<>>}
  BY <1>1, <1>2, <1>3 DEF ConnRecs
<1>5. PICK r : r = [x EXCEPT !.near = "closed", !.bwd = <<>>, !.fwd = f]
  OBVIOUS
<1>6. PICK s : s = [x EXCEPT !.far = "closed", !.fwd = <<>>, !.bwd = b]
  OBVIOUS
<1>7. r \in ConnRecs /\ r.near = "closed" /\ r.far = x.far /\ r.bwd = <<>> /\ r.fwd = f
  BY ONLY <1>1, <1>4, <1>5, x \in ConnRecs, Zenon DEF ConnRecs
<1>8. s \in ConnRecs /\ s.far = "closed" /\ s.near = x.near /\ s.fwd = <<>> /\ s.bwd = b
  BY ONLY <1>1, <1>4, <1>6, x \in ConnRecs, Zenon DEF ConnRecs
<1>9. r = NearRec(x) /\ s = FarRec(x)
  BY ONLY <1>2, <1>3, <1>5, <1>6 DEF NearRec, FarRec
<1> QED
  BY ONLY <1>4, <1>7, <1>8, <1>9

\* The closing of one end, written as a change of the connection.
LEMMA ShutWorlds ==
  ASSUME NEW w, IsWorld(w), NEW l \in Links, NEW k \in Conns
  PROVE  /\ ShutNear(w, l, k) = AtConn(w, l, k, NearRec(w.conn[l][k]))
         /\ ShutFar(w, l, k) = AtConn(w, l, k, FarRec(w.conn[l][k]))
<1>1. w = [circ |-> w.circ, conn |-> w.conn, over |-> w.over]
      /\ w.conn \in [Links -> [Conns -> ConnRecs]]
  BY DEF IsWorld
<1>2. PICK C : C = w.conn
  OBVIOUS
<1>3. PICK f : f = IF C[l][k].far = "open" THEN C[l][k].fwd ELSE <<>>
  OBVIOUS
<1>4. PICK b : b = IF C[l][k].near = "closed" THEN <<>> ELSE C[l][k].bwd
  OBVIOUS
<1>5. PICK D : D = ShutNear(w, l, k)
  OBVIOUS
<1>6. PICK E : E = ShutFar(w, l, k)
  OBVIOUS
<1>7. D = [circ |-> w.circ, conn |-> [C EXCEPT ![l][k].near = "closed", ![l][k].bwd = <<>>,
             ![l][k].fwd = IF C[l][k].far = "open" THEN @ ELSE <<>>], over |-> w.over]
  BY ONLY <1>1, <1>2, <1>5, l \in Links, k \in Conns, Zenon DEF ShutNear
<1>8. E = [circ |-> w.circ, conn |-> [C EXCEPT ![l][k].far = "closed", ![l][k].fwd = <<>>,
             ![l][k].bwd = IF C[l][k].near = "closed" THEN <<>> ELSE @], over |-> w.over]
  BY ONLY <1>1, <1>2, <1>6, l \in Links, k \in Conns, Zenon DEF ShutFar
<1>9. [C EXCEPT ![l][k].near = "closed", ![l][k].bwd = <<>>,
             ![l][k].fwd = IF C[l][k].far = "open" THEN @ ELSE <<>>]
        = [C EXCEPT ![l][k] = NearRec(C[l][k])]
  BY ONLY <1>1, <1>2, l \in Links, k \in Conns, ZenonT(30) DEF NearRec
<1>10. [C EXCEPT ![l][k].far = "closed", ![l][k].fwd = <<>>,
             ![l][k].bwd = IF C[l][k].near = "closed" THEN <<>> ELSE @]
        = [C EXCEPT ![l][k] = FarRec(C[l][k])]
  BY ONLY <1>1, <1>2, l \in Links, k \in Conns, ZenonT(30) DEF FarRec
<1> QED
  BY ONLY <1>2, <1>5, <1>6, <1>7, <1>8, <1>9, <1>10, Zenon DEF AtConn

\* What a circuit sees of it.
NearShut(z, y, l, k) ==
  /\ y.node = z.node /\ y.over = z.over /\ y.len = z.len /\ y.far = z.far
  /\ y.near[l][k] = "closed" /\ y.bwd[l][k] = <<>>
  /\ y.fwd[l][k] = z.fwd[l][k] \/ y.fwd[l][k] = <<>>
  /\ \A a \in Links, h \in Conns : a # l \/ h # k =>
       /\ y.near[a][h] = z.near[a][h]
       /\ y.fwd[a][h] = z.fwd[a][h] /\ y.bwd[a][h] = z.bwd[a][h]

\* The near end of a connection closes, in the views of all circuits.
LEMMA ShutNearView ==
  ASSUME NEW w, IsWorld(w), NEW l \in Links, NEW k \in Conns, NEW q, q = ShutNear(w, l, k)
  PROVE  /\ IsWorld(q) /\ q.circ = w.circ /\ q.conn[l][k].near = "closed"
         /\ \A d \in Circuits : \A m : \A z, y : z = View(w, d, m) /\ y = View(q, d, m) =>
              NearShut(z, y, l, k)
<1>1. PICK x : x = w.conn[l][k]
  OBVIOUS
<1>2. PICK r : r = NearRec(x)
  OBVIOUS
<1>3. w.conn \in [Links -> [Conns -> ConnRecs]] /\ x \in ConnRecs
  BY <1>1 DEF IsWorld
<1>4. /\ r \in ConnRecs /\ r.near = "closed" /\ r.far = x.far
      /\ r.bwd = <<>> /\ (r.fwd = x.fwd \/ r.fwd = <<>>)
  BY ONLY <1>2, <1>3, ShutRecs
<1>5. q = AtConn(w, l, k, r)
  BY ONLY <1>1, <1>2, IsWorld(w), l \in Links, k \in Conns, q = ShutNear(w, l, k), ShutWorlds
<1>6. /\ q = [circ |-> w.circ, conn |-> [w.conn EXCEPT ![l][k] = r], over |-> w.over]
      /\ q.circ = w.circ /\ q.over = w.over /\ q.conn = [w.conn EXCEPT ![l][k] = r]
      /\ q = [circ |-> q.circ, conn |-> q.conn, over |-> q.over]
  BY ONLY <1>5 DEF AtConn
<1>7. /\ q.conn[l][k] = r /\ q.conn \in [Links -> [Conns -> ConnRecs]]
      /\ \A a \in Links, h \in Conns : q.conn[a][h].far = w.conn[a][h].far
  BY ONLY <1>1, <1>3, <1>4, <1>6, l \in Links, k \in Conns
<1>8. IsWorld(q)
  BY <1>6, <1>7 DEF IsWorld
<1>9. ASSUME NEW d \in Circuits, NEW m, NEW z, NEW y, z = View(w, d, m), y = View(q, d, m)
      PROVE  NearShut(z, y, l, k)
  <2>1. ZConn(View(w, d, m), View(q, d, m), l, k, r.near, r.far,
                  Keep(r.fwd, CellsOf(d)), Keep(r.bwd, CellsOf(d)))
    BY ONLY <1>4, <1>6, IsWorld(w), l \in Links, k \in Conns, d \in Circuits, ConnUpdate
  <2>2. ZConn(z, y, l, k, "closed", r.far, Keep(r.fwd, CellsOf(d)), <<>>)
    BY ONLY <1>4, <1>9, <2>1, KeepNothing
  <2>3. y.far = z.far
    BY ONLY <1>7, <1>9 DEF View
  <2>4. z.fwd[l][k] = Keep(x.fwd, CellsOf(d))
    BY ONLY <1>1, <1>9, l \in Links, k \in Conns, ViewAt
  <2>5. Keep(r.fwd, CellsOf(d)) \in {z.fwd[l][k], <<>>}
    BY ONLY <1>4, <2>4, KeepNothing
  <2> QED
    BY ONLY <2>2, <2>3, <2>5 DEF ZConn, NearShut
<1>10. q.conn[l][k].near = "closed"
  BY ONLY <1>4, <1>7
<1> QED
  BY ONLY <1>6, <1>8, <1>9, <1>10

\* connection_about_to_close_connection at the end that launched the connection
LEMMA CloseSound ==
  ASSUME NEW w, NEW n, Sound(w, n), NEW l \in Links, NEW k \in Conns,
         w.conn[l][k].near \in {"dying", "closing"}, NEW q, q = ShutNear(w, l, k),
         NEW v, v = UnlinkAllN(IF w.conn[l][k].near = "dying" THEN NConnFailed(q, l) ELSE q, l, k)
  PROVE  Sound(v, n)
<1>0. IsWorld(w)
  BY DEF Sound
<1>1. PICK i : i = l - 1
  OBVIOUS
<1>2. i \in Nodes /\ i # PathLen /\ i + 1 = l /\ k # 0 /\ k \in Ks
  BY <1>1, ConstFacts
<1>3. /\ IsWorld(q) /\ q.circ = w.circ /\ q.conn[l][k].near = "closed"
  BY ONLY <1>0, l \in Links, k \in Conns, q = ShutNear(w, l, k), ShutNearView
<1>4. ASSUME NEW d \in Circuits, NEW z, z = View(w, d, n[d]), NEW p, p = View(q, d, n[d]), NEW y,
             \/ y = p /\ z.node[i].n # k
             \/ ZNode(p, y, i, CutN(z.node[i])) /\ z.node[i].n = k
      PROVE  /\ MarkReady(y, i)
             /\ z.node[i].n # k \/ ~ Up(z.node[i]) => NodeUp(y, i) /\ Chain(y)
             /\ z.near[l][k] # "dying" \/ ~(Up(z.node[i]) /\ z.node[i].state = "OR_WAIT")
                  => Waiter(y, i)
             /\ Up(y.node[i]) <=> Up(z.node[i])
             /\ y.node[i].marked <=> z.node[i].marked
  <2>1. IsView(z, d) /\ Inv(z)
    BY ONLY <1>4, Sound(w, n), d \in Circuits, SoundViews
  <2>2. NearShut(z, p, l, k)
    BY ONLY <1>0, <1>4, l \in Links, k \in Conns, d \in Circuits, q = ShutNear(w, l, k), ShutNearView
  <2>3. ClosesNear(z, y, l, k)
    <3>1. CASE y = p /\ z.node[i].n # k
      BY ONLY <1>1, <1>2, <2>2, <3>1 DEF ClosesNear, NearShut
    <3>2. CASE ZNode(p, y, i, CutN(z.node[i])) /\ z.node[i].n = k
      BY ONLY <1>1, <1>2, <2>2, <3>2 DEF ClosesNear, ZNode, NearShut, CutN
    <3> QED
      BY ONLY <1>4, <3>1, <3>2
  <2>4. z.near[l][k] \in {"dying", "closing"}
    BY <1>4, ViewAt
  <2>5. /\ MarkReady(y, i)
        /\ z.node[i].n # k \/ ~ Up(z.node[i]) => NodeUp(y, i) /\ Chain(y)
        /\ z.near[l][k] # "dying" \/ ~(Up(z.node[i]) /\ z.node[i].state = "OR_WAIT")
             => Waiter(y, i)
        /\ Up(y.node[i]) <=> Up(z.node[i])
    <3>1. CutLoose(z, y, i, l, k)
      BY ONLY <1>1, <2>1, <2>3, <2>4, d \in Circuits, l \in Links, k \in Conns, CloseNear, Zenon
    <3> QED
      BY ONLY <3>1 DEF CutLoose
  <2>6. y.node[i].marked <=> z.node[i].marked
    <3>1. PICK x : x = z.node[i]
      OBVIOUS
    <3>2. x \in CircsOf(d)
      BY ONLY <1>2, <2>1, <3>1, d \in Circuits, ViewParts
    <3>3. y.node[i] = x \/ y.node[i] = [x EXCEPT !.n = 0, !.outq = <<>>]
      BY ONLY <1>4, <2>2, <3>1 DEF ZNode, NearShut, CutN
    <3>4. [x EXCEPT !.n = 0, !.outq = <<>>].marked = x.marked
      BY ONLY <3>2, d \in Circuits, UnlinkFields, Zenon
    <3> QED
      BY ONLY <3>1, <3>3, <3>4, Zenon
  <2> QED
    BY ONLY <2>5, <2>6
<1>5. ASSUME NEW y, MarkReady(y, i), NodeUp(y, i), Chain(y), Waiter(y, i) PROVE Inv(y)
  <2>1. \A j \in Nodes : NodeUp(y, j) /\ Waiter(y, j)
    BY ONLY <1>5 DEF MarkReady
  <2> QED
    BY ONLY <1>5, <2>1 DEF MarkReady, Inv, Ups, Waiters
<1>6. ASSUME NEW u, Sound(u, n), u.conn[l][k].near = "closed", v = UnlinkAllN(u, l, k)
      PROVE  Sound(v, n)
  <2>1. PICK cs : cs = {c \in Circuits : u.circ[i][c].n = k}
    BY Zenon
  <2>2. PICK t : t = UnlinkN(u, i, cs)
    OBVIOUS
  <2>3. v = MarkForClose(t, i, cs)
    BY ONLY <1>1, <1>6, <2>1, <2>2 DEF UnlinkAllN
  <2>4. IsWorld(u)
    BY ONLY <1>6 DEF Sound
  <2>5. ASSUME NEW d \in cs PROVE FALSE
    <3>1. PICK z : z = View(u, d, n[d])
      OBVIOUS
    <3>2. d \in Circuits /\ u.circ[i][d].n = k
      BY <2>1
    <3>3. Inv(z) /\ z.node[i] = u.circ[i][d]
      BY ONLY <1>2, <1>6, <3>1, <3>2, SoundViews
    <3>4. z.near[l][k] = "closed"
      BY ONLY <1>6, <3>1, l \in Links, k \in Conns, ViewAt
    <3>5. NodeShape(z, i)
      BY ONLY <1>2, <3>3 DEF Inv, Shape
    <3>6. z.near[i + 1][k] \in {"open", "closing"}
      BY ONLY <1>2, <3>2, <3>3, <3>5 DEF NodeShape
    <3> QED
      BY ONLY <1>2, <3>4, <3>6
  <2>6. cs \in SUBSET Circuits /\ \A d \in Circuits : d \notin cs
    BY <2>1, <2>5
  <2>7. /\ IsWorld(t)
        /\ \A d \in Circuits : \A m : d \notin cs => View(t, d, m) = View(u, d, m)
    <3>1. cs \in SUBSET Circuits
      BY ONLY <2>6
    <3> QED
      BY ONLY <1>2, <2>2, <2>4, <3>1, UnlinkNView
  <2>8. \A d \in Circuits : Inv(View(t, d, n[d]))
    BY ONLY <1>6, <2>6, <2>7 DEF Sound
  <2>9. /\ \A d \in cs : MarkOK(View(t, d, n[d]), i)
        /\ \A d \in Circuits \ cs : Inv(View(t, d, n[d]))
    BY ONLY <2>6, <2>8
  <2>10. cs \in SUBSET Circuits
    BY ONLY <2>6
  <2>11. IsWorld(t) /\ i \in Nodes
    BY ONLY <1>2, <2>7
  <2> QED
    BY ONLY <2>3, <2>9, <2>10, <2>11, MarkSound
<1>7. CASE w.conn[l][k].near = "dying"
  <2>1. PICK cs : cs = PendingOn(q, l)
    OBVIOUS
  <2>2. PICK u : u = NConnFailed(q, l)
    OBVIOUS
  <2>3. u = MarkForClose(q, i, cs)
    BY ONLY <1>1, <2>1, <2>2 DEF NConnFailed
  <2>4. /\ cs \in SUBSET Circuits
        /\ \A d \in Circuits : d \in cs <=> q.circ[i][d].state = "OR_WAIT" /\ ~ q.circ[i][d].marked
    BY ONLY <1>1, <2>1 DEF PendingOn
  <2>5. ASSUME NEW d \in Circuits, NEW p, p = View(q, d, n[d])
        PROVE  /\ d \in cs => MarkOK(p, i)
               /\ d \notin cs => Inv(p)
    <3>1. PICK z : z = View(w, d, n[d])
      OBVIOUS
    <3>2. IsView(z, d) /\ Inv(z) /\ z.node[i] = w.circ[i][d]
      BY ONLY <1>2, <3>1, Sound(w, n), d \in Circuits, SoundViews
    <3>3. z.near[l][k] = "dying"
      BY <1>7, <3>1, ViewAt
    <3>4. z.node[i].n # k
      <4>1. NodeShape(z, i)
        BY ONLY <1>2, <3>2 DEF Inv, Shape
      <4>2. z.node[i].n = k => z.near[i + 1][k] \in {"open", "closing"}
        BY ONLY <1>2, <4>1 DEF NodeShape
      <4> QED
        BY ONLY <1>2, <3>3, <4>2
    <3>5. /\ MarkReady(p, i) /\ NodeUp(p, i) /\ Chain(p)
          /\ ~(Up(z.node[i]) /\ z.node[i].state = "OR_WAIT") => Waiter(p, i)
          /\ Up(p.node[i]) <=> Up(z.node[i])
      BY ONLY <1>4, <2>5, <3>1, <3>4, d \in Circuits
    <3>6. d \in cs <=> Up(z.node[i]) /\ z.node[i].state = "OR_WAIT"
      BY ONLY <1>3, <2>4, <3>2, d \in Circuits DEF Up
    <3> QED
      BY ONLY <1>5, <3>5, <3>6 DEF MarkOK
  <2>6. /\ \A d \in cs : MarkOK(View(q, d, n[d]), i)
        /\ \A d \in Circuits \ cs : Inv(View(q, d, n[d]))
    BY ONLY <2>4, <2>5
  <2>7. cs \in SUBSET Circuits /\ IsWorld(q) /\ i \in Nodes
    BY ONLY <1>2, <1>3, <2>4
  <2>8. Sound(u, n)
    BY ONLY <2>3, <2>6, <2>7, MarkSound
  <2>9. u.conn[l][k].near = "closed"
    <3>1. PICK x : x = q.conn[l][k]
      OBVIOUS
    <3>2. x \in ConnRecs /\ x.near = "closed"
      BY ONLY <1>3, <3>1, l \in Links, k \in Conns DEF IsWorld
    <3>3. \E f, b : u.conn[l][k] = [x EXCEPT !.fwd = f, !.bwd = b]
      BY ONLY <2>3, <3>1, l \in Links, k \in Conns, Zenon DEF MarkForClose
    <3> QED
      BY ONLY <3>2, <3>3 DEF ConnRecs
  <2>10. v = UnlinkAllN(u, l, k)
    BY <1>7, <2>2
  <2> QED
    BY ONLY <1>6, <2>8, <2>9, <2>10
<1>8. CASE w.conn[l][k].near = "closing"
  <2>1. PICK cs : cs = {c \in Circuits : q.circ[i][c].n = k}
    BY Zenon
  <2>2. PICK t : t = UnlinkN(q, i, cs)
    OBVIOUS
  <2>3. v = MarkForClose(t, i, cs)
    <3>1. v = UnlinkAllN(q, l, k)
      BY <1>8
    <3> QED
      BY ONLY <1>1, <2>1, <2>2, <3>1 DEF UnlinkAllN
  <2>4. cs \in SUBSET Circuits /\ (\A d \in Circuits : d \in cs <=> q.circ[i][d].n = k)
        /\ IsWorld(q) /\ i \in Nodes
    BY ONLY <1>2, <1>3, <2>1
  <2>5. /\ IsWorld(t)
        /\ \A d \in Circuits : \A m :
              /\ d \in cs => ZNode(View(q, d, m), View(t, d, m), i, CutN(q.circ[i][d]))
              /\ d \notin cs => View(t, d, m) = View(q, d, m)
    <3>1. cs \in SUBSET Circuits /\ IsWorld(q) /\ i \in Nodes
      BY ONLY <2>4
    <3> QED
      BY ONLY <2>2, <3>1, UnlinkNView
  <2>6. ASSUME NEW d \in Circuits, NEW y, y = View(t, d, n[d])
        PROVE  /\ d \in cs => MarkOK(y, i)
               /\ d \notin cs => Inv(y)
    <3>1. PICK z : z = View(w, d, n[d])
      OBVIOUS
    <3>2. PICK p : p = View(q, d, n[d])
      OBVIOUS
    <3>3. IsView(z, d) /\ Inv(z) /\ z.node[i] = w.circ[i][d]
      BY ONLY <1>2, <3>1, Sound(w, n), d \in Circuits, SoundViews
    <3>4. z.near[l][k] # "dying"
      BY <1>8, <3>1, ViewAt
    <3>5. d \in cs <=> z.node[i].n = k
      BY ONLY <1>3, <2>4, <3>3, d \in Circuits
    <3>6. \/ y = p /\ z.node[i].n # k
          \/ ZNode(p, y, i, CutN(z.node[i])) /\ z.node[i].n = k
      BY ONLY <1>3, <2>5, <2>6, <3>2, <3>3, <3>5, d \in Circuits
    <3>7. /\ MarkReady(y, i) /\ Waiter(y, i)
          /\ z.node[i].n # k \/ ~ Up(z.node[i]) => NodeUp(y, i) /\ Chain(y)
          /\ Up(y.node[i]) <=> Up(z.node[i])
          /\ y.node[i].marked <=> z.node[i].marked
      BY ONLY <1>4, <3>1, <3>2, <3>4, <3>6, d \in Circuits
    <3>8. z.node[i].n = k /\ ~ Up(z.node[i]) => z.node[i].marked
      <4>1. NodeShape(z, i)
        BY ONLY <1>2, <3>3 DEF Inv, Shape
      <4>2. z.node[i].state = "none" => z.node[i].n = 0
        BY ONLY <4>1 DEF NodeShape, NoCircuit
      <4> QED
        BY ONLY <1>2, <4>2 DEF Up
    <3> QED
      BY ONLY <1>5, <3>5, <3>7, <3>8 DEF MarkOK
  <2>7. /\ \A d \in cs : MarkOK(View(t, d, n[d]), i)
        /\ \A d \in Circuits \ cs : Inv(View(t, d, n[d]))
    BY ONLY <2>4, <2>6
  <2>8. cs \in SUBSET Circuits /\ IsWorld(t) /\ i \in Nodes
    BY ONLY <2>4, <2>5
  <2> QED
    BY ONLY <2>3, <2>7, <2>8, MarkSound
<1> QED
  BY <1>7, <1>8

\* What a circuit sees of the far end closing.
FarShut(z, y, l, k) ==
  /\ y.node = z.node /\ y.over = z.over /\ y.len = z.len /\ y.near = z.near
  /\ y.far[l][k] = "closed" /\ y.fwd[l][k] = <<>>
  /\ y.bwd[l][k] = z.bwd[l][k] \/ y.bwd[l][k] = <<>>
  /\ \A a \in Links, h \in Conns : a # l \/ h # k =>
       /\ y.far[a][h] = z.far[a][h]
       /\ y.fwd[a][h] = z.fwd[a][h] /\ y.bwd[a][h] = z.bwd[a][h]

\* The far end of a connection closes, in the views of all circuits.
LEMMA ShutFarView ==
  ASSUME NEW w, IsWorld(w), NEW l \in Links, NEW k \in Conns, NEW q, q = ShutFar(w, l, k)
  PROVE  /\ IsWorld(q) /\ q.circ = w.circ
         /\ \A d \in Circuits : \A m : \A z, y : z = View(w, d, m) /\ y = View(q, d, m) =>
              FarShut(z, y, l, k)
<1>1. PICK x : x = w.conn[l][k]
  OBVIOUS
<1>2. PICK r : r = FarRec(x)
  OBVIOUS
<1>3. w.conn \in [Links -> [Conns -> ConnRecs]] /\ x \in ConnRecs
  BY <1>1 DEF IsWorld
<1>4. /\ r \in ConnRecs /\ r.far = "closed" /\ r.near = x.near
      /\ r.fwd = <<>> /\ (r.bwd = x.bwd \/ r.bwd = <<>>)
  BY ONLY <1>2, <1>3, ShutRecs
<1>5. q = AtConn(w, l, k, r)
  BY ONLY <1>1, <1>2, IsWorld(w), l \in Links, k \in Conns, q = ShutFar(w, l, k), ShutWorlds
<1>6. /\ q = [circ |-> w.circ, conn |-> [w.conn EXCEPT ![l][k] = r], over |-> w.over]
      /\ q.circ = w.circ /\ q.over = w.over /\ q.conn = [w.conn EXCEPT ![l][k] = r]
      /\ q = [circ |-> q.circ, conn |-> q.conn, over |-> q.over]
  BY ONLY <1>5 DEF AtConn
<1>7. /\ q.conn[l][k] = r /\ q.conn \in [Links -> [Conns -> ConnRecs]]
      /\ \A a \in Links, h \in Conns : q.conn[a][h].near = w.conn[a][h].near
  BY ONLY <1>1, <1>3, <1>4, <1>6, l \in Links, k \in Conns
<1>8. IsWorld(q)
  BY <1>6, <1>7 DEF IsWorld
<1>9. ASSUME NEW d \in Circuits, NEW m, NEW z, NEW y, z = View(w, d, m), y = View(q, d, m)
      PROVE  FarShut(z, y, l, k)
  <2>1. ZConn(View(w, d, m), View(q, d, m), l, k, r.near, r.far,
                  Keep(r.fwd, CellsOf(d)), Keep(r.bwd, CellsOf(d)))
    BY ONLY <1>4, <1>6, IsWorld(w), l \in Links, k \in Conns, d \in Circuits, ConnUpdate
  <2>2. ZConn(z, y, l, k, r.near, "closed", <<>>, Keep(r.bwd, CellsOf(d)))
    BY ONLY <1>4, <1>9, <2>1, KeepNothing
  <2>3. y.near = z.near
    BY ONLY <1>7, <1>9 DEF View
  <2>4. z.bwd[l][k] = Keep(x.bwd, CellsOf(d))
    BY ONLY <1>1, <1>9, l \in Links, k \in Conns, ViewAt
  <2>5. Keep(r.bwd, CellsOf(d)) \in {z.bwd[l][k], <<>>}
    BY ONLY <1>4, <2>4, KeepNothing
  <2> QED
    BY ONLY <2>2, <2>3, <2>5 DEF ZConn, FarShut
<1> QED
  BY ONLY <1>6, <1>8, <1>9

\* Of any queue, nothing may be left.
LEMMA NothingRests ==
  ASSUME NEW q
  PROVE  Rest(<<>>, q)
BY ThinEmpty, EmptyQueue DEF Rest

\* A circuit that is ready to be marked, and need not be.
LEMMA Settled ==
  ASSUME NEW y, NEW i, MarkReady(y, i), NodeUp(y, i), Chain(y), Waiter(y, i)
  PROVE  Inv(y)
<1>1. \A j \in Nodes : NodeUp(y, j) /\ Waiter(y, j)
  BY DEF MarkReady
<1> QED
  BY <1>1 DEF MarkReady, Inv, Ups, Waiters

\* connection_about_to_close_connection at the other end
LEMMA FarSound ==
  ASSUME NEW w, NEW n, Sound(w, n), NEW l \in Links, NEW k \in Conns, w.conn[l][k].far = "open",
         w.conn[l][k].near \in {"open", "closing", "closed"}, NEW q, q = ShutFar(w, l, k),
         NEW v, v = UnlinkAllP(q, l, k)
  PROVE  Sound(v, n)
<1>0. IsWorld(w)
  BY DEF Sound
<1>2. l \in Nodes /\ l # 0 /\ k # 0 /\ k \in Ks
  BY ConstFacts
<1>3. IsWorld(q) /\ q.circ = w.circ
  BY ONLY <1>0, l \in Links, k \in Conns, q = ShutFar(w, l, k), ShutFarView
<1>4. PICK cs : cs = {c \in Circuits : q.circ[l][c].p = k}
  BY Zenon
<1>5. PICK t : t = UnlinkP(q, l, cs)
  OBVIOUS
<1>6. v = MarkForClose(t, l, cs)
  BY ONLY <1>4, <1>5, v = UnlinkAllP(q, l, k) DEF UnlinkAllP
<1>7. cs \in SUBSET Circuits /\ (\A d \in Circuits : d \in cs <=> q.circ[l][d].p = k)
      /\ IsWorld(q) /\ l \in Nodes
  BY ONLY <1>2, <1>3, <1>4
<1>8. /\ IsWorld(t)
      /\ \A d \in Circuits : \A m :
            /\ d \in cs => ZNode(View(q, d, m), View(t, d, m), l, CutP(q.circ[l][d]))
            /\ d \notin cs => View(t, d, m) = View(q, d, m)
  <2>1. cs \in SUBSET Circuits /\ IsWorld(q) /\ l \in Nodes
    BY ONLY <1>7
  <2> QED
    BY ONLY <1>5, <2>1, UnlinkPView
<1>9. ASSUME NEW d \in Circuits, NEW y, y = View(t, d, n[d])
      PROVE  /\ d \in cs => MarkOK(y, l)
             /\ d \notin cs => Inv(y)
  <2>1. PICK z : z = View(w, d, n[d])
    OBVIOUS
  <2>2. PICK p : p = View(q, d, n[d])
    OBVIOUS
  <2>3. IsView(z, d) /\ Inv(z) /\ z.node[l] = w.circ[l][d]
    BY ONLY <1>2, <2>1, Sound(w, n), d \in Circuits, SoundViews
  <2>4. z.far[l][k] = "open" /\ z.near[l][k] \in {"open", "closing", "closed"}
    BY <2>1, ViewAt
  <2>5. d \in cs <=> z.node[l].p = k
    BY ONLY <1>3, <1>7, <2>3, d \in Circuits
  <2>6. \/ y = p /\ z.node[l].p # k
        \/ ZNode(p, y, l, CutP(z.node[l])) /\ z.node[l].p = k
    BY ONLY <1>3, <1>8, <1>9, <2>2, <2>3, <2>5, d \in Circuits
  <2>7. FarShut(z, p, l, k)
    BY ONLY <1>0, <2>1, <2>2, l \in Links, k \in Conns, d \in Circuits, q = ShutFar(w, l, k),
       ShutFarView
  <2>8. LeavesFar(z, y, l, k, TRUE)
    <3>1. CASE y = p /\ z.node[l].p # k
      BY ONLY <2>7, <3>1, NothingRests DEF LeavesFar, FarShut
    <3>2. CASE ZNode(p, y, l, CutP(z.node[l])) /\ z.node[l].p = k
      BY ONLY <2>7, <3>2, NothingRests DEF LeavesFar, FarShut, ZNode, CutP
    <3> QED
      BY ONLY <2>6, <3>1, <3>2, Zenon
  <2>9. /\ MarkReady(y, l) /\ Waiter(y, l) /\ Chain(y)
        /\ y.node[l].p # 0 \/ ~ Up(z.node[l]) => NodeUp(y, l)
        /\ Up(y.node[l]) <=> Up(z.node[l])
    BY ONLY <2>3, <2>4, <2>8, d \in Circuits, l \in Links, k \in Conns, LeaveFar, Zenon
  <2>10. NodeShape(z, l) /\ NodeUp(z, l)
    BY ONLY <1>2, <2>3 DEF Inv, Shape, Ups
  <2>11. ASSUME d \notin cs PROVE Inv(y)
    <3>1. y.node[l] = z.node[l]
      BY ONLY <2>5, <2>6, <2>7, <2>11 DEF FarShut
    <3>2. z.node[l].p # 0 \/ ~ Up(z.node[l])
      BY ONLY <1>2, <2>10 DEF NodeUp
    <3> QED
      BY ONLY <2>9, <3>1, <3>2, Settled
  <2>12. ASSUME d \in cs PROVE MarkOK(y, l)
    <3>1. CASE Up(z.node[l])
      BY ONLY <2>9, <3>1 DEF MarkOK
    <3>2. CASE ~ Up(z.node[l])
      <4>1. Inv(y)
        BY ONLY <2>9, <3>2, Settled
      <4>2. z.node[l].state # "none"
        BY ONLY <1>2, <2>5, <2>10, <2>12 DEF NodeShape, NoCircuit
      <4>3. z.node[l].marked
        BY ONLY <3>2, <4>2 DEF Up
      <4>4. y.node[l].marked
        <5>1. PICK x : x = z.node[l]
          OBVIOUS
        <5>2. x \in CircsOf(d)
          BY ONLY <1>2, <2>3, <5>1, d \in Circuits, ViewParts
        <5>3. y.node[l] = x \/ y.node[l] = [x EXCEPT !.p = 0, !.inq = <<>>]
          BY ONLY <2>6, <2>7, <5>1 DEF ZNode, FarShut, CutP
        <5>4. [x EXCEPT !.p = 0, !.inq = <<>>].marked = x.marked
          BY ONLY <5>2, d \in Circuits, UnlinkFields, Zenon
        <5> QED
          BY ONLY <4>3, <5>1, <5>3, <5>4, Zenon
      <4> QED
        BY ONLY <4>1, <4>4 DEF MarkOK
    <3> QED
      BY <3>1, <3>2
  <2> QED
    BY ONLY <2>11, <2>12
<1>10. /\ \A d \in cs : MarkOK(View(t, d, n[d]), l)
       /\ \A d \in Circuits \ cs : Inv(View(t, d, n[d]))
  BY ONLY <1>7, <1>9
<1>11. cs \in SUBSET Circuits /\ IsWorld(t) /\ l \in Nodes
  BY ONLY <1>7, <1>8
<1> QED
  BY ONLY <1>6, <1>10, <1>11, MarkSound

\* A cell e is put on connection k of link l.
FwdPut(z, y, l, k, e) ==
  /\ y.fwd[l][k] = Append(z.fwd[l][k], e) /\ y.bwd[l][k] = z.bwd[l][k]
  /\ y.node = z.node /\ \A i : Turn(z, y, i, l, k)
BwdPut(z, y, l, k, e) ==
  /\ y.bwd[l][k] = Append(z.bwd[l][k], e) /\ y.fwd[l][k] = z.fwd[l][k]
  /\ y.node = z.node /\ \A i : Turn(z, y, i, l, k)

\* The world with the cell.
PutFwd(w, l, k, e) == [w EXCEPT !.conn[l][k].fwd = Append(@, e)]
PutBwd(w, l, k, e) == [w EXCEPT !.conn[l][k].bwd = Append(@, e)]

\* Putting a cell that goes towards the exit on the wire, in the views of all circuits.
LEMMA PutFwdView ==
  ASSUME NEW w, IsWorld(w), NEW l \in Links, NEW k \in Conns, NEW e \in AllCells,
         NEW v, v = PutFwd(w, l, k, e)
  PROVE  /\ IsWorld(v) /\ v.circ = w.circ
         /\ \A m : FwdPut(View(w, e.c, m), View(v, e.c, m), l, k, e)
         /\ \A d \in Circuits : d # e.c => \A m : View(v, d, m) = View(w, d, m)
<1>1. PICK x : x = w.conn[l][k]
  OBVIOUS
<1>2. PICK q : q = x.fwd
  OBVIOUS
<1>3. x \in ConnRecs /\ q \in Seq(AllCells)
  <2>1. x \in ConnRecs
    BY <1>1, WorldConn
  <2> QED
    BY <1>2, <2>1 DEF ConnRecs
<1>4. PICK t : t = Append(q, e)
  BY Zenon
<1>5. /\ t \in Seq(AllCells)
      /\ Keep(t, CellsOf(e.c)) = Append(Keep(q, CellsOf(e.c)), e)
      /\ \A d \in Circuits : d # e.c => Keep(t, CellsOf(d)) = Keep(q, CellsOf(d))
  BY ONLY <1>3, <1>4, e \in AllCells, QueueWrite
<1>6. PICK r : r = [x EXCEPT !.fwd = t]
  BY Zenon
<1>7. r \in ConnRecs /\ r.near = x.near /\ r.far = x.far /\ r.fwd = t /\ r.bwd = x.bwd
  <2>1. t \in Seq(AllCells)
    BY ONLY <1>5
  <2> QED
    BY ONLY <1>3, <1>6, <2>1, ConnFields
<1>8. v = AtConn(w, l, k, r)
  <2>1. v = [w EXCEPT !.conn[l][k].fwd = t]
    BY <1>1, <1>2, <1>4 DEF PutFwd
  <2>2. \A s : [w EXCEPT !.conn[l][k].fwd = s] = AtConn(w, l, k, [w.conn[l][k] EXCEPT !.fwd = s])
    BY WorldConn
  <2> QED
    BY ONLY <1>1, <1>6, <2>1, <2>2
<1>9. ASSUME NEW d \in Circuits, NEW m, NEW z, z = View(w, d, m), NEW y, y = View(v, d, m)
      PROVE  /\ IsWorld(v) /\ v.circ = w.circ
             /\ y.node = z.node /\ (\A i : Turn(z, y, i, l, k))
             /\ y.fwd[l][k] = Keep(t, CellsOf(d)) /\ y.bwd[l][k] = z.bwd[l][k]
             /\ z.fwd[l][k] = Keep(q, CellsOf(d))
             /\ Keep(t, CellsOf(d)) = Keep(q, CellsOf(d)) => y = z
  <2>1. z.fwd[l][k] = Keep(q, CellsOf(d)) /\ z.bwd[l][k] = Keep(x.bwd, CellsOf(d))
    BY <1>1, <1>2, <1>9, ViewAt
  <2>2. r.near = w.conn[l][k].near /\ r.far = w.conn[l][k].far
    BY <1>1, <1>7
  <2>3. /\ IsWorld(v) /\ v.circ = w.circ
        /\ y.node = z.node /\ (\A i : Turn(z, y, i, l, k))
        /\ y.fwd[l][k] = Keep(r.fwd, CellsOf(d)) /\ y.bwd[l][k] = Keep(r.bwd, CellsOf(d))
        /\ Keep(r.fwd, CellsOf(d)) = Keep(w.conn[l][k].fwd, CellsOf(d))
           /\ Keep(r.bwd, CellsOf(d)) = Keep(w.conn[l][k].bwd, CellsOf(d)) => y = z
    BY ONLY <1>7, <1>8, <1>9, <2>2, IsWorld(w), l \in Links, k \in Conns, d \in Circuits, QueueUpdate
  <2> QED
    BY ONLY <1>1, <1>2, <1>7, <2>1, <2>3
<1>10. e.c \in Circuits
  BY CellOwner
<1>11. IsWorld(v) /\ v.circ = w.circ
  BY <1>9, <1>10
<1>12. ASSUME NEW m PROVE FwdPut(View(w, e.c, m), View(v, e.c, m), l, k, e)
  <2>1. PICK z : z = View(w, e.c, m)
    OBVIOUS
  <2>2. PICK y : y = View(v, e.c, m)
    OBVIOUS
  <2>3. FwdPut(z, y, l, k, e)
    BY ONLY <1>5, <1>9, <1>10, <2>1, <2>2, SMTT(30) DEF FwdPut
  <2> QED
    BY ONLY <2>1, <2>2, <2>3
<1>13. ASSUME NEW d \in Circuits, d # e.c, NEW m PROVE View(v, d, m) = View(w, d, m)
  BY ONLY <1>5, <1>9, <1>13
<1> QED
  BY <1>11, <1>12, <1>13

\* Putting a cell that goes towards the origin on the wire, in the views of all circuits.
LEMMA PutBwdView ==
  ASSUME NEW w, IsWorld(w), NEW l \in Links, NEW k \in Conns, NEW e \in AllCells,
         NEW v, v = PutBwd(w, l, k, e)
  PROVE  /\ IsWorld(v) /\ v.circ = w.circ
         /\ \A m : BwdPut(View(w, e.c, m), View(v, e.c, m), l, k, e)
         /\ \A d \in Circuits : d # e.c => \A m : View(v, d, m) = View(w, d, m)
<1>1. PICK x : x = w.conn[l][k]
  OBVIOUS
<1>2. PICK q : q = x.bwd
  OBVIOUS
<1>3. x \in ConnRecs /\ q \in Seq(AllCells)
  <2>1. x \in ConnRecs
    BY <1>1, WorldConn
  <2> QED
    BY <1>2, <2>1 DEF ConnRecs
<1>4. PICK t : t = Append(q, e)
  OBVIOUS
<1>5. /\ t \in Seq(AllCells)
      /\ Keep(t, CellsOf(e.c)) = Append(Keep(q, CellsOf(e.c)), e)
      /\ \A d \in Circuits : d # e.c => Keep(t, CellsOf(d)) = Keep(q, CellsOf(d))
  BY ONLY <1>3, <1>4, e \in AllCells, QueueWrite
<1>6. PICK r : r = [x EXCEPT !.bwd = t]
  BY Zenon
<1>7. r \in ConnRecs /\ r.near = x.near /\ r.far = x.far /\ r.bwd = t /\ r.fwd = x.fwd
  <2>1. t \in Seq(AllCells)
    BY ONLY <1>5
  <2> QED
    BY ONLY <1>3, <1>6, <2>1, ConnFields
<1>8. v = AtConn(w, l, k, r)
  <2>1. v = [w EXCEPT !.conn[l][k].bwd = t]
    BY <1>1, <1>2, <1>4 DEF PutBwd
  <2>2. \A s : [w EXCEPT !.conn[l][k].bwd = s] = AtConn(w, l, k, [w.conn[l][k] EXCEPT !.bwd = s])
    BY WorldConn
  <2> QED
    BY ONLY <1>1, <1>6, <2>1, <2>2
<1>9. ASSUME NEW d \in Circuits, NEW m, NEW z, z = View(w, d, m), NEW y, y = View(v, d, m)
      PROVE  /\ IsWorld(v) /\ v.circ = w.circ
             /\ y.node = z.node /\ (\A i : Turn(z, y, i, l, k))
             /\ y.bwd[l][k] = Keep(t, CellsOf(d)) /\ y.fwd[l][k] = z.fwd[l][k]
             /\ z.bwd[l][k] = Keep(q, CellsOf(d))
             /\ Keep(t, CellsOf(d)) = Keep(q, CellsOf(d)) => y = z
  <2>1. z.bwd[l][k] = Keep(q, CellsOf(d)) /\ z.fwd[l][k] = Keep(x.fwd, CellsOf(d))
    BY <1>1, <1>2, <1>9, ViewAt
  <2>2. r.near = w.conn[l][k].near /\ r.far = w.conn[l][k].far
    BY <1>1, <1>7
  <2>3. /\ IsWorld(v) /\ v.circ = w.circ
        /\ y.node = z.node /\ (\A i : Turn(z, y, i, l, k))
        /\ y.fwd[l][k] = Keep(r.fwd, CellsOf(d)) /\ y.bwd[l][k] = Keep(r.bwd, CellsOf(d))
        /\ Keep(r.fwd, CellsOf(d)) = Keep(w.conn[l][k].fwd, CellsOf(d))
           /\ Keep(r.bwd, CellsOf(d)) = Keep(w.conn[l][k].bwd, CellsOf(d)) => y = z
    BY ONLY <1>7, <1>8, <1>9, <2>2, IsWorld(w), l \in Links, k \in Conns, d \in Circuits, QueueUpdate
  <2> QED
    BY ONLY <1>1, <1>2, <1>7, <2>1, <2>3
<1>10. e.c \in Circuits
  BY CellOwner
<1>11. IsWorld(v) /\ v.circ = w.circ
  BY <1>9, <1>10
<1>12. ASSUME NEW m PROVE BwdPut(View(w, e.c, m), View(v, e.c, m), l, k, e)
  <2>1. PICK z : z = View(w, e.c, m)
    OBVIOUS
  <2>2. PICK y : y = View(v, e.c, m)
    OBVIOUS
  <2>3. BwdPut(z, y, l, k, e)
    BY ONLY <1>5, <1>9, <1>10, <2>1, <2>2, SMTT(30) DEF BwdPut
  <2> QED
    BY ONLY <2>1, <2>2, <2>3
<1>13. ASSUME NEW d \in Circuits, d # e.c, NEW m PROVE View(v, d, m) = View(w, d, m)
  BY ONLY <1>5, <1>9, <1>13
<1> QED
  BY <1>11, <1>12, <1>13

\* Two turns at the same place are one.
LEMMA TurnCompose ==
  ASSUME NEW z, NEW p, NEW y, NEW i \in Nodes, NEW l, NEW k, NEW u, ZNode(z, p, i, u),
         Turn(p, y, i, l, k), y.node = p.node
  PROVE  Turn(z, y, i, l, k) /\ y.node[i] = u
BY DEF ZNode, Turn

\* Node i puts the first cell of circuit x on the wire, in either direction.
SentOut(w, i, c, x) ==
  [circ |-> [w.circ EXCEPT ![i][c].outq = Tail(@)],
   conn |-> [w.conn EXCEPT ![i + 1][x.n].fwd = Append(@, Head(x.outq))], over |-> w.over]
SentIn(w, i, c, x) ==
  [circ |-> [w.circ EXCEPT ![i][c].inq = Tail(@)],
   conn |-> [w.conn EXCEPT ![i][x.p].bwd = Append(@, Head(x.inq))], over |-> w.over]

\* connection_or_flush_from_first_active_circuit
LEMMA FlushOutSound ==
  ASSUME NEW w, NEW n, Sound(w, n), NEW i \in Nodes, NEW c \in Circuits, NEW x, x = w.circ[i][c],
         x.outq # <<>>, x.n # 0, NEW v, v = SentOut(w, i, c, x)
  PROVE  Sound(v, n)
<1>1. PICK z : z = View(w, c, n[c])
  BY Zenon
<1>2. IsWorld(w) /\ IsView(z, c) /\ Inv(z) /\ z.node[i] = x
  BY ONLY <1>1, Sound(w, n), i \in Nodes, c \in Circuits, x = w.circ[i][c], SoundViews
<1>3. PICK l : l = i + 1
  BY Zenon
<1>4. PICK k : k = x.n
  BY Zenon
<1>5. x \in CircsOf(c) /\ k \in Ks /\ x.outq \in Seq(CellsOf(c))
  BY ONLY <1>2, <1>4, i \in Nodes, c \in Circuits, ViewParts
<1>6. i # PathLen
  <2>1. NodeShape(z, i)
    BY <1>2, Zenon DEF Inv, Shape
  <2> QED
    BY <1>2, <2>1, Zenon DEF NodeShape
<1>7. l \in Links /\ k \in Conns /\ i = l - 1
  <2>1. i \in Nat /\ i + 1 \in Links /\ i = (i + 1) - 1
    BY ONLY <1>6, i \in Nodes, ConstFacts
  <2>2. k \in Conns
    BY ONLY <1>4, <1>5, x.n # 0, ConstFacts
  <2> QED
    BY ONLY <1>3, <2>1, <2>2
<1>8. PICK e : e = Head(x.outq)
  BY Zenon
<1>9. PICK r : r = Tail(x.outq)
  BY Zenon
<1>10. e \in CellsOf(c) /\ r \in Seq(CellsOf(c))
  BY <1>5, <1>8, <1>9, HeadTailProperties, Zenon
<1>11. e \in AllCells /\ e.c = c
  <2>1. e \in AllCells
    BY <1>10, CircuitCells, Zenon
  <2> QED
    BY <1>10, <2>1, CellOwner, Zenon
<1>12. PICK u : u = [x EXCEPT !.outq = r]
  BY Zenon
<1>13. u \in CircsOf(c)
  BY ONLY <1>5, <1>10, <1>12, c \in Circuits, QueueFields
<1>14. PICK t : t = AtNode(w, i, [w.circ[i] EXCEPT ![c] = u])
  BY Zenon
<1>15. /\ IsWorld(t) /\ t.conn = w.conn
       /\ \A m : ZNode(View(w, c, m), View(t, c, m), i, u)
       /\ \A d \in Circuits : d # c => \A m : View(t, d, m) = View(w, d, m)
  BY ONLY <1>2, <1>13, <1>14, i \in Nodes, c \in Circuits, OneNode
<1>16. v = PutFwd(t, l, k, e)
  <2>1. PICK C : C = [w.circ EXCEPT ![i][c].outq = Tail(@)]
    BY Zenon
  <2>2. PICK D : D = [w.conn EXCEPT ![l][k].fwd = Append(@, e)]
    BY Zenon
  <2>3. v = [circ |-> C, conn |-> D, over |-> w.over]
    BY ONLY <1>3, <1>4, <1>8, <2>1, <2>2, v = SentOut(w, i, c, x), Zenon DEF SentOut
  <2>4. C = [w.circ EXCEPT ![i] = [w.circ[i] EXCEPT ![c] = u]]
    <3>1. \A s : [w.circ EXCEPT ![i][c].outq = s]
                 = [w.circ EXCEPT ![i] = [w.circ[i] EXCEPT ![c] = [w.circ[i][c] EXCEPT !.outq = s]]]
      BY Zenon
    <3> QED
      BY ONLY <1>9, <1>12, <2>1, <3>1, x = w.circ[i][c]
  <2>5. t = [circ |-> C, conn |-> w.conn, over |-> w.over]
    BY ONLY <1>14, <2>4 DEF AtNode
  <2>6. PutFwd(t, l, k, e) = [circ |-> C, conn |-> D, over |-> w.over]
    <3>1. ASSUME NEW E PROVE [t EXCEPT !.conn = E] = [circ |-> C, conn |-> E, over |-> w.over]
      BY ONLY <2>5
    <3>2. t.conn = w.conn
      BY ONLY <2>5
    <3> QED
      BY ONLY <2>2, <3>1, <3>2, Zenon DEF PutFwd
  <2> QED
    BY ONLY <2>3, <2>6
<1>17. /\ IsWorld(v)
       /\ \A m : FwdPut(View(t, c, m), View(v, c, m), l, k, e)
       /\ \A d \in Circuits : d # c => \A m : View(v, d, m) = View(t, d, m)
  BY ONLY <1>7, <1>11, <1>15, <1>16, PutFwdView
<1>18. PICK p : p = View(t, c, n[c])
  BY Zenon
<1>19. PICK y : y = View(v, c, n[c])
  BY Zenon
<1>20. FlushesOut(z, y, i, l, k)
  <2>1. ZNode(z, p, i, u) /\ FwdPut(p, y, l, k, e)
    BY ONLY <1>1, <1>15, <1>17, <1>18, <1>19
  <2>2. Turn(z, y, i, l, k) /\ y.node[i] = u
    <3>1. y.node = p.node /\ Turn(p, y, i, l, k)
      BY ONLY <2>1 DEF FwdPut
    <3> QED
      BY ONLY <2>1, <3>1, i \in Nodes, TurnCompose
  <2>3. y.fwd[l][k] = Append(z.fwd[l][k], e) /\ y.bwd[l][k] = z.bwd[l][k]
    BY ONLY <2>1 DEF FwdPut, ZNode
  <2> QED
    BY ONLY <1>2, <1>4, <1>8, <1>9, <1>12, <2>2, <2>3, x.outq # <<>> DEF FlushesOut
<1>21. Inv(y)
  BY ONLY <1>2, <1>7, <1>20, c \in Circuits, i \in Nodes, FlushOutStep
<1>22. Inv(View(v, c, n[c]))
  BY ONLY <1>19, <1>21
<1>23. \A d \in Circuits : d # c => Inv(View(w, d, n[d]))
  BY Zenon DEF Sound
<1>24. \A d \in Circuits : d # c => \A m : View(v, d, m) = View(w, d, m)
  BY ONLY <1>15, <1>17
<1> QED
  BY ONLY <1>17, <1>22, <1>23, <1>24, c \in Circuits, OneSound

\* Sending a cell of a circuit towards the origin keeps the invariant.
LEMMA FlushInSound ==
  ASSUME NEW w, NEW n, Sound(w, n), NEW i \in Nodes, NEW c \in Circuits, NEW x, x = w.circ[i][c],
         x.inq # <<>>, x.p # 0, NEW v, v = SentIn(w, i, c, x)
  PROVE  Sound(v, n)
<1>1. PICK z : z = View(w, c, n[c])
  BY Zenon
<1>2. IsWorld(w) /\ IsView(z, c) /\ Inv(z) /\ z.node[i] = x
  BY ONLY <1>1, Sound(w, n), i \in Nodes, c \in Circuits, x = w.circ[i][c], SoundViews
<1>4. PICK k : k = x.p
  BY Zenon
<1>5. x \in CircsOf(c) /\ k \in Ks /\ x.inq \in Seq(CellsOf(c))
  BY ONLY <1>2, <1>4, i \in Nodes, c \in Circuits, ViewParts
<1>6. i # 0
  <2>1. NodeShape(z, i)
    BY <1>2, Zenon DEF Inv, Shape
  <2> QED
    BY <1>2, <2>1, Zenon DEF NodeShape
<1>7. i \in Links /\ k \in Conns
  <2>1. i \in Links
    BY ONLY <1>6, i \in Nodes, ConstFacts
  <2>2. k \in Conns
    BY ONLY <1>4, <1>5, x.p # 0, ConstFacts
  <2> QED
    BY ONLY <2>1, <2>2
<1>8. PICK e : e = Head(x.inq)
  BY Zenon
<1>9. PICK r : r = Tail(x.inq)
  BY Zenon
<1>10. e \in CellsOf(c) /\ r \in Seq(CellsOf(c))
  BY <1>5, <1>8, <1>9, HeadTailProperties, Zenon
<1>11. e \in AllCells /\ e.c = c
  <2>1. e \in AllCells
    BY <1>10, CircuitCells, Zenon
  <2> QED
    BY <1>10, <2>1, CellOwner, Zenon
<1>12. PICK u : u = [x EXCEPT !.inq = r]
  BY Zenon
<1>13. u \in CircsOf(c)
  BY ONLY <1>5, <1>10, <1>12, c \in Circuits, QueueFields
<1>14. PICK t : t = AtNode(w, i, [w.circ[i] EXCEPT ![c] = u])
  BY Zenon
<1>15. /\ IsWorld(t) /\ t.conn = w.conn
       /\ \A m : ZNode(View(w, c, m), View(t, c, m), i, u)
       /\ \A d \in Circuits : d # c => \A m : View(t, d, m) = View(w, d, m)
  BY ONLY <1>2, <1>13, <1>14, i \in Nodes, c \in Circuits, OneNode
<1>16. v = PutBwd(t, i, k, e)
  <2>1. PICK C : C = [w.circ EXCEPT ![i][c].inq = Tail(@)]
    BY Zenon
  <2>2. PICK D : D = [w.conn EXCEPT ![i][k].bwd = Append(@, e)]
    BY Zenon
  <2>3. v = [circ |-> C, conn |-> D, over |-> w.over]
    BY ONLY <1>4, <1>8, <2>1, <2>2, v = SentIn(w, i, c, x), Zenon DEF SentIn
  <2>4. C = [w.circ EXCEPT ![i] = [w.circ[i] EXCEPT ![c] = u]]
    <3>1. \A s : [w.circ EXCEPT ![i][c].inq = s]
                 = [w.circ EXCEPT ![i] = [w.circ[i] EXCEPT ![c] = [w.circ[i][c] EXCEPT !.inq = s]]]
      BY Zenon
    <3> QED
      BY ONLY <1>9, <1>12, <2>1, <3>1, x = w.circ[i][c]
  <2>5. t = [circ |-> C, conn |-> w.conn, over |-> w.over]
    BY ONLY <1>14, <2>4 DEF AtNode
  <2>6. PutBwd(t, i, k, e) = [circ |-> C, conn |-> D, over |-> w.over]
    <3>1. ASSUME NEW E PROVE [t EXCEPT !.conn = E] = [circ |-> C, conn |-> E, over |-> w.over]
      BY ONLY <2>5
    <3>2. t.conn = w.conn
      BY ONLY <2>5
    <3> QED
      BY ONLY <2>2, <3>1, <3>2, Zenon DEF PutBwd
  <2> QED
    BY ONLY <2>3, <2>6
<1>17. /\ IsWorld(v)
       /\ \A m : BwdPut(View(t, c, m), View(v, c, m), i, k, e)
       /\ \A d \in Circuits : d # c => \A m : View(v, d, m) = View(t, d, m)
  BY ONLY <1>7, <1>11, <1>15, <1>16, PutBwdView
<1>18. PICK p : p = View(t, c, n[c])
  BY Zenon
<1>19. PICK y : y = View(v, c, n[c])
  BY Zenon
<1>20. FlushesIn(z, y, i, k)
  <2>1. ZNode(z, p, i, u) /\ BwdPut(p, y, i, k, e)
    BY ONLY <1>1, <1>15, <1>17, <1>18, <1>19
  <2>2. Turn(z, y, i, i, k) /\ y.node[i] = u
    <3>1. y.node = p.node /\ Turn(p, y, i, i, k)
      BY ONLY <2>1 DEF BwdPut
    <3> QED
      BY ONLY <2>1, <3>1, i \in Nodes, TurnCompose
  <2>3. y.bwd[i][k] = Append(z.bwd[i][k], e) /\ y.fwd[i][k] = z.fwd[i][k]
    BY ONLY <2>1 DEF BwdPut, ZNode
  <2> QED
    BY ONLY <1>2, <1>4, <1>8, <1>9, <1>12, <2>2, <2>3, x.inq # <<>> DEF FlushesIn
<1>21. Inv(y)
  BY ONLY <1>2, <1>7, <1>20, c \in Circuits, FlushInStep
<1>22. Inv(View(v, c, n[c]))
  BY ONLY <1>19, <1>21
<1>23. \A d \in Circuits : d # c => Inv(View(w, d, n[d]))
  BY Zenon DEF Sound
<1>24. \A d \in Circuits : d # c => \A m : View(v, d, m) = View(w, d, m)
  BY ONLY <1>15, <1>17
<1> QED
  BY ONLY <1>17, <1>22, <1>23, <1>24, c \in Circuits, OneSound

\* One circuit changes at one node.
NodeStep(w, v, i, c, u) ==
  /\ IsWorld(v) /\ v.conn = w.conn /\ v.circ[i][c] = u
  /\ \A m : ZNode(View(w, c, m), View(v, c, m), i, u)
  /\ \A d \in Circuits : d # c => \A m : View(v, d, m) = View(w, d, m)

\* Another circuit c at node i is a node step.
LEMMA NodeStepNew ==
  ASSUME NEW w, IsWorld(w), NEW i \in Nodes, NEW c \in Circuits, NEW u \in CircsOf(c),
         NEW v, v = AtNode(w, i, [w.circ[i] EXCEPT ![c] = u])
  PROVE  NodeStep(w, v, i, c, u)
BY OneNode DEF NodeStep

\* Two steps of one circuit at one node are one.
LEMMA NodeSteps ==
  ASSUME NEW w, NEW t, NEW v, NEW i \in Nodes, NEW c \in Circuits, NEW a, NEW u,
         NodeStep(w, t, i, c, a), NodeStep(t, v, i, c, u)
  PROVE  NodeStep(w, v, i, c, u)
<1>1. ASSUME NEW m PROVE ZNode(View(w, c, m), View(v, c, m), i, u)
  <2>1. PICK z : z = View(w, c, m)
    OBVIOUS
  <2>2. PICK p : p = View(t, c, m)
    OBVIOUS
  <2>3. PICK y : y = View(v, c, m)
    OBVIOUS
  <2>4. ZNode(z, p, i, a) /\ ZNode(p, y, i, u)
    BY <2>1, <2>2, <2>3 DEF NodeStep
  <2>5. ZNode(z, y, i, u)
    BY ONLY <2>4 DEF ZNode
  <2> QED
    BY ONLY <2>1, <2>3, <2>5
<1>2. /\ IsWorld(v) /\ v.conn = w.conn /\ v.circ[i][c] = u
      /\ \A d \in Circuits : d # c => \A m : View(v, d, m) = View(w, d, m)
  BY DEF NodeStep
<1> QED
  BY ONLY <1>1, <1>2 DEF NodeStep

\* A step of one circuit at one node that keeps its invariant keeps all.
LEMMA NodeStepSound ==
  ASSUME NEW w, NEW v, NEW n, NEW i, NEW c \in Circuits, NEW u, NodeStep(w, v, i, c, u),
         Inv(View(v, c, n[c])), \A d \in Circuits : d # c => Inv(View(w, d, n[d]))
  PROVE  Sound(v, n)
<1>1. IsWorld(v) /\ \A d \in Circuits : d # c => \A m : View(v, d, m) = View(w, d, m)
  BY DEF NodeStep
<1> QED
  BY <1>1, OneSound

\* The fields a handler changes, in a circuit and in a world.
StateRec(x, s) == [x EXCEPT !.state = s]
HopsRec(x, h) == [x EXCEPT !.hops = h]
OutRec(x, e) == [x EXCEPT !.outq = Append(x.outq, e)]
InRec(x, e) == [x EXCEPT !.inq = Append(x.inq, e)]
ToState(w, i, c, s) == [w EXCEPT !.circ[i][c].state = s]
ToHops(w, i, c, h) == [w EXCEPT !.circ[i][c].hops = h]

\* The fields of a circuit one of which changed.
LEMMA FieldRecs ==
  ASSUME NEW c \in Circuits, NEW x \in CircsOf(c), NEW s \in CircStates, NEW h \in Nodes,
         NEW e \in CellsOf(c)
  PROVE  StateRec(x, s) \in CircsOf(c) /\ HopsRec(x, h) \in CircsOf(c)
         /\ OutRec(x, e) \in CircsOf(c) /\ InRec(x, e) \in CircsOf(c)
<1>1. x.outq \in Seq(CellsOf(c)) /\ x.inq \in Seq(CellsOf(c))
  BY RecordFields
<1>2. PICK a : a = Append(x.outq, e)
  BY Zenon
<1>3. PICK b : b = Append(x.inq, e)
  BY Zenon
<1>4. a \in Seq(CellsOf(c)) /\ b \in Seq(CellsOf(c))
  BY <1>1, <1>2, <1>3, AppendProperties
<1>5. [x EXCEPT !.outq = a] \in CircsOf(c) /\ [x EXCEPT !.inq = b] \in CircsOf(c)
  BY ONLY <1>4, x \in CircsOf(c), Zenon DEF CircsOf
<1>6. StateRec(x, s) \in CircsOf(c) /\ HopsRec(x, h) \in CircsOf(c)
  BY ONLY x \in CircsOf(c), s \in CircStates, h \in Nodes, Zenon DEF CircsOf, StateRec, HopsRec
<1> QED
  BY ONLY <1>2, <1>3, <1>5, <1>6 DEF OutRec, InRec

\* A change of one field of a circuit is a step of it at its node.
LEMMA FieldSteps ==
  ASSUME NEW w, IsWorld(w), NEW i \in Nodes, NEW c \in Circuits, NEW v, NEW x, x = w.circ[i][c]
  PROVE  /\ \A s \in CircStates : v = ToState(w, i, c, s) => NodeStep(w, v, i, c, StateRec(x, s))
         /\ \A h \in Nodes : v = ToHops(w, i, c, h) => NodeStep(w, v, i, c, HopsRec(x, h))
         /\ \A e \in CellsOf(c) : v = SendOut(w, i, e) => NodeStep(w, v, i, c, OutRec(x, e))
         /\ \A e \in CellsOf(c) : v = SendIn(w, i, e) => NodeStep(w, v, i, c, InRec(x, e))
<1>1. x \in CircsOf(c)
  BY Zenon DEF IsWorld, IsRow
<1>8. "none" \in CircStates
  BY DEF CircStates
<1>2. \A u : u \in CircsOf(c) /\ v = AtNode(w, i, [w.circ[i] EXCEPT ![c] = u]) => NodeStep(w, v, i, c, u)
  BY NodeStepNew
<1>3. PICK g : g = w.circ[i]
  OBVIOUS
<1>w. /\ \A q : [w EXCEPT !.circ[i][c].state = q] = AtNode(w, i, [g EXCEPT ![c] = [g[c] EXCEPT !.state = q]])
      /\ \A q : [w EXCEPT !.circ[i][c].outq = q] = AtNode(w, i, [g EXCEPT ![c] = [g[c] EXCEPT !.outq = q]])
      /\ \A q : [w EXCEPT !.circ[i][c].inq = q] = AtNode(w, i, [g EXCEPT ![c] = [g[c] EXCEPT !.inq = q]])
      /\ \A q : [w EXCEPT !.circ[i][c].hops = q] = AtNode(w, i, [g EXCEPT ![c] = [g[c] EXCEPT !.hops = q]])
  BY ONLY <1>3, IsWorld(w), i \in Nodes, WorldNode
<1>4. ASSUME NEW s \in CircStates, v = ToState(w, i, c, s) PROVE NodeStep(w, v, i, c, StateRec(x, s))
  <2>1. PICK u : u = StateRec(x, s)
    OBVIOUS
  <2>2. v = AtNode(w, i, [w.circ[i] EXCEPT ![c] = u])
    BY ONLY <1>3, <1>4, <1>w, <2>1, x = w.circ[i][c] DEF ToState, StateRec
  <2>3. u \in CircsOf(c)
    BY ONLY <1>1, <2>1, s \in CircStates DEF CircsOf, StateRec
  <2> QED
    BY ONLY <1>2, <2>1, <2>2, <2>3
<1>5. ASSUME NEW h \in Nodes, v = ToHops(w, i, c, h) PROVE NodeStep(w, v, i, c, HopsRec(x, h))
  <2>1. PICK u : u = HopsRec(x, h)
    OBVIOUS
  <2>2. v = AtNode(w, i, [w.circ[i] EXCEPT ![c] = u])
    BY ONLY <1>3, <1>5, <1>w, <2>1, x = w.circ[i][c] DEF ToHops, HopsRec
  <2>3. u \in CircsOf(c)
    BY ONLY <1>1, <2>1, h \in Nodes DEF CircsOf, HopsRec
  <2> QED
    BY ONLY <1>2, <2>1, <2>2, <2>3
<1>6. ASSUME NEW e \in CellsOf(c), v = SendOut(w, i, e) PROVE NodeStep(w, v, i, c, OutRec(x, e))
  <2>1. PICK u : u = OutRec(x, e)
    OBVIOUS
  <2>2. e.c = c
    BY DEF CellsOf
  <2>3. v = [w EXCEPT !.circ[i][c].outq = Append(x.outq, e)]
    BY <1>6, <2>2 DEF SendOut
  <2>4. v = AtNode(w, i, [w.circ[i] EXCEPT ![c] = u])
    BY ONLY <1>3, <1>w, <2>1, <2>3, x = w.circ[i][c], Zenon DEF OutRec
  <2>5. u \in CircsOf(c)
    BY ONLY <1>1, <1>8, <2>1, c \in Circuits, e \in CellsOf(c), FieldRecs, ConstFacts
  <2> QED
    BY ONLY <1>2, <2>1, <2>4, <2>5
<1>7. ASSUME NEW e \in CellsOf(c), v = SendIn(w, i, e) PROVE NodeStep(w, v, i, c, InRec(x, e))
  <2>1. PICK u : u = InRec(x, e)
    OBVIOUS
  <2>2. e.c = c
    BY DEF CellsOf
  <2>3. v = [w EXCEPT !.circ[i][c].inq = Append(x.inq, e)]
    BY <1>7, <2>2 DEF SendIn
  <2>4. v = AtNode(w, i, [w.circ[i] EXCEPT ![c] = u])
    BY ONLY <1>3, <1>w, <2>1, <2>3, x = w.circ[i][c], Zenon DEF InRec
  <2>5. u \in CircsOf(c)
    BY ONLY <1>1, <1>8, <2>1, c \in Circuits, e \in CellsOf(c), FieldRecs, ConstFacts
  <2> QED
    BY ONLY <1>2, <2>1, <2>4, <2>5
<1> QED
  BY ONLY <1>4, <1>5, <1>6, <1>7

\* circuit_mark_for_close, of one circuit that is up
LEMMA MarkOneSound ==
  ASSUME NEW w, NEW n, Sound(w, n), NEW i \in Nodes, NEW c \in Circuits, Up(w.circ[i][c]),
         NEW v, v = MarkForClose(w, i, {c})
  PROVE  Sound(v, n)
<1>1. PICK cs : cs = {c}
  OBVIOUS
<1>2. PICK z : z = View(w, c, n[c])
  OBVIOUS
<1>3. IsWorld(w) /\ Inv(z) /\ z.node[i] = w.circ[i][c]
  BY ONLY <1>2, Sound(w, n), i \in Nodes, c \in Circuits, SoundViews
<1>4. MarkOK(z, i)
  <2>1. SteadyButWaiters(z) /\ \A j \in Nodes : j # i => Waiter(z, j)
    BY ONLY <1>3, InvSteady
  <2>2. MarkReady(z, i)
    BY ONLY <2>1, i \in Nodes, ReadyToMark
  <2> QED
    BY <1>3, <2>2 DEF MarkOK
<1>5. /\ \A d \in cs : MarkOK(View(w, d, n[d]), i)
      /\ \A d \in Circuits \ cs : Inv(View(w, d, n[d]))
      /\ cs \in SUBSET Circuits
  BY <1>1, <1>2, <1>4 DEF Sound
<1>6. v = MarkForClose(w, i, cs)
  BY <1>1
<1> QED
  BY ONLY <1>3, <1>5, <1>6, i \in Nodes, MarkSound

\* circuit_establish_circuit
LEMMA EstablishSound ==
  ASSUME NEW w, NEW n, Sound(w, n), NEW c \in Circuits, w.circ[0][c] = NoCircuit,
         NEW v \in Extend(w, 0, c)
  PROVE  Sound(v, n)
<1>1. PICK i : i = 0
  OBVIOUS
<1>2. i \in Nodes /\ i # PathLen
  BY <1>1, ConstFacts
<1>3. PICK z : z = View(w, c, n[c])
  OBVIOUS
<1>4. IsWorld(w) /\ IsView(z, c) /\ Inv(z) /\ z.node[i] = w.circ[i][c]
  BY ONLY <1>2, <1>3, Sound(w, n), c \in Circuits, SoundViews
<1>5. z.node[i] = NoCircuit /\ z.node[0] = NoCircuit
  BY <1>1, <1>4
<1>6. Fit(w.circ[i][c], i)
  BY ONLY <1>1, <1>4, <1>5 DEF Fit, NoCircuit
<1>7. SteadyButWaiters(z) /\ \A j \in Nodes : Waiter(z, j)
  BY ONLY <1>4, InvSteady
<1>8. CanTake(z, i)
  <2>1. ASSUME NEW h \in Ks, NEW y, NEW u, ZNode(z, y, i, u), Takes(z.node[i], u, i, h),
               h # 0 => z.near[i + 1][h] = "open"
        PROVE  /\ SteadyButWaiters(y)
               /\ \A j \in Nodes : j # i => Waiter(y, j)
               /\ h # 0 => Inv(y)
    BY ONLY <1>1, <1>2, <1>4, <1>5, <1>7, <2>1, h \in Ks, c \in Circuits, TakeUp, Zenon
  <2> QED
    BY ONLY <2>1 DEF CanTake
<1>9. v \in Extend(w, i, c) /\ CanTake(View(w, c, n[c]), i)
  BY <1>1, <1>3, <1>8
<1>10. \A d \in Circuits : d # c => Inv(View(w, d, n[d]))
  BY DEF Sound
<1>11. IsWorld(w)
  BY ONLY <1>4
<1> QED
  BY ONLY <1>2, <1>6, <1>9, <1>10, <1>11, c \in Circuits, ExtendSound

\* A cell of a circuit, from its parts.
LEMMA CellIs ==
  ASSUME NEW c \in Circuits, NEW cmd \in Commands, NEW h \in Nodes
  PROVE  /\ Cell(cmd, c, h) \in CellsOf(c) /\ Cell(cmd, c, h) \in AllCells
         /\ Cell(cmd, c, h).cmd = cmd /\ Cell(cmd, c, h).c = c /\ Cell(cmd, c, h).to = h
BY DEF Cell, CellsOf, AllCells

\* onionskin_answer
LEMMA AnswerStep ==
  ASSUME NEW w, IsWorld(w), NEW i \in Nodes, NEW c \in Circuits, NEW x, x = w.circ[i][c],
         NEW v, v = OnionskinAnswer(w, i, c)
  PROVE  \E u : NodeStep(w, v, i, c, u) /\ Answers(x, u, c)
<1>1. PICK t : t = ToState(w, i, c, "OPEN")
  OBVIOUS
<1>2. PICK a : a = StateRec(x, "OPEN")
  OBVIOUS
<1>3. "OPEN" \in CircStates
  BY DEF CircStates
<1>4. NodeStep(w, t, i, c, a)
  BY ONLY <1>1, <1>2, <1>3, IsWorld(w), i \in Nodes, c \in Circuits, x = w.circ[i][c], FieldSteps
<1>5. IsWorld(t) /\ t.circ[i][c] = a
  BY ONLY <1>4 DEF NodeStep
<1>6. PICK e : e = Cell("CREATED", c, 0)
  OBVIOUS
<1>7. e \in CellsOf(c)
  BY <1>6, CellIs, ConstFacts DEF Commands
<1>8. v = SendIn(t, i, e)
  BY ONLY <1>1, <1>6, v = OnionskinAnswer(w, i, c) DEF OnionskinAnswer, ToState
<1>9. PICK u : u = InRec(a, e)
  OBVIOUS
<1>10. NodeStep(t, v, i, c, u)
  BY ONLY <1>5, <1>7, <1>8, <1>9, i \in Nodes, c \in Circuits, FieldSteps
<1>11. NodeStep(w, v, i, c, u)
  BY ONLY <1>4, <1>10, i \in Nodes, c \in Circuits, NodeSteps
<1>12. x \in CircsOf(c)
  BY Zenon DEF IsWorld, IsRow
<1>13. Answers(x, u, c)
  <2>1. PICK b : b = Append(x.inq, e)
    BY Zenon
  <2>2. a.inq = x.inq /\ u = [a EXCEPT !.inq = b]
    BY ONLY <1>2, <1>9, <1>12, <2>1 DEF StateRec, InRec, CircsOf
  <2>3. u = [x EXCEPT !.state = "OPEN", !.inq = b]
    BY ONLY <1>2, <1>12, <2>2 DEF StateRec, CircsOf
  <2> QED
    BY ONLY <1>6, <2>1, <2>3 DEF Answers
<1> QED
  BY ONLY <1>11, <1>13

\* The answer of a CPU worker keeps the invariant.
LEMMA AnswerSound ==
  ASSUME NEW w, NEW n, Sound(w, n), NEW i \in Links, NEW c \in Circuits, Up(w.circ[i][c]),
         w.circ[i][c].state = "ONIONSKIN_PENDING", NEW v, v = OnionskinAnswer(w, i, c)
  PROVE  Sound(v, n)
<1>1. i \in Nodes
  BY ConstFacts
<1>2. PICK z : z = View(w, c, n[c])
  OBVIOUS
<1>3. IsWorld(w) /\ IsView(z, c) /\ Inv(z) /\ z.node[i] = w.circ[i][c]
  BY ONLY <1>1, <1>2, Sound(w, n), c \in Circuits, SoundViews
<1>4. IsWorld(w)
  BY ONLY <1>3
<1>5. PICK u : NodeStep(w, v, i, c, u) /\ Answers(w.circ[i][c], u, c)
  BY ONLY <1>1, <1>4, c \in Circuits, v = OnionskinAnswer(w, i, c), AnswerStep
<1>6. PICK y : y = View(v, c, n[c])
  OBVIOUS
<1>7. ZNode(z, y, i, u)
  BY ONLY <1>2, <1>5, <1>6 DEF NodeStep
<1>8. Answers(z.node[i], u, c) /\ Up(z.node[i]) /\ z.node[i].state = "ONIONSKIN_PENDING"
  BY <1>3, <1>5
<1>9. Inv(y)
  BY ONLY <1>3, <1>7, <1>8, i \in Links, c \in Circuits, CpuStep
<1>10. Inv(View(v, c, n[c])) /\ \A d \in Circuits : d # c => Inv(View(w, d, n[d]))
  BY <1>6, <1>9 DEF Sound
<1> QED
  BY ONLY <1>5, <1>10, c \in Circuits, NodeStepSound

\* circuit_close_all_marked
LEMMA FreeSound ==
  ASSUME NEW w, NEW n, Sound(w, n), \A d \in Circuits : n[d] \in Nodes, NEW i \in Nodes, NEW f,
         f = [c \in Circuits |-> IF w.circ[i][c].marked THEN [NoCircuit EXCEPT !.marked = (i = 0)]
                                 ELSE w.circ[i][c]],
         NEW v, v = AtNode(w, i, f)
  PROVE  Sound(v, n)
<1>1. IsWorld(w)
  BY DEF Sound
<1>2. PICK u : u = [NoCircuit EXCEPT !.marked = (i = 0)]
  BY Zenon
<1>3. \A d \in Circuits : u \in CircsOf(d) /\ w.circ[i][d] \in CircsOf(d)
  <2>1. \A d \in Circuits : w.circ[i][d] \in CircsOf(d)
    BY <1>1, Zenon DEF IsWorld, IsRow
  <2>2. ASSUME NEW d \in Circuits PROVE u \in CircsOf(d)
    <3>1. <<>> \in Seq(CellsOf(d)) /\ 0 \in Ks /\ 0 \in Nodes /\ "none" \in CircStates
      BY ConstFacts DEF CircStates
    <3>2. PICK b \in BOOLEAN : b = (i = 0)
      BY Zenon
    <3>3. u = [state |-> "none", n |-> 0, p |-> 0, marked |-> b, hops |-> 0,
              outq |-> <<>>, inq |-> <<>>]
      BY ONLY <1>2, <3>2 DEF NoCircuit
    <3> QED
      BY ONLY <3>1, <3>2, <3>3 DEF CircsOf
  <2> QED
    BY <2>1, <2>2
<1>4. \A d \in Circuits : f[d] = IF w.circ[i][d].marked THEN u ELSE w.circ[i][d]
  BY <1>2
<1>5. IsRow(f)
  <2>1. f = [c \in Circuits |-> f[c]]
    OBVIOUS
  <2> QED
    BY ONLY <1>3, <1>4, <2>1 DEF IsRow
<1>6. /\ IsWorld(v)
      /\ \A d \in Circuits : \A m :
              /\ ZNode(View(w, d, m), View(v, d, m), i, f[d])
              /\ f[d] = w.circ[i][d] => View(v, d, m) = View(w, d, m)
  BY ONLY <1>1, <1>5, i \in Nodes, v = AtNode(w, i, f), RowView
<1>7. ASSUME NEW d \in Circuits PROVE Inv(View(v, d, n[d]))
  <2>1. PICK z : z = View(w, d, n[d])
    OBVIOUS
  <2>2. PICK y : y = View(v, d, n[d])
    OBVIOUS
  <2>3. IsView(z, d) /\ Inv(z) /\ z.node[i] = w.circ[i][d]
    BY ONLY <2>1, Sound(w, n), i \in Nodes, d \in Circuits, SoundViews
  <2>4. z.len \in Nodes
    BY <2>1, ViewAt
  <2>5. CASE w.circ[i][d].marked
    <3>1. ZNode(z, y, i, u) /\ z.node[i].marked
      BY ONLY <1>4, <1>6, <2>1, <2>2, <2>3, <2>5, d \in Circuits
    <3>2. Inv(y)
      BY ONLY <1>2, <2>3, <2>4, <3>1, d \in Circuits, i \in Nodes, FreeStep
    <3> QED
      BY ONLY <2>2, <3>2
  <2>6. CASE ~ w.circ[i][d].marked
    BY ONLY <1>4, <1>6, <2>1, <2>3, <2>6, d \in Circuits
  <2> QED
    BY <2>5, <2>6
<1> QED
  BY ONLY <1>6, <1>7 DEF Sound

\* A cell is read from connection k of link l, and node i changes.
LEMMA ReadFwd ==
  ASSUME NEW z, NEW p, NEW y, NEW l \in Links, NEW k \in Conns, NEW e, FwdTaken(z, p, l, k, e), NEW u,
         ZNode(p, y, l, u)
  PROVE  /\ Turn(z, y, l, l, k) /\ y.node[l] = u
         /\ Dropped(z.fwd[l][k], e, y.fwd[l][k]) /\ y.bwd[l][k] = z.bwd[l][k]
<1>1. /\ Dropped(z.fwd[l][k], e, p.fwd[l][k]) /\ p.bwd[l][k] = z.bwd[l][k]
      /\ p.node = z.node /\ Turn(z, p, l, l, k)
  BY DEF FwdTaken
<1>2. /\ y.near = p.near /\ y.far = p.far /\ y.fwd = p.fwd /\ y.bwd = p.bwd
      /\ y.over = p.over /\ y.len = p.len /\ y.node[l] = u
      /\ \A j \in Nodes : j # l => y.node[j] = p.node[j]
  BY DEF ZNode
<1>3. Turn(z, y, l, l, k)
  BY ONLY <1>1, <1>2 DEF Turn
<1> QED
  BY ONLY <1>1, <1>2, <1>3

\* A cell towards the origin is taken, and then the circuit changes at node i.
LEMMA ReadBwd ==
  ASSUME NEW z, NEW p, NEW y, NEW l \in Links, NEW k \in Conns, NEW e, BwdTaken(z, p, l, k, e), NEW u,
         NEW i, ZNode(p, y, i, u)
  PROVE  /\ Turn(z, y, i, l, k) /\ y.node[i] = u
         /\ Dropped(z.bwd[l][k], e, y.bwd[l][k]) /\ y.fwd[l][k] = z.fwd[l][k]
<1>1. /\ Dropped(z.bwd[l][k], e, p.bwd[l][k]) /\ p.fwd[l][k] = z.fwd[l][k]
      /\ p.node = z.node /\ Turn(z, p, i, l, k)
  BY DEF BwdTaken
<1>2. /\ y.near = p.near /\ y.far = p.far /\ y.fwd = p.fwd /\ y.bwd = p.bwd
      /\ y.over = p.over /\ y.len = p.len /\ y.node[i] = u
      /\ \A j \in Nodes : j # i => y.node[j] = p.node[j]
  BY DEF ZNode
<1>3. Turn(z, y, i, l, k)
  BY ONLY <1>1, <1>2 DEF Turn
<1> QED
  BY ONLY <1>1, <1>2, <1>3

\* What holds when node l has taken cell e of circuit c from connection k.
TookFwd(w, t, n, l, k, e, c) ==
  /\ Sound(w, n) /\ IsWorld(t) /\ t.circ = w.circ /\ c \in Circuits /\ e \in CellsOf(c)
  /\ FwdTaken(View(w, c, n[c]), View(t, c, n[c]), l, k, e)
  /\ \A d \in Circuits : d # c => View(t, d, n[d]) = View(w, d, n[d])
TookBwd(w, t, n, l, k, e, c) ==
  /\ Sound(w, n) /\ IsWorld(t) /\ t.circ = w.circ /\ c \in Circuits /\ e \in CellsOf(c)
  /\ BwdTaken(View(w, c, n[c]), View(t, c, n[c]), l, k, e)
  /\ \A d \in Circuits : d # c => View(t, d, n[d]) = View(w, d, n[d])

\* A sound world with a cell of circuit c taken, towards the exit.
LEMMA TakeFwdHolds ==
  ASSUME NEW w, NEW n, Sound(w, n), NEW l \in Links, NEW k \in Conns, w.conn[l][k].fwd # <<>>,
         NEW e, e = Head(w.conn[l][k].fwd), NEW t, t = TakeFwd(w, l, k)
  PROVE  TookFwd(w, t, n, l, k, e, e.c)
<1>1. IsWorld(w)
  BY DEF Sound
<1>2. /\ IsWorld(t) /\ e \in AllCells /\ t.circ = w.circ
      /\ \A m : FwdTaken(View(w, e.c, m), View(t, e.c, m), l, k, e)
      /\ \A d \in Circuits : d # e.c => \A m : View(t, d, m) = View(w, d, m)
  BY <1>1, TakeFwdView
<1>3. e.c \in Circuits /\ e \in CellsOf(e.c)
  BY <1>2, CellOwner
<1> QED
  BY ONLY <1>2, <1>3, Sound(w, n) DEF TookFwd

\* A sound world with a cell of circuit c taken, towards the origin.
LEMMA TakeBwdHolds ==
  ASSUME NEW w, NEW n, Sound(w, n), NEW l \in Links, NEW k \in Conns, w.conn[l][k].bwd # <<>>,
         NEW e, e = Head(w.conn[l][k].bwd), NEW t, t = TakeBwd(w, l, k)
  PROVE  TookBwd(w, t, n, l, k, e, e.c)
<1>1. IsWorld(w)
  BY DEF Sound
<1>2. /\ IsWorld(t) /\ e \in AllCells /\ t.circ = w.circ
      /\ \A m : BwdTaken(View(w, e.c, m), View(t, e.c, m), l, k, e)
      /\ \A d \in Circuits : d # e.c => \A m : View(t, d, m) = View(w, d, m)
  BY ONLY <1>1, l \in Links, k \in Conns, w.conn[l][k].bwd # <<>>,
     e = Head(w.conn[l][k].bwd), t = TakeBwd(w, l, k), TakeBwdView
<1>3. e.c \in Circuits /\ e \in CellsOf(e.c)
  BY <1>2, CellOwner
<1> QED
  BY ONLY <1>2, <1>3, Sound(w, n) DEF TookBwd

\* Facts both directions use: z is the view before, p the view with the cell gone.
LEMMA TookViews ==
  ASSUME NEW w, NEW t, NEW n, NEW l, NEW k, NEW e, NEW c,
         TookFwd(w, t, n, l, k, e, c) \/ TookBwd(w, t, n, l, k, e, c),
         NEW z, z = View(w, c, n[c]), NEW p, p = View(t, c, n[c])
  PROVE  /\ c \in Circuits /\ e \in CellsOf(c) /\ IsWorld(t) /\ IsView(z, c) /\ Inv(z)
         /\ \A i \in Nodes : z.node[i] = t.circ[i][c] /\ p.node[i] = t.circ[i][c]
         /\ p.near = z.near /\ p.far = z.far /\ p.len = z.len /\ p.node = z.node /\ z.len = n[c]
         /\ \A d \in Circuits : d # c => Inv(View(t, d, n[d]))
<1>1. /\ Sound(w, n) /\ IsWorld(t) /\ t.circ = w.circ /\ c \in Circuits /\ e \in CellsOf(c)
      /\ \A d \in Circuits : d # c => View(t, d, n[d]) = View(w, d, n[d])
  BY DEF TookFwd, TookBwd
<1>2. p.node = z.node /\ Turn(z, p, 0, l, k)
  BY DEF TookFwd, TookBwd, FwdTaken, BwdTaken
<1>3. IsView(z, c) /\ Inv(z) /\ \A i \in Nodes : z.node[i] = w.circ[i][c]
  BY ONLY <1>1, z = View(w, c, n[c]), SoundViews
<1>4. p.near = z.near /\ p.far = z.far /\ p.len = z.len
  BY ONLY <1>2 DEF Turn
<1>5. \A d \in Circuits : d # c => Inv(View(t, d, n[d]))
  BY ONLY <1>1 DEF Sound
<1>6. z.len = n[c]
  BY ONLY z = View(w, c, n[c]), ViewAt
<1> QED
  BY ONLY <1>1, <1>2, <1>3, <1>4, <1>5, <1>6

\* The circuit is closed after the cell was read.
LEMMA MarkAfter ==
  ASSUME NEW t, IsWorld(t), NEW n, NEW i \in Nodes, NEW c \in Circuits, NEW p, p = View(t, c, n[c]),
         MarkReady(p, i), Up(p.node[i]), \A d \in Circuits : d # c => Inv(View(t, d, n[d])),
         NEW v, v = MarkForClose(t, i, {c})
  PROVE  Sound(v, n)
<1>1. PICK cs : cs = {c}
  OBVIOUS
<1>2. MarkOK(p, i)
  BY DEF MarkOK
<1>3. /\ \A d \in cs : MarkOK(View(t, d, n[d]), i)
      /\ \A d \in Circuits \ cs : Inv(View(t, d, n[d]))
      /\ cs \in SUBSET Circuits /\ v = MarkForClose(t, i, cs)
  BY <1>1, <1>2
<1> QED
  BY ONLY <1>3, IsWorld(t), i \in Nodes, MarkSound

\* A cell was read, and then one circuit changes at the node that read it.
LEMMA FwdNode ==
  ASSUME NEW w, NEW t, NEW n, NEW l \in Links, NEW k \in Conns, NEW e, NEW c,
         TookFwd(w, t, n, l, k, e, c), NEW v, NEW u, NodeStep(t, v, l, c, u),
         NEW z, z = View(w, c, n[c]), NEW y, y = View(v, c, n[c])
  PROVE  /\ Turn(z, y, l, l, k) /\ y.node[l] = u
         /\ Dropped(z.fwd[l][k], e, y.fwd[l][k]) /\ y.bwd[l][k] = z.bwd[l][k]
         /\ Inv(y) => Sound(v, n)
<1>1. PICK p : p = View(t, c, n[c])
  OBVIOUS
<1>2. /\ c \in Circuits /\ \A d \in Circuits : d # c => Inv(View(t, d, n[d]))
  BY ONLY <1>1, TookFwd(w, t, n, l, k, e, c), z = View(w, c, n[c]), TookViews
<1>3. FwdTaken(z, p, l, k, e)
  BY ONLY <1>1, TookFwd(w, t, n, l, k, e, c), z = View(w, c, n[c]) DEF TookFwd
<1>4. ZNode(p, y, l, u)
  BY ONLY <1>1, NodeStep(t, v, l, c, u), y = View(v, c, n[c]) DEF NodeStep
<1>5. /\ Turn(z, y, l, l, k) /\ y.node[l] = u
      /\ Dropped(z.fwd[l][k], e, y.fwd[l][k]) /\ y.bwd[l][k] = z.bwd[l][k]
  BY ONLY <1>3, <1>4, l \in Links, k \in Conns, ReadFwd
<1>6. Inv(y) => Sound(v, n)
  <2>1. SUFFICES ASSUME Inv(y) PROVE Sound(v, n)
    OBVIOUS
  <2>2. Inv(View(v, c, n[c]))
    BY ONLY <2>1, y = View(v, c, n[c])
  <2> QED
    BY ONLY <2>2, <1>2, NodeStep(t, v, l, c, u), NodeStepSound
<1> QED
  BY ONLY <1>5, <1>6

\* Taking a cell and then changing the circuit at the node it came to, towards the origin.
LEMMA BwdNode ==
  ASSUME NEW w, NEW t, NEW n, NEW l \in Links, NEW k \in Conns, NEW e, NEW c,
         TookBwd(w, t, n, l, k, e, c), NEW v, NEW u, NEW i, NodeStep(t, v, i, c, u),
         NEW z, z = View(w, c, n[c]), NEW y, y = View(v, c, n[c])
  PROVE  /\ Turn(z, y, i, l, k) /\ y.node[i] = u
         /\ Dropped(z.bwd[l][k], e, y.bwd[l][k]) /\ y.fwd[l][k] = z.fwd[l][k]
         /\ Inv(y) => Sound(v, n)
<1>1. PICK p : p = View(t, c, n[c])
  OBVIOUS
<1>2. /\ c \in Circuits /\ \A d \in Circuits : d # c => Inv(View(t, d, n[d]))
  BY ONLY <1>1, TookBwd(w, t, n, l, k, e, c), z = View(w, c, n[c]), TookViews
<1>3. BwdTaken(z, p, l, k, e)
  BY ONLY <1>1, TookBwd(w, t, n, l, k, e, c), z = View(w, c, n[c]) DEF TookBwd
<1>4. ZNode(p, y, i, u)
  BY ONLY <1>1, NodeStep(t, v, i, c, u), y = View(v, c, n[c]) DEF NodeStep
<1>5. /\ Turn(z, y, i, l, k) /\ y.node[i] = u
      /\ Dropped(z.bwd[l][k], e, y.bwd[l][k]) /\ y.fwd[l][k] = z.fwd[l][k]
  BY ONLY <1>3, <1>4, l \in Links, k \in Conns, ReadBwd
<1>6. Inv(y) => Sound(v, n)
  <2>1. SUFFICES ASSUME Inv(y) PROVE Sound(v, n)
    OBVIOUS
  <2>2. Inv(View(v, c, n[c]))
    BY ONLY <2>1, y = View(v, c, n[c])
  <2> QED
    BY ONLY <2>2, <1>2, NodeStep(t, v, i, c, u), NodeStepSound
<1> QED
  BY ONLY <1>5, <1>6

\* Nobody but the connection notices that the cell is gone.
LEMMA FwdGone ==
  ASSUME NEW w, NEW t, NEW n, NEW l \in Links, NEW k \in Conns, NEW e, NEW c,
         TookFwd(w, t, n, l, k, e, c), NEW z, z = View(w, c, n[c]), NEW p, p = View(t, c, n[c])
  PROVE  /\ Turn(z, p, l, l, k) /\ p.node[l] = z.node[l]
         /\ Dropped(z.fwd[l][k], e, p.fwd[l][k]) /\ p.bwd[l][k] = z.bwd[l][k]
         /\ Inv(p) => Sound(t, n)
<1>1. FwdTaken(z, p, l, k, e)
  BY DEF TookFwd
<1>2. IsWorld(t) /\ c \in Circuits /\ \A d \in Circuits : d # c => Inv(View(t, d, n[d]))
  BY ONLY TookFwd(w, t, n, l, k, e, c), z = View(w, c, n[c]), p = View(t, c, n[c]), TookViews
<1>3. Inv(p) => Sound(t, n)
  BY ONLY <1>2, p = View(t, c, n[c]) DEF Sound
<1> QED
  BY ONLY <1>1, <1>3 DEF FwdTaken

\* A cell towards the origin that no circuit takes.
LEMMA BwdGone ==
  ASSUME NEW w, NEW t, NEW n, NEW l \in Links, NEW k \in Conns, NEW e, NEW c,
         TookBwd(w, t, n, l, k, e, c), NEW z, z = View(w, c, n[c]), NEW p, p = View(t, c, n[c]),
         NEW i \in Nodes
  PROVE  /\ Turn(z, p, i, l, k) /\ p.node[i] = z.node[i]
         /\ Dropped(z.bwd[l][k], e, p.bwd[l][k]) /\ p.fwd[l][k] = z.fwd[l][k]
         /\ Inv(p) => Sound(t, n)
<1>1. BwdTaken(z, p, l, k, e)
  BY DEF TookBwd
<1>2. IsWorld(t) /\ c \in Circuits /\ \A d \in Circuits : d # c => Inv(View(t, d, n[d]))
  BY ONLY TookBwd(w, t, n, l, k, e, c), z = View(w, c, n[c]), p = View(t, c, n[c]), TookViews
<1>3. Inv(p) => Sound(t, n)
  BY ONLY <1>2, p = View(t, c, n[c]) DEF Sound
<1> QED
  BY ONLY <1>1, <1>3 DEF BwdTaken

\* What is known of a cell that was taken.
LEMMA TookCell ==
  ASSUME NEW w, NEW t, NEW n, NEW l, NEW k, NEW e, NEW c,
         TookFwd(w, t, n, l, k, e, c) \/ TookBwd(w, t, n, l, k, e, c)
  PROVE  c \in Circuits /\ e \in CellsOf(c) /\ e.c = c /\ e.cmd \in Commands /\ e.to \in Nodes
BY DEF TookFwd, TookBwd, CellsOf

\* A record for a new circuit.
LEMMA NewCircuits ==
  ASSUME NEW c \in Circuits, NEW k \in Conns
  PROVE  /\ NewCirc("ONIONSKIN_PENDING", k, <<>>) \in CircsOf(c)
         /\ [NoCircuit EXCEPT !.state = "ONIONSKIN_PENDING", !.p = k]
              = NewCirc("ONIONSKIN_PENDING", k, <<>>)
         /\ \A x, u : x = NewCirc("ONIONSKIN_PENDING", k, <<>>) /\ Answers(x, u, c) =>
              u = NewCirc("OPEN", k, Append(<<>>, Cell("CREATED", c, 0)))
<1>1. k \in Ks /\ 0 \in Ks /\ 0 \in Nodes /\ <<>> \in Seq(CellsOf(c))
  BY ConstFacts
<1>2. NewCirc("ONIONSKIN_PENDING", k, <<>>) \in CircsOf(c)
  BY ONLY <1>1 DEF NewCirc, CircsOf, CircStates
<1>3. [NoCircuit EXCEPT !.state = "ONIONSKIN_PENDING", !.p = k]
        = NewCirc("ONIONSKIN_PENDING", k, <<>>)
  <2>1. NoCircuit \in CircsOf(c)
    BY ONLY <1>1 DEF NoCircuit, CircsOf, CircStates
  <2>2. PICK x \in CircsOf(c) : x = NoCircuit
    BY ONLY <2>1
  <2>3. PICK u : u = [x EXCEPT !.state = "ONIONSKIN_PENDING", !.p = k]
    OBVIOUS
  <2>4. /\ u \in CircsOf(c) /\ u.state = "ONIONSKIN_PENDING" /\ u.p = k /\ u.n = x.n
        /\ u.marked = x.marked /\ u.hops = x.hops /\ u.outq = x.outq /\ u.inq = x.inq
    BY ONLY <2>2, <2>3, <1>1, Zenon DEF CircsOf, CircStates
  <2>5. /\ x.n = 0 /\ x.marked = FALSE /\ x.hops = 0 /\ x.outq = <<>> /\ x.inq = <<>>
    BY ONLY <2>2 DEF NoCircuit
  <2>6. u = [state |-> u.state, n |-> u.n, p |-> u.p, marked |-> u.marked, hops |-> u.hops,
             outq |-> u.outq, inq |-> u.inq]
    BY ONLY <2>4, c \in Circuits, RecordFields
  <2> QED
    BY ONLY <2>2, <2>3, <2>4, <2>5, <2>6, Zenon DEF NewCirc
<1>4. \A x, u : x = NewCirc("ONIONSKIN_PENDING", k, <<>>) /\ Answers(x, u, c) =>
              u = NewCirc("OPEN", k, Append(<<>>, Cell("CREATED", c, 0)))
  <2>1. SUFFICES ASSUME NEW x, NEW u, x = NewCirc("ONIONSKIN_PENDING", k, <<>>), Answers(x, u, c)
                 PROVE  u = NewCirc("OPEN", k, Append(<<>>, Cell("CREATED", c, 0)))
    OBVIOUS
  <2>2. x \in CircsOf(c)
    BY ONLY <2>1, <1>2
  <2>3. /\ x.n = 0 /\ x.p = k /\ x.marked = FALSE /\ x.hops = 0 /\ x.outq = <<>> /\ x.inq = <<>>
    BY ONLY <2>1 DEF NewCirc
  <2>4. /\ u \in CircsOf(c) /\ u.n = x.n /\ u.outq = x.outq /\ u.state = "OPEN" /\ u.p = x.p
        /\ u.marked = x.marked /\ u.hops = x.hops
    BY ONLY <2>1, <2>2, c \in Circuits, AnswerFields
  <2>5. u.inq = Append(x.inq, Cell("CREATED", c, 0))
    BY ONLY <2>1, <2>2 DEF Answers, CircsOf
  <2>6. u = [state |-> u.state, n |-> u.n, p |-> u.p, marked |-> u.marked, hops |-> u.hops,
             outq |-> u.outq, inq |-> u.inq]
    BY ONLY <2>4, c \in Circuits, RecordFields
  <2> QED
    BY ONLY <2>3, <2>4, <2>5, <2>6 DEF NewCirc
<1> QED
  BY ONLY <1>2, <1>3, <1>4

\* World w with the circuit c that node i made on a CREATE cell from connection k.
AddCirc(w, i, c, k) ==
  [w EXCEPT !.circ[i][c] = [NoCircuit EXCEPT !.state = "ONIONSKIN_PENDING", !.p = k]]

\* command_process_create_cell
LEMMA GotCreateSound ==
  ASSUME NEW w, NEW t, NEW n, NEW l \in Links, NEW k \in Conns, NEW e, NEW c,
         TookFwd(w, t, n, l, k, e, c), e.cmd \in Creates, w.conn[l][k].far = "open",
         NEW v \in GotCreate(t, l, e, k)
  PROVE  Sound(v, n)
<1>1. PICK z : z = View(w, c, n[c])
  OBVIOUS
<1>2. PICK p : p = View(t, c, n[c])
  OBVIOUS
<1>3. PICK y : y = View(v, c, n[c])
  OBVIOUS
<1>4. c \in Circuits /\ e \in CellsOf(c) /\ e.c = c
  BY ONLY TookFwd(w, t, n, l, k, e, c), TookCell
<1>5. /\ IsWorld(t) /\ IsView(z, c) /\ Inv(z)
      /\ \A d \in Circuits : d # c => Inv(View(t, d, n[d]))
  BY ONLY <1>1, <1>2, TookFwd(w, t, n, l, k, e, c), TookViews
<1>6. z.far[l][k] = "open"
  BY ONLY <1>1, w.conn[l][k].far = "open", l \in Links, k \in Conns, ViewAt
<1>7. l \in Nodes
  BY ConstFacts
<1>8. PICK s : s = AddCirc(t, l, c, k)
  OBVIOUS
<1>9. \/ v = PutBwd(t, l, k, Cell("DESTROY", c, 0))
      \/ v = s
      \/ v = OnionskinAnswer(s, l, c)
  BY ONLY <1>4, <1>8, v \in GotCreate(t, l, e, k) DEF GotCreate, PutBwd, AddCirc
<1>10. SUFFICES ReadsCreate(z, y, l, k, c) /\ (Inv(y) => Sound(v, n))
  <2>1. Inv(y)
    BY ONLY <1>10, <1>4, <1>5, l \in Links, k \in Conns, CreateStep
  <2> QED
    BY ONLY <2>1, <1>10
<1>11. CASE v = PutBwd(t, l, k, Cell("DESTROY", c, 0))
  <2>1. PICK b : b = Cell("DESTROY", c, 0)
    OBVIOUS
  <2>2. b \in AllCells /\ b.c = c
    BY ONLY <2>1, <1>4, <1>7, ConstFacts, CellIs DEF Commands
  <2>3. v = PutBwd(t, l, k, b)
    BY <2>1, <1>11
  <2>4. /\ IsWorld(v)
        /\ \A m : BwdPut(View(t, b.c, m), View(v, b.c, m), l, k, b)
        /\ \A d \in Circuits : d # b.c => \A m : View(v, d, m) = View(t, d, m)
    BY ONLY <2>2, <2>3, <1>5, l \in Links, k \in Conns, PutBwdView
  <2>5. BwdPut(p, y, l, k, b)
    BY ONLY <2>2, <2>4, <1>2, <1>3
  <2>6. /\ Turn(z, p, l, l, k) /\ p.node[l] = z.node[l]
        /\ Dropped(z.fwd[l][k], e, p.fwd[l][k]) /\ p.bwd[l][k] = z.bwd[l][k]
    BY ONLY <1>1, <1>2, TookFwd(w, t, n, l, k, e, c), l \in Links, k \in Conns, FwdGone
  <2>7. /\ y.bwd[l][k] = Append(p.bwd[l][k], b) /\ y.fwd[l][k] = p.fwd[l][k]
        /\ y.node = p.node /\ Turn(p, y, l, l, k)
    BY ONLY <2>5 DEF BwdPut
  <2>8. Turn(z, y, l, l, k)
    BY ONLY <2>6, <2>7 DEF Turn
  <2>9. ReadsCreate(z, y, l, k, c)
    BY ONLY <2>1, <2>6, <2>7, <2>8, <1>6, e.cmd \in Creates DEF ReadsCreate, Dropped
  <2>10. Inv(y) => Sound(v, n)
    <3>1. SUFFICES ASSUME Inv(y) PROVE Sound(v, n)
      OBVIOUS
    <3>2. Inv(View(v, c, n[c])) /\ \A d \in Circuits : d # c => \A m : View(v, d, m) = View(t, d, m)
      BY ONLY <3>1, <1>3, <2>2, <2>4
    <3> QED
      BY ONLY <3>2, <2>4, <1>4, <1>5, OneSound
  <2> QED
    BY ONLY <2>9, <2>10
<1>12. PICK a : a = NewCirc("ONIONSKIN_PENDING", k, <<>>)
  OBVIOUS
<1>13. NodeStep(t, s, l, c, a)
  <2>1. a \in CircsOf(c)
    BY ONLY <1>4, <1>12, k \in Conns, NewCircuits, Zenon
  <2>2. s = AtNode(t, l, [t.circ[l] EXCEPT ![c] = a])
    <3>1. a = [NoCircuit EXCEPT !.state = "ONIONSKIN_PENDING", !.p = k]
      BY ONLY <1>4, <1>12, k \in Conns, NewCircuits, Zenon
    <3>2. s = [t EXCEPT !.circ[l][c] = a]
      BY ONLY <3>1, <1>8 DEF AddCirc
    <3>3. \A f, x : [t EXCEPT !.circ[l][f] = x] = AtNode(t, l, [t.circ[l] EXCEPT ![f] = x])
      BY ONLY <1>5, <1>7, WorldNode
    <3> QED
      BY ONLY <3>2, <3>3
  <2> QED
    BY ONLY <2>1, <2>2, <1>4, <1>5, <1>7, NodeStepNew
<1>14. CASE v = s
  <2>1. NodeStep(t, v, l, c, a)
    BY ONLY <1>13, <1>14
  <2>2. /\ Turn(z, y, l, l, k) /\ y.node[l] = a
        /\ Dropped(z.fwd[l][k], e, y.fwd[l][k]) /\ y.bwd[l][k] = z.bwd[l][k]
        /\ Inv(y) => Sound(v, n)
    BY ONLY <2>1, <1>1, <1>3, TookFwd(w, t, n, l, k, e, c), l \in Links, k \in Conns, FwdNode
  <2>3. ReadsCreate(z, y, l, k, c)
    BY ONLY <2>2, <1>6, <1>12, e.cmd \in Creates DEF ReadsCreate, Dropped
  <2> QED
    BY ONLY <2>2, <2>3
<1>15. CASE v = OnionskinAnswer(s, l, c)
  <2>1. IsWorld(s) /\ s.circ[l][c] = a
    BY ONLY <1>13 DEF NodeStep
  <2>2. \E u : NodeStep(s, v, l, c, u) /\ Answers(a, u, c)
    BY ONLY <2>1, <1>15, <1>4, <1>7, AnswerStep
  <2>3. PICK u : NodeStep(s, v, l, c, u) /\ Answers(a, u, c)
    BY ONLY <2>2
  <2>4. u = NewCirc("OPEN", k, Append(<<>>, Cell("CREATED", c, 0)))
    BY ONLY <2>3, <1>4, <1>12, k \in Conns, NewCircuits, Zenon
  <2>5. NodeStep(t, v, l, c, u)
    BY ONLY <2>3, <1>13, <1>4, <1>7, NodeSteps
  <2>6. /\ Turn(z, y, l, l, k) /\ y.node[l] = u
        /\ Dropped(z.fwd[l][k], e, y.fwd[l][k]) /\ y.bwd[l][k] = z.bwd[l][k]
        /\ Inv(y) => Sound(v, n)
    BY ONLY <2>5, <1>1, <1>3, TookFwd(w, t, n, l, k, e, c), l \in Links, k \in Conns, FwdNode
  <2>7. ReadsCreate(z, y, l, k, c)
    BY ONLY <2>4, <2>6, <1>6, e.cmd \in Creates DEF ReadsCreate, Dropped
  <2> QED
    BY ONLY <2>6, <2>7
<1> QED
  BY ONLY <1>9, <1>11, <1>14, <1>15

\* A DESTROY cell leaves the rest of its queue.
LEMMA DestroyRests ==
  ASSUME NEW T, NEW q \in Seq(T), NEW r, NEW e, Dropped(q, e, r), e.cmd = "DESTROY"
  PROVE  /\ Rest(r, q) /\ Holds(q, {"DESTROY"})
         /\ Holds(q, Creates) => Holds(r, Creates)
         /\ Holds(q, Shaking) => Holds(r, Shaking)
<1>1. /\ \A S : Holds(q, S) <=> Holds(r, S) \/ e.cmd \in S
      /\ \A t : Aims(q, t) <=> Aims(r, t) \/ (e.cmd = "EXTEND" /\ e.to = t)
      /\ \A S : Only(q, S) <=> Only(r, S) /\ e.cmd \in S
      /\ One(q) => One(r)
      /\ One(q) /\ Ord(q) /\ Holds(r, Creates) => Ord(r)
  BY DropCell
<1>2. q # <<>>
  BY DEF Dropped
<1>3. Thin(r, q)
  BY ONLY <1>1 DEF Thin
<1>4. Rest(r, q)
  BY ONLY <1>1, <1>2, <1>3 DEF Rest
<1>5. Holds(q, {"DESTROY"})
  BY <1>1
<1>6. Holds(q, Creates) => Holds(r, Creates)
  BY <1>1, CommandsDiffer
<1>7. Holds(q, Shaking) => Holds(r, Shaking)
  BY <1>1, CommandsDiffer
<1> QED
  BY ONLY <1>4, <1>5, <1>6, <1>7

\* A DESTROY is read from behind, and the circuit may leave the connection.
LEMMA LeftFar ==
  ASSUME NEW c \in Circuits, NEW z, NEW y, IsView(z, c), Inv(z), NEW l \in Links, NEW k \in Conns,
         NEW e, e.cmd = "DESTROY", Turn(z, y, l, l, k),
         Dropped(z.fwd[l][k], e, y.fwd[l][k]), y.bwd[l][k] = z.bwd[l][k],
         NEW x, x = z.node[l],
         \/ y.node[l] = x /\ (x.p # k \/ ~ Up(x))
         \/ x.p = k /\ y.node[l] = CutP(x)
  PROVE  LeavesFar(z, y, l, k, FALSE)
<1>1. z.fwd[l][k] \in Seq(CellsOf(c))
  BY ViewParts
<1>2. /\ Rest(y.fwd[l][k], z.fwd[l][k]) /\ Holds(z.fwd[l][k], {"DESTROY"})
      /\ Holds(z.fwd[l][k], Creates) => Holds(y.fwd[l][k], Creates)
      /\ Holds(z.fwd[l][k], Shaking) => Holds(y.fwd[l][k], Shaking)
  BY ONLY <1>1, Dropped(z.fwd[l][k], e, y.fwd[l][k]), e.cmd = "DESTROY", DestroyRests
<1>3. z.node[l - 1].marked \/ z.node[l - 1].n # k
  <2>1. LinkA(z, l, k)
    BY ONLY Inv(z), l \in Links, k \in Conns DEF Inv, Agree
  <2> QED
    BY ONLY <2>1, <1>2 DEF LinkA
<1>4. /\ y.over = z.over /\ y.len = z.len /\ y.near = z.near /\ y.far = z.far
      /\ \A j \in Nodes : j # l => y.node[j] = z.node[j]
      /\ \A m \in Links, h \in Conns : m # l \/ h # k =>
           y.fwd[m][h] = z.fwd[m][h] /\ y.bwd[m][h] = z.bwd[m][h]
  BY ONLY Turn(z, y, l, l, k) DEF Turn
<1>5. \/ y.node[l] = z.node[l] /\ (z.node[l].p # k \/ ~ Up(z.node[l]))
      \/ z.node[l].p = k /\ y.node[l] = [z.node[l] EXCEPT !.p = 0, !.inq = <<>>]
  BY DEF CutP
<1> QED
  BY ONLY <1>2, <1>3, <1>4, <1>5, y.bwd[l][k] = z.bwd[l][k] DEF LeavesFar

\* A circuit that is found by its connection is up.
LEMMA FoundUp ==
  ASSUME NEW z, NEW i \in Nodes, Inv(z), ~ z.node[i].marked, NEW k \in Conns,
         z.node[i].p = k \/ z.node[i].n = k
  PROVE  Up(z.node[i])
<1>1. NodeShape(z, i)
  BY DEF Inv, Shape
<1>2. k # 0
  BY ConstFacts
<1>3. PICK x : x = z.node[i]
  OBVIOUS
<1>4. x.state = "none" => x = [NoCircuit EXCEPT !.marked = x.marked]
  BY ONLY <1>1, <1>3 DEF NodeShape
<1>5. x.state # "none"
  <2>1. SUFFICES ASSUME x.state = "none" PROVE FALSE
    OBVIOUS
  <2>2. PICK b : b = x.marked
    OBVIOUS
  <2>3. x = [NoCircuit EXCEPT !.marked = b]
    BY ONLY <2>1, <2>2, <1>4
  <2>4. x.p = 0 /\ x.n = 0
    BY ONLY <2>3 DEF NoCircuit
  <2> QED
    BY ONLY <2>4, <1>2, <1>3, z.node[i].p = k \/ z.node[i].n = k
<1> QED
  BY <1>3, <1>5 DEF Up

\* command_process_destroy_cell, from behind
LEMMA GotDestroyFwdSound ==
  ASSUME NEW w, NEW t, NEW n, NEW l \in Links, NEW k \in Conns, NEW e, NEW c,
         TookFwd(w, t, n, l, k, e, c), e.cmd = "DESTROY",
         NEW v, v = GotDestroyFwd(t, l, c, k)
  PROVE  Sound(v, n)
<1>1. PICK z : z = View(w, c, n[c])
  OBVIOUS
<1>2. PICK p : p = View(t, c, n[c])
  OBVIOUS
<1>3. c \in Circuits /\ l \in Nodes
  BY TookCell, ConstFacts
<1>4. /\ IsWorld(t) /\ IsView(z, c) /\ Inv(z)
      /\ \A d \in Circuits : d # c => Inv(View(t, d, n[d]))
      /\ \A i \in Nodes : z.node[i] = t.circ[i][c] /\ p.node[i] = t.circ[i][c]
  BY ONLY <1>1, <1>2, TookFwd(w, t, n, l, k, e, c), TookViews
<1>5. PICK x : x = z.node[l]
  OBVIOUS
<1>6. x = t.circ[l][c]
  BY ONLY <1>3, <1>4, <1>5
<1>7. CASE ~ FromBehind(t, l, c, k)
  <2>1. v = t
    BY <1>7 DEF GotDestroyFwd
  <2>2. x.p # k \/ ~ Up(x)
    BY ONLY <1>6, <1>7 DEF FromBehind, Up
  <2>3. /\ Turn(z, p, l, l, k) /\ p.node[l] = x
        /\ Dropped(z.fwd[l][k], e, p.fwd[l][k]) /\ p.bwd[l][k] = z.bwd[l][k]
        /\ Inv(p) => Sound(t, n)
    BY ONLY <1>1, <1>2, <1>5, TookFwd(w, t, n, l, k, e, c), l \in Links, k \in Conns, FwdGone
  <2>4. LeavesFar(z, p, l, k, FALSE)
    BY ONLY <2>2, <2>3, <1>3, <1>4, <1>5, e.cmd = "DESTROY", l \in Links, k \in Conns, LeftFar, Zenon
  <2>5. /\ MarkReady(p, l) /\ Waiter(p, l) /\ Chain(p)
        /\ p.node[l].p # 0 \/ ~ Up(z.node[l]) => NodeUp(p, l)
    BY ONLY <2>4, <1>3, <1>4, l \in Links, k \in Conns, LeaveFar, Zenon
  <2>6. NodeUp(p, l)
    <3>1. Up(x) => x.p # 0
      <4>1. NodeUp(z, l)
        BY ONLY <1>3, <1>4 DEF Inv, Ups
      <4>2. l # 0
        BY ConstFacts
      <4> QED
        BY ONLY <4>1, <4>2, <1>5 DEF NodeUp
    <3> QED
      BY ONLY <3>1, <2>3, <2>5, <1>5
  <2>7. Inv(p)
    BY ONLY <2>5, <2>6, Settled
  <2> QED
    BY ONLY <2>1, <2>3, <2>7
<1>8. CASE FromBehind(t, l, c, k)
  <2>1. PICK cs : cs = {c}
    BY Zenon
  <2>2. PICK s : s = UnlinkP(t, l, cs)
    OBVIOUS
  <2>3. v = MarkForClose(s, l, {c})
    BY ONLY <2>1, <2>2, <1>8, v = GotDestroyFwd(t, l, c, k) DEF GotDestroyFwd
  <2>4. cs \in SUBSET Circuits /\ c \in cs /\ \A d \in Circuits : d # c => d \notin cs
    BY <2>1, <1>3
  <2>5. /\ IsWorld(s)
        /\ \A d \in Circuits : \A m :
              /\ d \in cs => ZNode(View(t, d, m), View(s, d, m), l, CutP(t.circ[l][d]))
              /\ d \notin cs => View(s, d, m) = View(t, d, m)
    BY ONLY <2>2, <2>4, <1>3, <1>4, UnlinkPView
  <2>6. PICK y : y = View(s, c, n[c])
    OBVIOUS
  <2>7. PICK u : u = CutP(x)
    OBVIOUS
  <2>8. ZNode(p, y, l, u)
    BY ONLY <2>4, <2>5, <2>6, <2>7, <1>2, <1>3, <1>6
  <2>9. FwdTaken(z, p, l, k, e)
    BY ONLY <1>1, <1>2, TookFwd(w, t, n, l, k, e, c) DEF TookFwd
  <2>10. /\ Turn(z, y, l, l, k) /\ y.node[l] = u
         /\ Dropped(z.fwd[l][k], e, y.fwd[l][k]) /\ y.bwd[l][k] = z.bwd[l][k]
    BY ONLY <2>8, <2>9, l \in Links, k \in Conns, ReadFwd
  <2>11. x.p = k /\ ~ x.marked
    BY ONLY <1>6, <1>8 DEF FromBehind
  <2>12. LeavesFar(z, y, l, k, FALSE)
    BY ONLY <2>7, <2>10, <2>11, <1>3, <1>4, <1>5, e.cmd = "DESTROY", l \in Links, k \in Conns,
       LeftFar, Zenon
  <2>13. MarkReady(y, l) /\ (Up(y.node[l]) <=> Up(z.node[l]))
    BY ONLY <2>12, <1>3, <1>4, l \in Links, k \in Conns, LeaveFar, Zenon
  <2>14. Up(z.node[l])
    BY ONLY <2>11, <1>3, <1>4, <1>5, k \in Conns, FoundUp
  <2>15. \A d \in Circuits : d # c => Inv(View(s, d, n[d]))
    BY ONLY <2>4, <2>5, <1>4
  <2> QED
    BY ONLY <2>3, <2>5, <2>6, <2>13, <2>14, <2>15, <1>3, MarkAfter
<1> QED
  BY ONLY <1>7, <1>8

\* command_process_relay_cell and circuit_extend
LEMMA GotExtendSound ==
  ASSUME NEW w, NEW t, NEW n, NEW l \in Links, NEW k \in Conns, NEW e, NEW c,
         TookFwd(w, t, n, l, k, e, c), e.cmd = "EXTEND",
         NEW v \in GotExtend(t, l, e, k)
  PROVE  Sound(v, n)
<1>1. PICK z : z = View(w, c, n[c])
  OBVIOUS
<1>2. PICK p : p = View(t, c, n[c])
  OBVIOUS
<1>3. c \in Circuits /\ l \in Nodes /\ e \in CellsOf(c) /\ e.c = c
  BY TookCell, ConstFacts
<1>4. /\ IsWorld(t) /\ IsView(z, c) /\ Inv(z)
      /\ \A d \in Circuits : d # c => Inv(View(t, d, n[d]))
      /\ \A i \in Nodes : z.node[i] = t.circ[i][c] /\ p.node[i] = t.circ[i][c]
      /\ p.near = z.near
  BY ONLY <1>1, <1>2, TookFwd(w, t, n, l, k, e, c), TookViews
<1>5. PICK x : x = z.node[l]
  OBVIOUS
<1>6. x = t.circ[l][c] /\ x = p.node[l]
  BY ONLY <1>3, <1>4, <1>5
<1>7. /\ Turn(z, p, l, l, k) /\ p.node[l] = z.node[l]
      /\ Dropped(z.fwd[l][k], e, p.fwd[l][k]) /\ p.bwd[l][k] = z.bwd[l][k]
      /\ Inv(p) => Sound(t, n)
  BY ONLY <1>1, <1>2, TookFwd(w, t, n, l, k, e, c), l \in Links, k \in Conns, FwdGone
<1>8. ReadsExtend(z, p, l, k, e)
  BY ONLY <1>7, e.cmd = "EXTEND" DEF ReadsExtend
<1>9. (~ Kept(z, l, k) => Inv(p)) /\ MarkReady(p, l)
  BY ONLY <1>7, <1>8, <1>3, <1>4, l \in Links, k \in Conns, ExtendDropped
<1>10. CASE ~ FromBehind(t, l, c, k)
  <2>1. v = t
    BY ONLY <1>3, <1>10, v \in GotExtend(t, l, e, k) DEF GotExtend
  <2>2. ~ Kept(z, l, k)
    BY ONLY <1>5, <1>6, <1>10 DEF FromBehind, Kept, Up
  <2> QED
    BY ONLY <2>1, <2>2, <1>7, <1>9
<1>11. CASE FromBehind(t, l, c, k)
  <2>1. x.p = k /\ ~ x.marked
    BY ONLY <1>6, <1>11 DEF FromBehind
  <2>2. Up(x)
    BY ONLY <2>1, <1>3, <1>4, <1>5, k \in Conns, FoundUp
  <2>3. \/ v = MarkForClose(t, l, {c})
        \/ v = SendOut(t, l, e) /\ x.n # 0 /\ x.state # "ONIONSKIN_PENDING"
        \/ v \in Extend(t, l, c) /\ x.n = 0 /\ e.to = l
    BY ONLY <1>3, <1>6, <1>11, v \in GotExtend(t, l, e, k) DEF GotExtend
  <2>4. CASE v = MarkForClose(t, l, {c})
    <3>1. Up(p.node[l])
      BY ONLY <2>2, <1>6
    <3> QED
      BY ONLY <2>4, <3>1, <1>2, <1>3, <1>4, <1>9, MarkAfter
  <2>5. CASE v = SendOut(t, l, e) /\ x.n # 0 /\ x.state # "ONIONSKIN_PENDING"
    <3>1. PICK u : u = OutRec(x, e)
      OBVIOUS
    <3>2. NodeStep(t, v, l, c, OutRec(x, e))
      BY ONLY <2>5, <1>3, <1>4, <1>6, FieldSteps, Zenon
    <3>3. NodeStep(t, v, l, c, u)
      BY ONLY <3>1, <3>2
    <3>4. PICK y : y = View(v, c, n[c])
      OBVIOUS
    <3>5. /\ Turn(z, y, l, l, k) /\ y.node[l] = u
          /\ Dropped(z.fwd[l][k], e, y.fwd[l][k]) /\ y.bwd[l][k] = z.bwd[l][k]
          /\ Inv(y) => Sound(v, n)
      BY ONLY <3>3, <3>4, <1>1, TookFwd(w, t, n, l, k, e, c), l \in Links, k \in Conns, FwdNode
    <3>6. ReadsExtend(z, y, l, k, e)
      BY ONLY <3>5, e.cmd = "EXTEND" DEF ReadsExtend
    <3>7. Kept(z, l, k)
      BY ONLY <2>1, <2>2, <1>5 DEF Kept
    <3>8. y.node[l] = [z.node[l] EXCEPT !.outq = Append(z.node[l].outq, e)]
      BY ONLY <3>1, <3>5, <1>5 DEF OutRec
    <3>9. Inv(y)
      BY ONLY <3>6, <3>7, <3>8, <2>5, <1>3, <1>4, <1>5, l \in Links, k \in Conns, ExtendPassed
    <3> QED
      BY ONLY <3>5, <3>9
  <2>6. CASE v \in Extend(t, l, c) /\ x.n = 0 /\ e.to = l
    <3>1. l # PathLen
      <4>1. e.to \in 1 .. PathLen - 1
        BY ONLY <1>3, <1>4, <1>8, l \in Links, k \in Conns, ExtendRead, Zenon
      <4> QED
        BY ONLY <4>1, <2>6, ConstFacts
    <3>2. x.outq = <<>>
      <4>1. NodeShape(z, l)
        BY ONLY <1>3, <1>4 DEF Inv, Shape
      <4> QED
        BY ONLY <4>1, <2>6, <1>5 DEF NodeShape
    <3>3. Fit(x, l)
      BY ONLY <2>1, <2>2, <2>6, <3>2 DEF Fit
    <3>4. CanTake(p, l)
      <4>1. SUFFICES ASSUME NEW h \in Ks, NEW y, NEW u, ZNode(p, y, l, u), Takes(p.node[l], u, l, h),
                            h # 0 => p.near[l + 1][h] = "open"
                     PROVE  /\ SteadyButWaiters(y)
                            /\ \A j \in Nodes : j # l => Waiter(y, j)
                            /\ h # 0 => Inv(y)
        BY DEF CanTake
      <4>2. FwdTaken(z, p, l, k, e)
        BY ONLY <1>1, <1>2, TookFwd(w, t, n, l, k, e, c) DEF TookFwd
      <4>3. /\ Turn(z, y, l, l, k) /\ y.node[l] = u
            /\ Dropped(z.fwd[l][k], e, y.fwd[l][k]) /\ y.bwd[l][k] = z.bwd[l][k]
        BY ONLY <4>1, <4>2, l \in Links, k \in Conns, ReadFwd
      <4>4. ReadsExtend(z, y, l, k, e)
        BY ONLY <4>3, e.cmd = "EXTEND" DEF ReadsExtend
      <4>5. Takes(z.node[l], y.node[l], l, h) /\ (h # 0 => z.near[l + 1][h] = "open")
        BY ONLY <4>1, <4>3, <1>4, <1>7
      <4> QED
        BY ONLY <4>4, <4>5, h \in Ks, <2>6, <1>3, <1>4, l \in Links, k \in Conns, ExtendTaken
    <3>5. Fit(t.circ[l][c], l) /\ CanTake(View(t, c, n[c]), l) /\ v \in Extend(t, l, c)
      BY ONLY <3>3, <3>4, <2>6, <1>2, <1>6
    <3> QED
      BY ONLY <3>1, <3>5, <1>3, <1>4, ExtendSound
  <2> QED
    BY ONLY <2>3, <2>4, <2>5, <2>6
<1> QED
  BY ONLY <1>10, <1>11

\* A cell is read from behind.
LEMMA RecvFwdSound ==
  ASSUME NEW w, NEW n, Sound(w, n), NEW l \in Links, NEW k \in Conns, w.conn[l][k].far = "open",
         w.conn[l][k].fwd # <<>>, NEW e, e = Head(w.conn[l][k].fwd), NEW t, t = TakeFwd(w, l, k),
         NEW v, v \in CASE e.cmd \in {"CREATE", "CREATE_FAST"} -> GotCreate(t, l, e, k)
                        [] e.cmd = "DESTROY" -> {GotDestroyFwd(t, l, e.c, k)}
                        [] e.cmd = "EXTEND" -> GotExtend(t, l, e, k)
  PROVE  Sound(v, n)
<1>1. PICK c : c = e.c
  OBVIOUS
<1>2. TookFwd(w, t, n, l, k, e, e.c)
  BY ONLY Sound(w, n), l \in Links, k \in Conns, w.conn[l][k].fwd # <<>>,
          e = Head(w.conn[l][k].fwd), t = TakeFwd(w, l, k), TakeFwdHolds
<1>3. TookFwd(w, t, n, l, k, e, c)
  BY ONLY <1>1, <1>2
<1>4. e.cmd \in {"CREATE", "CREATE_FAST", "EXTEND", "DESTROY"}
  <2>1. PICK z : z = View(w, c, n[c])
    OBVIOUS
  <2>2. PICK p : p = View(t, c, n[c])
    OBVIOUS
  <2>3. c \in Circuits /\ IsView(z, c) /\ Inv(z)
    BY ONLY <2>1, <2>2, <1>3, TookViews
  <2>4. Dropped(z.fwd[l][k], e, p.fwd[l][k])
    BY ONLY <2>1, <2>2, <1>3, l \in Links, k \in Conns, FwdGone
  <2>5. z.fwd[l][k] \in Seq(CellsOf(c))
    BY ONLY <2>3, l \in Links, k \in Conns, ViewParts
  <2>6. Only(z.fwd[l][k], OutCmds \cup {"DESTROY"})
    BY ONLY <2>3, l \in Links, k \in Conns, Zenon DEF Inv, Shape, LinkShape
  <2>7. e.cmd \in OutCmds \cup {"DESTROY"}
    BY ONLY <2>4, <2>5, <2>6, DropCell
  <2> QED
    BY ONLY <2>7 DEF OutCmds
<1>5. CASE e.cmd \in Creates
  <2>1. v \in GotCreate(t, l, e, k)
    BY <1>5, Zenon DEF Creates
  <2> QED
    BY ONLY <2>1, <1>3, <1>5, l \in Links, k \in Conns, w.conn[l][k].far = "open", GotCreateSound
<1>6. CASE e.cmd = "DESTROY"
  <2>1. v = GotDestroyFwd(t, l, c, k)
    BY <1>1, <1>6
  <2> QED
    BY ONLY <2>1, <1>3, <1>6, l \in Links, k \in Conns, GotDestroyFwdSound
<1>7. CASE e.cmd = "EXTEND"
  <2>1. v \in GotExtend(t, l, e, k)
    BY <1>7
  <2> QED
    BY ONLY <2>1, <1>3, <1>7, l \in Links, k \in Conns, GotExtendSound
<1> QED
  BY ONLY <1>4, <1>5, <1>6, <1>7 DEF Creates

\* What relays and origin do on a DESTROY cell, field by field.
LEMMA CutRecs ==
  ASSUME NEW c \in Circuits, NEW x \in CircsOf(c), NEW i, NEW b, b = Cell("TRUNCATED", c, 0)
  PROVE  /\ CutN(x) \in CircsOf(c)
         /\ i = 0 => Unlinks(x, CutN(x), i, c)
         /\ i # 0 => Unlinks(x, InRec(CutN(x), b), i, c)
<1>1. PICK a : a = CutN(x)
  OBVIOUS
<1>2. a \in CircsOf(c) /\ a.n = 0 /\ a.outq = <<>> /\ a.inq = x.inq
      /\ a.state = x.state /\ a.marked = x.marked /\ a.p = x.p /\ a.hops = x.hops
  BY <1>1, UnlinkFields, Zenon DEF CutN
<1>3. i = 0 => Unlinks(x, CutN(x), i, c)
  BY ONLY TRUE DEF Unlinks, CutN
<1>4. i # 0 => Unlinks(x, InRec(CutN(x), b), i, c)
  <2>1. SUFFICES ASSUME i # 0 PROVE Unlinks(x, InRec(CutN(x), b), i, c)
    OBVIOUS
  <2>2. PICK u : u = [x EXCEPT !.n = 0, !.outq = <<>>, !.inq = Append(x.inq, Cell("TRUNCATED", c, 0))]
    OBVIOUS
  <2>3. Unlinks(x, u, i, c)
    BY ONLY <2>1, <2>2 DEF Unlinks
  <2>4. /\ u \in CircsOf(c) /\ u.n = 0 /\ u.outq = <<>> /\ u.state = x.state /\ u.p = x.p
        /\ u.marked = x.marked /\ u.hops = x.hops
    BY ONLY <2>3, c \in Circuits, x \in CircsOf(c), CutFields
  <2>5. u.inq = Append(x.inq, b)
    BY ONLY <2>2, x \in CircsOf(c), b = Cell("TRUNCATED", c, 0) DEF CircsOf
  <2>6. PICK s : s = InRec(a, b)
    OBVIOUS
  <2>7. b \in CellsOf(c)
    BY CellIs, ConstFacts DEF Commands
  <2>8. Append(a.inq, b) \in Seq(CellsOf(c))
    BY ONLY <2>7, <1>2, c \in Circuits, RecordFields
  <2>9. /\ s \in CircsOf(c) /\ s.inq = Append(a.inq, b) /\ s.outq = a.outq /\ s.state = a.state
        /\ s.n = a.n /\ s.p = a.p /\ s.marked = a.marked /\ s.hops = a.hops
    <3>1. PICK r \in Seq(CellsOf(c)) : r = Append(a.inq, b)
      BY ONLY <2>8, Zenon
    <3>2. s = [a EXCEPT !.inq = r]
      BY ONLY <2>6, <3>1 DEF InRec
    <3>3. /\ s \in CircsOf(c) /\ s.inq = r /\ s.outq = a.outq /\ s.state = a.state
          /\ s.n = a.n /\ s.p = a.p /\ s.marked = a.marked /\ s.hops = a.hops
      BY ONLY <3>2, r \in Seq(CellsOf(c)), <1>2, c \in Circuits, QueueFields
    <3> QED
      BY ONLY <3>1, <3>3
  <2>10. /\ u = [state |-> u.state, n |-> u.n, p |-> u.p, marked |-> u.marked, hops |-> u.hops,
                 outq |-> u.outq, inq |-> u.inq]
         /\ s = [state |-> s.state, n |-> s.n, p |-> s.p, marked |-> s.marked, hops |-> s.hops,
                 outq |-> s.outq, inq |-> s.inq]
    BY ONLY <2>4, <2>9, c \in Circuits, RecordFields
  <2>11. s = u
    BY ONLY <2>4, <2>5, <2>9, <2>10, <1>2, Zenon
  <2> QED
    BY ONLY <2>3, <2>6, <2>11, <1>1, Zenon
<1> QED
  BY ONLY <1>1, <1>2, <1>3, <1>4

\* command_process_destroy_cell, from ahead
LEMMA GotDestroyBwdSound ==
  ASSUME NEW w, NEW t, NEW n, NEW l \in Links, NEW k \in Conns, NEW e, NEW c,
         TookBwd(w, t, n, l, k, e, c), e.cmd = "DESTROY", NEW i, i = l - 1,
         NEW v, v = GotDestroyBwd(t, i, c, k)
  PROVE  Sound(v, n)
<1>1. PICK z : z = View(w, c, n[c])
  OBVIOUS
<1>2. PICK p : p = View(t, c, n[c])
  OBVIOUS
<1>3. c \in Circuits /\ i \in Nodes
  BY TookCell, ConstFacts
<1>4. /\ IsWorld(t) /\ IsView(z, c) /\ Inv(z)
      /\ \A d \in Circuits : d # c => Inv(View(t, d, n[d]))
      /\ \A j \in Nodes : z.node[j] = t.circ[j][c] /\ p.node[j] = t.circ[j][c]
  BY ONLY <1>1, <1>2, TookBwd(w, t, n, l, k, e, c), TookViews
<1>5. PICK x : x = z.node[i]
  OBVIOUS
<1>6. x = t.circ[i][c] /\ x \in CircsOf(c)
  <2>1. x \in CircsOf(c)
    BY ONLY <1>3, <1>4, <1>5, ViewParts
  <2> QED
    BY ONLY <2>1, <1>3, <1>4, <1>5
<1>7. CASE ~ FromAhead(t, i, c, k)
  <2>1. v = t
    BY <1>7 DEF GotDestroyBwd
  <2>2. ~ Shares(z, l, k)
    BY ONLY <1>5, <1>6, <1>7, i = l - 1, Zenon DEF FromAhead, Shares, Up
  <2>3. /\ Turn(z, p, i, l, k) /\ p.node[i] = z.node[i]
        /\ Dropped(z.bwd[l][k], e, p.bwd[l][k]) /\ p.fwd[l][k] = z.fwd[l][k]
        /\ Inv(p) => Sound(t, n)
    BY ONLY <1>1, <1>2, <1>3, TookBwd(w, t, n, l, k, e, c), l \in Links, k \in Conns, BwdGone
  <2>4. ReadsDestroy(z, p, i, l, k, e)
    BY ONLY <2>3, e.cmd = "DESTROY", i = l - 1 DEF ReadsDestroy
  <2>5. Inv(p)
    BY ONLY <2>2, <2>3, <2>4, <1>3, <1>4, l \in Links, k \in Conns, DestroyDropped
  <2> QED
    BY ONLY <2>1, <2>3, <2>5
<1>8. CASE FromAhead(t, i, c, k)
  <2>1. PICK cs : cs = {c}
    BY Zenon
  <2>2. PICK s : s = UnlinkN(t, i, cs)
    OBVIOUS
  <2>3. PICK b : b = Cell("TRUNCATED", c, 0)
    OBVIOUS
  <2>4. v = IF i = 0 THEN MarkForClose(s, i, {c}) ELSE SendIn(s, i, b)
    BY ONLY <2>1, <2>2, <2>3, <1>8, v = GotDestroyBwd(t, i, c, k) DEF GotDestroyBwd
  <2>5. cs \in SUBSET Circuits /\ c \in cs /\ \A d \in Circuits : d # c => d \notin cs
    BY <2>1, <1>3
  <2>6. /\ IsWorld(s) /\ s.conn = t.conn
        /\ \A d \in Circuits : \A m :
              /\ d \in cs => ZNode(View(t, d, m), View(s, d, m), i, CutN(t.circ[i][d]))
              /\ d \notin cs => View(s, d, m) = View(t, d, m)
    BY ONLY <2>2, <2>5, <1>3, <1>4, UnlinkNView
  <2>7. PICK a : a = CutN(x)
    OBVIOUS
  <2>8. NodeStep(t, s, i, c, a)
    <3>1. \A m : ZNode(View(t, c, m), View(s, c, m), i, a)
      BY ONLY <2>5, <2>6, <2>7, <1>3, <1>6
    <3>2. \A d \in Circuits : d # c => \A m : View(s, d, m) = View(t, d, m)
      BY ONLY <2>5, <2>6
    <3>3. s.circ[i][c] = a
      <4>1. PICK q : q = View(s, c, 0)
        OBVIOUS
      <4>2. ZNode(View(t, c, 0), q, i, a)
        BY ONLY <3>1, <4>1
      <4>3. q.node[i] = a
        BY ONLY <4>2 DEF ZNode
      <4>4. q.node[i] = s.circ[i][c]
        BY ONLY <4>1, <1>3, ViewAt
      <4> QED
        BY ONLY <4>3, <4>4
    <3> QED
      BY ONLY <2>6, <3>1, <3>2, <3>3 DEF NodeStep
  <2>9. /\ a \in CircsOf(c)
        /\ i = 0 => Unlinks(x, a, i, c)
        /\ i # 0 => Unlinks(x, InRec(a, b), i, c)
    BY ONLY <2>3, <2>7, <1>3, <1>6, CutRecs
  <2>10. x.n = k /\ ~ x.marked
    BY ONLY <1>6, <1>8 DEF FromAhead
  <2>11. Up(x)
    BY ONLY <2>10, <1>3, <1>4, <1>5, k \in Conns, FoundUp
  <2>12. Shares(z, l, k)
    BY ONLY <2>10, <2>11, <1>5, i = l - 1 DEF Shares
  <2>13. CASE i = 0
    <3>1. PICK y : y = View(s, c, n[c])
      OBVIOUS
    <3>2. /\ Turn(z, y, i, l, k) /\ y.node[i] = a
          /\ Dropped(z.bwd[l][k], e, y.bwd[l][k]) /\ y.fwd[l][k] = z.fwd[l][k]
      BY ONLY <3>1, <2>8, <1>1, TookBwd(w, t, n, l, k, e, c), l \in Links, k \in Conns, BwdNode
    <3>3. ReadsDestroy(z, y, i, l, k, e)
      BY ONLY <3>2, e.cmd = "DESTROY", i = l - 1 DEF ReadsDestroy
    <3>4. Unlinks(z.node[i], y.node[i], i, c)
      BY ONLY <3>2, <2>9, <2>13, <1>5
    <3>5. MarkReady(y, i) /\ Up(y.node[i])
      BY ONLY <3>3, <3>4, <2>12, <2>13, <1>3, <1>4, l \in Links, k \in Conns, DestroyUnlinked, Zenon
    <3>6. \A d \in Circuits : d # c => Inv(View(s, d, n[d]))
      BY ONLY <2>5, <2>6, <1>4
    <3>7. v = MarkForClose(s, i, {c})
      BY ONLY <2>4, <2>13
    <3> QED
      BY ONLY <3>1, <3>5, <3>6, <3>7, <2>6, <1>3, MarkAfter
  <2>14. CASE i # 0
    <3>1. PICK u : u = InRec(a, b)
      OBVIOUS
    <3>2. b \in CellsOf(c)
      BY ONLY <2>3, <1>3, CellIs, ConstFacts DEF Commands
    <3>3. a = s.circ[i][c]
      BY ONLY <2>8 DEF NodeStep
    <3>4. v = SendIn(s, i, b)
      BY ONLY <2>4, <2>14
    <3>5. NodeStep(s, v, i, c, InRec(a, b))
      BY ONLY <3>2, <3>3, <3>4, <2>6, <1>3, FieldSteps
    <3>6. NodeStep(s, v, i, c, u)
      BY ONLY <3>1, <3>5
    <3>7. NodeStep(t, v, i, c, u)
      BY ONLY <3>6, <2>8, <1>3, NodeSteps
    <3>8. PICK y : y = View(v, c, n[c])
      OBVIOUS
    <3>9. /\ Turn(z, y, i, l, k) /\ y.node[i] = u
          /\ Dropped(z.bwd[l][k], e, y.bwd[l][k]) /\ y.fwd[l][k] = z.fwd[l][k]
          /\ Inv(y) => Sound(v, n)
      BY ONLY <3>7, <3>8, <1>1, TookBwd(w, t, n, l, k, e, c), l \in Links, k \in Conns, BwdNode
    <3>10. ReadsDestroy(z, y, i, l, k, e)
      BY ONLY <3>9, e.cmd = "DESTROY", i = l - 1 DEF ReadsDestroy
    <3>11. Unlinks(z.node[i], y.node[i], i, c)
      BY ONLY <3>1, <3>9, <2>9, <2>14, <1>5
    <3>12. Inv(y)
      BY ONLY <3>10, <3>11, <2>12, <2>14, <1>3, <1>4, l \in Links, k \in Conns, DestroyUnlinked
    <3> QED
      BY ONLY <3>9, <3>12
  <2> QED
    BY ONLY <2>13, <2>14
<1> QED
  BY ONLY <1>7, <1>8

\* What the origin does when a hop opens, field by field.
LEMMA OpenRecs ==
  ASSUME NEW c \in Circuits, NEW x \in CircsOf(c), NEW h \in Nodes, h = x.hops + 1,
         NEW b, b = Cell("EXTEND", c, h), NEW n, x.hops # n, NEW a, a = HopsRec(x, h)
  PROVE  /\ h = n => Opens(x, StateRec(a, "OPEN"), n, c)
         /\ h # n => Opens(x, OutRec(a, b), n, c)
<1>1. /\ a \in CircsOf(c) /\ a.hops = h /\ a.state = x.state /\ a.n = x.n /\ a.p = x.p
      /\ a.marked = x.marked /\ a.outq = x.outq /\ a.inq = x.inq
  BY ONLY x \in CircsOf(c), h \in Nodes, a = HopsRec(x, h) DEF HopsRec, CircsOf
<1>2. \A u \in CircsOf(c) :
        u = [state |-> u.state, n |-> u.n, p |-> u.p, marked |-> u.marked, hops |-> u.hops,
             outq |-> u.outq, inq |-> u.inq]
  BY ONLY c \in Circuits, RecordFields
<1>3. ASSUME h = n PROVE Opens(x, StateRec(a, "OPEN"), n, c)
  <2>1. PICK u : u = [x EXCEPT !.hops = h, !.state = "OPEN"]
    OBVIOUS
  <2>2. /\ u \in CircsOf(c) /\ u.hops = h /\ u.state = "OPEN" /\ u.n = x.n /\ u.p = x.p
        /\ u.marked = x.marked /\ u.outq = x.outq /\ u.inq = x.inq
    BY ONLY x \in CircsOf(c), h \in Nodes, <2>1, Zenon DEF CircsOf, CircStates
  <2>3. PICK s : s = StateRec(a, "OPEN")
    OBVIOUS
  <2>4. /\ s \in CircsOf(c) /\ s.hops = a.hops /\ s.state = "OPEN" /\ s.n = a.n /\ s.p = a.p
        /\ s.marked = a.marked /\ s.outq = a.outq /\ s.inq = a.inq
    BY ONLY <1>1, <2>3 DEF StateRec, CircsOf, CircStates
  <2>5. /\ u = [state |-> u.state, n |-> u.n, p |-> u.p, marked |-> u.marked, hops |-> u.hops,
                outq |-> u.outq, inq |-> u.inq]
        /\ s = [state |-> s.state, n |-> s.n, p |-> s.p, marked |-> s.marked, hops |-> s.hops,
                outq |-> s.outq, inq |-> s.inq]
    BY ONLY <1>2, <2>2, <2>4
  <2>6. s = u
    BY ONLY <1>1, <2>2, <2>4, <2>5
  <2>7. Opens(x, u, n, c)
    BY ONLY <2>1, <1>3, h = x.hops + 1, x.hops # n DEF Opens
  <2> QED
    BY ONLY <2>3, <2>6, <2>7
<1>4. ASSUME h # n PROVE Opens(x, OutRec(a, b), n, c)
  <2>1. PICK u : u = [x EXCEPT !.hops = h, !.outq = Append(x.outq, b)]
    OBVIOUS
  <2>2. b \in CellsOf(c)
    BY CellIs DEF Commands
  <2>3. Append(x.outq, b) \in Seq(CellsOf(c))
    BY ONLY <2>2, x \in CircsOf(c), c \in Circuits, RecordFields
  <2>4. /\ u \in CircsOf(c) /\ u.hops = h /\ u.state = x.state /\ u.n = x.n /\ u.p = x.p
        /\ u.marked = x.marked /\ u.outq = Append(x.outq, b) /\ u.inq = x.inq
    BY ONLY x \in CircsOf(c), h \in Nodes, <2>1, <2>3, Zenon DEF CircsOf
  <2>5. PICK s : s = OutRec(a, b)
    OBVIOUS
  <2>6. /\ s \in CircsOf(c) /\ s.hops = a.hops /\ s.state = a.state /\ s.n = a.n /\ s.p = a.p
        /\ s.marked = a.marked /\ s.outq = Append(a.outq, b) /\ s.inq = a.inq
    <3>1. PICK r \in Seq(CellsOf(c)) : r = Append(a.outq, b)
      BY ONLY <2>3, <1>1, Zenon
    <3>2. s = [a EXCEPT !.outq = r]
      BY ONLY <2>5, <3>1 DEF OutRec
    <3>3. /\ s \in CircsOf(c) /\ s.outq = r /\ s.inq = a.inq /\ s.state = a.state
          /\ s.n = a.n /\ s.p = a.p /\ s.marked = a.marked /\ s.hops = a.hops
      BY ONLY <3>2, r \in Seq(CellsOf(c)), <1>1, c \in Circuits, QueueFields
    <3> QED
      BY ONLY <3>1, <3>3
  <2>7. /\ u = [state |-> u.state, n |-> u.n, p |-> u.p, marked |-> u.marked, hops |-> u.hops,
                outq |-> u.outq, inq |-> u.inq]
        /\ s = [state |-> s.state, n |-> s.n, p |-> s.p, marked |-> s.marked, hops |-> s.hops,
                outq |-> s.outq, inq |-> s.inq]
    BY ONLY <1>2, <2>4, <2>6
  <2>8. s = u
    BY ONLY <1>1, <2>4, <2>6, <2>7
  <2>9. Opens(x, u, n, c)
    BY ONLY <2>1, <1>4, h = x.hops + 1, x.hops # n, b = Cell("EXTEND", c, h) DEF Opens
  <2> QED
    BY ONLY <2>5, <2>8, <2>9
<1> QED
  BY ONLY <1>3, <1>4

\* circuit_finish_handshake and circuit_send_next_onion_skin
LEMMA OpenStep ==
  ASSUME NEW t, IsWorld(t), NEW c \in Circuits, NEW x, x = t.circ[0][c], plan[c] \in Nodes,
         x.hops # plan[c], x.hops <= plan[c], NEW v, v = Handshake(t, c)
  PROVE  \E u : NodeStep(t, v, 0, c, u) /\ Opens(x, u, plan[c], c)
<1>1. x \in CircsOf(c) /\ 0 \in Nodes
  BY ConstFacts, Zenon DEF IsWorld, IsRow
<1>2. x.hops \in Nodes
  BY ONLY <1>1, c \in Circuits, RecordFields
<1>3. PICK h : h = x.hops + 1
  OBVIOUS
<1>4. h \in Nodes
  BY ONLY <1>2, <1>3, plan[c] \in Nodes, x.hops # plan[c], x.hops <= plan[c], ConstFacts DEF Nodes
<1>5. PICK o : o = ToHops(t, 0, c, h)
  OBVIOUS
<1>6. PICK a : a = HopsRec(x, h)
  OBVIOUS
<1>7. PICK b : b = Cell("EXTEND", c, h)
  OBVIOUS
<1>8. v = IF h = plan[c] THEN ToState(o, 0, c, "OPEN") ELSE SendOut(o, 0, b)
  BY ONLY <1>3, <1>5, <1>7, v = Handshake(t, c), x = t.circ[0][c], x.hops # plan[c]
     DEF Handshake, ToHops, ToState
<1>9. NodeStep(t, o, 0, c, a)
  BY ONLY <1>1, <1>4, <1>5, <1>6, IsWorld(t), c \in Circuits, x = t.circ[0][c], FieldSteps
<1>10. IsWorld(o) /\ a = o.circ[0][c]
  BY ONLY <1>9 DEF NodeStep
<1>11. /\ h = plan[c] => Opens(x, StateRec(a, "OPEN"), plan[c], c)
       /\ h # plan[c] => Opens(x, OutRec(a, b), plan[c], c)
  BY ONLY <1>1, <1>3, <1>4, <1>6, <1>7, c \in Circuits, x.hops # plan[c], OpenRecs
<1>12. b \in CellsOf(c)
  BY ONLY <1>4, <1>7, c \in Circuits, CellIs DEF Commands
<1>13. CASE h = plan[c]
  <2>1. v = ToState(o, 0, c, "OPEN") /\ "OPEN" \in CircStates
    BY ONLY <1>8, <1>13 DEF CircStates
  <2>2. NodeStep(o, v, 0, c, StateRec(a, "OPEN"))
    BY ONLY <2>1, <1>1, <1>10, c \in Circuits, FieldSteps
  <2>3. PICK u : u = StateRec(a, "OPEN")
    OBVIOUS
  <2>4. NodeStep(o, v, 0, c, u) /\ Opens(x, u, plan[c], c)
    BY ONLY <2>2, <2>3, <1>11, <1>13
  <2>5. NodeStep(t, v, 0, c, u)
    BY ONLY <2>4, <1>1, <1>9, c \in Circuits, NodeSteps
  <2> QED
    BY ONLY <2>4, <2>5
<1>14. CASE h # plan[c]
  <2>1. v = SendOut(o, 0, b)
    BY ONLY <1>8, <1>14
  <2>2. NodeStep(o, v, 0, c, OutRec(a, b))
    BY ONLY <2>1, <1>1, <1>10, <1>12, c \in Circuits, FieldSteps
  <2>3. PICK u : u = OutRec(a, b)
    OBVIOUS
  <2>4. NodeStep(o, v, 0, c, u) /\ Opens(x, u, plan[c], c)
    BY ONLY <2>2, <2>3, <1>11, <1>14
  <2>5. NodeStep(t, v, 0, c, u)
    BY ONLY <2>4, <1>1, <1>9, c \in Circuits, NodeSteps
  <2> QED
    BY ONLY <2>4, <2>5
<1> QED
  BY ONLY <1>13, <1>14

\* command_process_created_cell, and relay cells from ahead
LEMMA GotReplySound ==
  ASSUME NEW w, NEW t, NEW n, n = plan, NEW l \in Links, NEW k \in Conns, NEW e, NEW c,
         TookBwd(w, t, n, l, k, e, c), e.cmd \in InCmds, NEW i, i = l - 1,
         \A d \in Circuits : n[d] \in Nodes,
         NEW v, v = GotReply(t, i, e, k)
  PROVE  Sound(v, n)
<1>1. PICK z : z = View(w, c, n[c])
  OBVIOUS
<1>2. PICK p : p = View(t, c, n[c])
  OBVIOUS
<1>3. c \in Circuits /\ i \in Nodes /\ e.c = c
  BY TookCell, ConstFacts
<1>4. /\ IsWorld(t) /\ IsView(z, c) /\ Inv(z)
      /\ \A d \in Circuits : d # c => Inv(View(t, d, n[d]))
      /\ \A j \in Nodes : z.node[j] = t.circ[j][c] /\ p.node[j] = t.circ[j][c]
      /\ z.len = n[c]
  BY ONLY <1>1, <1>2, TookBwd(w, t, n, l, k, e, c), TookViews
<1>5. PICK x : x = z.node[i]
  OBVIOUS
<1>6. x = t.circ[i][c] /\ x = p.node[i]
  BY ONLY <1>3, <1>4, <1>5
<1>7. /\ Turn(z, p, i, l, k) /\ p.node[i] = z.node[i]
      /\ Dropped(z.bwd[l][k], e, p.bwd[l][k]) /\ p.fwd[l][k] = z.fwd[l][k]
      /\ Inv(p) => Sound(t, n)
  BY ONLY <1>1, <1>2, <1>3, TookBwd(w, t, n, l, k, e, c), l \in Links, k \in Conns, BwdGone
<1>8. ReadsReply(z, p, i, l, k, e)
  BY ONLY <1>7, e.cmd \in InCmds, i = l - 1 DEF ReadsReply
<1>9. (~ Shares(z, l, k) => Inv(p)) /\ (i = 0 => MarkReady(p, i))
  BY ONLY <1>7, <1>8, <1>3, <1>4, l \in Links, k \in Conns, ReplyDropped
<1>10. CASE ~ FromAhead(t, i, c, k)
  <2>1. v = t
    BY ONLY <1>3, <1>10, v = GotReply(t, i, e, k) DEF GotReply
  <2>2. ~ Shares(z, l, k)
    BY ONLY <1>5, <1>6, <1>10, i = l - 1, Zenon DEF FromAhead, Shares, Up
  <2> QED
    BY ONLY <2>1, <2>2, <1>7, <1>9
<1>11. CASE FromAhead(t, i, c, k)
  <2>1. x.n = k /\ ~ x.marked
    BY ONLY <1>6, <1>11 DEF FromAhead
  <2>2. Up(x)
    BY ONLY <2>1, <1>3, <1>4, <1>5, k \in Conns, FoundUp
  <2>3. Shares(z, l, k)
    BY ONLY <2>1, <2>2, <1>5, i = l - 1 DEF Shares
  <2>4. PICK b : b = Cell(IF e.cmd = "CREATED" THEN "EXTENDED" ELSE e.cmd, c, 0)
    OBVIOUS
  <2>5. \/ i = 0 /\ v = MarkForClose(t, i, {c})
        \/ i = 0 /\ e.cmd # "TRUNCATED" /\ x.hops # n[c] /\ v = Handshake(t, c)
        \/ i # 0 /\ v = SendIn(t, i, b)
    <3>1. \/ i = 0 /\ v = MarkForClose(t, 0, {c})
          \/ i = 0 /\ e.cmd # "TRUNCATED" /\ v = Handshake(t, c)
          \/ i # 0 /\ v = SendIn(t, i, b)
      BY ONLY <2>4, <1>3, <1>11, v = GotReply(t, i, e, k) DEF GotReply
    <3>2. t.circ[0][c].hops = plan[c] => Handshake(t, c) = MarkForClose(t, 0, {c})
      BY ONLY TRUE DEF Handshake
    <3>3. i = 0 => x.hops = t.circ[0][c].hops
      BY ONLY <1>6, Zenon
    <3> QED
      BY ONLY <3>1, <3>2, <3>3, n = plan
  <2>6. CASE i = 0 /\ v = MarkForClose(t, i, {c})
    <3>1. Up(p.node[i]) /\ MarkReady(p, i)
      BY ONLY <2>2, <2>6, <1>6, <1>9
    <3> QED
      BY ONLY <2>6, <3>1, <1>2, <1>3, <1>4, MarkAfter
  <2>7. CASE i = 0 /\ e.cmd # "TRUNCATED" /\ x.hops # n[c] /\ v = Handshake(t, c)
    <3>1. x.hops <= n[c]
      <4>1. NodeShape(z, i)
        BY ONLY <1>3, <1>4 DEF Inv, Shape
      <4> QED
        BY ONLY <4>1, <2>7, <1>4, <1>5 DEF NodeShape
    <3>2. n[c] \in Nodes
      BY ONLY <1>3, \A d \in Circuits : n[d] \in Nodes
    <3>3. /\ x = t.circ[0][c] /\ plan[c] \in Nodes /\ x.hops # plan[c] /\ x.hops <= plan[c]
          /\ v = Handshake(t, c)
      BY ONLY <3>1, <3>2, <2>7, <1>6, n = plan
    <3>4. \E u : NodeStep(t, v, 0, c, u) /\ Opens(x, u, plan[c], c)
      BY ONLY <3>3, <1>3, <1>4, OpenStep
    <3>5. PICK u : NodeStep(t, v, i, c, u) /\ Opens(x, u, z.len, c)
      BY ONLY <3>4, <2>7, <1>4, n = plan
    <3>6. PICK y : y = View(v, c, n[c])
      OBVIOUS
    <3>7. /\ Turn(z, y, i, l, k) /\ y.node[i] = u
          /\ Dropped(z.bwd[l][k], e, y.bwd[l][k]) /\ y.fwd[l][k] = z.fwd[l][k]
          /\ Inv(y) => Sound(v, n)
      BY ONLY <3>5, <3>6, <1>1, TookBwd(w, t, n, l, k, e, c), l \in Links, k \in Conns, BwdNode
    <3>8. ReadsReply(z, y, i, l, k, e)
      BY ONLY <3>7, e.cmd \in InCmds, i = l - 1 DEF ReadsReply
    <3>9. Opens(z.node[i], y.node[i], z.len, c) /\ z.len \in Nodes /\ i = 0 /\ e.cmd # "TRUNCATED"
      BY ONLY <3>2, <3>5, <3>7, <2>7, <1>4, <1>5
    <3>10. Inv(y)
      BY ONLY <3>8, <3>9, <2>3, <1>3, <1>4, l \in Links, k \in Conns, ReplyOpens
    <3> QED
      BY ONLY <3>7, <3>10
  <2>8. CASE i # 0 /\ v = SendIn(t, i, b)
    <3>1. b \in CellsOf(c) /\ b.cmd = IF e.cmd = "CREATED" THEN "EXTENDED" ELSE e.cmd
      <4>1. PICK m : m = IF e.cmd = "CREATED" THEN "EXTENDED" ELSE e.cmd
        OBVIOUS
      <4>2. m \in Commands
        BY ONLY <4>1, e.cmd \in InCmds DEF InCmds, Commands
      <4>3. b = Cell(m, c, 0) /\ 0 \in Nodes
        BY ONLY <4>1, <2>4, ConstFacts
      <4>4. b \in CellsOf(c) /\ b.cmd = m
        BY ONLY <4>2, <4>3, <1>3, CellIs
      <4> QED
        BY ONLY <4>1, <4>4
    <3>2. NodeStep(t, v, i, c, InRec(x, b))
      BY ONLY <3>1, <2>8, <1>3, <1>4, <1>6, FieldSteps
    <3>3. PICK u : u = InRec(x, b)
      OBVIOUS
    <3>4. NodeStep(t, v, i, c, u)
      BY ONLY <3>2, <3>3
    <3>5. PICK y : y = View(v, c, n[c])
      OBVIOUS
    <3>6. /\ Turn(z, y, i, l, k) /\ y.node[i] = u
          /\ Dropped(z.bwd[l][k], e, y.bwd[l][k]) /\ y.fwd[l][k] = z.fwd[l][k]
          /\ Inv(y) => Sound(v, n)
      BY ONLY <3>4, <3>5, <1>1, TookBwd(w, t, n, l, k, e, c), l \in Links, k \in Conns, BwdNode
    <3>7. ReadsReply(z, y, i, l, k, e)
      BY ONLY <3>6, e.cmd \in InCmds, i = l - 1 DEF ReadsReply
    <3>8. y.node[i] = [z.node[i] EXCEPT !.inq = Append(z.node[i].inq, b)]
      BY ONLY <3>3, <3>6, <1>5 DEF InRec
    <3>9. Inv(y)
      BY ONLY <3>1, <3>7, <3>8, <2>3, <2>8, <1>3, <1>4, l \in Links, k \in Conns, ReplyPassed
    <3> QED
      BY ONLY <3>6, <3>9
  <2> QED
    BY ONLY <2>5, <2>6, <2>7, <2>8
<1> QED
  BY ONLY <1>10, <1>11

\* A cell is read from ahead.
LEMMA RecvBwdSound ==
  ASSUME NEW w, NEW n, n = plan, Sound(w, n), \A d \in Circuits : n[d] \in Nodes,
         NEW l \in Links, NEW k \in Conns,
         w.conn[l][k].bwd # <<>>, NEW e, e = Head(w.conn[l][k].bwd), NEW t, t = TakeBwd(w, l, k),
         NEW v, v = IF e.cmd = "DESTROY" THEN GotDestroyBwd(t, l - 1, e.c, k)
                    ELSE GotReply(t, l - 1, e, k)
  PROVE  Sound(v, n)
<1>1. PICK c : c = e.c
  OBVIOUS
<1>2. TookBwd(w, t, n, l, k, e, e.c)
  BY ONLY Sound(w, n), l \in Links, k \in Conns, w.conn[l][k].bwd # <<>>,
          e = Head(w.conn[l][k].bwd), t = TakeBwd(w, l, k), TakeBwdHolds
<1>3. TookBwd(w, t, n, l, k, e, c)
  BY ONLY <1>1, <1>2
<1>4. e.cmd \in InCmds \/ e.cmd = "DESTROY"
  <2>1. PICK z : z = View(w, c, n[c])
    OBVIOUS
  <2>2. PICK p : p = View(t, c, n[c])
    OBVIOUS
  <2>3. c \in Circuits /\ IsView(z, c) /\ Inv(z)
    BY ONLY <2>1, <2>2, <1>3, TookViews
  <2>4. Dropped(z.bwd[l][k], e, p.bwd[l][k])
    <3>1. 0 \in Nodes
      BY ConstFacts
    <3> QED
      BY ONLY <3>1, <2>1, <2>2, <1>3, l \in Links, k \in Conns, BwdGone
  <2>5. z.bwd[l][k] \in Seq(CellsOf(c))
    BY ONLY <2>3, l \in Links, k \in Conns, ViewParts
  <2>6. Only(z.bwd[l][k], InCmds \cup {"DESTROY"})
    BY ONLY <2>3, l \in Links, k \in Conns, Zenon DEF Inv, Shape, LinkShape
  <2>7. e.cmd \in InCmds \cup {"DESTROY"}
    BY ONLY <2>4, <2>5, <2>6, DropCell
  <2> QED
    BY ONLY <2>7
<1>5. PICK i : i = l - 1
  OBVIOUS
<1>6. CASE e.cmd = "DESTROY"
  <2>1. v = GotDestroyBwd(t, i, c, k)
    BY <1>1, <1>5, <1>6
  <2> QED
    BY ONLY <2>1, <1>3, <1>5, <1>6, l \in Links, k \in Conns, GotDestroyBwdSound
<1>7. CASE e.cmd \in InCmds
  <2>1. v = GotReply(t, i, e, k)
    BY <1>5, <1>7 DEF InCmds
  <2> QED
    BY ONLY <2>1, <1>3, <1>5, <1>7, l \in Links, k \in Conns, n = plan,
            \A d \in Circuits : n[d] \in Nodes, GotReplySound
<1> QED
  BY ONLY <1>4, <1>6, <1>7

----------------------------------------------------------------------------
(* The specification.                                                      *)

\* The inductive invariant.
IInv == Sound(World, plan) /\ plan \in Plans /\ faults \in 0 .. MaxFaults

\* A step to a sound world keeps the inductive invariant.
LEMMA BecomesSound ==
  ASSUME NEW v, Becomes(v), Sound(v, plan), plan \in Plans, faults' \in 0 .. MaxFaults
  PROVE  IInv'
<1>1. v = [circ |-> v.circ, conn |-> v.conn, over |-> v.over]
  BY ONLY Sound(v, plan) DEF Sound, IsWorld
<1>2. circ' = v.circ /\ conn' = v.conn /\ overtaken' = v.over /\ plan' = plan
  BY ONLY Becomes(v) DEF Becomes
<1>3. World' = v
  BY ONLY <1>1, <1>2 DEF World
<1>4. Sound(World', plan')
  BY ONLY <1>2, <1>3, Sound(v, plan)
<1> QED
  BY ONLY <1>2, <1>4, plan \in Plans, faults' \in 0 .. MaxFaults DEF IInv

\* A circuit that does not exist yet.
Idle(z) ==
  /\ \A i \in Nodes : z.node[i] = NoCircuit
  /\ \A l \in Links, k \in Conns : /\ z.near[l][k] = "none" /\ z.far[l][k] = "none"
                                   /\ z.fwd[l][k] = <<>> /\ z.bwd[l][k] = <<>>

\* A circuit that does not exist yet satisfies its invariant.
LEMMA IdleInv ==
  ASSUME NEW z, Idle(z), z.len \in Nodes
  PROVE  Inv(z)
<1>1. \A i \in Nodes : /\ z.node[i] = NoCircuit /\ z.node[i].state = "none" /\ z.node[i].n = 0
                       /\ z.node[i].p = 0 /\ z.node[i].hops = 0 /\ ~ z.node[i].marked
                       /\ z.node[i].outq = <<>> /\ z.node[i].inq = <<>> /\ ~ Up(z.node[i])
  BY ONLY Idle(z) DEF Idle, NoCircuit, Up
<1>2. \A l \in Links, k \in Conns : /\ z.near[l][k] = "none" /\ z.far[l][k] = "none"
                                    /\ z.fwd[l][k] = <<>> /\ z.bwd[l][k] = <<>>
  BY ONLY Idle(z) DEF Idle
<1>3. /\ \A S : ~ Holds(<<>>, S) /\ Only(<<>>, S)
      /\ \A t : ~ Aims(<<>>, t)
      /\ One(<<>>) /\ ~ Ord(<<>>)
  BY EmptyQueue
<1>4. 0 \in Nodes /\ 0 <= z.len
  BY ConstFacts DEF Nodes
<1>5. Shape(z)
  <2>1. ASSUME NEW i \in Nodes PROVE NodeShape(z, i)
    <3>1. NoCircuit = [NoCircuit EXCEPT !.marked = NoCircuit.marked]
      BY ONLY TRUE, Zenon DEF NoCircuit
    <3>2. ~ NoCircuit.marked
      BY ONLY TRUE DEF NoCircuit
    <3>3. PICK x : x = z.node[i]
      OBVIOUS
    <3>4. /\ x = NoCircuit /\ x.state = "none" /\ x.n = 0 /\ x.p = 0 /\ x.hops = 0
          /\ ~ x.marked /\ x.outq = <<>> /\ x.inq = <<>> /\ x = [NoCircuit EXCEPT !.marked = x.marked]
      BY ONLY <3>1, <3>3, <1>1, i \in Nodes
    <3> QED
      BY ONLY <3>3, <3>4, <1>3, <1>4 DEF NodeShape
  <2>2. ASSUME NEW l \in Links, NEW k \in Conns PROVE LinkShape(z, l, k)
    BY ONLY <1>2, <1>3, l \in Links, k \in Conns DEF LinkShape
  <2> QED
    BY ONLY <2>1, <2>2 DEF Shape
<1>6. Ups(z) /\ Waiters(z)
  BY ONLY <1>1 DEF Ups, Waiters, NodeUp, Waiter
<1>7. Ones(z)
  BY ONLY <1>1, <1>2, <1>3 DEF Ones
<1>8. \A g \in Kinds : \A a \in Nodes : \A b \in Ks :
        At(z, g, a, b) => g = "origin" /\ a = 0 /\ b = 0
  <2>1. SUFFICES ASSUME NEW g \in Kinds, NEW a \in Nodes, NEW b \in Ks, At(z, g, a, b)
                 PROVE  g = "origin" /\ a = 0 /\ b = 0
    OBVIOUS
  <2>2. (a # 0 <=> a \in Links) /\ (b # 0 <=> b \in Conns)
    BY ConstFacts
  <2> QED
    BY ONLY <2>1, <2>2, <1>1, <1>2, <1>3, a \in Nodes DEF At
<1>9. CleanFrom(z, 1)
  <2>1. \A j \in Links : j \in Nodes /\ j - 1 \in Nodes
    BY ConstFacts
  <2> QED
    BY ONLY <2>1, <1>1, <1>2 DEF CleanFrom, Clean
<1>10. Alone(z) /\ Frontier(z)
  <2>1. GoodAt(z, "origin", 0, 0)
    BY ONLY <1>9 DEF GoodAt
  <2> QED
    BY ONLY <2>1, <1>8, LoneToken
<1>11. Agree(z)
  <2>1. \A l \in Links : l \in Nodes /\ l - 1 \in Nodes
    BY ConstFacts
  <2>2. ASSUME NEW l \in Links, NEW k \in Conns
        PROVE  LinkA(z, l, k) /\ LinkB(z, l, k) /\ LinkC(z, l, k) /\ LinkD(z, l, k)
    BY ONLY <2>1, <1>1, <1>2, <1>3, l \in Links, k \in Conns
       DEF LinkA, LinkB, LinkC, LinkD, Kept, Shares
  <2>3. \A i \in Nodes : Late(z, i)
    BY ONLY <1>1 DEF Late
  <2> QED
    BY ONLY <2>2, <2>3 DEF Agree
<1>12. Chain(z)
  BY ONLY <1>1, <1>4 DEF Chain, Building, Up0
<1> QED
  BY ONLY <1>5, <1>6, <1>7, <1>10, <1>11, <1>12 DEF Inv

\* The length of a planned circuit.
LEMMA PlanLengths ==
  ASSUME plan \in Plans
  PROVE  \A d \in Circuits : plan[d] \in Nodes
BY ConstFacts

\* The inductive invariant holds at the start.
LEMMA InitSound ==
  ASSUME Init
  PROVE  IInv
<1>1. /\ plan \in Plans /\ faults = 0 /\ overtaken = {}
      /\ circ = [i \in Nodes |-> [c \in Circuits |-> NoCircuit]]
      /\ conn = [l \in Links |-> [k \in Conns |-> NoConn]]
  BY DEF Init
<1>2. PICK w : w = World
  OBVIOUS
<1>3. /\ w = [circ |-> w.circ, conn |-> w.conn, over |-> w.over]
      /\ w.circ = circ /\ w.conn = conn /\ w.over = overtaken
  BY <1>2 DEF World
<1>4. IsWorld(w)
  <2>1. ASSUME NEW c \in Circuits PROVE NoCircuit \in CircsOf(c)
    <3>1. 0 \in Ks /\ 0 \in Nodes /\ <<>> \in Seq(CellsOf(c))
      BY ConstFacts
    <3> QED
      BY ONLY <3>1 DEF NoCircuit, CircsOf, CircStates
  <2>2. \A i \in Nodes : circ[i] = [c \in Circuits |-> NoCircuit]
    BY ONLY <1>1
  <2>3. IsRow([c \in Circuits |-> NoCircuit])
    BY ONLY <2>1 DEF IsRow
  <2>4. \A i \in Nodes : IsRow(circ[i])
    BY ONLY <2>2, <2>3
  <2>5. circ = [i \in Nodes |-> circ[i]]
    BY ONLY <1>1
  <2>6. NoConn \in ConnRecs
    BY DEF NoConn, ConnRecs, NearStates, FarStates
  <2>7. conn \in [Links -> [Conns -> ConnRecs]]
    BY ONLY <2>6, <1>1
  <2>8. overtaken \subseteq Nodes \X Circuits
    BY <1>1
  <2> QED
    BY ONLY <1>3, <2>4, <2>5, <2>7, <2>8 DEF IsWorld
<1>5. ASSUME NEW c \in Circuits PROVE Inv(View(w, c, plan[c]))
  <2>1. PICK z : z = View(w, c, plan[c])
    OBVIOUS
  <2>2. plan[c] \in Nodes
    BY <1>1, PlanLengths
  <2>3. z.len = plan[c] /\ \A i \in Nodes : z.node[i] = w.circ[i][c]
    BY ONLY <2>1, ViewAt
  <2>4. \A l \in Links, k \in Conns :
          /\ z.near[l][k] = w.conn[l][k].near /\ z.far[l][k] = w.conn[l][k].far
          /\ z.fwd[l][k] = Keep(w.conn[l][k].fwd, CellsOf(c))
          /\ z.bwd[l][k] = Keep(w.conn[l][k].bwd, CellsOf(c))
    BY ONLY <2>1, ViewAt
  <2>5. \A l \in Links, k \in Conns : conn[l][k] = NoConn
    BY ONLY <1>1
  <2>6. \A i \in Nodes : circ[i][c] = NoCircuit
    BY ONLY <1>1, c \in Circuits
  <2>7. Keep(<<>>, CellsOf(c)) = <<>>
    BY KeepNothing
  <2>8. Idle(z)
    <3>1. \A l \in Links, k \in Conns :
            /\ w.conn[l][k].near = "none" /\ w.conn[l][k].far = "none"
            /\ w.conn[l][k].fwd = <<>> /\ w.conn[l][k].bwd = <<>>
      BY ONLY <2>5, <1>3 DEF NoConn
    <3> QED
      BY ONLY <3>1, <2>3, <2>4, <2>6, <2>7, <1>3 DEF Idle
  <2>9. Inv(z)
    BY ONLY <2>2, <2>3, <2>8, IdleInv
  <2> QED
    BY ONLY <2>1, <2>9
<1>6. Sound(w, plan)
  BY ONLY <1>4, <1>5 DEF Sound
<1>7. 0 \in 0 .. MaxFaults
  BY ConstFacts
<1> QED
  BY ONLY <1>1, <1>2, <1>6, <1>7 DEF IInv

\* The world, by a name.
Before(w) == /\ w = World /\ Sound(w, plan) /\ w.circ = circ /\ w.conn = conn /\ w.over = overtaken
             /\ plan \in Plans /\ faults \in 0 .. MaxFaults

\* The world before a step, by a name.
LEMMA Start ==
  ASSUME IInv
  PROVE  \E w : Before(w)
<1>1. PICK w : w = World
  OBVIOUS
<1>2. w.circ = circ /\ w.conn = conn /\ w.over = overtaken
  BY ONLY <1>1 DEF World
<1>3. Sound(w, plan) /\ plan \in Plans /\ faults \in 0 .. MaxFaults
  BY ONLY <1>1, IInv DEF IInv
<1> QED
  BY ONLY <1>1, <1>2, <1>3 DEF Before

\* A fault more is still a number of faults.
LEMMA FaultCount ==
  ASSUME faults \in 0 .. MaxFaults,
         faults' = faults \/ (faults < MaxFaults /\ faults' = faults + 1)
  PROVE  faults' \in 0 .. MaxFaults
BY ConstFacts

\* connection_or_set_state_open keeps the inductive invariant.
LEMMA ConnOpensKeeps ==
  ASSUME IInv, NEW l \in Links, NEW k \in Conns, ConnOpens(l, k)
  PROVE  IInv'
<1>1. PICK w : Before(w)
  BY Start
<1>2. w = World /\ Sound(w, plan) /\ w.conn = conn /\ plan \in Plans /\ faults \in 0 .. MaxFaults
  BY ONLY <1>1 DEF Before
<1>3. PICK q : q = [w EXCEPT !.conn[l][k].near = "open", !.conn[l][k].far = "open"]
  OBVIOUS
<1>4. PICK v : v = NConnDone(q, l, k)
  OBVIOUS
<1>5. w.conn[l][k].near = "connecting" /\ Becomes(v) /\ faults' = faults
  BY <1>2, <1>3, <1>4 DEF ConnOpens
<1>6. PICK near \in {"open", "closing"} : near = "open"
  OBVIOUS
<1>7. /\ q = MoveConn(w, l, k, near, "open")
      /\ v = IF near = "open" THEN NConnDone(q, l, k) ELSE NConnFailed(q, l)
  BY ONLY <1>3, <1>4, <1>6 DEF MoveConn
<1>8. Sound(v, plan)
  <2>1. Sound(w, plan) /\ w.conn[l][k].near = "connecting"
    BY ONLY <1>2, <1>5
  <2>2. PICK n : n = plan
    OBVIOUS
  <2>3. Sound(w, n)
    BY ONLY <2>1, <2>2
  <2>4. Sound(v, n)
    BY ONLY <2>1, <2>3, <1>7, near \in {"open", "closing"}, l \in Links, k \in Conns, ConnectedSound
  <2> QED
    BY ONLY <2>2, <2>4
<1>9. faults' \in 0 .. MaxFaults
  BY ONLY <1>2, <1>5, FaultCount
<1> QED
  BY ONLY <1>2, <1>5, <1>8, <1>9, BecomesSound

\* A new connection to an entry guard that is refused keeps the inductive invariant.
LEMMA GuardRefusedKeeps ==
  ASSUME IInv, NEW k \in Conns, GuardRefused(k)
  PROVE  IInv'
<1>1. PICK w : Before(w)
  BY Start
<1>2. w = World /\ Sound(w, plan) /\ w.conn = conn /\ plan \in Plans /\ faults \in 0 .. MaxFaults
  BY ONLY <1>1 DEF Before
<1>3. PICK l \in Links : l = 1
  BY ConstFacts DEF Links
<1>4. PICK q : q = [w EXCEPT !.conn[l][k].near = "closing", !.conn[l][k].far = "open"]
  OBVIOUS
<1>5. PICK v : v = NConnFailed(q, l)
  OBVIOUS
<1>6. /\ w.conn[l][k].near = "connecting" /\ Becomes(v)
      /\ faults < MaxFaults /\ faults' = faults + 1
  BY <1>2, <1>3, <1>4, <1>5 DEF GuardRefused
<1>7. PICK near \in {"open", "closing"} : near = "closing"
  OBVIOUS
<1>8. /\ q = MoveConn(w, l, k, near, "open")
      /\ v = IF near = "open" THEN NConnDone(q, l, k) ELSE NConnFailed(q, l)
  BY ONLY <1>4, <1>5, <1>7 DEF MoveConn
<1>9. Sound(v, plan)
  <2>1. Sound(w, plan) /\ w.conn[l][k].near = "connecting"
    BY ONLY <1>2, <1>6
  <2>2. PICK n : n = plan
    OBVIOUS
  <2>3. Sound(w, n)
    BY ONLY <2>1, <2>2
  <2>4. Sound(v, n)
    BY ONLY <2>1, <2>3, <1>8, near \in {"open", "closing"}, l \in Links, k \in Conns, ConnectedSound
  <2> QED
    BY ONLY <2>2, <2>4
<1>10. faults' \in 0 .. MaxFaults
  BY ONLY <1>2, <1>6, FaultCount
<1> QED
  BY ONLY <1>2, <1>6, <1>9, <1>10, BecomesSound

\* Only the variables change that an action names.
LEMMA BecomesNew ==
  ASSUME NEW w, Before(w), NEW v, v = [circ |-> circ', conn |-> conn', over |-> overtaken'],
         plan' = plan
  PROVE  Becomes(v)
BY DEF Becomes

\* A connection marked for close keeps the inductive invariant.
LEMMA ConnMarkedKeeps ==
  ASSUME IInv, NEW l \in Links, NEW k \in Conns, ConnMarked(l, k)
  PROVE  IInv'
<1>1. PICK w : Before(w)
  BY Start
<1>2. /\ w = World /\ Sound(w, plan) /\ w.conn = conn /\ w.circ = circ /\ w.over = overtaken
      /\ plan \in Plans /\ faults \in 0 .. MaxFaults
  BY ONLY <1>1 DEF Before
<1>3. plan' = plan /\ circ' = circ /\ overtaken' = overtaken
  BY DEF ConnMarked
<1>4. PICK near : /\ conn' = [conn EXCEPT ![l][k].near = near]
                  /\ \/ conn[l][k].near = "connecting" /\ near = "dying"
                     \/ conn[l][k].near = "open" /\ near = "closing"
  BY DEF ConnMarked
<1>5. faults' = faults \/ (faults < MaxFaults /\ faults' = faults + 1)
  BY DEF ConnMarked
<1>6. PICK v : v = [circ |-> circ', conn |-> conn', over |-> overtaken']
  BY Zenon
<1>7. v = [circ |-> w.circ, conn |-> [w.conn EXCEPT ![l][k].near = near], over |-> w.over]
  BY ONLY <1>2, <1>3, <1>4, <1>6
<1>8. Sound(v, plan)
  BY ONLY <1>2, <1>4, <1>7, l \in Links, k \in Conns, MarkedSound
<1>9. Becomes(v)
  BY ONLY <1>1, <1>3, <1>6, BecomesNew
<1>10. faults' \in 0 .. MaxFaults
  BY ONLY <1>2, <1>5, FaultCount
<1> QED
  BY ONLY <1>2, <1>8, <1>9, <1>10, BecomesSound

\* connection_about_to_close_connection keeps the inductive invariant.
LEMMA ConnClosesKeeps ==
  ASSUME IInv, NEW l \in Links, NEW k \in Conns, ConnCloses(l, k)
  PROVE  IInv'
<1>1. PICK w : Before(w)
  BY Start
<1>2. w = World /\ Sound(w, plan) /\ w.conn = conn /\ plan \in Plans /\ faults \in 0 .. MaxFaults
  BY ONLY <1>1 DEF Before
<1>3. PICK q : q = ShutNear(w, l, k)
  OBVIOUS
<1>4. PICK v : v = UnlinkAllN(IF w.conn[l][k].near = "dying" THEN NConnFailed(q, l) ELSE q, l, k)
  OBVIOUS
<1>5. w.conn[l][k].near \in {"dying", "closing"} /\ Becomes(v) /\ faults' = faults
  BY <1>2, <1>3, <1>4 DEF ConnCloses, ShutNear
<1>6. Sound(v, plan)
  BY ONLY <1>2, <1>3, <1>4, <1>5, l \in Links, k \in Conns, CloseSound
<1>7. faults' \in 0 .. MaxFaults
  BY ONLY <1>2, <1>5, FaultCount
<1> QED
  BY ONLY <1>2, <1>5, <1>6, <1>7, BecomesSound

\* The far side closing its end keeps the inductive invariant.
LEMMA FarClosesKeeps ==
  ASSUME IInv, NEW l \in Links, NEW k \in Conns, FarCloses(l, k)
  PROVE  IInv'
<1>1. PICK w : Before(w)
  BY Start
<1>2. w = World /\ Sound(w, plan) /\ w.conn = conn /\ plan \in Plans /\ faults \in 0 .. MaxFaults
  BY ONLY <1>1 DEF Before
<1>3. PICK q : q = ShutFar(w, l, k)
  OBVIOUS
<1>4. PICK v : v = UnlinkAllP(q, l, k)
  OBVIOUS
<1>5. /\ w.conn[l][k].far = "open" /\ w.conn[l][k].near \in {"open", "closing", "closed"}
      /\ faults' = faults \/ (faults < MaxFaults /\ faults' = faults + 1)
  BY <1>2 DEF FarCloses
<1>6. Becomes(v)
  BY <1>2, <1>3, <1>4 DEF FarCloses, ShutFar
<1>7. Sound(v, plan)
  BY ONLY <1>2, <1>3, <1>4, <1>5, l \in Links, k \in Conns, FarSound
<1>8. faults' \in 0 .. MaxFaults
  BY ONLY <1>2, <1>5, FaultCount
<1> QED
  BY ONLY <1>2, <1>6, <1>7, <1>8, BecomesSound

\* Processing a cell that goes towards the exit keeps the inductive invariant.
LEMMA RecvFwdKeeps ==
  ASSUME IInv, NEW l \in Links, NEW k \in Conns, RecvFwd(l, k)
  PROVE  IInv'
<1>1. PICK w : Before(w)
  BY Start
<1>2. w = World /\ Sound(w, plan) /\ w.conn = conn /\ plan \in Plans /\ faults \in 0 .. MaxFaults
  BY ONLY <1>1 DEF Before
<1>3. PICK e : e = Head(w.conn[l][k].fwd)
  OBVIOUS
<1>4. PICK t : t = TakeFwd(w, l, k)
  OBVIOUS
<1>5. w.conn[l][k].far = "open" /\ w.conn[l][k].fwd # <<>> /\ faults' = faults
  BY <1>2 DEF RecvFwd
<1>6. PICK v \in CASE e.cmd \in {"CREATE", "CREATE_FAST"} -> GotCreate(t, l, e, k)
                   [] e.cmd = "DESTROY" -> {GotDestroyFwd(t, l, e.c, k)}
                   [] e.cmd = "EXTEND" -> GotExtend(t, l, e, k) : Becomes(v)
  BY <1>2, <1>3, <1>4, Zenon DEF RecvFwd, TakeFwd
<1>7. Sound(v, plan)
  BY ONLY <1>2, <1>3, <1>4, <1>5, <1>6, l \in Links, k \in Conns, RecvFwdSound, Zenon
<1>8. faults' \in 0 .. MaxFaults
  BY ONLY <1>2, <1>5, FaultCount
<1> QED
  BY ONLY <1>2, <1>6, <1>7, <1>8, BecomesSound

\* Processing a cell that goes towards the origin keeps the inductive invariant.
LEMMA RecvBwdKeeps ==
  ASSUME IInv, NEW l \in Links, NEW k \in Conns, RecvBwd(l, k)
  PROVE  IInv'
<1>1. PICK w : Before(w)
  BY Start
<1>2. w = World /\ Sound(w, plan) /\ w.conn = conn /\ plan \in Plans /\ faults \in 0 .. MaxFaults
  BY ONLY <1>1 DEF Before
<1>3. PICK e : e = Head(w.conn[l][k].bwd)
  OBVIOUS
<1>4. PICK t : t = TakeBwd(w, l, k)
  OBVIOUS
<1>5. w.conn[l][k].bwd # <<>> /\ faults' = faults
  BY <1>2 DEF RecvBwd
<1>6. PICK v : v = IF e.cmd = "DESTROY" THEN GotDestroyBwd(t, l - 1, e.c, k)
                   ELSE GotReply(t, l - 1, e, k)
  OBVIOUS
<1>7. Becomes(v)
  BY <1>2, <1>3, <1>4, <1>6 DEF RecvBwd, TakeBwd
<1>8. PICK n : n = plan
  OBVIOUS
<1>9. \A d \in Circuits : n[d] \in Nodes
  BY ONLY <1>2, <1>8, PlanLengths
<1>10. Sound(w, n)
  BY ONLY <1>2, <1>8
<1>11. Sound(v, n)
  BY ONLY <1>3, <1>4, <1>5, <1>6, <1>8, <1>9, <1>10, l \in Links, k \in Conns, RecvBwdSound
<1>12. faults' \in 0 .. MaxFaults /\ Sound(v, plan)
  BY ONLY <1>2, <1>5, <1>8, <1>11, FaultCount
<1> QED
  BY ONLY <1>2, <1>7, <1>12, BecomesSound

\* circuit_establish_circuit keeps the inductive invariant.
LEMMA EstablishKeeps ==
  ASSUME IInv, NEW c \in Circuits, Establish(c)
  PROVE  IInv'
<1>1. PICK w : Before(w)
  BY Start
<1>2. /\ w = World /\ Sound(w, plan) /\ w.circ = circ /\ plan \in Plans /\ faults \in 0 .. MaxFaults
  BY ONLY <1>1 DEF Before
<1>3. w.circ[0][c] = NoCircuit /\ faults' = faults
  BY <1>2 DEF Establish
<1>4. PICK v \in Extend(w, 0, c) : Becomes(v)
  BY <1>2 DEF Establish
<1>5. Sound(v, plan)
  BY ONLY <1>2, <1>3, v \in Extend(w, 0, c), c \in Circuits, EstablishSound
<1>6. faults' \in 0 .. MaxFaults
  BY ONLY <1>2, <1>3, FaultCount
<1> QED
  BY ONLY <1>2, <1>4, <1>5, <1>6, BecomesSound

\* circuit_expire_building keeps the inductive invariant.
LEMMA ExpireKeeps ==
  ASSUME IInv, NEW c \in Circuits, Expire(c)
  PROVE  IInv'
<1>1. PICK w : Before(w)
  BY Start
<1>2. /\ w = World /\ Sound(w, plan) /\ w.circ = circ /\ plan \in Plans /\ faults \in 0 .. MaxFaults
  BY ONLY <1>1 DEF Before
<1>3. Up(w.circ[0][c]) /\ faults' = faults
  BY <1>2 DEF Expire, Up
<1>4. PICK v : v = MarkForClose(w, 0, {c})
  OBVIOUS
<1>5. Becomes(v)
  BY <1>2, <1>4 DEF Expire
<1>6. 0 \in Nodes
  BY ConstFacts
<1>7. Sound(v, plan)
  BY ONLY <1>2, <1>3, <1>4, <1>6, c \in Circuits, MarkOneSound
<1>8. faults' \in 0 .. MaxFaults
  BY ONLY <1>2, <1>3, FaultCount
<1> QED
  BY ONLY <1>2, <1>5, <1>7, <1>8, BecomesSound

\* Sending a cell towards the exit keeps the inductive invariant.
LEMMA FlushOutKeeps ==
  ASSUME IInv, NEW i \in Nodes, NEW c \in Circuits, FlushOut(i, c)
  PROVE  IInv'
<1>1. PICK w : Before(w)
  BY Start
<1>2. /\ w = World /\ Sound(w, plan) /\ w.circ = circ /\ w.conn = conn /\ w.over = overtaken
      /\ plan \in Plans /\ faults \in 0 .. MaxFaults
  BY ONLY <1>1 DEF Before
<1>3. PICK x : x = w.circ[i][c]
  OBVIOUS
<1>4. /\ x.outq # <<>> /\ x.n # 0 /\ plan' = plan /\ overtaken' = overtaken /\ faults' = faults
      /\ circ' = [circ EXCEPT ![i][c].outq = Tail(@)]
      /\ conn' = [conn EXCEPT ![i + 1][x.n].fwd = Append(@, Head(x.outq))]
  BY <1>2, <1>3 DEF FlushOut
<1>5. PICK v : v = [circ |-> circ', conn |-> conn', over |-> overtaken']
  BY Zenon
<1>6. v = SentOut(w, i, c, x)
  BY ONLY <1>2, <1>4, <1>5, Zenon DEF SentOut
<1>7. Sound(v, plan)
  BY ONLY <1>2, <1>3, <1>4, <1>6, i \in Nodes, c \in Circuits, FlushOutSound, Zenon
<1>8. Becomes(v)
  BY ONLY <1>1, <1>4, <1>5, BecomesNew
<1>9. faults' \in 0 .. MaxFaults
  BY ONLY <1>2, <1>4, FaultCount
<1> QED
  BY ONLY <1>2, <1>7, <1>8, <1>9, BecomesSound

\* Sending a cell towards the origin keeps the inductive invariant.
LEMMA FlushInKeeps ==
  ASSUME IInv, NEW i \in Nodes, NEW c \in Circuits, FlushIn(i, c)
  PROVE  IInv'
<1>1. PICK w : Before(w)
  BY Start
<1>2. /\ w = World /\ Sound(w, plan) /\ w.circ = circ /\ w.conn = conn /\ w.over = overtaken
      /\ plan \in Plans /\ faults \in 0 .. MaxFaults
  BY ONLY <1>1 DEF Before
<1>3. PICK x : x = w.circ[i][c]
  OBVIOUS
<1>4. /\ x.inq # <<>> /\ x.p # 0 /\ plan' = plan /\ overtaken' = overtaken /\ faults' = faults
      /\ circ' = [circ EXCEPT ![i][c].inq = Tail(@)]
      /\ conn' = [conn EXCEPT ![i][x.p].bwd = Append(@, Head(x.inq))]
  BY <1>2, <1>3 DEF FlushIn
<1>5. PICK v : v = [circ |-> circ', conn |-> conn', over |-> overtaken']
  OBVIOUS
<1>6. v = SentIn(w, i, c, x)
  BY ONLY <1>2, <1>4, <1>5, Zenon DEF SentIn
<1>7. Sound(v, plan)
  BY ONLY <1>2, <1>3, <1>4, <1>6, i \in Nodes, c \in Circuits, FlushInSound, Zenon
<1>8. Becomes(v)
  BY ONLY <1>1, <1>4, <1>5, BecomesNew, Zenon
<1>9. faults' \in 0 .. MaxFaults
  BY ONLY <1>2, <1>4, FaultCount
<1> QED
  BY ONLY <1>2, <1>7, <1>8, <1>9, BecomesSound

\* The answer of a CPU worker keeps the inductive invariant.
LEMMA CpuAnswersKeeps ==
  ASSUME IInv, NEW i \in Nodes, NEW c \in Circuits, CpuAnswers(i, c)
  PROVE  IInv'
<1>1. PICK w : Before(w)
  BY Start
<1>2. w = World /\ Sound(w, plan) /\ w.circ = circ /\ plan \in Plans /\ faults \in 0 .. MaxFaults
  BY ONLY <1>1 DEF Before
<1>3. PICK v : Becomes(v) /\ (v = OnionskinAnswer(w, i, c) \/ v = MarkForClose(w, i, {c}))
  BY <1>2 DEF CpuAnswers
<1>4. /\ i # 0 /\ w.circ[i][c].state = "ONIONSKIN_PENDING" /\ Up(w.circ[i][c]) /\ faults' = faults
  BY <1>2 DEF CpuAnswers, Up
<1>5. i \in Links
  BY <1>4, ConstFacts
<1>6. Sound(v, plan)
  <2>1. CASE v = OnionskinAnswer(w, i, c)
    BY ONLY <2>1, <1>2, <1>4, <1>5, c \in Circuits, AnswerSound
  <2>2. CASE v = MarkForClose(w, i, {c})
    BY ONLY <2>2, <1>2, <1>4, i \in Nodes, c \in Circuits, MarkOneSound
  <2> QED
    BY ONLY <2>1, <2>2, <1>3
<1>7. faults' \in 0 .. MaxFaults
  BY ONLY <1>2, <1>4, FaultCount
<1> QED
  BY ONLY <1>2, <1>3, <1>6, <1>7, BecomesSound

\* circuit_close_all_marked keeps the inductive invariant.
LEMMA CloseAllMarkedKeeps ==
  ASSUME IInv, NEW i \in Nodes, CloseAllMarked(i)
  PROVE  IInv'
<1>1. PICK w : Before(w)
  BY Start
<1>2. /\ w = World /\ Sound(w, plan) /\ w.circ = circ /\ w.conn = conn /\ w.over = overtaken
      /\ plan \in Plans /\ faults \in 0 .. MaxFaults
  BY ONLY <1>1 DEF Before
<1>3. PICK f : f = [c \in Circuits |-> IF w.circ[i][c].marked THEN [NoCircuit EXCEPT !.marked = (i = 0)]
                                       ELSE w.circ[i][c]]
  BY Zenon
<1>4. /\ plan' = plan /\ conn' = conn /\ overtaken' = overtaken /\ faults' = faults
      /\ circ' = [circ EXCEPT ![i] = f]
  BY <1>2, <1>3 DEF CloseAllMarked
<1>5. PICK v : v = [circ |-> circ', conn |-> conn', over |-> overtaken']
  BY Zenon
<1>6. v = AtNode(w, i, f)
  BY ONLY <1>2, <1>4, <1>5 DEF AtNode
<1>7. \A d \in Circuits : plan[d] \in Nodes
  BY ONLY <1>2, PlanLengths
<1>8. Sound(v, plan)
  BY ONLY <1>2, <1>3, <1>6, <1>7, i \in Nodes, FreeSound
<1>9. Becomes(v)
  BY ONLY <1>1, <1>4, <1>5, BecomesNew
<1>10. faults' \in 0 .. MaxFaults
  BY ONLY <1>2, <1>4, FaultCount
<1> QED
  BY ONLY <1>2, <1>8, <1>9, <1>10, BecomesSound

\* The inductive invariant holds on every behaviour: whatever order cells, connection events,
\* CPU answers, expiries and frees come in, every circuit is at every node as the origin and
\* its relays have to take it to be.
THEOREM Inductive == Spec => []IInv
<1>1. Init => IInv
  BY InitSound
<1>2. IInv /\ [Next]_vars => IInv'
  <2>1. SUFFICES ASSUME IInv, [Next]_vars PROVE IInv'
    OBVIOUS
  <2>2. CASE UNCHANGED vars
    <3>1. /\ circ' = circ /\ conn' = conn /\ overtaken' = overtaken /\ plan' = plan
          /\ faults' = faults
      BY ONLY <2>2 DEF vars
    <3>2. PICK v : Before(v)
      BY ONLY <2>1, Start
    <3>3. /\ Sound(v, plan) /\ plan \in Plans /\ faults \in 0 .. MaxFaults
          /\ v.circ = circ /\ v.conn = conn /\ v.over = overtaken
      BY ONLY <3>2 DEF Before
    <3>4. Becomes(v) /\ faults' \in 0 .. MaxFaults
      BY ONLY <3>1, <3>3 DEF Becomes
    <3> QED
      BY ONLY <3>3, <3>4, BecomesSound
  <2>3. CASE Next
    <3>1. ASSUME NEW l \in Links, NEW k \in Conns, ConnOpens(l, k) PROVE IInv'
      BY ONLY <2>1, <3>1, l \in Links, k \in Conns, ConnOpensKeeps
    <3>2. ASSUME NEW l \in Links, NEW k \in Conns, ConnMarked(l, k) PROVE IInv'
      BY ONLY <2>1, <3>2, l \in Links, k \in Conns, ConnMarkedKeeps
    <3>3. ASSUME NEW l \in Links, NEW k \in Conns, ConnCloses(l, k) PROVE IInv'
      BY ONLY <2>1, <3>3, l \in Links, k \in Conns, ConnClosesKeeps
    <3>4. ASSUME NEW l \in Links, NEW k \in Conns, FarCloses(l, k) PROVE IInv'
      BY ONLY <2>1, <3>4, l \in Links, k \in Conns, FarClosesKeeps
    <3>5. ASSUME NEW l \in Links, NEW k \in Conns, RecvFwd(l, k) PROVE IInv'
      BY ONLY <2>1, <3>5, l \in Links, k \in Conns, RecvFwdKeeps
    <3>6. ASSUME NEW l \in Links, NEW k \in Conns, RecvBwd(l, k) PROVE IInv'
      BY ONLY <2>1, <3>6, l \in Links, k \in Conns, RecvBwdKeeps
    <3>7. ASSUME NEW k \in Conns, GuardRefused(k) PROVE IInv'
      BY ONLY <2>1, <3>7, k \in Conns, GuardRefusedKeeps
    <3>8. ASSUME NEW c \in Circuits, Establish(c) PROVE IInv'
      BY ONLY <2>1, <3>8, c \in Circuits, EstablishKeeps
    <3>9. ASSUME NEW c \in Circuits, Expire(c) PROVE IInv'
      BY ONLY <2>1, <3>9, c \in Circuits, ExpireKeeps
    <3>10. ASSUME NEW i \in Nodes, NEW c \in Circuits, FlushOut(i, c) PROVE IInv'
      BY ONLY <2>1, <3>10, i \in Nodes, c \in Circuits, FlushOutKeeps
    <3>11. ASSUME NEW i \in Nodes, NEW c \in Circuits, FlushIn(i, c) PROVE IInv'
      BY ONLY <2>1, <3>11, i \in Nodes, c \in Circuits, FlushInKeeps
    <3>12. ASSUME NEW i \in Nodes, NEW c \in Circuits, CpuAnswers(i, c) PROVE IInv'
      BY ONLY <2>1, <3>12, i \in Nodes, c \in Circuits, CpuAnswersKeeps
    <3>13. ASSUME NEW i \in Nodes, CloseAllMarked(i) PROVE IInv'
      BY ONLY <2>1, <3>13, i \in Nodes, CloseAllMarkedKeeps
    <3> QED
      BY ONLY <2>3, <3>1, <3>2, <3>3, <3>4, <3>5, <3>6, <3>7, <3>8, <3>9, <3>10, <3>11, <3>12, <3>13
         DEF Next
  <2> QED
    BY ONLY <2>1, <2>2, <2>3
<1> QED
  BY <1>1, <1>2, PTL DEF Spec

----------------------------------------------------------------------------
(* What the invariant says in terms of the variables.                      *)

\* The cells of circuit c on a queue of its own.
LEMMA OnQueue ==
  ASSUME NEW c \in Circuits, NEW q \in Seq(CellsOf(c)), NEW S
  PROVE  /\ On(q, c, S) # {} <=> Holds(q, S)
         /\ One(q) /\ S = Shaking => \A i, j \in On(q, c, S) : i = j
<1>1. \A j \in DOMAIN q : q[j] \in CellsOf(c)
  OBVIOUS
<1>2. \A j \in DOMAIN q : q[j].c = c
  BY ONLY <1>1 DEF CellsOf
<1>3. On(q, c, S) # {} <=> Holds(q, S)
  BY ONLY <1>2 DEF On, Holds
<1>4. One(q) /\ S = Shaking => \A i, j \in On(q, c, S) : i = j
  BY ONLY TRUE DEF One, On
<1> QED
  BY ONLY <1>3, <1>4

\* The cells of circuit c on a connection are those it sees there.
LEMMA OnWire ==
  ASSUME NEW c \in Circuits, NEW q \in Seq(AllCells), NEW S, NEW r, r = Keep(q, CellsOf(c))
  PROVE  /\ On(q, c, S) # {} <=> Holds(r, S)
         /\ One(r) /\ S = Shaking => \A i, j \in On(q, c, S) : i = j
<1>1. PICK P : P = Places(q, CellsOf(c))
  OBVIOUS
<1>2. /\ P \in SUBSET Int /\ IsFiniteSet(P) /\ P \subseteq 1..Len(q)
      /\ r \in Seq(AllCells) /\ Len(r) = Cardinality(P) /\ Cardinality(P) \in Nat
      /\ \A i \in P : Rank(P, i) \in 1..Cardinality(P) /\ r[Rank(P, i)] = q[i]
      /\ \A k \in 1..Cardinality(P) : \E i \in P : Rank(P, i) = k
  BY ONLY <1>1, q \in Seq(AllCells), r = Keep(q, CellsOf(c)), KeepAt
<1>3. \A i, j \in P : Rank(P, i) = Rank(P, j) => i = j
  BY ONLY <1>2, RankBijective
<1>4. DOMAIN r = 1..Cardinality(P)
  BY ONLY <1>2
<1>5. \A j \in DOMAIN q : j \in P <=> q[j].c = c
  <2>1. SUFFICES ASSUME NEW j \in DOMAIN q PROVE j \in P <=> q[j].c = c
    OBVIOUS
  <2>2. PICK e \in AllCells : e = q[j]
    OBVIOUS
  <2>3. e \in CellsOf(c) <=> c = e.c
    BY ONLY e \in AllCells, c \in Circuits, CellOwner
  <2> QED
    BY ONLY <1>1, <2>2, <2>3, j \in DOMAIN q DEF Places
<1>6. P \subseteq DOMAIN q
  BY ONLY <1>1 DEF Places
<1>7. On(q, c, S) # {} => Holds(r, S)
  <2>1. SUFFICES ASSUME NEW j \in On(q, c, S) PROVE Holds(r, S)
    OBVIOUS
  <2>2. j \in DOMAIN q /\ q[j].c = c /\ q[j].cmd \in S
    BY ONLY j \in On(q, c, S) DEF On
  <2>3. j \in P
    BY ONLY <2>2, <1>5
  <2>4. Rank(P, j) \in DOMAIN r /\ r[Rank(P, j)] = q[j]
    BY ONLY <2>3, <1>2, <1>4
  <2> QED
    BY ONLY <2>2, <2>4 DEF Holds
<1>8. Holds(r, S) => On(q, c, S) # {}
  <2>1. SUFFICES ASSUME NEW k \in DOMAIN r, r[k].cmd \in S PROVE On(q, c, S) # {}
    BY DEF Holds
  <2>2. PICK j \in P : Rank(P, j) = k
    BY ONLY k \in DOMAIN r, <1>2, <1>4
  <2>3. j \in DOMAIN q /\ q[j].c = c /\ q[j].cmd \in S
    BY ONLY <2>1, <2>2, <1>2, <1>5, <1>6
  <2> QED
    BY ONLY <2>3 DEF On
<1>9. ASSUME One(r), S = Shaking, NEW i \in On(q, c, S), NEW j \in On(q, c, S) PROVE i = j
  <2>1. /\ i \in DOMAIN q /\ q[i].c = c /\ q[i].cmd \in Shaking
        /\ j \in DOMAIN q /\ q[j].c = c /\ q[j].cmd \in Shaking
    BY ONLY <1>9, i \in On(q, c, S), j \in On(q, c, S) DEF On
  <2>2. i \in P /\ j \in P
    BY ONLY <2>1, <1>5
  <2>3. /\ Rank(P, i) \in DOMAIN r /\ r[Rank(P, i)] = q[i]
        /\ Rank(P, j) \in DOMAIN r /\ r[Rank(P, j)] = q[j]
    BY ONLY <2>2, <1>2, <1>4
  <2>4. Rank(P, i) = Rank(P, j)
    BY ONLY <2>1, <2>3, <1>9 DEF One
  <2> QED
    BY ONLY <2>2, <2>4, <1>3
<1> QED
  BY ONLY <1>7, <1>8, <1>9

\* What the view of a circuit says of the variables.
Shows(z, c) ==
  /\ Inv(z) /\ IsView(z, c) /\ z.len = plan[c]
  /\ \A i \in Nodes : z.node[i] = circ[i][c] /\ (i \in z.over <=> <<i, c>> \in overtaken)
  /\ \A i \in Nodes : \A S : On(circ[i][c].outq, c, S) # {} <=> Holds(z.node[i].outq, S)
  /\ \A i \in Nodes : \A S : On(circ[i][c].inq, c, S) # {} <=> Holds(z.node[i].inq, S)
  /\ \A l \in Links, k \in Conns : z.near[l][k] = conn[l][k].near /\ z.far[l][k] = conn[l][k].far
  /\ \A l \in Links, k \in Conns : \A S : On(conn[l][k].fwd, c, S) # {} <=> Holds(z.fwd[l][k], S)
  /\ \A l \in Links, k \in Conns : \A S : On(conn[l][k].bwd, c, S) # {} <=> Holds(z.bwd[l][k], S)

\* No queue holds two cells of a handshake.
Singles(c) ==
  /\ \A i \in Nodes : \A a, b \in On(circ[i][c].outq, c, Shaking) : a = b
  /\ \A i \in Nodes : \A a, b \in On(circ[i][c].inq, c, Shaking) : a = b
  /\ \A l \in Links, k \in Conns : \A a, b \in On(conn[l][k].fwd, c, Shaking) : a = b
  /\ \A l \in Links, k \in Conns : \A a, b \in On(conn[l][k].bwd, c, Shaking) : a = b

\* The view of a circuit shows the variables.
LEMMA ViewShows ==
  ASSUME IInv, NEW c \in Circuits
  PROVE  Singles(c) /\ \E z : Shows(z, c)
<1>1. PICK w : Before(w)
  BY Start
<1>2. Sound(w, plan) /\ w.circ = circ /\ w.conn = conn /\ w.over = overtaken
  BY ONLY <1>1 DEF Before
<1>3. PICK z : z = View(w, c, plan[c])
  OBVIOUS
<1>4. IsWorld(w) /\ IsView(z, c) /\ Inv(z)
  BY ONLY <1>2, <1>3, c \in Circuits, SoundViews
<1>5. /\ z.len = plan[c]
      /\ \A i \in Nodes : z.node[i] = circ[i][c] /\ (i \in z.over <=> <<i, c>> \in overtaken)
      /\ \A l \in Links, k \in Conns :
           /\ z.near[l][k] = conn[l][k].near /\ z.far[l][k] = conn[l][k].far
           /\ z.fwd[l][k] = Keep(conn[l][k].fwd, CellsOf(c))
           /\ z.bwd[l][k] = Keep(conn[l][k].bwd, CellsOf(c))
  BY ONLY <1>2, <1>3, ViewAt
<1>6. \A i \in Nodes : z.node[i].outq \in Seq(CellsOf(c)) /\ z.node[i].inq \in Seq(CellsOf(c))
  BY ONLY <1>4, c \in Circuits, ViewParts
<1>7. \A l \in Links, k \in Conns : conn[l][k].fwd \in Seq(AllCells) /\ conn[l][k].bwd \in Seq(AllCells)
  BY ONLY <1>2, <1>4 DEF IsWorld, ConnRecs
<1>8. Ones(z)
  BY ONLY <1>4 DEF Inv
<1>9. ASSUME NEW i \in Nodes
      PROVE  /\ \A S : On(circ[i][c].outq, c, S) # {} <=> Holds(z.node[i].outq, S)
             /\ \A S : On(circ[i][c].inq, c, S) # {} <=> Holds(z.node[i].inq, S)
             /\ \A a, b \in On(circ[i][c].outq, c, Shaking) : a = b
             /\ \A a, b \in On(circ[i][c].inq, c, Shaking) : a = b
  <2>1. PICK q \in Seq(CellsOf(c)) : q = z.node[i].outq
    BY ONLY <1>6, i \in Nodes
  <2>2. PICK r \in Seq(CellsOf(c)) : r = z.node[i].inq
    BY ONLY <1>6, i \in Nodes
  <2>3. circ[i][c].outq = q /\ circ[i][c].inq = r /\ One(q) /\ One(r)
    BY ONLY <2>1, <2>2, <1>5, <1>8, i \in Nodes, Zenon DEF Ones
  <2>4. /\ \A S : On(q, c, S) # {} <=> Holds(q, S)
        /\ \A S : On(r, c, S) # {} <=> Holds(r, S)
    BY ONLY q \in Seq(CellsOf(c)), r \in Seq(CellsOf(c)), c \in Circuits, OnQueue
  <2>5. /\ \A a, b \in On(q, c, Shaking) : a = b
        /\ \A a, b \in On(r, c, Shaking) : a = b
    BY ONLY <2>3, q \in Seq(CellsOf(c)), r \in Seq(CellsOf(c)), c \in Circuits, OnQueue
  <2> QED
    BY ONLY <2>1, <2>2, <2>3, <2>4, <2>5
<1>10. ASSUME NEW l \in Links, NEW k \in Conns
       PROVE  /\ \A S : On(conn[l][k].fwd, c, S) # {} <=> Holds(z.fwd[l][k], S)
              /\ \A S : On(conn[l][k].bwd, c, S) # {} <=> Holds(z.bwd[l][k], S)
              /\ \A a, b \in On(conn[l][k].fwd, c, Shaking) : a = b
              /\ \A a, b \in On(conn[l][k].bwd, c, Shaking) : a = b
  <2>1. PICK q \in Seq(AllCells) : q = conn[l][k].fwd
    BY ONLY <1>7, l \in Links, k \in Conns
  <2>2. PICK r \in Seq(AllCells) : r = conn[l][k].bwd
    BY ONLY <1>7, l \in Links, k \in Conns
  <2>3. PICK f : f = z.fwd[l][k]
    OBVIOUS
  <2>4. PICK g : g = z.bwd[l][k]
    OBVIOUS
  <2>5. One(f) /\ One(g) /\ f = Keep(q, CellsOf(c)) /\ g = Keep(r, CellsOf(c))
    BY ONLY <2>1, <2>2, <2>3, <2>4, <1>5, <1>8, l \in Links, k \in Conns DEF Ones
  <2>6. /\ \A S : On(q, c, S) # {} <=> Holds(f, S)
        /\ \A a, b \in On(q, c, Shaking) : a = b
    BY ONLY <2>5, q \in Seq(AllCells), c \in Circuits, OnWire
  <2>7. /\ \A S : On(r, c, S) # {} <=> Holds(g, S)
        /\ \A a, b \in On(r, c, Shaking) : a = b
    BY ONLY <2>5, r \in Seq(AllCells), c \in Circuits, OnWire
  <2> QED
    BY ONLY <2>1, <2>2, <2>3, <2>4, <2>6, <2>7
<1>11. Singles(c)
  BY ONLY <1>9, <1>10, Zenon DEF Singles
<1>12. Shows(z, c)
  BY ONLY <1>4, <1>5, <1>9, <1>10, Zenon DEF Shows
<1> QED
  BY ONLY <1>11, <1>12

\* A queue of cells of one circuit is a queue of cells.
LEMMA CellSeq ==
  ASSUME NEW T, T \subseteq AllCells, NEW q \in Seq(T)
  PROVE  \A j \in DOMAIN q : q[j] \in [cmd : Commands, c : Circuits, to : 0 .. PathLen]
<1>1. \A j \in DOMAIN q : q[j] \in AllCells
  OBVIOUS
<1> QED
  BY ONLY <1>1 DEF AllCells, Nodes

\* The inductive invariant gives the type invariant.
LEMMA TypeHolds ==
  ASSUME IInv
  PROVE  TypeOK
<1>1. PICK w : Before(w)
  BY Start
<1>2. /\ Sound(w, plan) /\ w.circ = circ /\ w.conn = conn /\ w.over = overtaken
      /\ plan \in Plans /\ faults \in 0 .. MaxFaults
  BY ONLY <1>1 DEF Before
<1>3. IsWorld(w)
  BY ONLY <1>2 DEF Sound
<1> DEFINE Cells == [cmd : Commands, c : Circuits, to : 0 .. PathLen]
           IsQueue(q) == \A j \in DOMAIN q : q[j] \in Cells
           Typed(i, c) ==
             LET x == circ[i][c]
             IN /\ x.state \in {"none", "OR_WAIT", "OPEN",
                                IF i = 0 THEN "BUILDING" ELSE "ONIONSKIN_PENDING"}
                /\ x.n \in 0 .. MaxConns /\ x.p \in 0 .. MaxConns
                /\ x.marked \in BOOLEAN /\ x.hops \in 0 .. (IF i = 0 THEN plan[c] ELSE 0)
                /\ IsQueue(x.outq) /\ IsQueue(x.inq)
           Wired(l, k) ==
             LET y == conn[l][k]
             IN /\ y.near \in {"none", "connecting", "dying", "open", "closing", "closed"}
                /\ y.far \in {"none", "open", "closed"}
                /\ IsQueue(y.fwd) /\ IsQueue(y.bwd)
<1>4. ASSUME NEW i \in Nodes, NEW c \in Circuits PROVE Typed(i, c)
  <2>1. PICK z : Shows(z, c)
    BY ONLY IInv, c \in Circuits, ViewShows
  <2>2. Inv(z) /\ IsView(z, c) /\ z.len = plan[c] /\ z.node[i] = circ[i][c]
    BY ONLY <2>1, i \in Nodes, Zenon DEF Shows
  <2>3. PICK x : x = circ[i][c]
    OBVIOUS
  <2>4. /\ x.state \in CircStates /\ x.n \in Ks /\ x.p \in Ks /\ x.marked \in BOOLEAN
        /\ x.hops \in Nodes /\ x.outq \in Seq(CellsOf(c)) /\ x.inq \in Seq(CellsOf(c))
    BY ONLY <2>2, <2>3, i \in Nodes, c \in Circuits, ViewParts
  <2>5. NodeShape(z, i)
    BY ONLY <2>2, i \in Nodes DEF Inv, Shape
  <2>6. /\ i = 0 => x.state # "ONIONSKIN_PENDING" /\ x.hops <= plan[c]
        /\ i # 0 => x.state # "BUILDING" /\ x.hops = 0
    BY ONLY <2>2, <2>3, <2>5 DEF NodeShape
  <2>7. plan[c] \in Nodes
    BY ONLY <1>2, c \in Circuits, PlanLengths
  <2>8. x.hops \in 0 .. (IF i = 0 THEN plan[c] ELSE 0)
    BY ONLY <2>4, <2>6, <2>7, ConstFacts DEF Nodes
  <2>9. x.state \in {"none", "OR_WAIT", "OPEN", IF i = 0 THEN "BUILDING" ELSE "ONIONSKIN_PENDING"}
    BY ONLY <2>4, <2>6 DEF CircStates
  <2>10. CellsOf(c) \subseteq AllCells
    BY CircuitCells
  <2>11. IsQueue(x.outq) /\ IsQueue(x.inq)
    <3>1. PICK T : T = CellsOf(c)
      OBVIOUS
    <3>2. T \subseteq AllCells /\ x.outq \in Seq(T) /\ x.inq \in Seq(T)
      BY ONLY <3>1, <2>4, <2>10
    <3> QED
      BY ONLY <3>2, CellSeq
  <2>12. x.n \in 0 .. MaxConns /\ x.p \in 0 .. MaxConns
    BY ONLY <2>4 DEF Ks
  <2> QED
    BY ONLY <2>3, <2>4, <2>8, <2>9, <2>11, <2>12
<1>5. ASSUME NEW l \in Links, NEW k \in Conns PROVE Wired(l, k)
  <2>1. PICK y \in ConnRecs : y = conn[l][k]
    BY ONLY <1>2, <1>3, l \in Links, k \in Conns DEF IsWorld
  <2>2. /\ y.near \in NearStates /\ y.far \in FarStates
        /\ y.fwd \in Seq(AllCells) /\ y.bwd \in Seq(AllCells)
    BY ONLY y \in ConnRecs DEF ConnRecs
  <2>3. IsQueue(y.fwd) /\ IsQueue(y.bwd)
    <3>1. AllCells \subseteq AllCells
      OBVIOUS
    <3> QED
      BY ONLY <3>1, <2>2, CellSeq
  <2> QED
    BY ONLY <2>1, <2>2, <2>3 DEF NearStates, FarStates
<1>6. overtaken \subseteq Nodes \X Circuits
  BY ONLY <1>2, <1>3 DEF IsWorld
<1> QED
  BY <1>2, <1>4, <1>5, <1>6 DEF TypeOK

\* Circuits, connections and their queues have their types on every behaviour.
THEOREM TypeCorrect == Spec => []TypeOK
<1>1. IInv => TypeOK
  BY TypeHolds
<1> QED
  BY <1>1, Inductive, PTL

\* The inductive invariant leaves no circuit to wait for nothing.
LEMMA WaitersHold ==
  ASSUME IInv
  PROVE  WaitersHaveConn
<1>1. SUFFICES ASSUME NEW i \in 0 .. PathLen - 1, NEW c \in Circuits,
                      Live(i, c), circ[i][c].state = "OR_WAIT"
               PROVE  \E k \in Conns : conn[i + 1][k].near \in {"connecting", "dying"}
  BY DEF WaitersHaveConn
<1>2. PICK z : Shows(z, c)
  BY ONLY IInv, c \in Circuits, ViewShows
<1>3. i \in Nodes /\ i # PathLen /\ i + 1 \in Links
  BY ConstFacts DEF Nodes, Links
<1>4. /\ Inv(z) /\ z.node[i] = circ[i][c]
      /\ \A k \in Conns : z.near[i + 1][k] = conn[i + 1][k].near
  BY ONLY <1>2, <1>3, Zenon DEF Shows
<1>5. Waiter(z, i)
  BY ONLY <1>3, <1>4 DEF Inv, Waiters
<1>6. Up(z.node[i]) /\ z.node[i].state = "OR_WAIT"
  BY ONLY <1>1, <1>4 DEF Live, Up
<1>7. \E k \in Conns : z.near[i + 1][k] \in {"connecting", "dying"}
  BY ONLY <1>3, <1>5, <1>6 DEF Waiter
<1> QED
  BY ONLY <1>4, <1>7

\* A circuit in CIRCUIT_STATE_OR_WAIT always has a connection to the node it is to be extended
\* to whose opening or closing will reach it through circuit_n_conn_done, however connections
\* are launched, shared, refused, marked and closed around it.
THEOREM WaitersServed == Spec => []WaitersHaveConn
<1>1. IInv => WaitersHaveConn
  BY WaitersHold
<1> QED
  BY <1>1, Inductive, PTL

\* The inductive invariant makes neighbours agree.
LEMMA AgreementHolds ==
  ASSUME IInv
  PROVE  NeighboursAgree
<1>1. SUFFICES ASSUME NEW l \in Links, NEW k \in Conns, NEW c \in Circuits
               PROVE  /\ Live(l, c) /\ circ[l][c].p = k =>
                           \/ Live(l - 1, c) /\ circ[l - 1][c].n = k
                           \/ On(conn[l][k].fwd, c, {"DESTROY"}) # {}
                           \/ conn[l][k].near = "closed"
                           \/ <<l - 1, c>> \in overtaken
                      /\ Live(l - 1, c) /\ circ[l - 1][c].n = k =>
                           \/ Live(l, c) /\ circ[l][c].p = k
                           \/ On(circ[l - 1][c].outq, c, Creates) # {}
                           \/ On(conn[l][k].fwd, c, Creates) # {}
                           \/ On(conn[l][k].bwd, c, {"DESTROY"}) # {}
                           \/ conn[l][k].far = "closed"
  BY Zenon DEF NeighboursAgree, Creates
<1>2. PICK z : Shows(z, c)
  BY ONLY IInv, c \in Circuits, ViewShows
<1>3. l \in Nodes /\ l - 1 \in Nodes
  BY ConstFacts
<1>4. LinkB(z, l, k) /\ LinkD(z, l, k)
  BY ONLY <1>2, l \in Links, k \in Conns DEF Shows, Inv, Agree
<1>5. /\ z.node[l] = circ[l][c] /\ z.node[l - 1] = circ[l - 1][c]
      /\ l - 1 \in z.over <=> <<l - 1, c>> \in overtaken
      /\ z.near[l][k] = conn[l][k].near /\ z.far[l][k] = conn[l][k].far
      /\ On(circ[l - 1][c].outq, c, Creates) # {} <=> Holds(z.node[l - 1].outq, Creates)
      /\ On(conn[l][k].fwd, c, {"DESTROY"}) # {} <=> Holds(z.fwd[l][k], {"DESTROY"})
      /\ On(conn[l][k].fwd, c, Creates) # {} <=> Holds(z.fwd[l][k], Creates)
      /\ On(conn[l][k].bwd, c, {"DESTROY"}) # {} <=> Holds(z.bwd[l][k], {"DESTROY"})
  BY ONLY <1>2, <1>3, l \in Links, k \in Conns, Zenon DEF Shows
<1>6. /\ Kept(z, l, k) <=> Live(l, c) /\ circ[l][c].p = k
      /\ Shares(z, l, k) <=> Live(l - 1, c) /\ circ[l - 1][c].n = k
  BY ONLY <1>5 DEF Kept, Shares, Live, Up
<1> QED
  BY ONLY <1>4, <1>5, <1>6 DEF LinkB, LinkD

\* Two neighbours agree about a circuit, or the news that they do not is on its way: a DESTROY
\* cell, or a closed connection.  The one exception is a CREATE cell that still waited when
\* circuit_mark_for_close sent its DESTROY past it.
THEOREM Agreement == Spec => []NeighboursAgree
<1>1. IInv => NeighboursAgree
  BY AgreementHolds
<1> QED
  BY <1>1, Inductive, PTL

\* Handshake h of circuit c is at place (g, a, b).
Spot(c, h, g, a, b) ==
  \/ g = "out" /\ b = 0 /\ \E j \in On(circ[a][c].outq, c, Shaking) : h = <<"out", a, j>>
  \/ g = "in" /\ b = 0 /\ \E j \in On(circ[a][c].inq, c, Shaking) : h = <<"in", a, j>>
  \/ /\ g = "fwd" /\ a \in Links /\ b \in Conns
     /\ \E j \in On(conn[a][b].fwd, c, Shaking) : h = <<"fwd", a, b, j>>
  \/ /\ g = "bwd" /\ a \in Links /\ b \in Conns
     /\ \E j \in On(conn[a][b].bwd, c, Shaking) : h = <<"bwd", a, b, j>>
  \/ /\ g = "relay" /\ b = 0 /\ a \in Links /\ h = <<"relay", a>> /\ Live(a, c)
     /\ circ[a][c].state \in {"OR_WAIT", "ONIONSKIN_PENDING"}

\* Every handshake is at a place.
LEMMA HandshakeSpots ==
  ASSUME NEW c \in Circuits, NEW h
  PROVE  h \in Handshakes(c) <=> \E g \in Kinds : \E a \in Nodes : \E b \in Ks : Spot(c, h, g, a, b)
<1> DEFINE A == UNION {{<<"out", i, j>> : j \in On(circ[i][c].outq, c, Shaking)} : i \in Nodes}
<1> DEFINE B == UNION {{<<"in", i, j>> : j \in On(circ[i][c].inq, c, Shaking)} : i \in Nodes}
<1> DEFINE C == UNION {UNION {{<<"fwd", l, k, j>> : j \in On(conn[l][k].fwd, c, Shaking)}
                                   : k \in Conns} : l \in Links}
<1> DEFINE D == UNION {UNION {{<<"bwd", l, k, j>> : j \in On(conn[l][k].bwd, c, Shaking)}
                                   : k \in Conns} : l \in Links}
<1> DEFINE E == {<<"relay", i>> : i \in {i \in Links : Live(i, c)
                           /\ circ[i][c].state \in {"OR_WAIT", "ONIONSKIN_PENDING"}}}
<1>6. Handshakes(c) = A \cup B \cup C \cup D \cup E
  BY ONLY TRUE DEF Handshakes, A, B, C, D, E
<1> HIDE DEF A, B, C, D, E
<1>7. h \in A <=> \E i \in Nodes : \E j \in On(circ[i][c].outq, c, Shaking) : h = <<"out", i, j>>
  BY ONLY TRUE DEF A
<1>8. h \in B <=> \E i \in Nodes : \E j \in On(circ[i][c].inq, c, Shaking) : h = <<"in", i, j>>
  BY ONLY TRUE DEF B
<1>9. h \in C <=> \E l \in Links : \E k \in Conns : \E j \in On(conn[l][k].fwd, c, Shaking) :
                    h = <<"fwd", l, k, j>>
  BY ONLY TRUE DEF C
<1>10. h \in D <=> \E l \in Links : \E k \in Conns : \E j \in On(conn[l][k].bwd, c, Shaking) :
                     h = <<"bwd", l, k, j>>
  BY ONLY TRUE DEF D
<1>11. h \in E <=> \E i \in Links : /\ h = <<"relay", i>> /\ Live(i, c)
                                    /\ circ[i][c].state \in {"OR_WAIT", "ONIONSKIN_PENDING"}
  BY ONLY TRUE DEF E
<1>12. Links \subseteq Nodes /\ Conns \subseteq Ks /\ 0 \in Ks
  BY ConstFacts
<1>13. h \in A => \E a \in Nodes : Spot(c, h, "out", a, 0)
  BY ONLY <1>7 DEF Spot
<1>14. h \in B => \E a \in Nodes : Spot(c, h, "in", a, 0)
  BY ONLY <1>8 DEF Spot
<1>15. h \in C => \E a \in Links : \E b \in Conns : Spot(c, h, "fwd", a, b)
  BY ONLY <1>9 DEF Spot
<1>16. h \in D => \E a \in Links : \E b \in Conns : Spot(c, h, "bwd", a, b)
  BY ONLY <1>10 DEF Spot
<1>17. h \in E => \E a \in Links : Spot(c, h, "relay", a, 0)
  BY ONLY <1>11 DEF Spot
<1>18. {"out", "in", "fwd", "bwd", "relay"} \subseteq Kinds
  BY DEF Kinds
<1>19. h \in Handshakes(c) => \E g \in Kinds : \E a \in Nodes : \E b \in Ks : Spot(c, h, g, a, b)
  BY ONLY <1>6, <1>12, <1>13, <1>14, <1>15, <1>16, <1>17, <1>18
<1>20. ASSUME NEW g \in Kinds, NEW a \in Nodes, NEW b \in Ks, Spot(c, h, g, a, b)
       PROVE  h \in Handshakes(c)
  <2>1. CASE g = "out"
    BY ONLY <2>1, <1>20, <1>6, <1>7, a \in Nodes DEF Spot
  <2>2. CASE g = "in"
    BY ONLY <2>2, <1>20, <1>6, <1>8, a \in Nodes DEF Spot
  <2>3. CASE g = "fwd"
    BY ONLY <2>3, <1>20, <1>6, <1>9 DEF Spot
  <2>4. CASE g = "bwd"
    BY ONLY <2>4, <1>20, <1>6, <1>10 DEF Spot
  <2>5. CASE g = "relay"
    BY ONLY <2>5, <1>20, <1>6, <1>11 DEF Spot
  <2> QED
    BY ONLY <2>1, <2>2, <2>3, <2>4, <2>5, <1>20 DEF Spot
<1> QED
  BY ONLY <1>19, <1>20

\* A handshake is where the view says it is.
LEMMA SpotPlace ==
  ASSUME NEW c \in Circuits, NEW z, Shows(z, c), NEW h, NEW g \in Kinds, NEW a \in Nodes, NEW b \in Ks,
         Spot(c, h, g, a, b)
  PROVE  At(z, g, a, b) /\ g # "origin"
<1>1. /\ z.node[a] = circ[a][c]
      /\ On(circ[a][c].outq, c, Shaking) # {} <=> Holds(z.node[a].outq, Shaking)
      /\ On(circ[a][c].inq, c, Shaking) # {} <=> Holds(z.node[a].inq, Shaking)
      /\ \A k \in Conns : a \in Links =>
           /\ On(conn[a][k].fwd, c, Shaking) # {} <=> Holds(z.fwd[a][k], Shaking)
           /\ On(conn[a][k].bwd, c, Shaking) # {} <=> Holds(z.bwd[a][k], Shaking)
  BY ONLY Shows(z, c), a \in Nodes, Zenon DEF Shows
<1>2. (a \in Links => a # 0) /\ (b \in Conns => b # 0)
  BY ConstFacts
<1>3. CASE g = "out"
  <2>1. b = 0 /\ On(circ[a][c].outq, c, Shaking) # {}
    BY ONLY <1>3, Spot(c, h, g, a, b) DEF Spot
  <2> QED
    BY ONLY <2>1, <1>1, <1>3 DEF At
<1>4. CASE g = "in"
  <2>1. b = 0 /\ On(circ[a][c].inq, c, Shaking) # {}
    BY ONLY <1>4, Spot(c, h, g, a, b) DEF Spot
  <2> QED
    BY ONLY <2>1, <1>1, <1>4 DEF At
<1>5. CASE g = "fwd"
  <2>1. a \in Links /\ b \in Conns /\ On(conn[a][b].fwd, c, Shaking) # {}
    BY ONLY <1>5, Spot(c, h, g, a, b) DEF Spot
  <2> QED
    BY ONLY <2>1, <1>1, <1>2, <1>5 DEF At
<1>6. CASE g = "bwd"
  <2>1. a \in Links /\ b \in Conns /\ On(conn[a][b].bwd, c, Shaking) # {}
    BY ONLY <1>6, Spot(c, h, g, a, b) DEF Spot
  <2> QED
    BY ONLY <2>1, <1>1, <1>2, <1>6 DEF At
<1>7. CASE g = "relay"
  <2>1. /\ b = 0 /\ a \in Links /\ Live(a, c)
        /\ circ[a][c].state \in {"OR_WAIT", "ONIONSKIN_PENDING"}
    BY ONLY <1>7, Spot(c, h, g, a, b) DEF Spot
  <2> QED
    BY ONLY <2>1, <1>1, <1>2, <1>7 DEF At, Live, Up
<1> QED
  BY ONLY <1>3, <1>4, <1>5, <1>6, <1>7, Spot(c, h, g, a, b) DEF Spot

\* A place that has the handshake is the spot of one.
LEMMA PlaceSpot ==
  ASSUME NEW c \in Circuits, NEW z, Shows(z, c), NEW g \in Kinds, NEW a \in Nodes, NEW b \in Ks,
         At(z, g, a, b), g # "origin"
  PROVE  \E h : Spot(c, h, g, a, b)
<1>1. /\ z.node[a] = circ[a][c]
      /\ On(circ[a][c].outq, c, Shaking) # {} <=> Holds(z.node[a].outq, Shaking)
      /\ On(circ[a][c].inq, c, Shaking) # {} <=> Holds(z.node[a].inq, Shaking)
      /\ \A k \in Conns : a \in Links =>
           /\ On(conn[a][k].fwd, c, Shaking) # {} <=> Holds(z.fwd[a][k], Shaking)
           /\ On(conn[a][k].bwd, c, Shaking) # {} <=> Holds(z.bwd[a][k], Shaking)
  BY ONLY Shows(z, c), a \in Nodes DEF Shows
<1>2. (a # 0 => a \in Links) /\ (b # 0 => b \in Conns)
  BY ConstFacts
<1>3. CASE g = "out"
  <2>1. b = 0 /\ On(circ[a][c].outq, c, Shaking) # {}
    BY ONLY <1>1, <1>3, At(z, g, a, b) DEF At
  <2>2. PICK j : j \in On(circ[a][c].outq, c, Shaking)
    BY ONLY <2>1
  <2>3. PICK h : h = <<"out", a, j>>
    BY Zenon
  <2>4. Spot(c, h, g, a, b)
    BY ONLY <2>1, <2>2, <2>3, <1>3 DEF Spot
  <2> QED
    BY ONLY <2>4
<1>4. CASE g = "in"
  <2>1. b = 0 /\ On(circ[a][c].inq, c, Shaking) # {}
    BY ONLY <1>1, <1>4, At(z, g, a, b) DEF At
  <2>2. PICK j : j \in On(circ[a][c].inq, c, Shaking)
    BY ONLY <2>1
  <2>3. PICK h : h = <<"in", a, j>>
    BY Zenon
  <2>4. Spot(c, h, g, a, b)
    BY ONLY <2>1, <2>2, <2>3, <1>4 DEF Spot
  <2> QED
    BY ONLY <2>4
<1>5. CASE g = "fwd"
  <2>1. a \in Links /\ b \in Conns /\ On(conn[a][b].fwd, c, Shaking) # {}
    BY ONLY <1>1, <1>2, <1>5, At(z, g, a, b) DEF At
  <2>2. PICK j : j \in On(conn[a][b].fwd, c, Shaking)
    BY ONLY <2>1
  <2>3. PICK h : h = <<"fwd", a, b, j>>
    BY Zenon
  <2>4. Spot(c, h, g, a, b)
    BY ONLY <2>1, <2>2, <2>3, <1>5 DEF Spot
  <2> QED
    BY ONLY <2>4
<1>6. CASE g = "bwd"
  <2>1. a \in Links /\ b \in Conns /\ On(conn[a][b].bwd, c, Shaking) # {}
    BY ONLY <1>1, <1>2, <1>6, At(z, g, a, b) DEF At
  <2>2. PICK j : j \in On(conn[a][b].bwd, c, Shaking)
    BY ONLY <2>1
  <2>3. PICK h : h = <<"bwd", a, b, j>>
    BY Zenon
  <2>4. Spot(c, h, g, a, b)
    BY ONLY <2>1, <2>2, <2>3, <1>6 DEF Spot
  <2> QED
    BY ONLY <2>4
<1>7. CASE g = "relay"
  <2>1. /\ b = 0 /\ a \in Links /\ Live(a, c)
        /\ circ[a][c].state \in {"OR_WAIT", "ONIONSKIN_PENDING"}
    BY ONLY <1>1, <1>2, <1>7, At(z, g, a, b) DEF At, Live, Up
  <2>2. PICK h : h = <<"relay", a>>
    BY Zenon
  <2>3. Spot(c, h, g, a, b)
    BY ONLY <2>1, <2>2, <1>7 DEF Spot
  <2> QED
    BY ONLY <2>3
<1> QED
  BY ONLY <1>3, <1>4, <1>5, <1>6, <1>7, g # "origin", g \in Kinds DEF Kinds

\* One place has one handshake.
LEMMA SpotOne ==
  ASSUME NEW c \in Circuits, Singles(c), NEW g \in Kinds, NEW a \in Nodes, NEW b \in Ks,
         NEW h, Spot(c, h, g, a, b), NEW f, Spot(c, f, g, a, b)
  PROVE  h = f
<1>1. CASE g = "out"
  <2>1. \A i, j \in On(circ[a][c].outq, c, Shaking) : i = j
    BY ONLY Singles(c), a \in Nodes DEF Singles
  <2> QED
    BY ONLY <2>1, <1>1, Spot(c, h, g, a, b), Spot(c, f, g, a, b) DEF Spot
<1>2. CASE g = "in"
  <2>1. \A i, j \in On(circ[a][c].inq, c, Shaking) : i = j
    BY ONLY Singles(c), a \in Nodes DEF Singles
  <2> QED
    BY ONLY <2>1, <1>2, Spot(c, h, g, a, b), Spot(c, f, g, a, b) DEF Spot
<1>3. CASE g = "fwd"
  <2>1. a \in Links /\ b \in Conns
    BY ONLY <1>3, Spot(c, h, g, a, b) DEF Spot
  <2>2. \A i, j \in On(conn[a][b].fwd, c, Shaking) : i = j
    BY ONLY Singles(c), <2>1 DEF Singles
  <2> QED
    BY ONLY <2>2, <1>3, Spot(c, h, g, a, b), Spot(c, f, g, a, b) DEF Spot
<1>4. CASE g = "bwd"
  <2>1. a \in Links /\ b \in Conns
    BY ONLY <1>4, Spot(c, h, g, a, b) DEF Spot
  <2>2. \A i, j \in On(conn[a][b].bwd, c, Shaking) : i = j
    BY ONLY Singles(c), <2>1 DEF Singles
  <2> QED
    BY ONLY <2>2, <1>4, Spot(c, h, g, a, b), Spot(c, f, g, a, b) DEF Spot
<1>5. CASE g = "relay"
  BY ONLY <1>5, Spot(c, h, g, a, b), Spot(c, f, g, a, b) DEF Spot
<1> QED
  BY ONLY <1>1, <1>2, <1>3, <1>4, <1>5, Spot(c, h, g, a, b) DEF Spot

\* There is a handshake somewhere.
Somewhere(z) == \E g \in Kinds : \E a \in Nodes : \E b \in Ks : At(z, g, a, b) /\ g # "origin"

\* A handshake within the chain is at a place.
LEMMA WithinAt ==
  ASSUME NEW c \in Circuits, NEW z, IsView(z, c), Up0(z), NEW m \in Nodes, Pre(z, m), Within(z, m)
  PROVE  Somewhere(z)
<1>1. /\ \A j \in Nodes : j <= m => Up(z.node[j])
      /\ \A j \in Links : j <= m => z.node[j - 1].n \in Conns
  BY ONLY c \in Circuits, IsView(z, c), Up0(z), m \in Nodes, Pre(z, m), PreUp
<1>2. /\ 0 \in Ks /\ Conns \subseteq Ks /\ Links \subseteq Nodes
      /\ (\A j \in Links : j # 0) /\ (\A k \in Conns : k # 0) /\ \A k \in Ks : k # 0 => k \in Conns
  BY ConstFacts
<1>3. {"out", "in", "fwd", "bwd", "relay"} \subseteq Kinds
  BY DEF Kinds
<1>4. ASSUME NEW g \in {"out", "in", "fwd", "bwd", "relay"}, NEW a \in Nodes, NEW b \in Ks, At(z, g, a, b)
      PROVE  Somewhere(z)
  <2>1. g \in Kinds /\ g # "origin"
    BY ONLY <1>3, g \in {"out", "in", "fwd", "bwd", "relay"}
  <2> QED
    BY ONLY <2>1, <1>4, a \in Nodes, b \in Ks DEF Somewhere
<1>5. ASSUME NEW i \in Nodes, i <= m,
             \/ Holds(z.node[i].outq, Shaking) \/ Holds(z.node[i].inq, Shaking)
             \/ i # 0 /\ z.node[i].state \in {"OR_WAIT", "ONIONSKIN_PENDING"}
      PROVE  Somewhere(z)
  <2>1. Up(z.node[i])
    BY ONLY <1>1, <1>5, i \in Nodes
  <2>2. At(z, "out", i, 0) \/ At(z, "in", i, 0) \/ At(z, "relay", i, 0)
    BY ONLY <2>1, <1>5 DEF At
  <2> QED
    BY ONLY <2>2, <1>2, <1>4, i \in Nodes
<1>6. ASSUME NEW l \in Links, l <= m,
             \/ Holds(z.fwd[l][z.node[l - 1].n], Shaking)
             \/ Holds(z.bwd[l][z.node[l - 1].n], Shaking)
      PROVE  Somewhere(z)
  <2>1. PICK k \in Conns : k = z.node[l - 1].n
    BY ONLY <1>1, <1>6, l \in Links
  <2>2. l # 0 /\ k # 0 /\ k \in Ks /\ l \in Nodes
    BY ONLY <1>2, l \in Links, k \in Conns
  <2>3. At(z, "fwd", l, k) \/ At(z, "bwd", l, k)
    BY ONLY <2>1, <2>2, <1>6 DEF At
  <2> QED
    BY ONLY <2>2, <2>3, <1>4
<1>7. ASSUME m < PathLen, z.node[m].n # 0, Holds(z.fwd[m + 1][z.node[m].n], Creates)
      PROVE  Somewhere(z)
  <2>1. PICK k \in Ks : k = z.node[m].n
    BY ONLY c \in Circuits, IsView(z, c), m \in Nodes, ViewParts
  <2>2. PICK l : l = m + 1
    OBVIOUS
  <2>3. l \in Nodes /\ l # 0 /\ k # 0
    BY <2>1, <2>2, <1>7, ConstFacts DEF Nodes
  <2>4. Holds(z.fwd[l][k], Shaking)
    <3>1. Creates \subseteq Shaking
      BY CommandsDiffer
    <3>2. Holds(z.fwd[l][k], Creates)
      BY ONLY <2>1, <2>2, <1>7
    <3> QED
      BY ONLY <3>1, <3>2 DEF Holds
  <2>5. At(z, "fwd", l, k)
    BY ONLY <2>3, <2>4 DEF At
  <2> QED
    BY ONLY <2>3, <2>5, <1>4, k \in Ks
<1> QED
  BY ONLY <1>5, <1>6, <1>7, Within(z, m) DEF Within

\* What a chain without a handshake has instead is bad news.
LEMMA NewsIsBad ==
  ASSUME NEW c \in Circuits, NEW z, Shows(z, c), Up0(z), NEW m \in Nodes, Pre(z, m), News(z, m)
  PROVE  BadNews(c)
<1>1. /\ IsView(z, c) /\ \A i \in Nodes : z.node[i] = circ[i][c]
      /\ \A i \in Nodes : \A S : On(circ[i][c].inq, c, S) # {} <=> Holds(z.node[i].inq, S)
      /\ \A l \in Links, k \in Conns : z.far[l][k] = conn[l][k].far
      /\ \A l \in Links, k \in Conns : \A S : On(conn[l][k].bwd, c, S) # {} <=> Holds(z.bwd[l][k], S)
  BY ONLY Shows(z, c), Zenon DEF Shows
<1>2. /\ \A j \in Nodes : j <= m => Up(z.node[j])
      /\ \A j \in Links : j <= m => z.node[j - 1].n \in Conns
  BY ONLY <1>1, c \in Circuits, Up0(z), m \in Nodes, Pre(z, m), PreUp
<1>3. World.circ = circ
  BY DEF World
<1>4. ASSUME NEW i \in Nodes, Holds(z.node[i].inq, {"TRUNCATED"})
      PROVE  BadNews(c)
  <2>1. On(circ[i][c].inq, c, {"TRUNCATED"}) # {}
    BY ONLY <1>1, <1>4, i \in Nodes, Zenon
  <2> QED
    BY ONLY <2>1, i \in Nodes DEF BadNews
<1>5. ASSUME NEW l \in Links, NEW k \in Conns, Up(z.node[l - 1]), z.node[l - 1].n = k,
             \/ Holds(z.bwd[l][k], {"DESTROY", "TRUNCATED"})
             \/ z.far[l][k] = "closed"
      PROVE  BadNews(c)
  <2>1. l - 1 \in Nodes
    BY ConstFacts
  <2>2. FromAhead(World, l - 1, c, k)
    BY ONLY <2>1, <1>1, <1>3, <1>5 DEF FromAhead, Up
  <2>3. On(conn[l][k].bwd, c, {"DESTROY", "TRUNCATED"}) # {} \/ conn[l][k].far = "closed"
    BY ONLY <1>1, <1>5, l \in Links, k \in Conns, Zenon
  <2> QED
    BY ONLY <2>2, <2>3, l \in Links, k \in Conns DEF BadNews
<1>6. \A q : Holds(q, {"TRUNCATED"}) \/ Holds(q, {"DESTROY"}) => Holds(q, {"DESTROY", "TRUNCATED"})
  BY ONLY TRUE DEF Holds
<1>7. ASSUME NEW l \in Links, l <= m, Holds(z.bwd[l][z.node[l - 1].n], {"TRUNCATED"})
      PROVE  BadNews(c)
  <2>1. PICK k \in Conns : k = z.node[l - 1].n
    BY ONLY <1>2, <1>7, l \in Links
  <2>2. Up(z.node[l - 1])
    <3>1. l - 1 \in Nodes /\ l - 1 <= m
      BY <1>7, ConstFacts DEF Nodes, Links
    <3> QED
      BY ONLY <3>1, <1>2
  <2>3. Holds(z.bwd[l][k], {"DESTROY", "TRUNCATED"})
    BY ONLY <2>1, <1>6, <1>7
  <2> QED
    BY ONLY <2>1, <2>2, <2>3, <1>5, l \in Links, k \in Conns
<1>8. ASSUME m < PathLen, z.node[m].n # 0,
             \/ Holds(z.bwd[m + 1][z.node[m].n], {"DESTROY"})
             \/ z.far[m + 1][z.node[m].n] = "closed"
      PROVE  BadNews(c)
  <2>1. PICK k \in Ks : k = z.node[m].n
    BY ONLY <1>1, c \in Circuits, m \in Nodes, ViewParts
  <2>2. PICK l \in Links : l = m + 1 /\ l - 1 = m
    BY <1>8, ConstFacts DEF Nodes, Links
  <2>3. k \in Conns
    BY ONLY <2>1, <1>8, k \in Ks, ConstFacts
  <2>4. Up(z.node[l - 1]) /\ z.node[l - 1].n = k
    <3>1. m <= m
      BY ConstFacts
    <3> QED
      BY ONLY <3>1, <2>1, <2>2, <1>2, m \in Nodes
  <2>5. Holds(z.bwd[l][k], {"DESTROY", "TRUNCATED"}) \/ z.far[l][k] = "closed"
    BY ONLY <2>1, <2>2, <1>6, <1>8
  <2> QED
    BY ONLY <2>3, <2>4, <2>5, <1>5, l \in Links
<1> QED
  BY ONLY <1>4, <1>7, <1>8, News(z, m) DEF News

\* The inductive invariant leaves one handshake to each circuit.
LEMMA HandshakeHolds ==
  ASSUME IInv
  PROVE  OneHandshake
<1>1. SUFFICES ASSUME NEW c \in Circuits, Live(0, c)
               PROVE  /\ circ[0][c].state = "BUILDING" =>
                           (\E h \in Handshakes(c) : Handshakes(c) = {h}) \/ BadNews(c)
                      /\ circ[0][c].state \in {"OR_WAIT", "OPEN"} => Handshakes(c) = {}
  BY DEF OneHandshake
<1>2. Singles(c) /\ \E z : Shows(z, c)
  BY ONLY IInv, c \in Circuits, ViewShows
<1>3. PICK z : Shows(z, c)
  BY ONLY <1>2
<1>4. 0 \in Nodes /\ 0 \in Ks /\ "origin" \in Kinds
  BY ConstFacts DEF Kinds
<1>5. Inv(z) /\ IsView(z, c) /\ z.node[0] = circ[0][c]
  BY ONLY <1>3, <1>4, Zenon DEF Shows
<1>6. Alone(z) /\ Chain(z)
  BY ONLY <1>5 DEF Inv
<1>7. Up0(z)
  BY ONLY <1>1, <1>5 DEF Up0, Up, Live
<1>8. \A h \in Handshakes(c) : \E g \in Kinds : \E a \in Nodes : \E b \in Ks :
        Spot(c, h, g, a, b) /\ At(z, g, a, b) /\ g # "origin"
  <2>1. SUFFICES ASSUME NEW h \in Handshakes(c)
                 PROVE  \E g \in Kinds : \E a \in Nodes : \E b \in Ks :
                          Spot(c, h, g, a, b) /\ At(z, g, a, b) /\ g # "origin"
    OBVIOUS
  <2>2. PICK g \in Kinds, a \in Nodes, b \in Ks : Spot(c, h, g, a, b)
    BY ONLY h \in Handshakes(c), c \in Circuits, HandshakeSpots
  <2>3. At(z, g, a, b) /\ g # "origin"
    BY ONLY <2>2, <1>3, g \in Kinds, a \in Nodes, b \in Ks, c \in Circuits, SpotPlace
  <2> QED
    BY ONLY <2>2, <2>3, g \in Kinds, a \in Nodes, b \in Ks
<1>9. ASSUME NEW h \in Handshakes(c), NEW f \in Handshakes(c) PROVE h = f
  <2>1. PICK g \in Kinds, a \in Nodes, b \in Ks : Spot(c, h, g, a, b) /\ At(z, g, a, b)
    BY ONLY <1>8, h \in Handshakes(c)
  <2>2. PICK s \in Kinds, d \in Nodes, e \in Ks : Spot(c, f, s, d, e) /\ At(z, s, d, e)
    BY ONLY <1>8, f \in Handshakes(c)
  <2>3. g = s /\ a = d /\ b = e
    BY ONLY <2>1, <2>2, <1>6, g \in Kinds, a \in Nodes, b \in Ks, s \in Kinds, d \in Nodes, e \in Ks
       DEF Alone
  <2>4. Spot(c, h, g, a, b) /\ Spot(c, f, g, a, b)
    BY ONLY <2>1, <2>2, <2>3
  <2> QED
    BY ONLY <2>4, <1>2, c \in Circuits, g \in Kinds, a \in Nodes, b \in Ks, SpotOne
<1>10. ASSUME circ[0][c].state = "BUILDING"
       PROVE  (\E h \in Handshakes(c) : Handshakes(c) = {h}) \/ BadNews(c)
  <2>1. Linked(z)
    BY ONLY <1>5, <1>6, <1>7, <1>10 DEF Chain, Building
  <2>2. PICK m \in Nodes : Pre(z, m) /\ (News(z, m) \/ Within(z, m))
    BY ONLY <2>1 DEF Linked
  <2>3. CASE News(z, m)
    <3>1. BadNews(c)
      BY ONLY <2>2, <2>3, <1>3, <1>7, m \in Nodes, c \in Circuits, NewsIsBad
    <3> QED
      BY ONLY <3>1
  <2>4. CASE Within(z, m)
    <3>1. Somewhere(z)
      BY ONLY <2>2, <2>4, <1>5, <1>7, m \in Nodes, c \in Circuits, WithinAt
    <3>2. PICK g \in Kinds, a \in Nodes, b \in Ks : At(z, g, a, b) /\ g # "origin"
      BY ONLY <3>1 DEF Somewhere
    <3>3. PICK h : Spot(c, h, g, a, b)
      BY ONLY <3>2, <1>3, c \in Circuits, g \in Kinds, a \in Nodes, b \in Ks, PlaceSpot
    <3>4. h \in Handshakes(c)
      BY ONLY <3>3, c \in Circuits, g \in Kinds, a \in Nodes, b \in Ks, HandshakeSpots
    <3>5. Handshakes(c) = {h}
      BY ONLY <3>4, <1>9
    <3> QED
      BY ONLY <3>4, <3>5
  <2> QED
    BY ONLY <2>2, <2>3, <2>4
<1>11. ASSUME circ[0][c].state \in {"OR_WAIT", "OPEN"} PROVE Handshakes(c) = {}
  <2>1. At(z, "origin", 0, 0)
    BY ONLY <1>5, <1>7, <1>11 DEF At, Up0
  <2>2. \A g \in Kinds : \A a \in Nodes : \A b \in Ks : At(z, g, a, b) => g = "origin"
    BY ONLY <2>1, <1>4, <1>6 DEF Alone
  <2>3. \A h : h \notin Handshakes(c)
    BY ONLY <2>2, <1>8
  <2> QED
    BY ONLY <2>3
<1> QED
  BY ONLY <1>10, <1>11

\* A circuit that circuit_send_next_onion_skin is building has exactly one handshake under way,
\* or bad news coming; one that waits for its first connection, or is open, has none.  So
\* circuit_finish_handshake meets the answer to the onionskin it sent last.
THEOREM HandshakeUnique == Spec => []OneHandshake
<1>1. IInv => OneHandshake
  BY HandshakeHolds
<1> QED
  BY <1>1, Inductive, PTL
=============================================================================
