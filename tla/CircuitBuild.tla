---------------------------- MODULE CircuitBuild ----------------------------
(***************************************************************************)
(* Building and tearing down circuits through a chain of nodes: the origin *)
(* 0 and the relays 1 .. PathLen (circuitbuild.c, command.c, circuitlist.c *)
(* and the OR connections of connection_or.c and connection.c that carry   *)
(* the cells).  Circuits take the same path, some stop earlier, so that    *)
(* they share connections, wait for them together and lose them together.  *)
(*                                                                         *)
(* Link l joins node l - 1, which launches its connections, to node l.     *)
(* Cells wait on the queue of their circuit (CellQueue models the order in *)
(* which a connection serves its circuits; here any order may happen) and  *)
(* then travel in order; DESTROY cells are put on the connection at once.  *)
(* The identity of the circuit stands for its circuit id on every link.    *)
(***************************************************************************)
EXTENDS Integers, Sequences, FiniteSets, SequencesExt

CONSTANTS
  Circuits,
  PathLen,           \* the longest path; 3 in the code
  Plans,             \* which circuits there are and how long (0: not launched)
  MaxConns,          \* connections launched on a link (bound)
  MaxFaults          \* open connections that break, and connects that fail (bound)

ASSUME CircuitBuildAssumption ==
  /\ {PathLen, MaxConns} \subseteq Nat \ {0} /\ MaxFaults \in Nat
  /\ Plans \subseteq [Circuits -> 0 .. PathLen] /\ IsFiniteSet(Circuits)

VARIABLES
  plan,              \* the lengths of the circuits' paths
  circ,              \* circ[i][c]: node i's circuit_t for c, see TypeOK
  conn,              \* conn[l][k]: the k-th or_connection_t of link l, both ends
  overtaken,         \* history: <<i, c>> whose DESTROY went ahead of its CREATE
  faults             \* history: faults so far

vars == <<plan, circ, conn, overtaken, faults>>

Nodes == 0 .. PathLen
Links == 1 .. PathLen
Conns == 1 .. MaxConns

\* Cells; "to" is the hop an EXTEND is encrypted for, 0 for the others.
Cell(cmd, c, to) == [cmd |-> cmd, c |-> c, to |-> to]
Commands == {"CREATE", "CREATE_FAST", "CREATED", "DESTROY",
             "EXTEND", "EXTENDED", "TRUNCATED"}

NoCircuit == [state |-> "none", n |-> 0, p |-> 0, marked |-> FALSE, hops |-> 0,
              outq |-> <<>>, inq |-> <<>>]
NoConn == [near |-> "none", far |-> "none", fwd |-> <<>>, bwd |-> <<>>]

TypeOK ==
  LET Cells == [cmd : Commands, c : Circuits, to : 0 .. PathLen]
      IsQueue(q) == \A j \in DOMAIN q : q[j] \in Cells
  IN /\ \A i \in Nodes, c \in Circuits :
          LET x == circ[i][c]
          IN /\ x.state \in {"none", "OR_WAIT", "OPEN",
                             IF i = 0 THEN "BUILDING" ELSE "ONIONSKIN_PENDING"}
             /\ x.n \in 0 .. MaxConns /\ x.p \in 0 .. MaxConns
             /\ x.marked \in BOOLEAN /\ x.hops \in 0 .. (IF i = 0 THEN plan[c] ELSE 0)
             /\ IsQueue(x.outq) /\ IsQueue(x.inq)
     /\ \A l \in Links, k \in Conns :
          LET y == conn[l][k]
          IN /\ y.near \in {"none", "connecting", "dying", "open", "closing", "closed"}
             /\ y.far \in {"none", "open", "closed"}
             /\ IsQueue(y.fwd) /\ IsQueue(y.bwd)
     /\ plan \in Plans
     /\ overtaken \subseteq Nodes \X Circuits
     /\ faults \in 0 .. MaxFaults

Init ==
  /\ plan \in Plans
  /\ circ = [i \in Nodes |-> [c \in Circuits |-> NoCircuit]]
  /\ conn = [l \in Links |-> [k \in Conns |-> NoConn]]
  /\ overtaken = {}
  /\ faults = 0

-----------------------------------------------------------------------------
(* A handler is a function of the world [circ, conn, over], so that one    *)
(* can call another.                                                       *)

World == [circ |-> circ, conn |-> conn, over |-> overtaken]

Becomes(w) == circ' = w.circ /\ conn' = w.conn /\ overtaken' = w.over /\ plan' = plan

\* circuit_get_by_circid_orconn, for cells from behind and from ahead.
FromBehind(w, i, c, k) == w.circ[i][c].p = k /\ ~ w.circ[i][c].marked
FromAhead(w, i, c, k) == w.circ[i][c].n = k /\ ~ w.circ[i][c].marked

\* append_cell_to_circuit_queue
SendOut(w, i, cell) == [w EXCEPT !.circ[i][cell.c].outq = Append(@, cell)]
SendIn(w, i, cell) == [w EXCEPT !.circ[i][cell.c].inq = Append(@, cell)]

HasCreate(q) == \E j \in DOMAIN q : q[j].cmd \in {"CREATE", "CREATE_FAST"}

\* One DESTROY for each of the circuits cs.
Destroys(cs) == [j \in 1 .. Cardinality(cs) |-> Cell("DESTROY", SetToSeq(cs)[j], 0)]

\* mutant: only the next hop is told
MarkForCloseAheadOnly(w, i, cs) ==
  [w EXCEPT !.circ[i] = [c \in Circuits |->
              IF c \in cs THEN [w.circ[i][c] EXCEPT !.marked = TRUE] ELSE w.circ[i][c]],
            !.conn = [l \in Links |-> [k \in Conns |->
              [w.conn[l][k] EXCEPT !.fwd = @ \o (IF l # i + 1 THEN <<>>
                 ELSE Destroys({c \in cs : ~ w.circ[i][c].marked /\ w.circ[i][c].n = k}))]]]]

\* circuit_mark_for_close, of all the circuits cs at node i: DESTROYs go to both
\* neighbours, past the queues.
MarkForClose(w, i, cs) ==
  LET gone == {c \in cs : ~ w.circ[i][c].marked}
      ahead(k) == Destroys({c \in gone : w.circ[i][c].n = k})
      behind(k) == Destroys({c \in gone : w.circ[i][c].p = k})
  IN [circ |-> [w.circ EXCEPT ![i] = [c \in Circuits |->
                  IF c \in cs THEN [w.circ[i][c] EXCEPT !.marked = TRUE] ELSE w.circ[i][c]]],
      conn |-> [l \in Links |-> [k \in Conns |->
                  [w.conn[l][k] EXCEPT !.fwd = @ \o (IF l = i + 1 THEN ahead(k) ELSE <<>>),
                                       !.bwd = @ \o (IF l = i THEN behind(k) ELSE <<>>)]]],
      over |-> w.over \cup {<<i, c>> : c \in {d \in gone : /\ w.circ[i][d].n # 0
                                                         /\ HasCreate(w.circ[i][d].outq)}}]

\* circuit_set_n_circid_orconn(circ, 0, NULL) and its twin, for the circuits cs; the
\* cells left on the queue have nowhere to go.
UnlinkN(w, i, cs) ==
  [w EXCEPT !.circ[i] = [c \in Circuits |->
     IF c \in cs THEN [w.circ[i][c] EXCEPT !.n = 0, !.outq = <<>>] ELSE w.circ[i][c]]]
UnlinkP(w, i, cs) ==
  [w EXCEPT !.circ[i] = [c \in Circuits |->
     IF c \in cs THEN [w.circ[i][c] EXCEPT !.p = 0, !.inq = <<>>] ELSE w.circ[i][c]]]

-----------------------------------------------------------------------------
(* Waiting for the connection to the next hop.                             *)

\* mutant: a relay's circuit is left as if it began here
DeliverCreateAsOrigin(w, i, cs, k) ==
  [w EXCEPT !.circ[i] = [c \in Circuits |->
     IF c \notin cs THEN w.circ[i][c]
     ELSE [w.circ[i][c] EXCEPT !.n = k, !.state = "BUILDING",
             !.outq = Append(@, Cell(IF i = 0 THEN "CREATE_FAST" ELSE "CREATE", c, 0))]]]

\* circuit_deliver_create_cell, and circuit_send_next_onion_skin at the first hop:
\* the circuits cs are given to connection k of the next link.
DeliverCreate(w, i, cs, k) ==
  [w EXCEPT !.circ[i] = [c \in Circuits |->
     IF c \notin cs THEN w.circ[i][c]
     ELSE [w.circ[i][c] EXCEPT !.n = k, !.state = IF i = 0 THEN "BUILDING" ELSE "OPEN",
             !.outq = Append(@, Cell(IF i = 0 THEN "CREATE_FAST" ELSE "CREATE", c, 0))]]]

Usable(w, l) == {k \in Conns : w.conn[l][k].near = "open"}
InProgress(w, l) == {k \in Conns : w.conn[l][k].near = "connecting"}
Unused(w, l) == {k \in Conns : w.conn[l][k].near = "none"}

\* connection_or_connect: the next connection of link l.
LaunchConn(w, l) == [w EXCEPT !.conn[l][Min(Unused(w, l))].near = "connecting"]

\* connection_or_get_for_extend and what its callers, circuit_handle_first_hop and
\* circuit_extend, do with the answer: use an open connection, wait for one that
\* is under way, or launch one, which may fail at once.
Extend(w, i, c) ==
  LET waiting == [w EXCEPT !.circ[i][c].state = "OR_WAIT"]
  IN IF Usable(w, i + 1) # {} THEN {DeliverCreate(w, i, {c}, k) : k \in Usable(w, i + 1)}
     ELSE IF InProgress(w, i + 1) # {} THEN {waiting}
     ELSE {MarkForClose(waiting, i, {c})}
          \cup IF Unused(w, i + 1) = {} THEN {} ELSE {LaunchConn(waiting, i + 1)}

\* circuit_get_all_pending_on_or_conn
PendingOn(w, l) ==
  {c \in Circuits : w.circ[l - 1][c].state = "OR_WAIT" /\ ~ w.circ[l - 1][c].marked}

\* mutant: only the origin's circuits hear that their connection failed
NConnFailedAtOrigin(w, l) == IF l = 1 THEN MarkForClose(w, 0, PendingOn(w, 1)) ELSE w

\* circuit_n_conn_done(conn, 0): every circuit that waits for this router goes,
\* the ones that wait for another connection to it included.
NConnFailed(w, l) == MarkForClose(w, l - 1, PendingOn(w, l))

\* circuit_n_conn_done(conn, 1)
NConnDone(w, l, k) == DeliverCreate(w, l - 1, PendingOn(w, l), k)

-----------------------------------------------------------------------------
(* OR connections.                                                         *)

\* connection_or_set_state_open at both ends.
ConnOpens(l, k) ==
  /\ conn[l][k].near = "connecting"
  /\ Becomes(NConnDone([World EXCEPT !.conn[l][k].near = "open",
                                     !.conn[l][k].far = "open"], l, k))
  /\ UNCHANGED faults

\* The same, when entry_guard_register_connect_status wants earlier guards retried.
GuardRefused(k) ==
  /\ conn[1][k].near = "connecting" /\ faults < MaxFaults
  /\ Becomes(NConnFailed([World EXCEPT !.conn[1][k].near = "closing",
                                       !.conn[1][k].far = "open"], 1))
  /\ faults' = faults + 1

\* connection_mark_for_close: connecting failed or took too long, the other end
\* closed, or the connection broke.
ConnMarked(l, k) ==
  /\ \/ conn[l][k].near = "connecting" /\ faults < MaxFaults
        /\ conn' = [conn EXCEPT ![l][k].near = "dying"] /\ faults' = faults + 1
     \/ conn[l][k].near = "open" /\ conn[l][k].far = "open" /\ faults < MaxFaults
        /\ conn' = [conn EXCEPT ![l][k].near = "closing"] /\ faults' = faults + 1
     \/ conn[l][k].near = "open" /\ conn[l][k].far = "closed"
        /\ conn' = [conn EXCEPT ![l][k].near = "closing"] /\ UNCHANGED faults
  /\ UNCHANGED <<plan, circ, overtaken>>

\* circuit_unlink_all_from_or_conn, for the end that launched the connection and
\* for the other.
UnlinkAllN(w, l, k) ==
  LET cs == {c \in Circuits : w.circ[l - 1][c].n = k}
  IN MarkForClose(UnlinkN(w, l - 1, cs), l - 1, cs)
UnlinkAllP(w, l, k) ==
  LET cs == {c \in Circuits : w.circ[l][c].p = k}
  IN MarkForClose(UnlinkP(w, l, cs), l, cs)

\* connection_about_to_close_connection at the end that launched it.
ConnCloses(l, k) ==
  LET gone == [World EXCEPT !.conn[l][k].near = "closed", !.conn[l][k].bwd = <<>>,
                          !.conn[l][k].fwd = IF conn[l][k].far = "open" THEN @ ELSE <<>>]
  IN /\ conn[l][k].near \in {"dying", "closing"}
     /\ Becomes(UnlinkAllN(IF conn[l][k].near = "dying" THEN NConnFailed(gone, l)
                           ELSE gone, l, k))
     /\ UNCHANGED faults

\* The other end closes: the connection broke, or it has read EOF.
FarCloses(l, k) ==
  /\ conn[l][k].far = "open"
  /\ \/ conn[l][k].near = "closed" /\ UNCHANGED faults
     \/ conn[l][k].near \in {"open", "closing"} /\ faults < MaxFaults
        /\ faults' = faults + 1
  /\ Becomes(UnlinkAllP([World EXCEPT !.conn[l][k].far = "closed",
               !.conn[l][k].fwd = <<>>,
               !.conn[l][k].bwd = IF conn[l][k].near = "closed" THEN <<>> ELSE @], l, k))

\* connection_or_flush_from_first_active_circuit: a queue that is served, of a
\* marked circuit too.
FlushOut(i, c) ==
  LET x == circ[i][c]
  IN /\ x.outq # <<>> /\ x.n # 0
     /\ circ' = [circ EXCEPT ![i][c].outq = Tail(@)]
     /\ conn' = [conn EXCEPT ![i + 1][x.n].fwd = Append(@, Head(x.outq))]
     /\ UNCHANGED <<plan, overtaken, faults>>

FlushIn(i, c) ==
  LET x == circ[i][c]
  IN /\ x.inq # <<>> /\ x.p # 0
     /\ circ' = [circ EXCEPT ![i][c].inq = Tail(@)]
     /\ conn' = [conn EXCEPT ![i][x.p].bwd = Append(@, Head(x.inq))]
     /\ UNCHANGED <<plan, overtaken, faults>>

-----------------------------------------------------------------------------
(* The origin.                                                             *)

\* circuit_establish_circuit and circuit_handle_first_hop
Establish(c) ==
  /\ plan[c] # 0 /\ circ[0][c] = NoCircuit
  /\ \E w \in Extend(World, 0, c) : Becomes(w)
  /\ UNCHANGED faults

\* circuit_finish_handshake and circuit_send_next_onion_skin: one more hop is open.
\* A reply that finds no hop to open closes the circuit.
Handshake(w, c) ==
  LET hops == w.circ[0][c].hops + 1
      opened == [w EXCEPT !.circ[0][c].hops = hops]
  IN IF w.circ[0][c].hops = plan[c] THEN MarkForClose(w, 0, {c})
     ELSE IF hops = plan[c] THEN [opened EXCEPT !.circ[0][c].state = "OPEN"]
     ELSE SendOut(opened, 0, Cell("EXTEND", c, hops))

\* circuit_expire_building; circuits that are open are closed in their time.
Expire(c) ==
  /\ circ[0][c].state # "none" /\ ~ circ[0][c].marked
  /\ Becomes(MarkForClose(World, 0, {c}))
  /\ UNCHANGED faults

-----------------------------------------------------------------------------
(* Cells.                                                                  *)

\* mutant: a DESTROY from ahead is not reported
GotDestroyBwdSilently(w, i, c, k) ==
  IF ~ FromAhead(w, i, c, k) THEN w
  ELSE IF i = 0 THEN MarkForClose(UnlinkN(w, 0, {c}), 0, {c}) ELSE UnlinkN(w, i, {c})

\* command_process_destroy_cell
GotDestroyFwd(w, i, c, k) ==
  IF ~ FromBehind(w, i, c, k) THEN w ELSE MarkForClose(UnlinkP(w, i, {c}), i, {c})
GotDestroyBwd(w, i, c, k) ==
  IF ~ FromAhead(w, i, c, k) THEN w
  ELSE IF i = 0 THEN MarkForClose(UnlinkN(w, 0, {c}), 0, {c})
  ELSE SendIn(UnlinkN(w, i, {c}), i, Cell("TRUNCATED", c, 0))

\* onionskin_answer
OnionskinAnswer(w, i, c) ==
  SendIn([w EXCEPT !.circ[i][c].state = "OPEN"], i, Cell("CREATED", c, 0))

\* command_process_create_cell.  A relay that hibernates, or cannot hand the
\* onionskin on, answers with a DESTROY.
GotCreate(w, i, cell, k) ==
  LET c == cell.c
      new == [w EXCEPT !.circ[i][c] = [NoCircuit EXCEPT !.state = "ONIONSKIN_PENDING", !.p = k]]
  IN {[w EXCEPT !.conn[i][k].bwd = Append(@, Cell("DESTROY", c, 0))],
      IF cell.cmd = "CREATE" THEN new ELSE OnionskinAnswer(new, i, c)}

\* command_process_relay_cell for a cell from behind: circuit_extend at the hop it is
\* for; the others pass it on, or close a circuit that stops here.
GotExtend(w, i, cell, k) ==
  LET c == cell.c
      x == w.circ[i][c]
  IN IF ~ FromBehind(w, i, c, k) THEN {w}
     ELSE IF x.state = "ONIONSKIN_PENDING" THEN {MarkForClose(w, i, {c})}
     ELSE IF cell.to # i
          THEN {IF x.n = 0 THEN MarkForClose(w, i, {c}) ELSE SendOut(w, i, cell)}
     ELSE IF x.n # 0 \/ x.state = "OR_WAIT" THEN {MarkForClose(w, i, {c})}
     ELSE Extend(w, i, c)

\* Node l reads a cell from the node before it.
RecvFwd(l, k) ==
  LET cell == Head(conn[l][k].fwd)
      w == [World EXCEPT !.conn[l][k].fwd = Tail(@)]
  IN /\ conn[l][k].far = "open" /\ conn[l][k].fwd # <<>>
     /\ \E v \in CASE cell.cmd \in {"CREATE", "CREATE_FAST"} -> GotCreate(w, l, cell, k)
                   [] cell.cmd = "DESTROY" -> {GotDestroyFwd(w, l, cell.c, k)}
                   [] cell.cmd = "EXTEND" -> GotExtend(w, l, cell, k) :
          Becomes(v)
     /\ UNCHANGED faults

\* command_process_created_cell, and relay cells from ahead: relays pass them on,
\* the origin makes use of them.
GotReply(w, i, cell, k) ==
  LET c == cell.c
  IN IF ~ FromAhead(w, i, c, k) THEN w
     ELSE IF i = 0 THEN IF cell.cmd = "TRUNCATED" THEN MarkForClose(w, 0, {c})
                        ELSE Handshake(w, c)
     ELSE SendIn(w, i, Cell(IF cell.cmd = "CREATED" THEN "EXTENDED" ELSE cell.cmd, c, 0))

\* Node l - 1 reads a cell from the node after it.
RecvBwd(l, k) ==
  LET cell == Head(conn[l][k].bwd)
      w == [World EXCEPT !.conn[l][k].bwd = Tail(@)]
  IN /\ conn[l][k].near = "open" /\ conn[l][k].bwd # <<>>
     /\ Becomes(IF cell.cmd = "DESTROY" THEN GotDestroyBwd(w, l - 1, cell.c, k)
                ELSE GotReply(w, l - 1, cell, k))
     /\ UNCHANGED faults

\* connection_cpu_process_inbuf: a CPU worker has answered, or could not decode the
\* onionskin (an old key).
CpuAnswers(i, c) ==
  /\ i # 0 /\ circ[i][c].state = "ONIONSKIN_PENDING" /\ ~ circ[i][c].marked
  /\ \/ Becomes(OnionskinAnswer(World, i, c))
     \/ Becomes(MarkForClose(World, i, {c}))
  /\ UNCHANGED faults

\* circuit_close_all_marked, once a second.  The origin's circuits do not come back.
CloseAllMarked(i) ==
  /\ \E c \in Circuits : circ[i][c].marked /\ circ[i][c].state # "none"
  /\ circ' = [circ EXCEPT ![i] = [c \in Circuits |->
                IF circ[i][c].marked THEN [NoCircuit EXCEPT !.marked = (i = 0)]
                ELSE circ[i][c]]]
  /\ UNCHANGED <<plan, conn, overtaken, faults>>

Next ==
  \/ \E l \in Links, k \in Conns :
       \/ ConnOpens(l, k) \/ ConnMarked(l, k) \/ ConnCloses(l, k) \/ FarCloses(l, k)
       \/ RecvFwd(l, k) \/ RecvBwd(l, k)
  \/ \E k \in Conns : GuardRefused(k)
  \/ \E c \in Circuits : Establish(c) \/ Expire(c)
  \/ \E i \in Nodes, c \in Circuits : FlushOut(i, c) \/ FlushIn(i, c) \/ CpuAnswers(i, c)
  \/ \E i \in Nodes : CloseAllMarked(i)

Spec == Init /\ [][Next]_vars

-----------------------------------------------------------------------------
Live(i, c) == circ[i][c].state # "none" /\ ~ circ[i][c].marked
On(q, c, cmds) == {j \in DOMAIN q : q[j].c = c /\ q[j].cmd \in cmds}

\* A circuit in OR_WAIT waits for something: there is a connection to the next hop
\* whose opening or closing will reach it, however connections to that router are
\* launched, shared, given up and replaced (circuits do not time out at relays).
WaitersHaveConn ==
  \A i \in 0 .. PathLen - 1, c \in Circuits :
    Live(i, c) /\ circ[i][c].state = "OR_WAIT" =>
      \E k \in Conns : conn[i + 1][k].near \in {"connecting", "dying"}

\* Neighbours agree on which circuits they share.  A relay keeps a circuit only
\* while the node before it does, or has told it otherwise, or the connection is
\* gone; and a node that has sent a circuit on finds it at the next.  The exception
\* is a CREATE that waited on its queue while the DESTROY overtook it: the relay
\* keeps a circuit that nobody will ever tear down.
NeighboursAgree ==
  \A l \in Links, k \in Conns, c \in Circuits :
    /\ Live(l, c) /\ circ[l][c].p = k =>
         \/ Live(l - 1, c) /\ circ[l - 1][c].n = k
         \/ On(conn[l][k].fwd, c, {"DESTROY"}) # {}
         \/ conn[l][k].near = "closed"
         \/ <<l - 1, c>> \in overtaken
    /\ Live(l - 1, c) /\ circ[l - 1][c].n = k =>
         \/ Live(l, c) /\ circ[l][c].p = k
         \/ On(circ[l - 1][c].outq, c, {"CREATE", "CREATE_FAST"}) # {}
         \/ On(conn[l][k].fwd, c, {"CREATE", "CREATE_FAST"}) # {}
         \/ On(conn[l][k].bwd, c, {"DESTROY"}) # {}
         \/ conn[l][k].far = "closed"

\* The bad news about a circuit that the origin has yet to learn.
BadNews(c) ==
  \/ \E i \in Nodes : On(circ[i][c].inq, c, {"TRUNCATED"}) # {}
  \/ \E l \in Links, k \in Conns :
       /\ FromAhead(World, l - 1, c, k)
       /\ \/ On(conn[l][k].bwd, c, {"DESTROY", "TRUNCATED"}) # {}
          \/ conn[l][k].far = "closed"

Shaking == {"CREATE", "CREATE_FAST", "CREATED", "EXTEND", "EXTENDED"}

\* Where the handshake with the next hop is: a cell on a queue or on the wire, or a
\* relay that waits for a connection or for a CPU worker.
Handshakes(c) ==
  (UNION {{<<"out", i, j>> : j \in On(circ[i][c].outq, c, Shaking)} : i \in Nodes})
  \cup (UNION {{<<"in", i, j>> : j \in On(circ[i][c].inq, c, Shaking)} : i \in Nodes})
  \cup (UNION {UNION {{<<"fwd", l, k, j>> : j \in On(conn[l][k].fwd, c, Shaking)}
                        : k \in Conns} : l \in Links})
  \cup (UNION {UNION {{<<"bwd", l, k, j>> : j \in On(conn[l][k].bwd, c, Shaking)}
                        : k \in Conns} : l \in Links})
  \cup {<<"relay", i>> : i \in {i \in Links : Live(i, c)
                           /\ circ[i][c].state \in {"OR_WAIT", "ONIONSKIN_PENDING"}}}

\* A circuit that is being built gets on: exactly one handshake is under way, in one
\* place, unless bad news is; two would open hops twice, and with none the circuit
\* would sit there until it times out.  A circuit that is open has none.
OneHandshake ==
  \A c \in Circuits :
    LET hs == Handshakes(c)
    IN Live(0, c) =>
         /\ circ[0][c].state = "BUILDING" => (\E h \in hs : hs = {h}) \/ BadNews(c)
         /\ circ[0][c].state \in {"OR_WAIT", "OPEN"} => hs = {}
=============================================================================
