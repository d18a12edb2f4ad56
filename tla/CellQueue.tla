----------------------------- MODULE CellQueue -----------------------------
(***************************************************************************)
(* The cell queues of a relay: every circuit has a queue of cells for the  *)
(* OR connection on either side of it, and every OR connection a ring of   *)
(* the circuits that have cells for it (active_circuits, and the pointers  *)
(* next_active_on_{n,p}_conn and prev_active_on_{n,p}_conn).  The ring is  *)
(* served one cell at a time whenever the connection's outbuf runs low.    *)
(*                                                                         *)
(* A leg <<c, "n">> or <<c, "p">> is circuit c seen from its n_conn or its *)
(* p_conn; next_circ_on_conn_p picks the leg from the connection, which it *)
(* can because a circuit is never extended back to its previous hop.       *)
(* Cells are only counted.  All handlers run in one thread; the loop of    *)
(* connection_or_flushed_some is unrolled (filling[o] > 0 while it runs).  *)
(***************************************************************************)
EXTENDS Integers, Sequences, FiniteSets

CONSTANTS
  Circuits, Origins,         \* all circuits, and those that start here
  Conns,                     \* OR connections
  NoConn, NoLeg,             \* NULL
  CELL_QUEUE_HIGHWATER_SIZE, CELL_QUEUE_LOWWATER_SIZE,
  OR_CONN_HIGHWATER, OR_CONN_LOWWATER,    \* in cells
  MaxQueue, MaxOutbuf        \* bounds on what is offered, not in the code

Sides == {"n", "p"}
Legs == Circuits \X Sides

ASSUME CellQueueAssumption ==
  /\ Origins \subseteq Circuits
  /\ IsFiniteSet(Circuits)
  /\ NoConn \notin Conns /\ NoLeg \notin Legs
  /\ CELL_QUEUE_HIGHWATER_SIZE \in Nat /\ CELL_QUEUE_LOWWATER_SIZE \in Nat
  /\ OR_CONN_LOWWATER \in Nat \ {0} /\ OR_CONN_HIGHWATER \in Nat
  /\ OR_CONN_LOWWATER <= OR_CONN_HIGHWATER
  /\ MaxQueue \in Nat /\ MaxOutbuf \in Nat

VARIABLES
  status,        \* "none", "live", or "marked" for close
  conn,          \* n_conn or p_conn of a leg
  queue,         \* length of n_conn_cells or p_conn_cells
  blocked,       \* streams_blocked_on_{n,p}_conn
  next, prev,    \* the ring pointers of a leg
  active,        \* active_circuits
  outbuf,        \* cells on the outbuf of an OR connection
  marked,        \* is the OR connection marked for close?
  filling,       \* cells connection_or_flushed_some may still add
  crashed        \* a tor_assert has failed

legVars == <<queue, blocked, next, prev, active, outbuf>>
vars == <<status, conn, legVars, marked, filling, crashed>>

TypeOK ==
  /\ status \in [Circuits -> {"none", "live", "marked"}]
  /\ conn \in [Legs -> Conns \cup {NoConn}]
  /\ queue \in [Legs -> Nat]
  /\ blocked \in [Legs -> BOOLEAN]
  /\ next \in [Legs -> Legs \cup {NoLeg}]
  /\ prev \in [Legs -> Legs \cup {NoLeg}]
  /\ active \in [Conns -> Legs \cup {NoLeg}]
  /\ outbuf \in [Conns -> Nat]
  /\ marked \in [Conns -> BOOLEAN]
  /\ filling \in [Conns -> Nat]
  /\ crashed \in BOOLEAN

Init ==
  /\ status = [c \in Circuits |-> "none"]
  /\ conn = [l \in Legs |-> NoConn]
  /\ queue = [l \in Legs |-> 0]
  /\ blocked = [l \in Legs |-> FALSE]
  /\ next = [l \in Legs |-> NoLeg]
  /\ prev = [l \in Legs |-> NoLeg]
  /\ active = [o \in Conns |-> NoLeg]
  /\ outbuf = [o \in Conns |-> 0]
  /\ marked = [o \in Conns |-> FALSE]
  /\ filling = [o \in Conns |-> 0]
  /\ crashed = FALSE

----------------------------------------------------------------------------
(* The queue and ring operations, as functions of the state T they act on. *)

Current == [queue |-> queue, blocked |-> blocked, next |-> next,
            prev |-> prev, active |-> active, outbuf |-> outbuf]

Become(T) ==
  /\ queue' = T.queue /\ blocked' = T.blocked
  /\ next' = T.next /\ prev' = T.prev /\ active' = T.active
  /\ outbuf' = T.outbuf

\* Mutant of MakeActive: the newcomer also becomes the head of the ring.
MakeActiveInFront(T, l, o) ==
  LET head == T.active[o]
      tail == T.prev[head]
  IN  CASE T.next[l] # NoLeg /\ T.prev[l] # NoLeg -> T
        [] head = NoLeg -> [T EXCEPT !.active[o] = l, !.next[l] = l,
                                     !.prev[l] = l]
        [] OTHER -> [T EXCEPT !.next[tail] = l, !.next[l] = head,
                              !.prev[head] = l, !.prev[l] = tail,
                              !.active[o] = l]

\* make_circuit_active_on_conn: l goes in front of the head, that is, last.
MakeActive(T, l, o) ==
  LET head == T.active[o]
      tail == T.prev[head]
  IN  CASE T.next[l] # NoLeg /\ T.prev[l] # NoLeg -> T
        [] head = NoLeg -> [T EXCEPT !.active[o] = l, !.next[l] = l,
                                     !.prev[l] = l]
        [] OTHER -> [T EXCEPT !.next[tail] = l, !.next[l] = head,
                              !.prev[head] = l, !.prev[l] = tail]

\* Mutant of MakeInactive: active_circuits may go on pointing at l.
MakeInactiveKeepsHead(T, l, o) ==
  LET after == T.next[l]
      before == T.prev[l]
  IN  CASE after = NoLeg /\ before = NoLeg -> T
        [] after = l -> [T EXCEPT !.active[o] = NoLeg, !.next[l] = NoLeg,
                                  !.prev[l] = NoLeg]
        [] OTHER -> [T EXCEPT !.prev[after] = before, !.next[before] = after,
                              !.next[l] = NoLeg, !.prev[l] = NoLeg]

\* make_circuit_inactive_on_conn
MakeInactive(T, l, o) ==
  LET after == T.next[l]
      before == T.prev[l]
  IN  CASE after = NoLeg /\ before = NoLeg -> T
        [] after = l -> [T EXCEPT !.active[o] = NoLeg, !.next[l] = NoLeg,
                                  !.prev[l] = NoLeg]
        [] OTHER -> [T EXCEPT !.prev[after] = before, !.next[before] = after,
                              !.active[o] = IF @ = l THEN after ELSE @,
                              !.next[l] = NoLeg, !.prev[l] = NoLeg]

\* connection_write_to_buf of one cell.  Nothing goes to a marked connection: one
\* that is held open until flushed has no circuits (main.c).
WriteCells(T, o, n) == [T EXCEPT !.outbuf[o] = IF marked[o] THEN @ ELSE @ + n]

\* Mutant of FlushFirst: a circuit that has sent its last cell stays on the ring.
FlushLeavesIdle(T, o) ==
  LET l == T.active[o]
      left == T.queue[l] - 1
  IN  IF l = NoLeg THEN T
      ELSE WriteCells([T EXCEPT !.queue[l] = left, !.active[o] = T.next[l],
                                !.blocked[l] =
                                   @ /\ left > CELL_QUEUE_LOWWATER_SIZE], o, 1)

\* Mutant of FlushFirst: the turn does not pass to the next circuit.
FlushWithoutTurn(T, o) ==
  LET l == T.active[o]
      left == T.queue[l] - 1
      T1 == WriteCells([T EXCEPT !.queue[l] = left,
                                 !.blocked[l] =
                                    @ /\ left > CELL_QUEUE_LOWWATER_SIZE], o, 1)
  IN  IF l = NoLeg THEN T
      ELSE IF left = 0 THEN MakeInactive(T1, l, o) ELSE T1

\* connection_or_flush_from_first_active_circuit with max = 1: the first
\* circuit gives a cell and the turn passes to the next one.
FlushFirst(T, o) ==
  LET l == T.active[o]
      left == T.queue[l] - 1
      T1 == WriteCells([T EXCEPT !.queue[l] = left,
                                 !.active[o] = T.next[l],
                                 !.blocked[l] =
                                    @ /\ left > CELL_QUEUE_LOWWATER_SIZE], o, 1)
  IN  IF l = NoLeg THEN T
      ELSE IF left = 0 THEN MakeInactive(T1, l, o) ELSE T1

\* Mutant of Append1: an empty outbuf is not primed.
AppendUnprimed(T, l, o) ==
  LET n == T.queue[l] + 1
      T1 == [T EXCEPT !.queue[l] = n,
                      !.blocked[l] = @ \/ n >= CELL_QUEUE_HIGHWATER_SIZE]
  IN  IF n = 1 THEN MakeActive(T1, l, o) ELSE T1

\* append_cell_to_circuit_queue, which primes an empty outbuf.
Append1(T, l, o) ==
  LET n == T.queue[l] + 1
      T1 == [T EXCEPT !.queue[l] = n,
                      !.blocked[l] = @ \/ n >= CELL_QUEUE_HIGHWATER_SIZE]
      T2 == IF n = 1 THEN MakeActive(T1, l, o) ELSE T1
  IN  IF T2.outbuf[o] = 0 THEN FlushFirst(T2, o) ELSE T2

\* circuit_set_{n,p}_circid_orconn(circ, 0, NULL); the queue keeps its cells.
Detach(T, l) ==
  IF conn[l] # NoConn /\ T.next[l] # NoLeg THEN MakeInactive(T, l, conn[l])
  ELSE T

\* connection_or_send_destroy for each of the legs L: written straight to the
\* outbuf, past the queue.
SendDestroys(T, L) ==
  [T EXCEPT !.outbuf =
     [o \in Conns |-> IF marked[o] THEN T.outbuf[o]
                      ELSE T.outbuf[o] + Cardinality({l \in L : conn[l] = o})]]

\* cell_queue_clear, when a circuit is freed.
ClearQueue(T, l) == [T EXCEPT !.queue[l] = 0, !.blocked[l] = FALSE]

N(c) == <<c, "n">>
P(c) == <<c, "p">>

\* A handler runs when no other one does; the bound on outbufs is on what is
\* started, not on what a handler writes.
Idle == ~crashed /\ \A o \in Conns : filling[o] = 0
Calm == Idle /\ \A o \in Conns : marked[o] \/ outbuf[o] < MaxOutbuf

----------------------------------------------------------------------------
(* Circuits come and go.                                                   *)

\* or_circuit_new on a CREATE cell from connection o, or origin_circuit_new.
NewCircuit(c) ==
  /\ Calm /\ status[c] = "none"
  /\ status' = [status EXCEPT ![c] = "live"]
  /\ \/ c \in Origins /\ UNCHANGED conn
     \/ /\ c \notin Origins
        /\ \E o \in Conns : ~marked[o] /\ conn' = [conn EXCEPT ![P(c)] = o]
  /\ UNCHANGED <<legVars, marked, filling, crashed>>

\* circuit_extend, circuit_n_conn_done or circuit_handle_first_hop found an open
\* connection: n_conn is assigned before circuit_deliver_create_cell calls
\* circuit_set_n_circid_orconn, which therefore sees no change of connection.
Extend(c, o) ==
  /\ Calm /\ status[c] = "live" /\ conn[N(c)] = NoConn
  /\ ~marked[o] /\ conn[P(c)] # o
  /\ queue[N(c)] < MaxQueue
  /\ conn' = [conn EXCEPT ![N(c)] = o]
  /\ IF (queue[N(c)] > 0) = (next[N(c)] # NoLeg)
       THEN Become(Append1(Current, N(c), o)) /\ UNCHANGED crashed
       ELSE crashed' = TRUE /\ UNCHANGED legVars
  /\ UNCHANGED <<status, marked, filling>>

\* The same when get_unique_circ_id_by_conn finds no circuit id.
ExtendNoId(c, o) ==
  /\ Calm /\ status[c] = "live" /\ conn[N(c)] = NoConn
  /\ ~marked[o] /\ conn[P(c)] # o
  /\ conn' = [conn EXCEPT ![N(c)] = o]
  /\ status' = [status EXCEPT ![c] = "marked"]
  /\ Become(WriteCells(SendDestroys(Current, {P(c)}), o, 1))
  /\ UNCHANGED <<marked, filling, crashed>>

\* A cell is relayed or packaged onto leg l.
AppendCell(l) ==
  /\ Calm /\ status[l[1]] = "live" /\ conn[l] # NoConn /\ queue[l] < MaxQueue
  /\ Become(Append1(Current, l, conn[l]))
  /\ UNCHANGED <<status, conn, marked, filling, crashed>>

\* RELAY_COMMAND_TRUNCATE at this hop: DESTROY to the next hop, let go of it,
\* TRUNCATED to the previous hop.
Truncate(c) ==
  /\ Calm /\ status[c] = "live" /\ c \notin Origins
  /\ conn[N(c)] # NoConn /\ queue[P(c)] < MaxQueue
  /\ Become(Append1(Detach(SendDestroys(Current, {N(c)}), N(c)),
                    P(c), conn[P(c)]))
  /\ conn' = [conn EXCEPT ![N(c)] = NoConn]
  /\ UNCHANGED <<status, marked, filling, crashed>>

\* command_process_destroy_cell, the DESTROY coming from the next hop.
DestroyFromAhead(c) ==
  /\ Calm /\ status[c] = "live" /\ conn[N(c)] # NoConn
  /\ conn' = [conn EXCEPT ![N(c)] = NoConn]
  /\ IF c \in Origins
       THEN /\ status' = [status EXCEPT ![c] = "marked"]
            /\ Become(Detach(Current, N(c)))
       ELSE /\ queue[P(c)] < MaxQueue
            /\ Become(Append1(Detach(Current, N(c)), P(c), conn[P(c)]))
            /\ UNCHANGED status
  /\ UNCHANGED <<marked, filling, crashed>>

\* ... and from the previous hop.
DestroyFromBehind(c) ==
  /\ Calm /\ status[c] = "live" /\ c \notin Origins
  /\ conn' = [conn EXCEPT ![P(c)] = NoConn]
  /\ status' = [status EXCEPT ![c] = "marked"]
  /\ Become(SendDestroys(Detach(Current, P(c)), {N(c)}))
  /\ UNCHANGED <<marked, filling, crashed>>

\* circuit_mark_for_close: DESTROY both ways; the queues go on being served.
MarkCircuit(c) ==
  /\ Calm /\ status[c] = "live"
  /\ status' = [status EXCEPT ![c] = "marked"]
  /\ Become(SendDestroys(Current, {N(c), P(c)}))
  /\ UNCHANGED <<conn, marked, filling, crashed>>

\* circuit_free, for one circuit of circuit_close_all_marked: off the rings
\* first, and only then are the queues cleared.
FreeCircuit(c) ==
  /\ Idle /\ status[c] = "marked"
  /\ status' = [status EXCEPT ![c] = "none"]
  /\ Become(ClearQueue(Detach(ClearQueue(Detach(Current, P(c)), P(c)), N(c)),
                       N(c)))
  /\ conn' = [conn EXCEPT ![N(c)] = NoConn, ![P(c)] = NoConn]
  /\ UNCHANGED <<marked, filling, crashed>>

----------------------------------------------------------------------------
(* OR connections.                                                         *)

\* The ring of o, walked along next from active_circuits.
RingOf(nxt, head) ==
  LET step(l) == IF l = NoLeg \/ nxt[l] = head THEN NoLeg ELSE nxt[l]
      walk[i \in 1..Cardinality(Legs)] ==
        IF i = 1 THEN head ELSE step(walk[i - 1])
      length == Cardinality({i \in DOMAIN walk : walk[i] # NoLeg})
  IN  [i \in 1..length |-> walk[i]]

Ring(o) == RingOf(next, active[o])
OnRing(o) == {Ring(o)[i] : i \in DOMAIN Ring(o)}

\* Something that is not a circuit's cell is written: padding, NETINFO.
WriteOther(o) ==
  /\ Calm /\ ~marked[o]
  /\ Become(WriteCells(Current, o, 1))
  /\ UNCHANGED <<status, conn, marked, filling, crashed>>

\* connection_handle_write left that much on the outbuf.
HandleWrite(o) ==
  /\ Idle /\ ~marked[o] /\ outbuf[o] > 0
  /\ \E left \in 0..(outbuf[o] - 1) :
       /\ outbuf' = [outbuf EXCEPT ![o] = left]
       /\ filling' = [filling EXCEPT ![o] =
            IF left < OR_CONN_LOWWATER /\ active[o] # NoLeg
              THEN OR_CONN_HIGHWATER - left ELSE 0]
  /\ UNCHANGED <<status, conn, queue, blocked, next, prev, active, marked,
                 crashed>>

\* One iteration of connection_or_flushed_some.
FlushedSome(o) ==
  /\ ~crashed /\ filling[o] > 0
  /\ Become(FlushFirst(Current, o))
  /\ filling' = [filling EXCEPT ![o] = IF active'[o] = NoLeg THEN 0 ELSE @ - 1]
  /\ UNCHANGED <<status, conn, marked, crashed>>

\* connection_mark_for_close: the connection broke, or is no longer wanted.
MarkConn(o) ==
  /\ Idle /\ ~marked[o]
  /\ marked' = [marked EXCEPT ![o] = TRUE]
  /\ UNCHANGED <<status, conn, legVars, filling, crashed>>

\* circuit_unlink_all_from_or_conn: the ring is dissolved and every circuit of
\* the connection is marked, which sends a DESTROY over its other leg.
CloseConn(o) ==
  LET gone == {l \in Legs : conn[l] = o}
      dying == {c \in Circuits : status[c] = "live" /\
                                 {N(c), P(c)} \cap gone # {}}
      T == SendDestroys(Current, {l \in Legs \ gone : l[1] \in dying})
      cut(ptr) == [l \in Legs |-> IF l \in OnRing(o) THEN NoLeg ELSE ptr[l]]
  IN  /\ Idle /\ marked[o]
      /\ Become([T EXCEPT !.next = cut(@), !.prev = cut(@),
                          !.active[o] = NoLeg, !.outbuf[o] = 0])
      /\ conn' = [l \in Legs |-> IF l \in gone THEN NoConn ELSE conn[l]]
      /\ status' = [c \in Circuits |-> IF c \in dying THEN "marked"
                                       ELSE status[c]]
      /\ marked' = [marked EXCEPT ![o] = FALSE]
      /\ UNCHANGED <<filling, crashed>>

Next ==
  \/ \E c \in Circuits : NewCircuit(c)
  \/ \E c \in Circuits, o \in Conns : Extend(c, o)
  \/ \E c \in Circuits, o \in Conns : ExtendNoId(c, o)
  \/ \E l \in Legs : AppendCell(l)
  \/ \E c \in Circuits : Truncate(c)
  \/ \E c \in Circuits : DestroyFromAhead(c)
  \/ \E c \in Circuits : DestroyFromBehind(c)
  \/ \E c \in Circuits : MarkCircuit(c)
  \/ \E c \in Circuits : FreeCircuit(c)
  \/ \E o \in Conns : WriteOther(o)
  \/ \E o \in Conns : HandleWrite(o)
  \/ \E o \in Conns : FlushedSome(o)
  \/ \E o \in Conns : MarkConn(o)
  \/ \E o \in Conns : CloseConn(o)

Spec == Init /\ [][Next]_vars

(***************************************************************************)
(* Fairness.  The event loop (main.c) serves a writable socket, closes a   *)
(* marked connection and, once a second, frees the marked circuits; a      *)
(* handler that has started finishes, and an unfinished one only puts the  *)
(* others off (hence SF).  The link takes cells away faster than DESTROY   *)
(* and padding cells, which bypass the queues, come in: the outbuf falls   *)
(* below the low-water mark again and again.                               *)
(***************************************************************************)
Drain(o) == HandleWrite(o) /\ outbuf'[o] < OR_CONN_LOWWATER

Fairness ==
  /\ \A o \in Conns : /\ SF_vars(Drain(o))
                      /\ WF_vars(FlushedSome(o))
                      /\ SF_vars(CloseConn(o))
  /\ \A c \in Circuits : SF_vars(FreeCircuit(c))

FairSpec == Spec /\ Fairness

----------------------------------------------------------------------------
(* Properties.                                                             *)

\* assert_active_circuits_ok: the neighbours of a circuit on a ring point back
\* at it and belong to the same connection, and a leg that has no connection is
\* on no ring (a freed circuit would be a dangling pointer).
RingOK ==
  /\ \A l \in Legs :
       next[l] # NoLeg =>
         /\ conn[l] # NoConn /\ prev[l] # NoLeg
         /\ prev[next[l]] = l /\ next[prev[l]] = l
         /\ conn[next[l]] = conn[l]
  /\ \A l \in Legs : next[l] = NoLeg => prev[l] = NoLeg
  /\ \A o \in Conns :
       active[o] # NoLeg => conn[active[o]] = o /\ next[active[o]] # NoLeg

\* A live circuit is on the ring of its connection when it has cells for it, and
\* no circuit is there without,
\* what the tor_asserts of circuit_set_{n,p}_circid_orconn call "active": no
\* cell is stranded, and no turn is given to a circuit that has nothing to send.
ActiveIffQueued ==
  ~crashed =>
    \A l \in Legs : conn[l] # NoConn =>
      /\ l \in OnRing(conn[l]) => queue[l] > 0
      /\ queue[l] > 0 /\ status[l[1]] = "live" => l \in OnRing(conn[l])

\* No lost wakeup: append_cell_to_circuit_queue primes the outbuf only when it
\* is empty and connection_or_flushed_some only runs when something was written,
\* so a connection with active circuits must have something on its outbuf.
NoLostWakeup ==
  Idle => \A o \in Conns : active[o] # NoLeg /\ ~marked[o] => outbuf[o] > 0

\* The pointers implement a line per connection that nobody overtakes: every
\* handler, whatever it does to the rings, moves each of them as RoundRobin
\* allows.
Line == INSTANCE RoundRobin WITH Members <- Legs,
                                 line <- [o \in Conns |-> Ring(o)]
ImplementsRoundRobin == Line!Spec

\* No starvation: a circuit that always has cells for a connection gets rid of
\* one again and again, whatever the other circuits on it do.
EveryCircuitServed ==
  \A l \in Legs :
    \/ []<>(queue[l] = 0 \/ conn[l] = NoConn \/ crashed)
    \/ []<><<queue'[l] < queue[l]>>_vars

\* circuitlist.c, circuit_set_n_circid_orconn:
\* tor_assert(bool_eq(circ->n_conn_cells.n, circ->next_active_on_n_conn)).
NoAssertFails == ~crashed
=============================================================================
