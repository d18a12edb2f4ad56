---------------------------- MODULE FlowControl ----------------------------
(***************************************************************************)
(* End-to-end flow control of the streams of one circuit: the package and  *)
(* deliver windows of relay.c, the RELAY_SENDME cells that replenish them, *)
(* the reading switch of every edge connection, and the blocking of edge   *)
(* connections while the circuit's cell queue is long.                     *)
(*                                                                         *)
(* There are two sides, the origin ("op") and the hop its streams end at   *)
(* ("exit").  Each side is one single-threaded process, so a handler of a  *)
(* side is atomic for that side; circuit_resume_edge_reading_helper's loop *)
(* over the streams is unrolled into one step per stream, during which     *)
(* (resume[d] # << >>) nothing else of side d may run.                     *)
(*                                                                         *)
(* chan[d] holds the cells side d has sent and its peer has not processed, *)
(* oldest first; its last queued[d] cells still sit on the circuit's cell  *)
(* queue at d.  A circuit never loses or reorders relay cells.  Stream     *)
(* bytes are counted in cell payloads.                                     *)
(***************************************************************************)
EXTENDS Integers, Sequences, FiniteSets

CONSTANTS
  Streams,                   \* stream ids, each used at most once
  EagerApps,                 \* the streams whose application writes before
                             \* it is told that the stream is connected
  OpSupply, ExitSupply,      \* payloads the application/server ever writes
  CIRCWINDOW_START, CIRCWINDOW_INCREMENT,
  InitialPackageWindow,      \* circuit_initial_package_window()
  STREAMWINDOW_START, STREAMWINDOW_INCREMENT,
  CELL_QUEUE_HIGHWATER_SIZE, CELL_QUEUE_LOWWATER_SIZE,
  OUTBUF_FULL                \* connection_outbuf_too_full(), in payloads

ASSUME StreamsAssumption ==
  /\ Streams \subseteq Nat \ {0}
  /\ EagerApps \subseteq Streams
  /\ OpSupply \in Nat /\ ExitSupply \in Nat
ASSUME WindowAssumption ==
  /\ CIRCWINDOW_INCREMENT \in Nat \ {0}
  /\ CIRCWINDOW_START \in Nat /\ CIRCWINDOW_START >= CIRCWINDOW_INCREMENT
  /\ STREAMWINDOW_INCREMENT \in Nat \ {0}
  /\ STREAMWINDOW_START \in Nat
  /\ STREAMWINDOW_START >= STREAMWINDOW_INCREMENT
  /\ InitialPackageWindow \in Nat
ASSUME QueueAssumption ==
  /\ CELL_QUEUE_LOWWATER_SIZE \in Nat
  /\ CELL_QUEUE_HIGHWATER_SIZE \in Nat
  /\ CELL_QUEUE_LOWWATER_SIZE < CELL_QUEUE_HIGHWATER_SIZE
  /\ CELL_QUEUE_HIGHWATER_SIZE > 1
  /\ OUTBUF_FULL \in Nat

Side == {"op", "exit"}
Peer(d) == IF d = "op" THEN "exit" ELSE "op"
Supply(d) == IF d = "op" THEN OpSupply ELSE ExitSupply

\* A relay cell: stream id 0 marks the circuit-level cells.
Cell(cmd, sid) == [cmd |-> cmd, sid |-> sid]
Commands == {"BEGIN", "CONNECTED", "DATA", "END", "SENDME"}
Cells == [cmd : Commands, sid : Streams \cup {0}]
DataCells == {Cell("DATA", s) : s \in Streams}
RefillCells == {Cell("SENDME", 0)}

VARIABLES
  alive,           \* FALSE once a side tears the circuit down
  chan,            \* cells sent and not yet processed, per sending side
  queued,          \* how many of them are on the sender's cell queue
  blocked,         \* streams_blocked_on_{n,p}_conn
  circ_package,    \* circuit-level windows
  circ_deliver,
  list,            \* p_streams / n_streams, newest first
  state,           \* the edge connection's state
  conn_package,    \* stream-level windows
  conn_deliver,
  source,          \* payloads the local endpoint has still to write
  inbuf, outbuf,   \* buffers of the edge connection, in payloads
  reading,         \* is the edge connection's read event on?
  resume,          \* streams circuit_resume_edge_reading_helper has to visit
  lost,            \* history: DATA cells dropped without touching a window
  bonus            \* history: stream SENDMEs taken for circuit SENDMEs

circVars == <<alive, circ_package, circ_deliver>>
queueVars == <<chan, queued, blocked>>
connVars == <<list, state, conn_package, conn_deliver, source, inbuf, outbuf>>
ghostVars == <<lost, bonus>>
vars == <<circVars, queueVars, connVars, reading, resume, ghostVars>>

NotOpen == {"CONNECT_WAIT", "RESOLVING", "CONNECTING"}
States == {"none", "OPEN", "closed"} \cup NotOpen

TypeOK ==
  /\ alive \in BOOLEAN
  /\ chan \in [Side -> Seq(Cells)]
  /\ queued \in [Side -> Nat]
  /\ \A d \in Side : queued[d] <= Len(chan[d])
  /\ blocked \in [Side -> BOOLEAN]
  /\ circ_package \in [Side -> Nat]
  /\ circ_deliver \in [Side -> Int]
  /\ list \in [Side -> Seq(Streams)]
  /\ state \in [Side -> [Streams -> States]]
  /\ conn_package \in [Side -> [Streams -> Nat]]
  /\ conn_deliver \in [Side -> [Streams -> Int]]
  /\ source \in [Side -> [Streams -> Nat]]
  /\ inbuf \in [Side -> [Streams -> Nat]]
  /\ outbuf \in [Side -> [Streams -> Nat]]
  /\ reading \in [Side -> [Streams -> BOOLEAN]]
  /\ resume \in [Side -> Seq(Streams)]
  /\ lost \in [Side -> Nat]
  /\ bonus \in [Side -> Nat]

Init ==
  /\ alive = TRUE
  /\ chan = [d \in Side |-> << >>]
  /\ queued = [d \in Side |-> 0]
  /\ blocked = [d \in Side |-> FALSE]
  /\ circ_package = [d \in Side |-> InitialPackageWindow]
  /\ circ_deliver = [d \in Side |-> CIRCWINDOW_START]
  /\ list = [d \in Side |-> << >>]
  /\ state = [d \in Side |-> [s \in Streams |-> "none"]]
  /\ conn_package = [d \in Side |-> [s \in Streams |-> STREAMWINDOW_START]]
  /\ conn_deliver = [d \in Side |-> [s \in Streams |-> STREAMWINDOW_START]]
  /\ source = [d \in Side |-> [s \in Streams |-> Supply(d)]]
  /\ inbuf = [d \in Side |-> [s \in Streams |-> 0]]
  /\ outbuf = [d \in Side |-> [s \in Streams |-> 0]]
  /\ reading = [d \in Side |-> [s \in Streams |-> FALSE]]
  /\ resume = [d \in Side |-> << >>]
  /\ lost = [d \in Side |-> 0]
  /\ bonus = [d \in Side |-> 0]

----------------------------------------------------------------------------
(* Helpers: what the handlers share.                                       *)

Linked(d) == {list[d][i] : i \in DOMAIN list[d]}

\* circuit_detach_stream
Unlink(d, s) ==
  LET i == CHOOSE j \in DOMAIN list[d] : list[d][j] = s
  IN  IF s \in Linked(d)
        THEN SubSeq(list[d], 1, i - 1) \o SubSeq(list[d], i + 1, Len(list[d]))
        ELSE list[d]

Attached(d, s) == state[d][s] \in NotOpen \cup {"OPEN"}
Copies(n, cell) == [i \in 1..n |-> cell]
Least(a, b) == IF a <= b THEN a ELSE b

\* A side runs a handler only when the previous one has returned.
Idle(d) == alive /\ resume[d] = << >>

\* append_cell_to_circuit_queue for each of cells, the channels being ch.  The
\* first one is flushed at once when nothing waits on the OR connection's
\* outbuf ("primed a buffer"), which takes an empty queue.
Send(ch, d, cells) ==
  /\ chan' = [ch EXCEPT ![d] = @ \o cells]
  /\ \E primed \in {0, 1} :
       /\ primed = 1 => queued[d] = 0 /\ cells # << >>
       /\ queued' = [queued EXCEPT ![d] = @ + Len(cells) - primed]
  /\ blocked' = [blocked EXCEPT ![d] =
                   @ \/ queued'[d] >= CELL_QUEUE_HIGHWATER_SIZE]

\* connection_stop_reading on the streams in S.
Stop(rd, S) == [s \in Streams |-> rd[s] /\ s \notin S]

\* The streams set_streams_blocked_on_circ(circ, orconn, 1) stops, should the
\* cells just sent have filled the queue.
JustBlocked(d) == blocked'[d] /\ ~blocked[d]
NewlyBlocked(d) == IF JustBlocked(d) THEN Linked(d) ELSE {}

\* How often a consider_sending_sendme loop runs on a deliver window.
SendmesDue(window, start, increment) ==
  IF window <= start - increment
    THEN ((start - increment - window) \div increment) + 1
    ELSE 0

CircSendmes(window) ==
  SendmesDue(window, CIRCWINDOW_START, CIRCWINDOW_INCREMENT)

\* connection_edge_consider_sending_sendme: none while the outbuf is full.
ConnSendmes(window, buffered) ==
  IF buffered > OUTBUF_FULL
    THEN 0
    ELSE SendmesDue(window, STREAMWINDOW_START, STREAMWINDOW_INCREMENT)

\* How many of the pending payloads the two package windows let through.
CircuitUnchecked(d, s, pending) ==   \* mutant: only the stream window counts
  Least(pending, conn_package[d][s])
StreamUnchecked(d, s, pending) ==    \* mutant: only the circuit window counts
  Least(pending, circ_package[d])
Packed(d, s, pending) ==
  Least(pending, Least(circ_package[d], conn_package[d][s]))

\* connection_edge_package_raw_inbuf on stream s of side d, whose inbuf holds
\* pending payloads; the channels are ch, the reading switches of side d are
\* rd, and the handler has just sent the cells in front.
PackageRawInbuf(ch, d, s, front, pending, rd) ==
  LET n == Packed(d, s, pending)
      circLeft == circ_package[d] - n
      connLeft == conn_package[d][s] - n
      stopped == IF circLeft <= 0 THEN Linked(d)
                 ELSE IF connLeft <= 0 THEN {s} ELSE {}
  IN  /\ Send(ch, d, front \o Copies(n, Cell("DATA", s)))
      /\ inbuf' = [inbuf EXCEPT ![d][s] = pending - n]
      /\ circ_package' = [circ_package EXCEPT ![d] = circLeft]
      /\ conn_package' = [conn_package EXCEPT ![d][s] = connLeft]
      /\ reading' = [reading EXCEPT ![d] =
                       Stop(rd, stopped \cup NewlyBlocked(d))]

\* The edge connection is marked for close and leaves the circuit.
CloseConn(d, s) ==
  /\ state' = [state EXCEPT ![d][s] = "closed"]
  /\ list' = [list EXCEPT ![d] = Unlink(d, s)]
  /\ outbuf' = [outbuf EXCEPT ![d][s] = 0]

\* connection_edge_end and connection_mark_for_close.
EndConn(ch, d, s) ==
  /\ CloseConn(d, s)
  /\ Send(ch, d, <<Cell("END", s)>>)
  /\ reading' = [reading EXCEPT ![d] =
                   Stop(@, {s} \cup NewlyBlocked(d))]

----------------------------------------------------------------------------
(* Opening a stream.                                                       *)

\* connection_ap_handshake_send_begin
SendBegin(s) ==
  /\ Idle("op") /\ state["op"][s] = "none"
  /\ Send(chan, "op", <<Cell("BEGIN", s)>>)
  /\ state' = [state EXCEPT !["op"][s] = "CONNECT_WAIT"]
  /\ list' = [list EXCEPT !["op"] = <<s>> \o @]
  /\ conn_package' = [conn_package EXCEPT !["op"][s] = STREAMWINDOW_START]
  /\ conn_deliver' = [conn_deliver EXCEPT !["op"][s] = STREAMWINDOW_START]
  /\ reading' = [reading EXCEPT !["op"] =
                   Stop([@ EXCEPT ![s] = ~JustBlocked("op")],
                        NewlyBlocked("op"))]
  /\ UNCHANGED <<circVars, source, inbuf, outbuf, resume, ghostVars>>

\* connection_ap_expire_beginning: no answer yet, leave this circuit.
ExpireBeginning(s) ==
  /\ Idle("op") /\ state["op"][s] = "CONNECT_WAIT"
  /\ EndConn(chan, "op", s)
  /\ UNCHANGED <<circVars, conn_package, conn_deliver, source, inbuf, resume,
                 ghostVars>>

\* connection_exit_connect, the channels being ch: the destination is refused
\* or out of reach, or the connect is under way, or it is done already.
ExitConnect(ch, s) ==
  \E outcome \in {"closed", "CONNECTING", "OPEN"} :
    /\ state' = [state EXCEPT !["exit"][s] = outcome]
    /\ list' = [list EXCEPT !["exit"] =
                  IF outcome = "closed" THEN @ ELSE <<s>> \o @]
    /\ Send(ch, "exit", CASE outcome = "closed"     -> <<Cell("END", s)>>
                          [] outcome = "CONNECTING" -> << >>
                          [] outcome = "OPEN"       -> <<Cell("CONNECTED", s)>>)
    /\ reading' = [reading EXCEPT !["exit"] =
                     Stop([@ EXCEPT ![s] = /\ outcome # "closed"
                                           /\ ~JustBlocked("exit")],
                          NewlyBlocked("exit"))]

\* The DNS answer for the stream is in: inform_pending_connections.
Resolved(s) ==
  /\ Idle("exit") /\ state["exit"][s] = "RESOLVING"
  /\ ExitConnect(chan, s)
  /\ UNCHANGED <<circVars, conn_package, conn_deliver, source, inbuf, outbuf,
                 resume, ghostVars>>

\* connection_edge_finished_connecting, which ends in a look at the inbuf.
FinishedConnecting(s) ==
  /\ Idle("exit") /\ state["exit"][s] = "CONNECTING"
  /\ state' = [state EXCEPT !["exit"][s] = "OPEN"]
  /\ PackageRawInbuf(chan, "exit", s, <<Cell("CONNECTED", s)>>,
                     inbuf["exit"][s], [reading["exit"] EXCEPT ![s] = TRUE])
  /\ UNCHANGED <<alive, circ_deliver, list, conn_deliver, source, outbuf,
                 resume, ghostVars>>

\* connection_handle_write: the connect failed.
FailedConnecting(s) ==
  /\ Idle("exit") /\ state["exit"][s] = "CONNECTING"
  /\ EndConn(chan, "exit", s)
  /\ UNCHANGED <<circVars, conn_package, conn_deliver, source, inbuf, resume,
                 ghostVars>>

----------------------------------------------------------------------------
(* Events on the edge connections' sockets.                                *)

\* connection_handle_read brought k payloads; connection_edge_process_inbuf
\* packages them, or leaves them on the inbuf of a stream that is not open: one
\* whose application is eager, or whose server's first bytes arrive with the
\* news that it accepted.
HandleRead(d, s) ==
  /\ Idle(d) /\ reading[d][s]
  /\ \E k \in 1..source[d][s] :
       /\ source' = [source EXCEPT ![d][s] = @ - k]
       /\ \/ /\ state[d][s] = "OPEN"
             /\ PackageRawInbuf(chan, d, s, << >>, inbuf[d][s] + k, reading[d])
          \/ /\ \/ state[d][s] = "CONNECT_WAIT" /\ s \in EagerApps
                \/ state[d][s] = "CONNECTING"
             /\ inbuf' = [inbuf EXCEPT ![d][s] = @ + k]
             /\ UNCHANGED <<queueVars, circ_package, conn_package, reading>>
  /\ UNCHANGED <<alive, circ_deliver, list, state, conn_deliver, outbuf,
                 resume, ghostVars>>

\* connection_edge_reached_eof: an open stream first packages its inbuf.
ReachedEof(d, s) ==
  /\ Idle(d) /\ reading[d][s] /\ source[d][s] = 0
  /\ \/ state[d][s] = "OPEN" /\ inbuf[d][s] = 0
     \/ state[d][s] \in {"CONNECT_WAIT", "CONNECTING"}
  /\ EndConn(chan, d, s)
  /\ UNCHANGED <<circVars, conn_package, conn_deliver, source, inbuf, resume,
                 ghostVars>>

\* A read or write error on the socket: connection_edge_end_errno.
SocketError(d, s) ==
  /\ Idle(d) /\ Attached(d, s)
  /\ reading[d][s] \/ outbuf[d][s] > 0
  /\ EndConn(chan, d, s)
  /\ UNCHANGED <<circVars, conn_package, conn_deliver, source, inbuf, resume,
                 ghostVars>>

\* mutant: the SENDME withheld while the outbuf was full is never sent
HandleWriteNoSendme(d, s) ==
  /\ Idle(d) /\ state[d][s] = "OPEN" /\ outbuf[d][s] > 0
  /\ \E left \in 0..(outbuf[d][s] - 1) :
       outbuf' = [outbuf EXCEPT ![d][s] = left]
  /\ UNCHANGED <<circVars, queueVars, list, state, conn_package, conn_deliver,
                 source, inbuf, reading, resume, ghostVars>>

\* connection_handle_write flushed some of an open stream's outbuf; on an
\* empty outbuf connection_edge_finished_flushing considers a SENDME.
HandleWrite(d, s) ==
  /\ Idle(d) /\ state[d][s] = "OPEN" /\ outbuf[d][s] > 0
  /\ \E left \in 0..(outbuf[d][s] - 1) :
       LET n == IF left = 0 THEN ConnSendmes(conn_deliver[d][s], 0) ELSE 0
       IN  /\ outbuf' = [outbuf EXCEPT ![d][s] = left]
           /\ conn_deliver' = [conn_deliver EXCEPT ![d][s] =
                                 @ + n * STREAMWINDOW_INCREMENT]
           /\ Send(chan, d, Copies(n, Cell("SENDME", s)))
           /\ reading' = [reading EXCEPT ![d] = Stop(@, NewlyBlocked(d))]
  /\ UNCHANGED <<circVars, list, state, conn_package, source, inbuf, resume,
                 ghostVars>>

\* Would the queue of side d, one cell shorter, unblock the streams?
UnblocksTooLate(d) ==                \* mutant: "<" for "<="
  blocked[d] /\ queued[d] - 1 < CELL_QUEUE_LOWWATER_SIZE
Unblocks(d) == blocked[d] /\ queued[d] - 1 <= CELL_QUEUE_LOWWATER_SIZE

\* connection_or_flush_from_first_active_circuit: one cell leaves the cell
\* queue of side d; a queue that is short again unblocks the streams.
FlushCell(d) ==
  /\ Idle(d) /\ queued[d] > 0
  /\ queued' = [queued EXCEPT ![d] = @ - 1]
  /\ blocked' = [blocked EXCEPT ![d] = @ /\ ~Unblocks(d)]
  /\ reading' = [reading EXCEPT ![d] =
                   [s \in Streams |-> @[s] \/ (Unblocks(d) /\ s \in Linked(d))]]
  /\ UNCHANGED <<chan, circVars, connVars, resume, ghostVars>>

----------------------------------------------------------------------------
(* circuit_receive_relay_cell at the end of the circuit:                   *)
(* connection_edge_process_relay_cell and its _not_open variant.           *)


\* The oldest cell on its way to side d is cell.
Arrives(d, cell) ==
  LET p == Peer(d)
  IN  Idle(d) /\ Len(chan[p]) > queued[p] /\ Head(chan[p]) = cell

\* The channels once side d has taken that cell off the wire.
Taken(d) == [chan EXCEPT ![Peer(d)] = Tail(@)]

\* connection_exit_begin_conn and dns_resolve: the name has to be looked up, in
\* which case the stream waits on resolving_streams, or it is connected (or
\* refused) right away.
ReceiveBegin(s) ==
  /\ Arrives("exit", Cell("BEGIN", s)) /\ state["exit"][s] = "none"
  /\ conn_package' = [conn_package EXCEPT !["exit"][s] = STREAMWINDOW_START]
  /\ conn_deliver' = [conn_deliver EXCEPT !["exit"][s] = STREAMWINDOW_START]
  /\ \/ ExitConnect(Taken("exit"), s)
     \/ /\ state' = [state EXCEPT !["exit"][s] = "RESOLVING"]
        /\ Send(Taken("exit"), "exit", << >>)
        /\ UNCHANGED <<list, reading>>
  /\ UNCHANGED <<circVars, source, inbuf, outbuf, resume, ghostVars>>

\* CONNECTED opens a waiting stream, which packages what is on its inbuf,
ReceiveConnected(s) ==
  /\ Arrives("op", Cell("CONNECTED", s)) /\ state["op"][s] = "CONNECT_WAIT"
  /\ state' = [state EXCEPT !["op"][s] = "OPEN"]
  /\ PackageRawInbuf(Taken("op"), "op", s, << >>, inbuf["op"][s],
                     reading["op"])
  /\ UNCHANGED <<alive, circ_deliver, list, conn_deliver, source, outbuf,
                 resume, ghostVars>>

\* ... unless the exit connected to an internal address, which ends it, ...
ReceiveBadConnected(s) ==
  /\ Arrives("op", Cell("CONNECTED", s)) /\ state["op"][s] = "CONNECT_WAIT"
  /\ EndConn(Taken("op"), "op", s)
  /\ UNCHANGED <<circVars, conn_package, conn_deliver, source, inbuf, resume,
                 ghostVars>>

\* ... and is ignored for a stream that is gone, a protocol error for an
\* open one.
ReceiveStrayConnected(s) ==
  /\ Arrives("op", Cell("CONNECTED", s)) /\ state["op"][s] # "CONNECT_WAIT"
  /\ alive' = (state["op"][s] # "OPEN")
  /\ Send(Taken("op"), "op", << >>)
  /\ UNCHANGED <<circ_package, circ_deliver, connVars, reading, resume,
                 ghostVars>>

\* connection_edge_process_relay_cell_not_open: an unexpected cell is dropped
\* before any window is looked at.
ReceiveNotOpen(d, s) ==
  /\ state[d][s] \in NotOpen
  /\ \E cmd \in {"DATA", "SENDME"} :
       /\ Arrives(d, Cell(cmd, s))
       /\ lost' = [lost EXCEPT ![d] = IF cmd = "DATA" THEN @ + 1 ELSE @]
  /\ Send(Taken(d), d, << >>)
  /\ UNCHANGED <<circVars, connVars, reading, resume, bonus>>

\* DATA: both deliver windows pay for the cell and are replenished with
\* SENDMEs; the payload goes to the stream if it is still there.  A window
\* that falls below zero tears the circuit down.
ReceiveData(d, s) ==
  LET known == state[d][s] = "OPEN"
      circLeft == circ_deliver[d] - 1
      connLeft == conn_deliver[d][s] - 1
      delivered == known /\ circLeft >= 0 /\ connLeft >= 0
      a == IF circLeft < 0 THEN 0 ELSE CircSendmes(circLeft)
      b == IF delivered THEN ConnSendmes(connLeft, outbuf[d][s] + 1) ELSE 0
  IN  /\ Arrives(d, Cell("DATA", s)) /\ state[d][s] \notin NotOpen
      /\ alive' = (circLeft >= 0 /\ (known => connLeft >= 0))
      /\ circ_deliver' = [circ_deliver EXCEPT ![d] =
                            circLeft + a * CIRCWINDOW_INCREMENT]
      /\ conn_deliver' = [conn_deliver EXCEPT ![d][s] =
                            IF known /\ circLeft >= 0
                              THEN connLeft + b * STREAMWINDOW_INCREMENT
                              ELSE @]
      /\ outbuf' = [outbuf EXCEPT ![d][s] = IF delivered THEN @ + 1 ELSE @]
      /\ Send(Taken(d), d, Copies(a, Cell("SENDME", 0)) \o
                           Copies(b, Cell("SENDME", s)))
      /\ reading' = [reading EXCEPT ![d] = Stop(@, NewlyBlocked(d))]
      /\ UNCHANGED <<circ_package, list, state, conn_package, source, inbuf,
                     resume, ghostVars>>

\* mutant: an END for a stream that is not open yet is dropped
EndOpenOnly(d, s) ==
  /\ Arrives(d, Cell("END", s))
  /\ Send(Taken(d), d, << >>)
  /\ IF state[d][s] = "OPEN"
       THEN /\ CloseConn(d, s)
            /\ reading' = [reading EXCEPT ![d][s] = FALSE]
       ELSE UNCHANGED <<state, list, outbuf, reading>>
  /\ UNCHANGED <<circVars, conn_package, conn_deliver, source, inbuf, resume,
                 ghostVars>>

\* END: the stream is closed and sends no END of its own; an END for an
\* unknown stream is dropped.
ReceiveEnd(d, s) ==
  /\ Arrives(d, Cell("END", s))
  /\ Send(Taken(d), d, << >>)
  /\ IF Attached(d, s)
       THEN /\ CloseConn(d, s)
            /\ reading' = [reading EXCEPT ![d][s] = FALSE]
       ELSE UNCHANGED <<state, list, outbuf, reading>>
  /\ UNCHANGED <<circVars, conn_package, conn_deliver, source, inbuf, resume,
                 ghostVars>>

\* mutant: the circuit window grows by the stream increment
CircSendmeWrongIncrement(d, sid) ==
  /\ Arrives(d, Cell("SENDME", sid))
  /\ sid \in {0} \cup {s \in Streams : ~Attached(d, s)}
  /\ Send(Taken(d), d, << >>)
  /\ circ_package' = [circ_package EXCEPT ![d] = @ + STREAMWINDOW_INCREMENT]
  /\ resume' = [resume EXCEPT ![d] = list[d]]
  /\ bonus' = [bonus EXCEPT ![d] = IF sid = 0 THEN @ ELSE @ + 1]
  /\ UNCHANGED <<alive, circ_deliver, connVars, reading, lost>>

\* A SENDME with no stream to go with is a circuit-level one: the code asks
\* whether relay_lookup_conn found a stream, not whether the id is zero.
\* circuit_resume_edge_reading then visits the streams (ResumeReading).
ReceiveCircSendme(d, sid) ==
  /\ Arrives(d, Cell("SENDME", sid))
  /\ sid \in {0} \cup {s \in Streams : ~Attached(d, s)}
  /\ Send(Taken(d), d, << >>)
  /\ circ_package' = [circ_package EXCEPT ![d] = @ + CIRCWINDOW_INCREMENT]
  /\ resume' = [resume EXCEPT ![d] = list[d]]
  /\ bonus' = [bonus EXCEPT ![d] = IF sid = 0 THEN @ ELSE @ + 1]
  /\ UNCHANGED <<alive, circ_deliver, connVars, reading, lost>>

\* mutant: the stream window grows by the circuit increment
ConnSendmeWrongIncrement(d, s) ==
  /\ Arrives(d, Cell("SENDME", s)) /\ state[d][s] = "OPEN"
  /\ Send(Taken(d), d, << >>)
  /\ conn_package' = [conn_package EXCEPT ![d][s] = @ + CIRCWINDOW_INCREMENT]
  /\ resume' = [resume EXCEPT ![d] = <<s>>]
  /\ UNCHANGED <<circVars, list, state, conn_deliver, source, inbuf, outbuf,
                 reading, ghostVars>>

\* mutant: reading is not started again
ConnSendmeNoRestart(d, s) ==
  /\ Arrives(d, Cell("SENDME", s)) /\ state[d][s] = "OPEN"
  /\ Send(Taken(d), d, << >>)
  /\ conn_package' = [conn_package EXCEPT ![d][s] =
                        @ + STREAMWINDOW_INCREMENT]
  /\ UNCHANGED <<circVars, list, state, conn_deliver, source, inbuf, outbuf,
                 reading, resume, ghostVars>>

\* A stream-level SENDME: start reading again and package the inbuf, which is
\* what ResumeReading does for this one stream.
ReceiveConnSendme(d, s) ==
  /\ Arrives(d, Cell("SENDME", s)) /\ state[d][s] = "OPEN"
  /\ Send(Taken(d), d, << >>)
  /\ conn_package' = [conn_package EXCEPT ![d][s] =
                        @ + STREAMWINDOW_INCREMENT]
  /\ resume' = [resume EXCEPT ![d] = <<s>>]
  /\ UNCHANGED <<circVars, list, state, conn_deliver, source, inbuf, outbuf,
                 reading, ghostVars>>

\* mutant: reading starts again but the inbuf is not looked at
ResumeWithoutPackaging(d) ==
  /\ alive /\ resume[d] # << >>
  /\ reading' = [reading EXCEPT ![d][Head(resume[d])] = TRUE]
  /\ resume' = [resume EXCEPT ![d] = Tail(@)]
  /\ UNCHANGED <<circVars, queueVars, connVars, ghostVars>>

\* One iteration of circuit_resume_edge_reading_helper.  It does not ask
\* whether the stream is open.
ResumeReading(d) ==
  LET s == Head(resume[d])
  IN  /\ alive /\ resume[d] # << >>
      /\ IF conn_package[d][s] > 0
           THEN /\ PackageRawInbuf(chan, d, s, << >>, inbuf[d][s],
                                   [reading[d] EXCEPT ![s] = TRUE])
                /\ resume' = [resume EXCEPT ![d] =
                                IF circ_package'[d] <= 0 THEN << >>
                                ELSE Tail(@)]
           ELSE /\ resume' = [resume EXCEPT ![d] = Tail(@)]
                /\ UNCHANGED <<queueVars, circ_package, conn_package, inbuf,
                               reading>>
      /\ UNCHANGED <<alive, circ_deliver, list, state, conn_deliver, source,
                     outbuf, ghostVars>>

----------------------------------------------------------------------------
Next ==
  \/ \E s \in Streams : SendBegin(s)
  \/ \E s \in Streams : ExpireBeginning(s)
  \/ \E s \in Streams : Resolved(s)
  \/ \E s \in Streams : FinishedConnecting(s)
  \/ \E s \in Streams : FailedConnecting(s)
  \/ \E s \in Streams : ReceiveBegin(s)
  \/ \E s \in Streams : ReceiveConnected(s)
  \/ \E s \in Streams : ReceiveBadConnected(s)
  \/ \E s \in Streams : ReceiveStrayConnected(s)
  \/ \E d \in Side, s \in Streams : HandleRead(d, s)
  \/ \E d \in Side, s \in Streams : ReachedEof(d, s)
  \/ \E d \in Side, s \in Streams : SocketError(d, s)
  \/ \E d \in Side, s \in Streams : HandleWrite(d, s)
  \/ \E d \in Side, s \in Streams : ReceiveNotOpen(d, s)
  \/ \E d \in Side, s \in Streams : ReceiveData(d, s)
  \/ \E d \in Side, s \in Streams : ReceiveEnd(d, s)
  \/ \E d \in Side, s \in Streams : ReceiveConnSendme(d, s)
  \/ \E d \in Side, sid \in Streams \cup {0} : ReceiveCircSendme(d, sid)
  \/ \E d \in Side : FlushCell(d)
  \/ \E d \in Side : ResumeReading(d)

Spec == Init /\ [][Next]_vars

(***************************************************************************)
(* Fairness.  Every event loop keeps turning (main.c): while a side has a  *)
(* cell to flush or to process, a socket that is readable or writable, or  *)
(* a DNS request or a connect() that ends one way or the other, it serves  *)
(* one of them.  Which one is left open, which assumes less than libevent  *)
(* provides and is enough, since every supply is finite.                   *)
(* Nothing obliges an application to open a stream, or an endpoint to      *)
(* close one.                                                              *)
(***************************************************************************)
ReceiveCell(d) ==
  \/ \E s \in Streams :
       \/ d = "exit" /\ ReceiveBegin(s)
       \/ d = "op" /\ (\/ ReceiveConnected(s) \/ ReceiveBadConnected(s)
                        \/ ReceiveStrayConnected(s))
       \/ ReceiveNotOpen(d, s) \/ ReceiveData(d, s) \/ ReceiveEnd(d, s)
       \/ ReceiveConnSendme(d, s)
  \/ \E sid \in Streams \cup {0} : ReceiveCircSendme(d, sid)

Serve(d) ==
  \/ FlushCell(d) \/ ResumeReading(d) \/ ReceiveCell(d)
  \/ \E s \in Streams :
       \/ HandleRead(d, s) \/ HandleWrite(d, s)
       \/ d = "exit" /\ (\/ Resolved(s)
                          \/ FinishedConnecting(s) \/ FailedConnecting(s))

Fairness == \A d \in Side : WF_vars(Serve(d))

FairSpec == Spec /\ Fairness
----------------------------------------------------------------------------
(* Properties.                                                             *)

\* How many cells of seq are in C.
CountIn(seq, C) == Cardinality({i \in DOMAIN seq : seq[i] \in C})

\* The circuit ledger, relay.c: whatever the receiver's deliver window has paid
\* for is either still in the sender's package window, in flight as a DATA
\* cell, on its way back as a circuit-level SENDME, or was dropped unpaid at a
\* stream that was not open.  Two processes update the two windows; nothing
\* else keeps them in step.
CircuitLedger ==
  \A d \in Side :
    LET p == Peer(d)
    IN  (circ_deliver[d] - CIRCWINDOW_START) + InitialPackageWindow =
          circ_package[p] - CIRCWINDOW_INCREMENT * bonus[p]
          + CountIn(chan[p], DataCells)
          + CIRCWINDOW_INCREMENT * CountIn(chan[d], RefillCells)
          + lost[d]

\* The stream ledger: a live stream's deliver window covers everything its peer
\* may still send under its package window.
StreamLedger ==
  \A d \in Side, s \in Streams :
    LET p == Peer(d)
    IN  state[d][s] = "OPEN" /\ Attached(p, s) =>
          conn_deliver[d][s] >=
            conn_package[p][s] + CountIn(chan[p], {Cell("DATA", s)})
            + STREAMWINDOW_INCREMENT * CountIn(chan[d], {Cell("SENDME", s)})

\* Two honest sides never tear a circuit down for a protocol error: neither the
\* "deliver_window below 0" nor the "'connected' unsupported while open" branch
\* of connection_edge_process_relay_cell is reached.
NoProtocolKill == alive

\* A stream that is open and not reading waits for something that will come: a
\* circuit SENDME, a stream SENDME, or the cell queue to drain.
NoStuckReader ==
  \A d \in Side, s \in Streams :
    Idle(d) /\ state[d][s] = "OPEN" /\ ~reading[d][s] =>
      circ_package[d] = 0 \/ conn_package[d][s] = 0 \/ blocked[d]

\* connection_edge_package_raw_inbuf never leaves payloads on the inbuf of an
\* open stream while both windows have room: no event would fetch them.
NoStuckInbuf ==
  \A d \in Side, s \in Streams :
    Idle(d) /\ state[d][s] = "OPEN" /\ inbuf[d][s] > 0 =>
      circ_package[d] = 0 \/ conn_package[d][s] = 0

\* Hysteresis of the cell queue: streams are blocked from the high-water mark
\* until the queue is back at the low-water mark, so a full queue implies
\* blocked streams and an empty one never does.
QueueHysteresis ==
  \A d \in Side :
    /\ ~blocked[d] => queued[d] < CELL_QUEUE_HIGHWATER_SIZE
    /\ blocked[d] => queued[d] > CELL_QUEUE_LOWWATER_SIZE

\* Everything the endpoint of an open stream writes is packaged, unless the
\* stream ends first: no window, queue or reading switch stays shut for ever,
\* and a SENDME withheld while an outbuf was full is sent when it has drained.
\* The exception is a circuit whose other end has dropped a DATA cell at a
\* stream that was not open: no SENDME ever pays for that cell, so the windows
\* may stay at zero.
AllPackaged ==
  <>[](\A d \in Side, s \in Streams :
         state[d][s] = "OPEN" =>
           \/ source[d][s] = 0 /\ inbuf[d][s] = 0
           \/ lost[Peer(d)] > 0)

\* No half-open streams: when one side closes a stream the other side learns of
\* it, whatever crosses on the wire (END against END, CONNECTED against END,
\* BEGIN followed by the END of a timeout) and whatever state it is in.
StreamsEnd ==
  <>[](\A d \in Side, s \in Streams :
         state[d][s] = "closed" => state[Peer(d)][s] = "closed")

\* tor-spec.txt, 6.2: "The OP waits for a RELAY_CONNECTED cell before sending
\* any data."
DataWaitsForConnected ==
  \A s \in Streams :
    state["op"][s] = "CONNECT_WAIT" =>
      CountIn(chan["op"], {Cell("DATA", s)}) = 0
=============================================================================
