# A TLA+ verification project for Tor (0.2.2.5-alpha-dev)

Tor is a single-threaded, event-driven relay and client (`src/src/or`). Every
process runs one libevent loop; concurrency comes from many processes talking
over links, from the order in which sockets become ready, from timers, and from
helper processes (CPU workers, DNS). This project models the parts that decide
whether cells flow and circuits live: the building and tearing down of circuits,
the CPU workers that answer their CREATE cells, the per-relay cell queues and
rings that share a link between circuits, the end-to-end windows of a circuit's
streams, the name lookups of exit streams (the cache and the resolver under it),
hidden services, and the accounting that puts a relay to sleep.

## Inventory

| Component | State | Operations | Interacts with | Hard behaviour | What makes it correct |
|---|---|---|---|---|---|
| Stream flow control (`relay.c`, `connection_edge.c`) | package/deliver windows of circuit and streams, edge connection states, inbuf/outbuf, reading switch | package an inbuf, receive BEGIN/CONNECTED/DATA/END/SENDME, resume reading, timeouts, EOF | cell queues (blocking), DNS (exit streams), circuits | cells of two directions and several streams cross; three reasons to stop reading, three events that restart it | the two copies of every window agree; an honest circuit is never killed; nothing waits for ever |
| Cell queues and rings (`relay.c`, `circuitlist.c`, `connection_or.c`) | `n_conn_cells`, `p_conn_cells`, `active_circuits` and the `next/prev_active` pointers, outbufs | append, flush one, activate, deactivate, unlink all, fill up to the high-water mark | flow control (blocking), circuit teardown, OR connections | circuits leave rings because of five different events; refilling depends on a non-empty outbuf | rings well formed and complete; no lost wakeup; round robin |
| Circuit construction (`circuitbuild.c`, `command.c`, `onion.c`) | circuit state, `n_conn`/`p_conn`, `n_hop`, pending circuits, OR connections | CREATE, CREATED, EXTEND, EXTENDED, TRUNCATED, DESTROY, connect, expire | CPU workers, OR connections, cell queues | DESTROY crosses EXTEND and CREATED; a failed connection takes many circuits with it | neighbours agree on the circuits they share; a waiting circuit has something to wait for; one handshake at a time |
| CPU workers (`cpuworker.c`, `onion.c`) | busy flags, onion queue, worker count | assign, answer, expire, cull, rotate keys | circuits | late answer against reused circuit id | counters and list agree with workers and circuits; no request is forgotten |
| DNS cache (`dns.c`) | pending/done resolves, waiting streams, expiry queue | resolve, answer, cancel, purge | exit streams, resolver | list edited while walked; cancel against answer; late answer for an entry that was made again | every waiting stream is answered once, and none waits for ever |
| Resolver (`eventdns.c`) | requests in flight and waiting, nameservers and their timers, counters | resolve, reply, time out, reissue, search, probe, reload | DNS cache | lost, late and doubled answers; all servers down; server list replaced under way | every request is called back once; nothing is stranded |
| Stream attachment (`circuituse.c`, `connection_edge.c`) | unattached streams, circuits' streams | attach, detach and retry, expire | circuits, flow control, rendezvous | retry races with late answers | a stream is on at most one circuit |
| Hibernation (`hibernate.c`) | accounting interval, byte counters, state file | count, save, restart, wake up, go to sleep | main loop | crash between two saves; interval boundary; limits that change under way | usage is remembered; the limit stops the relay; it wakes in time |
| Rendezvous (`rend*.c`) | cookies, introduction points, joined circuits, descriptor cache | establish, introduce, rendezvous, fetch, publish, retry | circuits, streams, directories | third parties going away in any order; the same request over two ways | a cookie joins exactly two circuits, and a handshake is answered once |
| Main loop and connections (`main.c`, `connection.c`, `buffers.c`) | connection array, token buckets, buffers | read, write, mark, close | all | marking during iteration | no use of a closed connection |
| Links, directory, policies, guards, controller, configuration, statistics, utilities | - | - | - | mostly formats, I/O, randomised choice | not modelled, see below |

`PROJECT.json` lists the same components with their files and status, and, under
`hazards`, each place in the code that is hard to test.

## Modules

**FlowControl.** One circuit, its two ends (`"op"` and `"exit"`) and a set of
streams. `chan[d]` holds the relay cells that side `d` has sent and its peer has
not processed, in order; the last `queued[d]` of them are still on `d`'s cell
queue. `circ_package`/`circ_deliver` are the circuit's windows (`circuit_t` at
the exit, `crypt_path_t` at the origin), `conn_package`/`conn_deliver` a
stream's. `list` is `p_streams`/`n_streams`, newest first. `reading` is the read
event of an edge connection, `blocked` is `streams_blocked_on_{n,p}_conn`.
Every handler is an action: `SendBegin`, `ExpireBeginning`, `ReceiveBegin`,
`Resolved`, `FinishedConnecting`, `FailedConnecting`, `HandleRead`, `ReachedEof`,
`SocketError`, `HandleWrite`, `FlushCell` and one `Receive...` action per cell
type and case of `connection_edge_process_relay_cell`. The loop of
`circuit_resume_edge_reading_helper` is one `ResumeReading` step per stream;
while it runs (`resume[d] # << >>`) no other handler of that side may.
Two history variables count what the code loses track of: `lost`, DATA cells
dropped at a stream that is not open, and `bonus`, stream SENDMEs taken for
circuit SENDMEs.

**CellQueue.** One relay with its circuits and OR connections. A *leg*
`<<c, "n">>` or `<<c, "p">>` is a circuit as seen from one of its connections.
The ring pointers are functions `next`, `prev`, `active`, and the ring operations
(`MakeActive`, `MakeInactive`, `FlushFirst`, `Append1`, `Detach`,
`SendDestroys`) are functions of a record of the state they touch, so that a
handler composes them in the order of the code's calls. `crashed` is set when
the `tor_assert` of `circuit_set_n_circid_orconn` fails. The loop of
`connection_or_flushed_some` is unrolled into `FlushedSome` steps.

**RoundRobin.** The abstract promise of a ring: a line per connection in which a
newcomer stands last, the first one is served and goes to the back or leaves, and
nobody overtakes. `CellQueue` is shown to implement it with
`line[o]` being the ring walked from `active_circuits`.

**CpuWorker.** One relay's CPU workers, `ol_list` and the circuits that wait for
an answer. `worker[w]` is the state of a worker's connection (`"closing"` once
marked), `job[w]` the circuit it was asked about, `reply[w]` its unread answer;
`linked[c]` says that the circuit still has its `p_conn` and is in the circuit id
map. The functions of `cpuworker.c` and `onion.c` that call each other (`Culls`,
`Spawns`, `PendingAdd`, `Assigns`, `ProcessPendingTask`) map a record of the state
to the set of records they may leave, because spawning may fail and time is
abstracted; `Create`, `ProcessInbuf`, `ReachedEof`, `Rotate` and the ways a
circuit or a connection goes away are the actions. `crashed` is set when a
`tor_assert` fails.

**CircuitBuild.** A chain of nodes, the origin 0 and relays 1 .. `PathLen`, and
circuits along it of different lengths, so that they share connections, wait for
them together and lose them together. `circ[i][c]` is node `i`'s `circuit_t`
(state, connections `n` and `p`, cells queued each way, `hops` built),
`conn[l][k]` the `k`-th OR connection of link `l` with the state of both ends and
the cells on the wire. Functions of the code that call each other
(`Extend`, `DeliverCreate`, `MarkForClose`, `NConnFailed`, `GotDestroyBwd`) are
operators on the record `World`. Where the code walks a list of circuits
(`circuit_n_conn_done`, `circuit_unlink_all_from_or_conn`) the operator takes the set
of them and changes all at once: their circuits do not read each other, only the
DESTROYs they write to one connection stand in some order. The actions are the
events: `ConnOpens`, `ConnMarked`, `ConnCloses`, `FarCloses`, `RecvFwd`, `RecvBwd`,
`FlushOut`, `FlushIn`, `CpuAnswers`, `Establish`, `Expire`,
`GuardRefused`, `CloseAllMarked`. DESTROY is written to the connection past the
queue, as in the code; `overtaken` remembers the CREATEs it overtook.

**DnsCache.** The resolve cache of an exit and the streams that wait in it.
`dns.entry` is a `cached_resolve_t`'s state, `dns.waiting` its
`pending_connections`, `dns.resolving_streams` the circuits' lists; `asked`
counts the requests `EventDns` has accepted and not called back (its
`RequestsKept` is the only thing used of it). A connection marked for close
stays on its lists until `CloseCloseable`. `crashed` says which assertion, or
which of two known misbehaviours (see Observations), ended the run.

**EventDns.** The resolver. `ev.inflight` and `ev.waiting` are the two request
lists, `ev.ring` the servers from `server_head` on, `ev.sent` the queries that
may still be answered. `Socket` is what sending to each server does during one
callback. Actions: `Resolve`, `Reply`, `Timeout`, `Writable`, `Prod` (the probe
timer), `ReadError`, `Reload`, `ReloadFails`, `ConfigureAgain`.

**Hibernate.** Accounting and hibernation of a relay, with the state file. `h` is
what the process holds, `disk` what the file holds, `used` what really went over
the wire in the interval. One `Tick` is one run of `second_elapsed_callback`,
whole: traffic, housekeeping of the interval, noting and writing of usage, and
`consider_hibernation`. `Terminate`, `Interrupt` and `Hup` are the signals;
`Crash`, `TickDown` and `Restart` the fault model. On SIGHUP and at a restart the
options are read (`ReadOptions`): `AccountingMax` and `AccountingStart` may both have
been changed, and accounting is configured again even if they have not.

**Rendezvous.** A client, a hidden service, introduction points and a rendezvous
point. `cl` is the client (its circuits, the cells it has sent on each, its
streams, its cached descriptor, directories left to ask and fetches under way),
`sv` the service (circuits, introduction points, `accepted_intros`), `end[c]` the
`or_circuit_t` at the relay where circuit `c` ends (purpose, token, splice),
`back[c]` the cells that relay has sent.
A DESTROY may overtake what was sent before it (`Overtaken`). One action per handler:
`rend_client_*` (`RendezvousAcked`, `IntroductionAcked`, `IntroductionRefused`,
`ReceiveRendezvous`), `rend_mid_*` (`Mid...`), `rend_service_*`
(`ServiceOpened`, `IntroEstablished`, `ServiceIntroduce`, `ServicesIntroduce`,
`Upload`), the circuit events of either origin, the fetches, and the once-a-second
`ClientSecond`. `Attach` is the hidden-service part of
`connection_ap_handshake_attach_circuit`; where the code chooses at random or by
age, it returns the set of outcomes.

**How they fit together.** CircuitBuild leaves the order in which a connection
serves its circuits to CellQueue and the CREATE handshake at a relay to
CpuWorker; FlowControl runs on a circuit that CircuitBuild has built, its
`Resolved` step is what DnsCache promises (`ToldOnce`, `StreamsSettle`), which in
turn uses what EventDns promises (`RequestsKept`). Rendezvous takes a circuit as
a pair of FIFO channels that end in a DESTROY, which may come before the last cells;
that one comes is what `NeighboursAgree` of CircuitBuild shows of circuits that have
been built (its exception, `overtaken`, is about a CREATE).

**Queues** filters a queue (what `SelectSeq` does), written without recursion so
that proofs can expand it; CpuWorker, DnsCache and the proofs about CircuitBuild use
it.

The **MC** modules instantiate them for TLC; the modules whose names end in
**Proofs** hold the theorems (see Proofs). A definition whose comment says *mutant*
is a plausible bug of the definition it is named after; no specification uses it.

## Runs

| Run | Instance | Shows |
|---|---|---|
| `flow_safety` | 2 streams, one with an eager application, 2 payloads each; circuit window 2 of 3, increment 2; stream window 1; queue marks 2/0 | type, both window ledgers, no protocol kill, no stuck reader or inbuf, queue hysteresis |
| `flow_live` | 2 streams, one with an eager application, 2 payloads each; circuit window 2 of 2, increment 1; stream window 1; only the client writes; fairness | everything is packaged, unless a DATA cell was dropped; closing reaches the other end |
| `queue_safety` | 3 circuits (2 start here, 1 relayed), 2 links, queues and outbufs of 2 | rings well formed, complete, no lost wakeup |
| `queue_live` | 3 circuits on 1 link, queues of 3, fairness | refinement of RoundRobin, no starvation |
| `cpu_safety` | 3 circuits over 2 links, two of them with the same id one after the other; 2 workers and a third while one is closing; at most 2 on the list | counters agree with the workers, waiting circuits stay valid, no onionskin is forgotten |
| `circ` | 2 circuits of 2 hops that share their links, or 1 of 3; 2 connections a link, 1 fault | waiting circuits have a connection to wait for, neighbours agree, one handshake under way |
| `dns` | 4 streams of 2 circuits, 3 for one name and 1 for an IP address, 2 requests out at once, fairness | waiting lists and streams agree, each stream told once, none waits for ever |
| `evdns` | 2 callers, 1 probe, 2 servers, 1 place in flight, 1 reissue, retransmission, search and reload | counters agree with the lists, every request is kept until called back, nothing stranded, servers that are down are probed |
| `acct` | days of 4 ticks, weeks of 2 and months of 3 days, limit 4 or off, 2 bytes a tick, 1 crash; limit and interval change | usage remembered up to the last minutes before a crash, the right interval, the limit stops the relay, it wakes in time |
| `rend` | 1 stream, 3 client and 4 service circuits, 2 introduction relays, 2 directories, 2 uploads, 1 fault | joined circuits match and fall together, a handshake is answered once, nobody hangs on what is gone |
| `flow_early_data` | as `flow_safety`, both directions | **violated**: data is sent before CONNECTED |
| `queue_truncate` | as `queue_safety` | **violated**: `tor_assert` fails on truncate, then extend |

What the properties say is written above each of them. The ones worth
singling out:

* `CircuitLedger`: the deliver window of one process and the package window of
  another, cells in flight in both directions, and what was lost, add up. It is
  what makes "deliver_window below 0. Killing." unreachable, together with
  `StreamLedger` (an inequality, because a stream SENDME dropped at a stream that
  is not open is never recovered).
* `NoStuckReader`, `NoStuckInbuf`: reading is stopped for three reasons, and
  payloads already read have no event of their own, so the restart of each must
  be complete.
* `NoLostWakeup`: a circuit's cell is written to an OR connection only if the
  outbuf is empty or has just been flushed; so active circuits imply a non-empty
  outbuf.
* `IdleCounted`: assignment compares `num_cpuworkers_busy` with
  `num_cpuworkers` and asserts that an idle connection exists when they differ;
  the counters are kept by six functions and by none on a socket error.
* `NeverForgotten`: a waiting circuit moves from the CREATE cell to `ol_list` or a
  worker and from the list to a worker, while requests are given up, workers die and
  answers are matched by connection and circuit id only. It is always in one of the
  two places; only a worker that goes away takes it along.
* `AllPackaged`: whatever stopped a stream (either window, a full queue, a SENDME
  withheld at the other end while the outbuf was full), it goes on in the end. It is
  stated with the exception `lost[Peer(d)] > 0`: a DATA cell dropped at a stream that
  is not open (finding 1) is never paid for, and enough of them leave the circuit's
  window at zero for ever. Without eager applications nothing is dropped and the
  exception does not arise.
* `WakesInTime`: the planned moment to wake is never beyond the end of the interval
  and never passed, with the one exception under Observations.
* `OneHandshake`: a circuit under construction has exactly one cell, or one
  relay that waits, that will bring it on, or bad news under way: DESTROY and
  TRUNCATED cross EXTEND and EXTENDED without losing or doubling one.
* `WaitersOK`: six functions of `dns.c` edit the waiting lists; the list of an
  address is exactly the streams that resolve it, and an entry is pending only while
  an answer is owed.
* `NothingStranded`: every request in flight has a timer or a socket that is
  watched, and requests wait only when all places are taken.
* `UsageRemembered`: bytes that went over the wire in the interval, against what
  the relay knows of them after any number of restarts.
* `JoinedOrTold`: a client's joined circuit leads to the service's, or a DESTROY
  is on its way to the client; `SpliceOK` says the same of the relay's pointers.
* `OneAnswer`: the client repeats a handshake over another introduction point, the
  service repeats a circuit to the rendezvous point; still one answer per handshake.
* `ActiveIffQueued` is restricted to live circuits in one direction because of
  the defect below: a circuit marked after `get_unique_circ_id_by_conn` failed may
  hold stale cells off the ring until it is freed.

**Bounds.** Windows, marks and supplies are scaled down so that within a few
cells a window runs empty, is refilled, and a queue passes both marks; the code's
1000/100, 500/50 and 256/64 only make the same events rarer. Two streams are the
least that share a circuit window; three circuits the least for which overtaking
and starvation differ from taking turns; two connections the least for a relayed
circuit. In `flow_live` each stream has one payload more than its window, so that it
waits for stream SENDMEs, and the two more than the circuit's; the exit writes nothing
(the handlers of DATA and SENDME are the same in both directions; the safety theorems
cover both, liveness with two is not checked). `MaxQueue` and `MaxOutbuf` bound what is offered and only appear in
guards of handlers that start something. `queue_live` has one connection: with
two, the ring of each is the same structure and the fair state graph only
larger. In `cpu_safety` two workers and three circuits are the least with a
worker of each kind (idle, busy, closing) next to a waiting circuit (a third place is
for the replacement of one that is closing); the list is
refused at its bound and culled of old requests below it; `c1` and `c2` have the same
id, so that the answer for the one can find the other. `circ`: two circuits
are the least that share a waiting connection, three hops the least with a relay
between two relays; two connections a link, so that one can replace another; the
fault strikes anywhere. `dns`: a marked stream, one that waits and one that comes
later, of two circuits, and two requests out so that an old answer meets a new
entry. `evdns`: one place in flight makes every second request wait; two servers,
so that one is left when one fails. During one callback at most one server
misbehaves; `MaxTimeouts` is 0, so one timeout takes a server down. `acct`: the
window of 11 ticks holds the turn of a day, a week and a month; the limit is two
ticks of traffic, so a second wake-up and a second exhaustion happen in it; each of the
three intervals can be changed to each other at any time. `rend`:
three client circuits are a rendezvous circuit, an introduction circuit and one
more of either kind after a failure; four service circuits are two introduction
points, an answer and its retry; timeouts count as faults, so the expiry of a joined
circuit, whose stream has to time out first, needs two: its properties were also
checked with two faults on a smaller instance (2 client and 3 service circuits,
`NumIntro`, `Dirs` and `MaxUploads` 1). Deadlock checking is off: all the systems may
legitimately fall silent (all streams closed, all data delivered, the end of time
reached; or an assertion has failed).
Symmetry is used in the safety runs of CellQueue (circuits of one kind are
interchangeable, and connections are), CpuWorker (workers), EventDns (callers)
and Rendezvous (introduction relays).

**Fairness.** FlowControl: while a side has a cell to flush or to process, a readable or
writable socket, or a DNS request or connect that ends in one way or another, its event
loop serves one of them (weak fairness of `Serve(d)` for each side). Which one is left
open: libevent promises more, but supplies are finite, so this is enough. Nothing
obliges an application to open or close a stream. The two properties of `flow_live` say
that from some moment on all is well for good (`<>[]`), not only once.
CellQueue: a started `connection_or_flushed_some` finishes (weak);
marked connections are closed and marked circuits freed by the main loop (strong,
because an unrolled loop in progress disables them in between); the link takes
data away until the outbuf falls below the low-water mark again and again
(strong). DnsCache: eventdns calls back every request (strong, as an answer has to
wait for the end of a callback that closes connections; for EventDns itself this
is `RequestsKept` and `NothingStranded`), and a callback comes to its end (weak).
No liveness is claimed of EventDns: servers that go down and come back in turn can
postpone a request for ever. Nor of the others, where connections and relays may
fail at any time.

## Findings

1. `circuit_resume_edge_reading_helper` (`relay.c`) does not look at the stream's
   state, so data can leave before CONNECTED, which `tor-spec.txt` excludes. An
   exit still connecting drops it, unpaid: the bytes and a unit of circuit window
   are gone (`lost`). Run `flow_early_data`.
2. TRUNCATE, or DESTROY from ahead, leaves the circuit's cells on
   `n_conn_cells`; extending the circuit again assigns `n_conn` before
   `circuit_set_n_circid_orconn`, whose helper then does not re-activate the
   circuit, and its assertion fails. Run `queue_truncate`.

### Observations

Behaviour met while modelling that the modules keep as it is, and that the
properties are stated around. No run reports it.

* *SENDME after END* (`relay.c:1182`): a SENDME for a stream that is gone is taken
  for a circuit SENDME and refills the circuit's window (`bonus` in FlowControl).
* *Idle workers* (`cpuworker.c`): workers that replace a dead or outdated one are
  spawned idle, but only an answering worker calls `process_pending_task`, so
  circuits on `ol_list` wait beside it and later CREATE cells overtake them.
* *CREATE overtaken by its DESTROY* (`connection_or.c:1223`): the next relay gets
  the CREATE last and keeps a circuit nobody will tear down (`overtaken`). An
  EXTEND that crosses a DESTROY from ahead ends in a protocol warning, and a
  failed connection kills the circuits that wait for a newer one to the same
  router.
* *DNS cache*: when `launch_resolve` fails the exit connection is freed by
  `dns_cancel_pending_resolve` and again by its caller (`crashed = "double free"`);
  purging an overdue pending entry walks over streams already marked (`"overdue"`).
  Both end the run, as in the code they end in freed memory.
* *CPU workers*: when a circuit id is used again while the request of the circuit that
  had it before is still out, the late answer opens the new circuit, with the keys of
  the old one (`cpuworker.c:175`). If the new one still waits on `ol_list`, it is not
  taken off when it closes (`circuitlist.c:1062`), and a worker is given a circuit without
  connection: `crashed`. `QueueValid` excepts these circuits (`IdUsedBefore`). An honest
  peer goes through its 2^15 ids first.
* *Resolver*: after a reload that fails, `configure_nameservers` returns without
  `evdns_resume`, so queued requests wait for the next event (`broken`); one that fails
  because `resolv.conf` cannot be looked at leaves servers and requests alone.
* *Accounting*: `edge_of_accounting_period_containing` tests
  `tm_mday < cfg_start_day` twice, so on the first day of a monthly period, before
  the starting hour, the period about to start is taken (`Edge` keeps this; the
  monthly instance starts at hour 0). Noting of usage because of many bytes goes by
  a counter that is stale after the turn of an interval. An interrupt with
  accounting turned off overwrites the recorded usage. Raising `AccountingMax` or
  changing `AccountingStart` does not wake a dormant relay (`hibernate.c:819`): TLC finds
  one that is dormant for the rest of a month and is told to account by the day; it
  sleeps through the days of that month. That is the exception in `WakesInTime`, which
  also says that it ends at the moment first planned. A relay whose accounting is turned
  off stays dormant.
* *Rendezvous*: an INTRODUCE_ACK marks any REND_READY circuit of the service. TLC
  finds the case: the first rendezvous circuit dies after its cookie was sent, a
  second one becomes ready, the late ACK marks the second, whose cookie was never
  sent. When the last introduction point is removed (`rendclient.c:549`,
  `circuituse.c:1148`) the refetch comes before the streams are moved to
  RENDDESC_WAIT, so if every directory has been asked they are not closed and wait
  for SocksTimeout (`SomebodyAsked` excludes the case). After a NAK that the
  circuit cannot be extended for, the new introduction circuit has no `rend_data`
  and no stream finds it; after a NAK with no point left the circuit stays open,
  waiting to introduce. A REND_READY circuit with `rend_data` does not expire with those
  that are being built: only `circuit_expire_old_circuits` closes it, and only once an
  introduction was sent for it (`ClientExpiresOld`). An unchanged descriptor
  that is fetched again does not bring removed introduction points back.

## Proofs

Every theorem holds for all values of the constants that the named assumption of
the component's module allows: any number of circuits, streams, connections,
workers, any windows, marks and limits. The code's constants satisfy them. An
invariant that is not inductive as it stands is proved from a stronger one, which
TLC has checked as well on small instances. Functions of the code that
call each other get a lemma each, and an action follows from the lemmas of the
functions it calls.

**FlowControlProofs**: `TypeCorrect` (package windows never become negative; no
more cells are on a queue than have been sent), `CircuitLedgerHolds`,
`QueueHysteresisHolds`. `TypeOK` is inductive, the ledger is inductive together
with it: `CountIn` is shown additive over concatenation, and on `Tail` and constant
sequences; then every action is either neutral (it moves no window and no DATA or
circuit-SENDME cell), packages (window to DATA cells), delivers (DATA cell to
deliver window and SENDMEs), or refills. Assumed are positive increments no larger
than the windows' starting values, a low-water mark below the high-water mark and a
high-water mark of more than one cell (a cell that is appended to an empty queue
may be flushed at once).

The same module goes on with the streams: `FlowHolds`, and from its invariant `Flow`
`StreamLedgerHolds`, `NeverKilled` (`NoProtocolKill`), `ReadersWake`
(`NoStuckReader`) and `InbufsDrain` (`NoStuckInbuf`). `Flow` says of each side and stream
what its state, list, windows and reading switch have to do with each other
(`Local`), that the deliver window covers whatever the peer may still send in *any*
state of the stream (`Covered`; the property itself speaks of open streams only, and
a stream's cells outlive it), that a circuit SENDME is never overdue (`Replenished`)
and that CONNECTED is sent once (`OneConnected`). A step touches one side and one
stream, so nearly all parts are frame conditions.

**Queues in proofs.** `Keep(q, S)` enumerates `Places(q, S)` by rank; that ranks have
no gaps (`RankBijective`) and that `Keep` has the elements of `q` in `S`, each as often
(`KeepProperties`), is proved in each of the three modules that filter queues. How
`Keep` goes with appending, joining and taking the first is in CircuitViewProofs.

**CellQueueProofs**: `TypeCorrect`, `RingsHold` (`RingOK`), `NobodyStranded`
(`ActiveIffQueued`), `NeverAsleep` (`NoLostWakeup`) and `Refines`
(`ImplementsRoundRobin`, the refinement of RoundRobin). `RingOK` walks the pointers,
and a walk says nothing about one pointer. The proof therefore carries a line per
connection: `QueueInv` says that there is a sequence of legs whose neighbours point
at each other in a circle and which starts at `active_circuits`. Joining, leaving
and turning the ring change that line by one leg, the walk from `active_circuits`
is shown to be the line, and each handler moves the lines as RoundRobin allows.

**CircuitBuildProofs**, on top of **CircuitViewProofs**: `Inductive`, and from it
`TypeCorrect`, `WaitersServed` (`WaitersHaveConn`), `Agreement` (`NeighboursAgree`) and `HandshakeUnique`
(`OneHandshake`), for every path length, every finite set of circuits and their
plans, and any number of connections and faults. Circuits share connections and are
lost together, so the first step is to take them apart. `View(w, c, n)` is what one
circuit sees of the world: its record at each node, the states of the connections,
and its own cells on each, got by filtering the queues with `Keep`. CircuitViewProofs
states the invariant `Inv` of one view and shows that it survives what each handler
does to a view. CircuitBuildProofs shows that a handler does to the view of a circuit
what it would do if there were no other and leaves the views of the rest alone, so
that `Sound(w, plan)`, `Inv` of every circuit's view, survives too. The parts of `Inv`,
none of which is inductive without the others:

* `Shape`, `Ups`: which cells a queue can hold, and what a node's state says about its
  connections, its hops and its queues;
* `Waiters`: a node in OR_WAIT has a connection to wait for, which the closing of
  *another* connection to that router must not take away unless it closes the circuit
  too;
* `Alone`, `Ones`: the handshake is in one of its possible places (a queue of a node,
  a direction of a connection, a relay at work, the origin before it starts or after it
  ends), and once there;
* `Frontier`: nothing of the circuit lies beyond its handshake, so a CREATE finds no
  circuit at the next node and an EXTEND reaches the last hop; this is what keeps
  a second handshake from starting;
* `Agree`: what each neighbour may conclude from the other's cells on the
  connection between them. `NeighboursAgree` is two of its five parts; the others say
  where a DESTROY stands with respect to a CREATE (a CREATE whose sender is gone is
  followed by a DESTROY, or was overtaken);
* `Chain`: if the origin is building, there is a node up to which all neighbours agree,
  and on that stretch is the handshake or the news of a failure. `OneHandshake` only
  says that they exist somewhere; without the stretch they could be lost on a
  connection that nobody reads any more.

Assumed (`CircuitBuildAssumption`) are a path and a number of connections of at least
one, plans no longer than the path, and a finite number of circuits.

**CpuWorkerProofs**: `TypeCorrect`, `CountersAgree` (`IdleCounted`),
`QueueStaysValid` (`QueueValid`), `AssertionsHold`, and the action property
`NoOnionskinForgotten` (`NeverForgotten`). The invariant has two halves: `Sound`, the
counters, holds always; `Queued`, who is on `ol_list` and whom a busy worker works
for, under `TagsDistinct`: no peer uses a circuit id again while the circuit's
request is out. That hypothesis is stated in `QueueStaysValid` and `AssertionsHold`
because the code needs it: an answer is matched by connection and circuit id, so with
reuse a late answer opens another circuit (`cpuworker.c:175`, see Observations).
`NoOnionskinForgotten` has no such hypothesis: it holds for any use of ids, reuse
included. It needs one more invariant, `Links`: a pending circuit has its connection and
is the only one there with its id, so that of two circuits only one is found.

**DnsCacheProofs**: `TypeCorrect`, `WaitersAgree` (`WaitersOK`), `EachToldOnce`
(`ToldOnce`). The invariant describes the waiting lists (`Lists`), the streams on
circuits' lists and marked for close (`Marks`), who was told (`Answers`), and that a
pending entry is owed an answer. It is claimed until one of the two known
misbehaviours (Observations) ends the run; that the assertions of
`dns_found_answer` and `connection_dns_remove` never fail is part of it.

**HibernateProofs**: `TypeCorrect`, `IntervalCurrent` (`InInterval`), `UsageKept`
(`UsageRemembered`), and the action properties `LimitHolds` (`LimitStops`) and
`WakesUp` (`WakesInTime`). First the calendar: `StartOf` and `EndOf` of a time
enclose it, and every time between them has the same period. Then a ledger of bytes
in three places, what the process holds, what it has noted and what the file holds,
with the age of each (`Tally`): what was used is what is held; what may be missing
from the file is bounded by the time since it was written, and after a crash it is
what is missing from the process. The options can change at any time, so the invariant
is in two parts: what holds whatever `AccountingStart` is (`Fine`), and that the interval
is one of the present settings', which is so only while accounting is on (`Fits`). That a
relay does not plan to sleep past the end of its interval is *not* part of it: a change of
`AccountingStart` breaks that, so `WakesUp` follows from what each action does to a moment
that was planned (`Sleeps`, `Punctual`, `HupSleeps`). `IntervalCurrent` and `UsageKept` have the
hypothesis `Midnight`, that the monthly accounting periods among those offered start at
hour 0, since the code finds the wrong period otherwise (Observations); the example in
`torrc.sample.in` does not; `LimitHolds` excludes an
`AccountingMax` of 1, whose soft limit 0 means no limit to the code. `HibernateAssumption`
says that days, weeks and months have a positive length, that the clock starts at
least two periods after the epoch and that it stays a period below TIME_MAX, so that
neither edge of an interval leaves the range of times.

**RendezvousProofs**: `AnswersOnce` (`OneAnswer`). The invariant is about the
service alone: whatever the client does, any INTRODUCE2 may arrive at any time and
any number of times. `Single` says that no two circuits claim a handshake (are to
answer it, or have), that a circuit to the rendezvous point that is being built
still has its handshake to send, and that only accepted handshakes are claimed. A
relaunch moves the claim from the old circuit to the new one, which is why closing
and relaunching have to be one step. It is a statement about behaviours shorter than an
hour: `accepted_intros` is not cleaned in the model (see below).

**Only model-checked.**

* Liveness, and whatever else rests on fairness or ENABLED, is outside the
  prover's reach: `queue_live`'s `EveryCircuitServed`, `dns`'s `StreamsSettle`, the
  properties of `flow_live`.
* EventDns and the client of Rendezvous go through lists with the folds of the
  community modules (`FoldLeft`): a request that is called back frees a
  place for the next, a descriptor that arrives tries each stream in turn, so a round
  reads what the one before it has written and cannot be written as one change of
  a set. What a fold returns is known by induction over data only. So the properties
  of `evdns` (`CountersOK`, `RequestsKept`, `NothingStranded`, `DownIsProbed`) and
  `SpliceOK`, `JoinedOrTold`, `SomebodyAsked` of `rend` stay with TLC.

## Abstractions and what is not modelled

* Relay cells are commands and stream ids; bytes are counted in cell payloads;
  encryption, digests, recognition and the hops in between are left out: a
  circuit is two reliable FIFO channels. Token buckets only delay reads and
  writes, which the interleaving covers.
* A closed edge connection leaves its circuit at once. In the code it may stay
  until flushed, but `relay_lookup_conn` and the loops over streams skip marked
  connections. A stream id is used once; a stream that times out and is retried
  is a new stream of another circuit.
* RESOLVE cells, `package_partial`, half-closed streams and optimistic features
  of later versions do not occur here.
* CellQueue counts cells; DESTROY, padding and NETINFO are written past the
  queues as in the code; partial writes of a cell are rounded to cells.
  `circuit_close_all_marked` frees one circuit per step. A connection that is
  held open until flushed has no circuits (`main.c`), so writing to a marked
  connection is a no-op.
* CpuWorker has no clock: any busy worker may have been busy for too long, any
  prefix of `ol_list` may be too old, any busy worker may have been created in a
  second before a rotation. A circuit is created once; an id that is used again is
  that of another circuit with the same `TagOf`. Hibernation and client mode refuse CREATE cells
  without a change of state. Socket errors strike only workers that have not
  answered (the kernel reports one when the worker dies with unread input). Such
  a worker stays counted as busy, as in the code.
* CircuitBuild: circuit ids are named by the circuit and not used again;
  RELAY_EARLY counts, the cryptography of the handshakes and running out of circuit
  ids (in CellQueue) are left out, and with them the other error returns of
  `circuit_deliver_create_cell` and `circuit_send_next_onion_skin`, after which the circuit
  is marked at once (`circuitbuild.c:1318`, `1331`, `1364`); closing a circuit in that
  state is in the model for other reasons (`Expire`, a connection that fails).
  The origin's first cell is a CREATE_FAST; where `should_use_create_fast_for_circuit`
  chooses CREATE the first relay answers through a CPU worker, as the others do.
  Relays are honest. A connection's bytes arrive
  in order, and what is on the wire when it breaks is lost.
* DnsCache: whether an answer is hijacked, a wildcard or not an address at all is a
  nondeterministic outcome; reverse lookups go through the same lists. An IP address
  is answered at once, an IPv6 one refused.
* EventDns: packets are the request and the server; the server side of
  `eventdns.c`, which Tor's `dnsserv.c` uses, is left out.
* Hibernate: reading and writing use one counter; time does not go backwards; the
  hash that picks the moment to wake is the constant `Digest`. The state file can be
  written and parsed: a write that fails (`config.c:5222`) is tried again every
  second, and what it should have saved is lost in a crash meanwhile; a file that cannot be parsed (`config.c:5129`) is
  moved aside and all of the interval's usage forgotten; `UsageRemembered` claims nothing
  of either.
* Rendezvous: a cookie, a DH half and an introduction key are named by the circuit
  they belong to; circuits built ahead and taken over are circuits built quickly;
  all have the same uptime class. `accepted_intros` is not cleaned (behaviours
  shorter than an hour), and the timestamp in a version 3 INTRODUCE2 cell, which makes
  later replays fail, is left out. Descriptors are fetched: with `FetchHidServDescriptors`
  0 (`rendclient.c:465`) a stream without a descriptor waits for SocksTimeout with nobody
  asked. BEGIN is consumed at the splice: what follows is
  FlowControl. A launch fails only when the circuits of the instance are used up.
  Directories hold the latest descriptor. Authorisation of clients and version 0
  descriptors are left out.
* Not modelled: link handshake (TLS library), directory protocol and document
  formats, policies, guard and path selection (randomised over large lists),
  controller, configuration, statistics, the utility library. They are the
  greater part of the source by lines: parsing and formatting of documents,
  options and controller messages, whose correctness is a matter of strings and
  tables and not of states and order, and choices at random from router lists,
  of which a model could only say that anything may be chosen.

## Plan

1. Done: FlowControl, CellQueue with RoundRobin, CpuWorker, CircuitBuild,
   DnsCache, EventDns, Hibernate, Rendezvous.
2. Done: the theorems of the section Proofs, for every component but EventDns.
3. Theorems that could follow: for Rendezvous the part of `SpliceOK` that is about the
   relays; for EventDns `CountersOK`, once its loops are steps of their own, as
   `FlushedSome` is in CellQueue.
4. Modules that could follow: picking a circuit for an exit stream and retrying it
   on another (`connection_edge.c`, `circuituse.c`), and the schedule of votes and
   signatures of the directory authorities (`dirvote.c`).
