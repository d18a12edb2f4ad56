------------------------------ MODULE EventDns ------------------------------
(***************************************************************************)
(* The asynchronous resolver eventdns.c: requests in flight and requests   *)
(* waiting for a place, nameservers that fail, are probed and come back,   *)
(* lost, late and duplicated answers, retransmission and reissue, and the  *)
(* reloading of the nameserver list under way.                             *)
(*                                                                         *)
(* A query that was sent may be answered by the server it was sent to any  *)
(* number of times, with any result, until the request's transaction id is *)
(* given up.  During one callback a socket behaves in one way, it takes    *)
(* everything, is full, or fails, and at most one misbehaves (Socket).  A  *)
(* request whose search goes on with another domain keeps its name here.   *)
(***************************************************************************)
EXTENDS Integers, Sequences, FiniteSets, SequencesExt

CONSTANTS
  Users, Probes,             \* requests of callers, and nameserver probes
  Servers, Conf,             \* the servers resolv.conf names, in its order
  MaxInflight,               \* global_max_requests_inflight
  MaxReissues, MaxRetransmits, MaxTimeouts,
  MaxSearch,                 \* search domains tried after the first name
  MaxReloads,                \* bound: reloads of resolv.conf
  None

Requests == Users \cup Probes

ASSUME EventDnsAssumption ==
  /\ IsFiniteSet(Requests) /\ Users \cap Probes = {}
  /\ IsFiniteSet(Servers) /\ Conf \in Seq(Servers) /\ Conf # << >>
  /\ None \notin Servers \cup Requests
  /\ {MaxReissues, MaxTimeouts, MaxSearch, MaxReloads} \subseteq Nat
  /\ {MaxInflight, MaxRetransmits} \subseteq Nat \ {0}

VARIABLES
  ev,                        \* the resolver's state, see TypeOK
  idle,                      \* requests not made yet
  reloads, broken            \* history: reloads so far; has one cleared the
                             \* servers and then failed?

vars == <<ev, idle, reloads, broken>>

NoRequest == [ns |-> None, tx |-> 0, reissue |-> 0, transmit_me |-> FALSE,
              timer |-> FALSE, search |-> 0, target |-> None]
NewServer == [up |-> TRUE, timedout |-> 0, timer |-> FALSE,
              choked |-> FALSE, write_waiting |-> FALSE]

TypeOK ==
  /\ ev.ring \in Seq(Servers) /\ IsInjective(ev.ring)     \* from server_head on
  /\ ev.server \in [Servers -> [up : BOOLEAN, timedout : 0 .. MaxTimeouts,
                                timer : BOOLEAN, choked : BOOLEAN,
                                write_waiting : BOOLEAN]]
  /\ ev.inflight \in Seq(Requests) /\ ev.waiting \in Seq(Requests)
  /\ ev.req \in [Requests ->
                   [ns : Servers \cup {None}, tx : 0 .. MaxRetransmits,
                    reissue : 0 .. MaxReissues, transmit_me : BOOLEAN,
                    timer : BOOLEAN, search : 0 .. MaxSearch,
                    target : Servers \cup {None}]]
  /\ ev.sent \subseteq Requests \X Servers
  /\ ev.n_inflight \in Nat /\ ev.n_good \in Nat
  /\ ev.called \subseteq Users
  /\ idle \subseteq Users /\ reloads \in 0 .. MaxReloads /\ broken \in BOOLEAN

Init ==
  /\ ev = [ring |-> Conf, server |-> [n \in Servers |-> NewServer],
           inflight |-> << >>, waiting |-> << >>,
           req |-> [r \in Requests |-> NoRequest], sent |-> {},
           n_inflight |-> 0, n_good |-> Len(Conf),
           configured |-> TRUE, called |-> {}]
  /\ idle = Users /\ reloads = 0 /\ broken = FALSE

-----------------------------------------------------------------------------
(* Nameservers.                                                            *)

Rotated(s, k) == SubSeq(s, k + 1, Len(s)) \o SubSeq(s, 1, k)

\* nameserver_pick: the next server that is up, or the next one if none is;
\* server_head moves on.  Gives the server and the new ring.
Pick(e) ==
  IF e.ring = << >> THEN [ns |-> None, ring |-> << >>]
  ELSE IF e.n_good = 0 THEN
         LET r == Rotated(e.ring, 1) IN [ns |-> Head(r), ring |-> r]
  ELSE LET k == CHOOSE i \in DOMAIN e.ring :
                  /\ e.server[e.ring[i]].up
                  /\ \A j \in 1 .. i - 1 : ~ e.server[e.ring[j]].up
       IN [ns |-> e.ring[k], ring |-> Rotated(e.ring, k)]

\* A request is given a server that nameserver_pick chooses.
Assign(e, r) ==
  LET p == Pick(e) IN [e EXCEPT !.ring = p.ring, !.req[r].ns = p.ns]

\* mutant: a server that fails twice is counted twice
NameserverFailedTwice(e, n) ==
  [e EXCEPT !.n_good = @ - 1, !.server[n].up = FALSE,
            !.server[n].timer = TRUE]

\* mutant: no timer is set to probe the failed server
NameserverFailedForGood(e, n) ==
  IF ~ e.server[n].up THEN e
  ELSE [e EXCEPT !.n_good = @ - 1, !.server[n].up = FALSE]

\* nameserver_failed: the server is down and will be probed; requests for it
\* that were never transmitted move to another server if one is up.
NameserverFailed(e, n) ==
  LET f == [e EXCEPT !.n_good = @ - 1, !.server[n].up = FALSE,
                     !.server[n].timer = TRUE]
      Move(g, r) == IF g.req[r].tx = 0 /\ g.req[r].ns = n THEN Assign(g, r) ELSE g
  IN IF ~ e.server[n].up THEN e
     ELSE IF f.n_good = 0 THEN f ELSE FoldLeft(Move, f, f.inflight)

NameserverUp(e, n) ==
  IF e.server[n].up THEN e
  ELSE [e EXCEPT !.n_good = @ + 1,
                 !.server[n] = [@ EXCEPT !.up = TRUE, !.timer = FALSE, !.timedout = 0]]

-----------------------------------------------------------------------------
(* Requests.  o[n] is what sending to n does during this callback.         *)

Socket == {o \in [Servers -> {"sent", "again", "error"}] :
             Cardinality({n \in Servers : o[n] # "sent"}) <= 1}

\* evdns_request_transmit: after EAGAIN the request waits for the socket to be
\* writable, with no timer; after anything else its timer runs.
Transmit(e, r, o) ==
  LET n == e.req[r].ns
      f == [e EXCEPT !.req[r].transmit_me = TRUE]
      Started(g) == [g EXCEPT !.req[r] = [@ EXCEPT !.timer = TRUE, !.tx = @ + 1,
                                                   !.transmit_me = FALSE]]
  IN CASE e.server[n].choked -> f
       [] ~ e.server[n].choked /\ o[n] = "again" ->
            [f EXCEPT !.server[n].choked = TRUE, !.server[n].write_waiting = TRUE]
       [] ~ e.server[n].choked /\ o[n] = "error" -> Started(NameserverFailed(f, n))
       [] OTHER -> [Started(f) EXCEPT !.sent = @ \cup {<<r, n>>}]

\* evdns_transmit: everything that is marked, in order.
TransmitAll(e, o) ==
  FoldLeft(LAMBDA g, r : IF g.req[r].transmit_me THEN Transmit(g, r, o) ELSE g,
           e, e.inflight)

\* One turn of the loop of evdns_requests_pump_waiting_queue.
PumpOne(e, o) ==
  LET r == Head(e.waiting)
      f == [Assign(e, r) EXCEPT !.waiting = Tail(@), !.n_inflight = @ + 1,
                                !.inflight = Append(@, r)]
  IN IF e.n_inflight >= MaxInflight \/ e.waiting = << >> THEN e
     ELSE TransmitAll(Transmit(f, r, o), o)

Pump(e, o) == FoldLeft(LAMBDA g, i : PumpOne(g, o), e, e.waiting)

\* request_submit of a request made by request_new.
Submit(e, r, new, o) ==
  LET f == [e EXCEPT !.req[r] = new]
      g == Assign(f, r)
  IN IF e.n_inflight < MaxInflight /\ e.ring # << >>
     THEN Transmit([g EXCEPT !.inflight = Append(@, r), !.n_inflight = @ + 1], r, o)
     ELSE [f EXCEPT !.waiting = Append(@, r)]

\* The request and its transaction id are gone.
Drop(e, r) ==
  [e EXCEPT !.inflight = SelectSeq(@, LAMBDA x : x # r),
            !.req[r] = NoRequest, !.n_inflight = @ - 1,
            !.sent = {q \in @ : q[1] # r}]

\* mutant: the freed place is not given to a waiting request
FinishedWithoutPump(e, r, o) == Drop(e, r)

\* request_finished
Finished(e, r, o) == Pump(Drop(e, r), o)

\* reply_callback: the caller is told, or, for a probe, nameserver_probe_callback
\* takes the server up again or has it probed later.
ReplyCallback(e, r, good) ==
  LET t == e.req[r].target
  IN IF r \in Users THEN [e EXCEPT !.called = @ \cup {r}]
     ELSE IF t \notin ToSet(e.ring) THEN e
     ELSE IF good THEN NameserverUp(e, t)
     ELSE [e EXCEPT !.server[t].timer = ~ e.server[t].up]

\* search_try_next, then request_finished: the request goes on with another name
\* and a new transaction id.  It competes for a place while the old one has one.
SearchNext(e, r, o) ==
  LET new == [NoRequest EXCEPT !.search = e.req[r].search - 1]
      f == [Drop(e, r) EXCEPT !.n_inflight = @ + 1]
      g == Submit(f, r, new, o)
  IN Pump([g EXCEPT !.n_inflight = @ - 1], o)

\* request_reissue after REFUSED: another server, if there is one.
Reissue(e, r) ==
  LET f == Assign(NameserverFailed(e, e.req[r].ns), r)
  IN [f EXCEPT !.req[r] = [@ EXCEPT !.reissue = @ + 1, !.tx = 0, !.transmit_me = TRUE]]

-----------------------------------------------------------------------------
(* Events.                                                                 *)

\* NOERROR, NXDOMAIN, truncated or malformed, SERVFAIL, and NOTIMPL or REFUSED.
Codes == {"ok", "notexist", "format", "servfail", "refused"}

Inflight(r) == r \in ToSet(ev.inflight)

\* A caller asks for a name: evdns_resolve_ipv4, search_request_new.
Resolve(u, o) ==
  /\ u \in idle
  /\ idle' = idle \ {u}
  /\ \E s \in 0 .. MaxSearch :
       ev' = Submit(ev, u, [NoRequest EXCEPT !.search = s], o)
  /\ UNCHANGED <<reloads, broken>>

\* nameserver_prod_callback: a probe is put in flight past the limit.
Prod(n, p, o) ==
  LET f == [ev EXCEPT !.server[n].timer = FALSE,
                      !.ring = IF ev.n_inflight < MaxInflight THEN Pick(ev).ring ELSE @,
                      !.req[p] = [NoRequest EXCEPT !.ns = n, !.target = n],
                      !.inflight = Append(@, p), !.n_inflight = @ + 1]
  IN /\ n \in ToSet(ev.ring) /\ ev.server[n].timer
     /\ p \in Probes /\ p \notin ToSet(ev.inflight \o ev.waiting)
     /\ ev' = Transmit(f, p, o)
     /\ UNCHANGED <<idle, reloads, broken>>

\* mutant: the caller of a request that timed out is not told
TimeoutSilently(r, o) ==
  LET n == ev.req[r].ns
      f == [ev EXCEPT !.req[r].timer = FALSE]
  IN /\ Inflight(r) /\ ev.req[r].timer
     /\ ev' = IF f.req[r].tx >= MaxRetransmits THEN Finished(f, r, o)
              ELSE Transmit(f, r, o)
     /\ UNCHANGED <<idle, reloads, broken>>

\* evdns_request_timeout_callback
Timeout(r, o) ==
  LET n == ev.req[r].ns
      late == ev.server[n].timedout + 1 > MaxTimeouts
      f == [ev EXCEPT !.req[r].timer = FALSE,
                      !.server[n].timedout = IF late THEN 0 ELSE @ + 1]
      g == IF late THEN NameserverFailed(f, n) ELSE f
  IN /\ Inflight(r) /\ ev.req[r].timer
     /\ ev' = IF g.req[r].tx >= MaxRetransmits
              THEN Finished(ReplyCallback(g, r, FALSE), r, o)
              ELSE Transmit(g, r, o)
     /\ UNCHANGED <<idle, reloads, broken>>

\* reply_handle for an error that is passed up, unless a search goes on.
Failure(e, r, code, o) ==
  IF e.req[r].search > 0 THEN SearchNext(e, r, o)
  ELSE Finished(ReplyCallback(e, r, code = "notexist"), r, o)

\* nameserver_read, reply_parse and reply_handle: server n answers a query that
\* it was sent; the request may have moved to another server since.
Reply(r, n, code, o) ==
  LET e == [ev EXCEPT !.server[n].timedout = 0]
      f == Reissue(e, r)
      failed == NameserverFailed(e, e.req[r].ns)
  IN /\ Inflight(r) /\ <<r, n>> \in ev.sent
     /\ ev' = CASE code = "ok" ->
                     Finished(NameserverUp(ReplyCallback(e, r, TRUE), e.req[r].ns), r, o)
                [] code \in {"notexist", "format"} ->
                     Failure(NameserverUp(e, e.req[r].ns), r, code, o)
                [] code = "servfail" -> Failure(e, r, code, o)
                [] code = "refused" /\ e.req[r].reissue >= MaxReissues ->
                     Failure(e, r, code, o)
                [] code = "refused" /\ e.req[r].reissue < MaxReissues ->
                     IF f.req[r].ns # e.req[r].ns THEN f
                     ELSE Failure([failed EXCEPT !.ring = f.ring], r, code, o)
     /\ UNCHANGED <<idle, reloads, broken>>

\* Reading from the socket fails.
ReadError(n) ==
  /\ n \in ToSet(ev.ring)
  /\ ev' = NameserverFailed(ev, n)
  /\ UNCHANGED <<idle, reloads, broken>>

\* nameserver_ready_callback with EV_WRITE
Writable(n, o) ==
  LET f == [ev EXCEPT !.server[n].choked = FALSE]
  IN /\ n \in ToSet(ev.ring) /\ ev.server[n].write_waiting
     /\ ev' = IF \E r \in ToSet(f.inflight) : f.req[r].transmit_me
              THEN TransmitAll(f, o)
              ELSE [f EXCEPT !.server[n].write_waiting = FALSE]
     /\ UNCHANGED <<idle, reloads, broken>>

\* evdns_clear_nameservers_and_suspend: requests in flight go back to the front
\* of the waiting queue, the last one first.
Suspend(e) ==
  [e EXCEPT !.ring = << >>, !.n_good = 0,
            !.server = [n \in Servers |-> NewServer],
            !.req = [r \in Requests |->
                       IF r \in ToSet(e.inflight)
                       THEN [NoRequest EXCEPT !.search = e.req[r].search,
                                              !.target = e.req[r].target]
                       ELSE @[r]],
            !.waiting = Reverse(e.inflight) \o @, !.inflight = << >>,
            !.n_inflight = 0, !.sent = {}]

\* _evdns_nameserver_add_impl: a new server stands behind server_head.
AddServer(e, n) ==
  IF n \in ToSet(e.ring) THEN e
  ELSE [e EXCEPT !.ring = IF @ = << >> THEN <<n>> ELSE <<Head(@), n>> \o Tail(@),
                 !.server[n] = NewServer, !.n_good = @ + 1]

\* configure_nameservers finds a new resolv.conf.
Reload(o) ==
  /\ ev.configured /\ reloads < MaxReloads
  /\ reloads' = reloads + 1
  /\ ev' = Pump(FoldLeft(AddServer, Suspend(ev), Conf), o)
  /\ UNCHANGED <<idle, broken>>

\* configure_nameservers cannot stat it, which leaves the servers alone, or it
\* cannot read it or finds no nameserver in it; then the parser may have put a
\* local server in the list.
ReloadFails ==
  /\ ev.configured /\ reloads < MaxReloads
  /\ reloads' = reloads + 1
  /\ \E e \in {ev, Suspend(ev), AddServer(Suspend(ev), Conf[1])} :
       /\ ev' = [e EXCEPT !.configured = FALSE]
       /\ broken' = (broken \/ e # ev)
  /\ UNCHANGED idle

\* After a failure evdns_resume is not called by the next configuration.
ConfigureAgain ==
  /\ ~ ev.configured
  /\ ev' = [FoldLeft(AddServer, ev, Conf) EXCEPT !.configured = TRUE]
  /\ UNCHANGED <<idle, reloads, broken>>

Next ==
  \/ \E o \in Socket :
       \/ \E u \in Users : Resolve(u, o)
       \/ \E n \in Servers : \/ Writable(n, o)
                             \/ \E p \in Probes : Prod(n, p, o)
       \/ \E r \in Requests : \/ Timeout(r, o)
                              \/ \E n \in Servers, c \in Codes : Reply(r, n, c, o)
       \/ Reload(o)
  \/ \E n \in Servers : ReadError(n)
  \/ ReloadFails
  \/ ConfigureAgain

Spec == Init /\ [][Next]_vars

-----------------------------------------------------------------------------
\* The counters that decide whether a request may go out and which servers are
\* tried agree with the lists, through probes, searches, reissues and reloads.
CountersOK ==
  /\ TypeOK
  /\ ev.n_inflight = Len(ev.inflight)
  /\ IsInjective(ev.inflight \o ev.waiting)
  /\ ev.n_good = Cardinality({n \in ToSet(ev.ring) : ev.server[n].up})

\* dns.c is called back once for each request it made: the requests that were
\* accepted and not called back are exactly those on the two lists.
RequestsKept ==
  Users \cap ToSet(ev.inflight \o ev.waiting) = Users \ (idle \cup ev.called)

\* Nothing is forgotten: a request in flight has a timer, or is marked for
\* transmission while some server's socket is watched for becoming writable; and
\* unless a reload has failed, requests wait only when all places are taken.
NothingStranded ==
  /\ \A r \in ToSet(ev.inflight) :
       \/ ev.req[r].timer
       \/ /\ ev.req[r].transmit_me
          /\ \E n \in ToSet(ev.ring) : ev.server[n].write_waiting
  /\ ev.waiting # << >> /\ ~ broken => Len(ev.inflight) >= MaxInflight

\* A server that is down is probed again: its timer runs or a probe for it is
\* under way.
DownIsProbed ==
  \A n \in ToSet(ev.ring) :
    ~ ev.server[n].up =>
      \/ ev.server[n].timer
      \/ \E p \in Probes \cap ToSet(ev.inflight \o ev.waiting) : ev.req[p].target = n
=============================================================================
