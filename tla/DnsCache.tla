------------------------------ MODULE DnsCache ------------------------------
(***************************************************************************)
(* The cache of DNS answers of an exit (dns.c), the exit streams that wait *)
(* for a pending resolve, and the circuits they belong to.  Streams for    *)
(* the same address share one request to eventdns; while it is out, a      *)
(* stream may be ended by its client, its circuit may be destroyed, the    *)
(* entry may be cancelled or purged, and a late answer may meet an entry   *)
(* made for a later request.                                               *)
(*                                                                         *)
(* Of eventdns only its promise is used (module EventDns, RequestsKept):   *)
(* each accepted request is called back once.  asked[a] counts the         *)
(* requests for a that are out.  A stream marked for close stays in every  *)
(* list it is in until close_closeable_connections runs, at the end of the *)
(* same event callback; answers arrive in callbacks of their own, when no  *)
(* connection is marked.                                                   *)
(***************************************************************************)
EXTENDS Integers, Sequences, FiniteSets, SequencesExt, Queues

CONSTANTS
  Streams,           \* exit connections, each used once
  Addresses,
  Circuits,
  Literals,          \* the addresses that are IP addresses
  TestAddresses,     \* ServerDNSTestAddresses
  AddrOf,            \* Streams -> Addresses
  CircOf,            \* Streams -> Circuits
  Resolves,          \* streams with EXIT_PURPOSE_RESOLVE; the others connect
  MaxAsked           \* bound: requests out at once for one address

ASSUME DnsCacheAssumption ==
  /\ IsFiniteSet(Streams)
  /\ Literals \subseteq Addresses /\ TestAddresses \subseteq Addresses
  /\ AddrOf \in [Streams -> Addresses] /\ CircOf \in [Streams -> Circuits]
  /\ Resolves \subseteq Streams /\ MaxAsked \in Nat \ {0}

VARIABLES
  dns,               \* the cache and the streams: a record, see TypeOK
  asked,             \* requests eventdns has accepted and not called back
  closeable,         \* closeable_connection_lst: streams marked for close
  circ,              \* "open" or "marked"
  ended              \* history: streams their client has ended

vars == <<dns, asked, closeable, circ, ended>>

TypeOK ==
  /\ dns \in [entry : [Addresses -> {"none", "pending", "valid", "failed"}],
              expired : SUBSET Addresses,          \* expire <= now
              waiting : [Addresses -> Seq(Streams)],
              conn : [Streams -> {"none", "resolving", "resolvefailed",
                                  "exit", "freed"}],
              resolving_streams : SUBSET Streams,
              told : [Streams -> 0 .. 1],          \* answers sent or handed over
              crashed : {"no", "assert", "overdue", "double free"}]
  /\ asked \in [Addresses -> 0 .. MaxAsked]
  /\ closeable \subseteq Streams
  /\ circ \in [Circuits -> {"open", "marked"}]
  /\ ended \subseteq Streams

Init ==
  /\ dns = [entry |-> [a \in Addresses |-> "none"],
            expired |-> {},
            waiting |-> [a \in Addresses |-> << >>],
            conn |-> [s \in Streams |-> "none"],
            resolving_streams |-> {},
            told |-> [s \in Streams |-> 0],
            crashed |-> "no"]
  /\ asked = [a \in Addresses |-> 0]
  /\ closeable = {}
  /\ circ = [c \in Circuits |-> "open"]
  /\ ended = {}

-----------------------------------------------------------------------------
\* An END or RESOLVED cell is sent for each stream of W that is told, and the
\* connections of W leave their circuits and are freed.
Dismiss(d, W, tell) ==
  [d EXCEPT !.told = [s \in Streams |-> IF s \in W \cap tell THEN @[s] + 1 ELSE @[s]],
            !.conn = [s \in Streams |-> IF s \in W THEN "freed" ELSE @[s]],
            !.resolving_streams = @ \ W]

\* Entries A leave the cache, together with their waiting lists.
Uncache(d, A) ==
  [d EXCEPT !.entry = [a \in Addresses |-> IF a \in A THEN "none" ELSE @[a]],
            !.waiting = [a \in Addresses |-> IF a \in A THEN << >> ELSE @[a]],
            !.expired = @ \ A]

\* mutant: a purged entry's waiting streams are freed without an END cell
PurgeSilently(d) ==
  LET old == d.expired
      W == UNION {ToSet(d.waiting[a]) : a \in old}
  IN IF W \cap closeable # {} THEN [d EXCEPT !.crashed = "overdue"]
     ELSE Uncache(Dismiss(d, W, {}), old)

\* purge_expired_resolves: every expired entry goes, pending or not; streams
\* that still wait are ended with a timeout.  A stream that is already marked
\* fails an assertion here: circuit_detach_stream wants a circuit, and
\* connection_free a connection that is not on closeable_connection_lst.
Purge(d) ==
  LET old == d.expired
      W == UNION {ToSet(d.waiting[a]) : a \in old}
  IN IF W \cap closeable # {} THEN [d EXCEPT !.crashed = "overdue"]
     ELSE Uncache(Dismiss(d, W, Streams), old)

\* dns_cancel_pending_resolve: everyone who waits for a pending address fails.
\* A marked stream is only unlinked: it is freed when it is closed.
CancelPending(d, a) ==
  LET W == ToSet(d.waiting[a]) \ closeable
      Marked == ToSet(d.waiting[a]) \cap closeable
      f == [d EXCEPT !.conn = [s \in Streams |->
                                 IF s \in Marked THEN "resolvefailed" ELSE @[s]],
                     !.resolving_streams = @ \ Marked]
  IN IF d.entry[a] # "pending" \/ d.waiting[a] = << >> THEN d
     ELSE Uncache(Dismiss(f, W, d.resolving_streams), {a})

\* A stream whose address is known: a RESOLVE is answered and freed, a CONNECT
\* goes to connection_exit_connect, which keeps it or ends and frees it.
Answered(d, s) ==
  {[d EXCEPT !.conn[s] = r, !.told[s] = @ + 1,
             !.resolving_streams = @ \ {s}] :
     r \in IF s \in Resolves THEN {"freed"} ELSE {"freed", "exit"}}

\* Case -1 of dns_resolve and of its callers: the stream gets its answer, all
\* who wait for the same address are cancelled, and the connection is freed.
\* If it was itself on the waiting list, CancelPending has freed it before.
Failed(d, s) ==
  LET t == CancelPending(d, AddrOf[s])
  IN IF t.conn[s] = "freed" THEN [t EXCEPT !.crashed = "double free"]
     ELSE Dismiss(t, {s}, {s})

\* The stream is put in front of the waiting list and on its circuit's
\* resolving_streams.
Join(d, s) ==
  [d EXCEPT !.waiting[AddrOf[s]] = <<s>> \o @, !.conn[s] = "resolving",
            !.resolving_streams = @ \cup {s}]

\* launch_resolve was refused (no nameserver, or eventdns rejects the name)
\* after the stream was put on the list of its new entry, but before it was put
\* on resolving_streams.
LaunchFailed(d, s) ==
  Failed([d EXCEPT !.entry[AddrOf[s]] = "pending",
                   !.waiting[AddrOf[s]] = <<s>>], s)

\* dns_resolve_impl after the purge: what the cache says, without launching.
Lookup(d, s) ==
  CASE d.entry[AddrOf[s]] = "pending" -> {Join(d, s)}
    [] d.entry[AddrOf[s]] = "valid" -> Answered(d, s)
    [] d.entry[AddrOf[s]] = "failed" -> {Failed(d, s)}
    [] OTHER -> {LaunchFailed(d, s)}

\* A transient failure is not remembered.
AddAnswer(d, a, outcome) ==
  IF outcome = "transient" THEN d
  ELSE [d EXCEPT !.entry[a] = IF outcome = "ok" THEN "valid" ELSE "failed"]

\* dns_found_answer for a pending entry.  The set P of streams passes
\* connection_exit_connect; streams have to be live and on a circuit.
Settled(d, a, outcome, P) ==
  LET W == ToSet(d.waiting[a])
      kept == IF outcome = "ok" THEN W \cap P ELSE {}
      t == Dismiss(d, W, Streams)
  IN IF ~ W \subseteq d.resolving_streams THEN [d EXCEPT !.crashed = "assert"]
     ELSE [Uncache(t, {a}) EXCEPT
             !.conn = [s \in Streams |-> IF s \in kept THEN "exit" ELSE @[s]]]

\* mutant: the entry is settled but its waiting list is kept
FoundAnswerKeepsList(d, a, outcome, P) ==
  IF d.entry[a] = "none" THEN AddAnswer(d, a, outcome)
  ELSE IF d.entry[a] # "pending" THEN d
  ELSE [AddAnswer(Settled(d, a, outcome, P), a, outcome)
          EXCEPT !.waiting = d.waiting]

\* mutant: after a transient failure the entry stays pending
FoundAnswerIgnoresTransient(d, a, outcome, P) ==
  IF d.entry[a] = "none" THEN AddAnswer(d, a, outcome)
  ELSE IF d.entry[a] # "pending" \/ outcome = "transient" THEN d
  ELSE AddAnswer(Settled(d, a, outcome, P), a, outcome)

\* dns_found_answer: an answer nobody asked for is cached, one for an entry
\* that is already settled is ignored.
FoundAnswer(d, a, outcome, P) ==
  IF d.entry[a] = "none" THEN AddAnswer(d, a, outcome)
  ELSE IF d.entry[a] # "pending" THEN
         IF d.waiting[a] = << >> THEN d ELSE [d EXCEPT !.crashed = "assert"]
  ELSE AddAnswer(Settled(d, a, outcome, P), a, outcome)

\* mutant: closing a resolving stream leaves it on the waiting list
DnsRemoveForgets(d, S) ==
  [d EXCEPT !.conn = [s \in Streams |-> IF s \in S THEN "freed" ELSE @[s]],
            !.resolving_streams = @ \ S]

\* connection_about_to_close_connection for the marked streams S: they leave
\* their circuit, and connection_dns_remove takes them off the waiting lists.
DnsRemove(d, S) ==
  LET R == {s \in S : d.conn[s] = "resolving"}
      Gone(s) == s \in S
      Lost == {s \in R : d.entry[AddrOf[s]] # "none"
                         /\ s \notin ToSet(d.waiting[AddrOf[s]])}
  IN IF Lost # {} THEN [d EXCEPT !.crashed = "assert"]
     ELSE [d EXCEPT
             !.waiting = [a \in Addresses |-> Keep(@[a], Streams \ R)],
             !.conn = [s \in Streams |-> IF Gone(s) THEN "freed" ELSE @[s]],
             !.resolving_streams = @ \ S]

-----------------------------------------------------------------------------
Running == dns.crashed = "no"

\* A BEGIN or RESOLVE cell arrives for stream s on an open circuit.
Arrives(s) == Running /\ dns.conn[s] = "none" /\ circ[CircOf[s]] = "open"

\* connection_exit_begin_conn turns the stream down before it asks for the
\* address (hibernating, malformed, not a server).
BeginRefused(s) ==
  /\ Arrives(s)
  /\ dns' = Dismiss(dns, {s}, {s})
  /\ UNCHANGED <<asked, closeable, circ, ended>>

\* dns_resolve_impl fails before the cache is searched: this relay is no exit
\* any more, or the name is a bad reverse name (then entries were purged).
BeginRejected(s) ==
  /\ Arrives(s) /\ AddrOf[s] \notin Literals
  /\ \E d \in {dns, Purge(dns)} :
       dns' = IF d.crashed = "no" THEN Failed(d, s) ELSE d
  /\ UNCHANGED <<asked, closeable, circ, ended>>

\* The address is an IP address; one that is not IPv4 is refused.
BeginLiteral(s) ==
  /\ Arrives(s) /\ AddrOf[s] \in Literals
  /\ dns' \in Answered(dns, s) \cup {Failed(dns, s)}
  /\ UNCHANGED <<asked, closeable, circ, ended>>

\* The cache decides: join a pending resolve, use an answer, or fail.
BeginLookup(s) ==
  /\ Arrives(s) /\ AddrOf[s] \notin Literals
  /\ LET d == Purge(dns)
     IN dns' \in IF d.crashed = "no" THEN Lookup(d, s) ELSE {d}
  /\ UNCHANGED <<asked, closeable, circ, ended>>

\* The address is not in the cache and eventdns accepts a request for it.
BeginLaunch(s) ==
  LET a == AddrOf[s]
      d == Purge(dns)
  IN /\ Arrives(s) /\ a \notin Literals
     /\ d.crashed = "no" /\ d.entry[a] = "none" /\ asked[a] < MaxAsked
     /\ dns' = Join([d EXCEPT !.entry[a] = "pending"], s)
     /\ asked' = [asked EXCEPT ![a] = @ + 1]
     /\ UNCHANGED <<closeable, circ, ended>>

\* launch_test_addresses asks eventdns directly; nobody waits.
LaunchTest(a) ==
  /\ Running /\ a \in TestAddresses /\ asked[a] < MaxAsked
  /\ asked' = [asked EXCEPT ![a] = @ + 1]
  /\ UNCHANGED <<dns, closeable, circ, ended>>

\* eventdns calls evdns_callback.  An answer that is a hijacked address counts
\* as a permanent failure.
Answer(a) ==
  /\ Running /\ closeable = {} /\ asked[a] > 0
  /\ asked' = [asked EXCEPT ![a] = @ - 1]
  /\ \E outcome \in {"ok", "transient", "permanent"}, P \in SUBSET (Streams \ Resolves) :
       dns' = FoundAnswer(dns, a, outcome, P)
  /\ UNCHANGED <<closeable, circ, ended>>

\* Time passes an entry's expiry.
Expire(a) ==
  /\ Running /\ dns.entry[a] # "none" /\ a \notin dns.expired
  /\ dns' = [dns EXCEPT !.expired = @ \cup {a}]
  /\ UNCHANGED <<asked, closeable, circ, ended>>

\* The client ends a stream that is still being resolved.
ReceiveEnd(s) ==
  /\ Running /\ s \in dns.resolving_streams \ closeable
  /\ closeable' = closeable \cup {s}
  /\ ended' = ended \cup {s}
  /\ UNCHANGED <<dns, asked, circ>>

\* _circuit_mark_for_close: the streams being resolved are marked too, and
\* lose their circuit at once.
MarkCircuit(c) ==
  LET S == {s \in dns.resolving_streams : CircOf[s] = c}
  IN /\ Running /\ circ[c] = "open"
     /\ circ' = [circ EXCEPT ![c] = "marked"]
     /\ closeable' = closeable \cup S
     /\ dns' = [dns EXCEPT !.resolving_streams = @ \ S]
     /\ UNCHANGED <<asked, ended>>

\* close_closeable_connections, at the end of the callback.
CloseCloseable ==
  /\ Running /\ closeable # {}
  /\ dns' = DnsRemove(dns, closeable)
  /\ closeable' = {}
  /\ UNCHANGED <<asked, circ, ended>>

Next ==
  \/ \E s \in Streams : \/ BeginRefused(s) \/ BeginRejected(s) \/ BeginLiteral(s)
                        \/ BeginLookup(s) \/ BeginLaunch(s) \/ ReceiveEnd(s)
  \/ \E a \in Addresses : LaunchTest(a) \/ Answer(a) \/ Expire(a)
  \/ \E c \in Circuits : MarkCircuit(c)
  \/ CloseCloseable

\* eventdns calls back every request, and a callback comes to its end.
Fairness ==
  /\ \A a \in Addresses : SF_vars(Answer(a))
  /\ WF_vars(CloseCloseable)

Spec == Init /\ [][Next]_vars /\ Fairness

-----------------------------------------------------------------------------
\* The waiting lists and the streams agree, whoever left and in whatever order:
\* a stream is on the list of its address, once, exactly while it is in state
\* RESOLVING; only pending entries have waiting streams; a waiting stream that
\* is not marked is on its circuit's resolving_streams and the circuit is open;
\* and an entry is pending only while eventdns owes an answer for its address,
\* even when older requests for the same address are answered late.
\* Then no assertion of dns_found_answer or connection_dns_remove can fail.
WaitersOK ==
  /\ dns.crashed # "assert"
  /\ Running =>
       /\ \A a \in Addresses :
            /\ ToSet(dns.waiting[a]) =
                 {s \in Streams : AddrOf[s] = a /\ dns.conn[s] = "resolving"}
            /\ IsInjective(dns.waiting[a])
            /\ dns.waiting[a] # << >> => dns.entry[a] = "pending"
            /\ dns.entry[a] = "pending" => asked[a] > 0
       /\ \A s \in Streams :
            dns.conn[s] = "resolving" /\ s \notin closeable =>
              s \in dns.resolving_streams /\ circ[CircOf[s]] = "open"

\* Every stream is answered once: a stream that waits has had no answer, a second
\* one is never sent (TypeOK), and no client whose circuit is open and who did
\* not end the stream sees it vanish without an answer.
ToldOnce ==
  Running =>
    \A s \in Streams :
      /\ dns.conn[s] = "resolving" => dns.told[s] = 0
      /\ dns.conn[s] = "freed" /\ circ[CircOf[s]] = "open" /\ s \notin ended =>
           dns.told[s] = 1

\* No stream waits for ever (unless an assertion has ended the process).
StreamsSettle ==
  \A s \in Streams :
    dns.conn[s] = "resolving" ~> dns.conn[s] # "resolving" \/ ~ Running
=============================================================================
