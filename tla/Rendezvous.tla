----------------------------- MODULE Rendezvous -----------------------------
(***************************************************************************)
(* One client, one hidden service, their introduction points and a         *)
(* rendezvous point (rendclient.c, rendservice.c, rendmid.c), with the     *)
(* part of circuituse.c that picks circuits for the client's streams.      *)
(*                                                                         *)
(* A circuit is a reliable pair of channels between its origin and the     *)
(* relay it ends at; how it is built is CircuitBuild's matter.  The random *)
(* cookie of a client's rendezvous circuit, and the half of the handshake  *)
(* that goes with it, are named by the circuit; so is an introduction key  *)
(* by the service's circuit it was made for.                               *)
(***************************************************************************)
EXTENDS Naturals, Sequences, FiniteSets, SequencesExt

CONSTANTS
  CCircs, SCircs,    \* circuits the client and the service may launch: numbers
  Streams,           \* the client's streams, a sequence: the connection array
  IntroRelays, RendPoint,
  NumIntro,          \* NUM_INTRO_POINTS
  MaxRendFailures,   \* MAX_REND_FAILURES
  Dirs,              \* responsible directories the client may ask
  MaxUploads, MaxFaults          \* bounds of the runs

ASSUME RendezvousAssumption ==
  /\ CCircs \subseteq Nat \ {0} /\ SCircs \subseteq Nat \ {0}
  /\ CCircs \cap SCircs = {} /\ RendPoint \notin IntroRelays
  /\ NumIntro \in Nat \ {0}
  /\ {MaxRendFailures, Dirs, MaxUploads, MaxFaults} \subseteq Nat

VARIABLES
  cl,          \* the client: circuits, cells it sends, streams, descriptor cache
  sv,          \* the service: circuits, cells it sends, introduction points
  end, back,   \* the relays' ends of the circuits, and the cells they send
  published,   \* the descriptor at the directories, and its timestamp
  faults

vars == <<cl, sv, end, back, published, faults>>

Circs == CCircs \cup SCircs
Nobody == 0
Xs == {Streams[i] : i \in DOMAIN Streams}
Intro == [at : IntroRelays, key : SCircs]

Unused == [st |-> "none", purpose |-> "none", at |-> RendPoint, query |-> FALSE,
           cookie |-> Nobody, pending |-> FALSE, failures |-> 0]
NoEnd == [st |-> "none", purpose |-> "or", token |-> Nobody, splice |-> Nobody]

Circuit ==
  [st : {"none", "building", "open", "marked"},
   purpose : {"none",
              "establish_rend", "rend_ready", "rend_acked", "rend_joined",
              "introducing", "ack_wait", "introduce_acked",
              "establish_intro", "intro", "connect_rend", "s_joined", "general"},
   at : IntroRelays \cup {RendPoint},
   query : BOOLEAN,                    \* rend_data is set
   cookie : CCircs \cup {Nobody},      \* rend_cookie, and whose handshake
   pending : BOOLEAN,                  \* pending_final_cpath
   failures : Nat]

TypeOK ==
  /\ cl.circ \in [CCircs -> Circuit] /\ sv.circ \in [SCircs -> Circuit]
  /\ cl.stream \in [Xs -> {"none", "renddesc_wait", "circuit_wait", "open", "closed"}]
  /\ cl.on \in [Xs -> CCircs \cup {Nobody}]
  /\ cl.intros \subseteq Intro /\ cl.stamp \in 0 .. MaxUploads
  /\ cl.dirs \in 0 .. Dirs /\ cl.fetches \in 0 .. Dirs - cl.dirs
  /\ sv.intros \subseteq Intro /\ sv.accepted \subseteq CCircs
  /\ end \in [Circs -> [st : {"none", "open", "marked"},
                        purpose : {"or", "intro_point", "waiting", "established"},
                        token : Circs \cup {Nobody},
                        splice : Circs \cup {Nobody}]]
  /\ published.intros \subseteq Intro /\ published.stamp \in 0 .. MaxUploads
  /\ faults \in 0 .. MaxFaults
  \* what the code asserts of circuits
  /\ \A c \in CCircs : cl.circ[c].purpose = "ack_wait" => cl.circ[c].st \in {"open", "marked"}
  /\ \A c \in SCircs : sv.circ[c].purpose = "connect_rend" /\ sv.circ[c].st = "building" =>
                         sv.circ[c].pending

Init ==
  /\ cl = [circ |-> [c \in CCircs |-> Unused], out |-> [c \in CCircs |-> << >>],
           stream |-> [x \in Xs |-> "none"], on |-> [x \in Xs |-> Nobody],
           intros |-> {}, stamp |-> 0, fetches |-> 0, dirs |-> Dirs]
  /\ sv = [circ |-> [c \in SCircs |-> Unused], out |-> [c \in SCircs |-> << >>],
           intros |-> {}, accepted |-> {}]
  /\ end = [c \in Circs |-> NoEnd]
  /\ back = [c \in Circs |-> << >>]
  /\ published = [intros |-> {}, stamp |-> 0]
  /\ faults = 0

-----------------------------------------------------------------------------
(* Circuits, as either origin sees them: o is cl or sv.                    *)

Send(o, c, cell) == [o EXCEPT !.out[c] = Append(@, cell)]
Destroy == [t |-> "destroy", key |-> Nobody, cookie |-> Nobody]
Cell(t, key, cookie) == [t |-> t, key |-> key, cookie |-> cookie]

Free(o) == {c \in DOMAIN o.circ : o.circ[c].st = "none"}
NextFree(o) == CHOOSE c \in Free(o) : \A d \in Free(o) : c <= d

\* circuit_launch_by_extend_info: with no circuit left, it returns NULL.
Launch(o, purpose, at, query) ==
  IF Free(o) = {} THEN o
  ELSE [o EXCEPT !.circ[NextFree(o)] =
          [Unused EXCEPT !.st = "building", !.purpose = purpose, !.at = at,
                         !.query = query]]

-----------------------------------------------------------------------------
(* The client.                                                             *)

Live(s, purposes) ==
  {c \in CCircs : /\ s.circ[c].st \in {"building", "open"}
                  /\ s.circ[c].query /\ s.circ[c].purpose \in purposes}
Open(s, purposes) == {c \in Live(s, purposes) : s.circ[c].st = "open"}

Waiting(s, state) == {x \in Xs : s.stream[x] = state}
SetStreams(s, xs, state) ==
  [s EXCEPT !.stream = [x \in Xs |-> IF x \in xs THEN state ELSE @[x]]]

\* directory_get_from_hs_dir: a directory is not asked twice in fifteen minutes.
AskNext(s) == [s EXCEPT !.dirs = @ - 1, !.fetches = @ + 1]

\* rend_client_refetch_v2_renddesc: with nobody left to ask, the streams that
\* wait for the descriptor are closed.
Refetch(s) ==
  IF s.intros # {} THEN s
  ELSE IF s.dirs > 0 THEN AskNext(s)
  ELSE SetStreams(s, Waiting(s, "renddesc_wait"), "closed")

\* rend_client_remove_intro_point
RemoveIntro(s, at) ==
  LET left == {i \in s.intros : i.at # at}
      r == Refetch([s EXCEPT !.intros = left])
  IN IF s.intros # {} /\ left = {}
     THEN SetStreams(r, Waiting(r, "circuit_wait"), "renddesc_wait")
     ELSE r

\* circuit_mark_for_close; told: the DESTROY came from the other end.
Close(s, c, told) ==
  LET r == IF s.circ[c].purpose = "ack_wait" THEN RemoveIntro(s, s.circ[c].at) ELSE s
      q == IF told THEN r ELSE Send(r, c, Destroy)
  IN IF s.circ[c].st = "marked" THEN s
     ELSE [SetStreams(q, {x \in Xs : q.on[x] = c}, "closed")
             EXCEPT !.circ[c].st = "marked"]

\* rend_client_send_introduction, for stream x.
SendIntroduction(s, x, introcirc, rendcirc) ==
  LET known == {i \in s.intros : i.at = s.circ[introcirc].at}
      key == (CHOOSE i \in known : TRUE).key
  IN IF known = {}
     THEN SetStreams(Close(Close(s, introcirc, FALSE), rendcirc, FALSE), {x}, "closed")
     ELSE [Send(s, introcirc, Cell("introduce1", key, rendcirc)) EXCEPT
             !.circ[introcirc].purpose = "ack_wait",
             !.circ[rendcirc].pending = TRUE]

\* circuit_get_open_circ_or_launch for an introduction circuit, when none is
\* being built or those are too old.
LaunchIntro(s, x) ==
  IF s.intros = {} THEN {SetStreams(Refetch(s), {x}, "renddesc_wait")}
  ELSE {Launch(s, "introducing", i.at, TRUE) : i \in s.intros}

\* connection_ap_handshake_attach_circuit, once a rendezvous circuit is there or
\* on its way: find an introduction circuit and use it.
AttachIntro(s, x) ==
  LET open == Open(s, {"introducing"})
      building == Live(s, {"introducing"}) \ open
  IN IF Open(s, {"ack_wait"}) # {}
     THEN {FoldLeft(LAMBDA r, c : Close(r, c, FALSE), s,
                    SetToSeq(Live(s, {"introducing"})))}
     ELSE UNION {
       IF building # {} THEN {s} ELSE {},
       IF open = {} THEN LaunchIntro(s, x) ELSE {},
       IF Live(s, {"rend_ready"}) = {} /\ open # {} THEN {s} ELSE {},
       {SendIntroduction(s, x, i, r) : i \in open, r \in Live(s, {"rend_ready"})}}

\* connection_ap_handshake_attach_circuit
Attach(s, x) ==
  LET joined == Open(s, {"rend_joined"})
      coming == Live(s, {"establish_rend", "rend_ready", "rend_acked"})
  IN IF joined # {}
     THEN {[Send(s, c, Cell("begin", Nobody, c)) EXCEPT
              !.stream[x] = "open", !.on[x] = c] : c \in joined}
     ELSE IF Live(s, {"rend_acked"}) # {} THEN {s}
     ELSE AttachIntro(IF coming # {} THEN s
                      ELSE Launch(s, "establish_rend", RendPoint, TRUE), x)

\* connection_ap_attach_pending
AttachPending(s) ==
  FoldLeft(LAMBDA S, x : UNION {IF r.stream[x] = "circuit_wait" THEN Attach(r, x) ELSE {r}
                                  : r \in S},
           {s}, Streams)

\* rend_client_desc_trynow
TryNow(s) ==
  FoldLeft(LAMBDA S, x :
             UNION {IF r.stream[x] # "renddesc_wait" THEN {r}
                    ELSE IF r.intros = {} THEN {SetStreams(r, {x}, "closed")}
                    ELSE Attach(SetStreams(r, {x}, "circuit_wait"), x) : r \in S},
           {s}, Streams)

Client(S) == cl' \in S
NotClient == <<sv, end, back, published, faults>>

\* connection_ap_handshake_rewrite_and_attach, for an onion address.
NewStream ==
  /\ \E i \in DOMAIN Streams :
       LET x == Streams[i] IN
       /\ cl.stream[x] = "none"
       /\ \A j \in 1 .. i - 1 : cl.stream[Streams[j]] # "none"
       /\ Client(IF cl.intros = {}
                 THEN {Refetch(SetStreams(cl, {x}, "renddesc_wait"))}
                 ELSE Attach(SetStreams(cl, {x}, "circuit_wait"), x))
  /\ UNCHANGED NotClient

\* SocksTimeout
StreamTimeout ==
  /\ faults < MaxFaults
  /\ \E x \in Xs : /\ cl.stream[x] \in {"renddesc_wait", "circuit_wait"}
                   /\ Client({SetStreams(cl, {x}, "closed")})
  /\ faults' = faults + 1
  /\ UNCHANGED <<sv, end, back, published>>

\* circuit_build_needed_circs, once a second.
ClientSecond ==
  /\ Client(AttachPending(cl) \ {cl})
  /\ UNCHANGED NotClient

\* A directory answers with the descriptor it has: it is stored if it is news.
FetchDone ==
  LET s == [cl EXCEPT !.fetches = @ - 1]
  IN /\ cl.fetches > 0 /\ published.stamp > 0
     /\ Client(TryNow(IF published.stamp > cl.stamp
                      THEN [s EXCEPT !.intros = published.intros,
                                     !.stamp = published.stamp]
                      ELSE s))
     /\ UNCHANGED NotClient

\* mutant: a failed fetch is not tried again
FetchFailsQuietly ==
  /\ cl.fetches > 0
  /\ Client({[cl EXCEPT !.fetches = @ - 1]})
  /\ UNCHANGED NotClient

\* No directory has it, or the connection fails: the next one is asked.
FetchFails ==
  /\ cl.fetches > 0
  /\ Client({Refetch([cl EXCEPT !.fetches = @ - 1])})
  /\ UNCHANGED NotClient

\* The cell of a circuit's relay that its origin reads next.
Reads(c, t) == back[c] # << >> /\ Head(back[c]).t = t
Read(c) == back' = [back EXCEPT ![c] = Tail(@)]

\* A DESTROY is written past the cell queues (connection_or_send_destroy): it may
\* come before the cells that were sent earlier, which then find no circuit.
Overtaken(q) == Destroy \in Range(q)
ReadsDestroy(c) == Overtaken(back[c]) /\ back' = [back EXCEPT ![c] = << >>]

\* Cells for a circuit that is marked find no circuit: they are never read.
ClientReads(c, t) == c \in CCircs /\ cl.circ[c].st = "open" /\ Reads(c, t) /\ Read(c)

\* rend_client_rendezvous_acked
RendezvousAcked ==
  /\ \E c \in CCircs :
       /\ ClientReads(c, "rendezvous_established")
       /\ IF cl.circ[c].purpose = "establish_rend"
          THEN Client(AttachPending([cl EXCEPT !.circ[c].purpose = "rend_ready"]))
          ELSE Client({Close(cl, c, FALSE)})
  /\ UNCHANGED <<sv, end, published, faults>>

\* rend_client_introduction_acked, an ACK: the first rendezvous circuit of the
\* service that is ready is told.
IntroductionAcked ==
  /\ \E c \in CCircs :
       /\ ClientReads(c, "introduce_ack")
       /\ IF cl.circ[c].purpose # "ack_wait" THEN Client({Close(cl, c, FALSE)})
          ELSE LET done(s) == Close([s EXCEPT !.circ[c].purpose = "introduce_acked"],
                                    c, FALSE)
                   ready == Live(cl, {"rend_ready"})
               IN Client(IF ready = {} THEN {done(cl)}
                         ELSE {done([cl EXCEPT !.circ[r].purpose = "rend_acked"])
                                 : r \in ready})
  /\ UNCHANGED <<sv, end, published, faults>>

\* rend_client_introduction_acked, a NAK: another introduction point is tried,
\* with the same circuit, or with a new one that no stream will find.
IntroductionRefused ==
  /\ \E c \in CCircs :
       /\ ClientReads(c, "introduce_nak")
       /\ IF cl.circ[c].purpose # "ack_wait" THEN Client({Close(cl, c, FALSE)})
          ELSE LET s == RemoveIntro([cl EXCEPT !.circ[c].purpose = "introducing"],
                                    cl.circ[c].at)
               IN Client(IF s.intros = {} THEN {s}
                         ELSE UNION {{[s EXCEPT !.circ[c].st = "building",
                                                !.circ[c].at = i.at],
                                      Launch(Close(s, c, FALSE), "introducing",
                                             i.at, FALSE)} : i \in s.intros})
  /\ UNCHANGED <<sv, end, published, faults>>

\* rend_client_receive_rendezvous: the two halves of the handshake must fit.
ReceiveRendezvous ==
  /\ \E c \in CCircs :
       /\ ClientReads(c, "rendezvous2")
       /\ IF /\ cl.circ[c].purpose \in {"rend_ready", "rend_acked"}
             /\ cl.circ[c].pending /\ Head(back[c]).cookie = c
          THEN Client(AttachPending([cl EXCEPT !.circ[c].purpose = "rend_joined",
                                               !.circ[c].pending = FALSE]))
          ELSE Client({Close(cl, c, FALSE)})
  /\ UNCHANGED <<sv, end, published, faults>>

\* rend_client_send_establish_rendezvous, with a fresh cookie
SendEstablishRendezvous(s, c) == Send(s, c, Cell("establish_rendezvous", Nobody, c))

\* circuit_has_opened at the client
ClientOpened ==
  /\ \E c \in CCircs :
       /\ cl.circ[c].st = "building"
       /\ end' = [end EXCEPT ![c] = [NoEnd EXCEPT !.st = "open"]]
       /\ LET s == [cl EXCEPT !.circ[c].st = "open"]
          IN Client(AttachPending(IF s.circ[c].purpose = "establish_rend"
                                  THEN SendEstablishRendezvous(s, c)
                                  ELSE s))
  /\ UNCHANGED <<sv, back, published, faults>>

\* command_process_destroy_cell at the client
ClientDestroyed ==
  /\ \E c \in CCircs : /\ cl.circ[c].st = "open" /\ ReadsDestroy(c)
                       /\ Client({Close(cl, c, TRUE)})
  /\ UNCHANGED <<sv, end, published, faults>>

\* circuit_expire_building: circuits that are not finished after a while.
ClientExpires ==
  /\ faults < MaxFaults /\ faults' = faults + 1
  /\ \E c \in CCircs :
       /\ \/ cl.circ[c].st = "building"
          \/ /\ cl.circ[c].st = "open"
             /\ cl.circ[c].purpose \in {"establish_rend", "introducing", "rend_acked",
                                        "ack_wait"}
       /\ Client({Close(cl, c, FALSE)})
  /\ UNCHANGED <<sv, end, back, published>>

\* circuit_expire_old_circuits: circuits with no stream on them, some time after an
\* introduction was sent over them or for them, or a stream was.
ClientExpiresOld ==
  /\ faults < MaxFaults /\ faults' = faults + 1
  /\ \E c \in CCircs :
       /\ cl.circ[c].st = "open" /\ \A x \in Xs : cl.on[x] # c
       /\ cl.circ[c].pending \/ cl.circ[c].purpose \in {"ack_wait", "rend_joined"}
       /\ Client({Close(cl, c, FALSE)})
  /\ UNCHANGED <<sv, end, back, published>>

-----------------------------------------------------------------------------
(* The relays.                                                             *)

Tell(b, c, cell) == [b EXCEPT ![c] = Append(@, cell)]

At(c) == (IF c \in CCircs THEN cl ELSE sv).circ[c].at
Unmarked(e, c) == e[c].st = "open"

\* mutant: the circuit it was joined with is left open
MarkEndAlone(e, c) == [e EXCEPT ![c].st = "marked", ![c].splice = Nobody]

\* circuit_mark_for_close: a joined circuit takes its partner with it.
MarkEnd(e, c) ==
  [d \in Circs |->
     IF d = c \/ (d = e[c].splice /\ Unmarked(e, d))
     THEN [e[d] EXCEPT !.st = "marked", !.splice = Nobody]
     ELSE e[d]]

\* mutant: nobody is told
DestroysNobody(b, e, f, quiet) == b

\* ... and DESTROY cells go to the origins of what was marked, but not to one
\* that has sent us one.
Destroys(b, e, f, quiet) ==
  [d \in Circs |-> IF e[d].st # f[d].st /\ d # quiet THEN Append(b[d], Destroy) ELSE b[d]]

\* circuit_get_by_rend_token_and_purpose, at the relay where c ends.
ByToken(c, purpose, token) ==
  {d \in Circs : /\ Unmarked(end, d) /\ At(d) = At(c)
                 /\ end[d].purpose = purpose /\ end[d].token = token}

Out(c) == (IF c \in CCircs THEN cl ELSE sv).out[c]
Leaves(c, rest) ==
  IF c \in CCircs
  THEN cl' = [cl EXCEPT !.out[c] = rest] /\ sv' = sv
  ELSE sv' = [sv EXCEPT !.out[c] = rest] /\ cl' = cl
Gets(c, t) ==
  /\ Out(c) # << >> /\ Head(Out(c)).t = t /\ Leaves(c, Tail(Out(c)))
  /\ UNCHANGED <<published, faults>>

\* goto err: the circuit is closed.
Refuse(c) ==
  /\ end' = MarkEnd(end, c)
  /\ back' = Destroys(back, end, end', Nobody)

\* rend_mid_establish_intro: an older circuit with the same key makes room.
MidEstablishIntro ==
  \E c \in Circs :
    /\ Gets(c, "establish_intro") /\ Unmarked(end, c)
    /\ LET key == Head(Out(c)).key
           old == ByToken(c, "intro_point", key)
           made == [d \in Circs |-> IF d \in old THEN [end[d] EXCEPT !.st = "marked"]
                                    ELSE end[d]]
       IN IF end[c].purpose # "or" THEN Refuse(c)
          ELSE /\ end' = [made EXCEPT ![c].purpose = "intro_point", ![c].token = key]
               /\ back' = Tell(Destroys(back, end, made, Nobody), c,
                               Cell("intro_established", Nobody, Nobody))

\* rend_mid_introduce
MidIntroduce ==
  \E c \in Circs :
    /\ Gets(c, "introduce1") /\ Unmarked(end, c)
    /\ LET to == ByToken(c, "intro_point", Head(Out(c)).key)
       IN IF end[c].purpose # "or" \/ to = {}
          THEN back' = Tell(back, c, Cell("introduce_nak", Nobody, Nobody))
          ELSE \E i \in to :
                 back' = Tell(Tell(back, i, Cell("introduce2", end[i].token,
                                                 Head(Out(c)).cookie)),
                              c, Cell("introduce_ack", Nobody, Nobody))
    /\ UNCHANGED end

\* rend_mid_establish_rendezvous
MidEstablishRendezvous ==
  \E c \in Circs :
    /\ Gets(c, "establish_rendezvous") /\ Unmarked(end, c)
    /\ LET cookie == Head(Out(c)).cookie
       IN IF end[c].purpose # "or" \/ ByToken(c, "waiting", cookie) # {} THEN Refuse(c)
          ELSE /\ back' = Tell(back, c, Cell("rendezvous_established", Nobody, Nobody))
               /\ end' = [end EXCEPT ![c].purpose = "waiting", ![c].token = cookie]

\* rend_mid_rendezvous: the two circuits are joined.
MidRendezvous ==
  \E c \in Circs :
    /\ Gets(c, "rendezvous1") /\ Unmarked(end, c)
    /\ LET cookie == Head(Out(c)).cookie
           waits == ByToken(c, "waiting", cookie)
       IN IF end[c].purpose # "or" \/ waits = {} THEN Refuse(c)
          ELSE \E r \in waits :
                 /\ back' = Tell(back, r, Cell("rendezvous2", Nobody, cookie))
                 /\ end' = [end EXCEPT
                              ![c] = [@ EXCEPT !.purpose = "established",
                                               !.token = Nobody, !.splice = r],
                              ![r] = [@ EXCEPT !.purpose = "established", !.splice = c]]

\* circuit_receive_relay_cell: a cell nobody here can read goes on over the splice,
\* to the service, whose stream (FlowControl) takes no part here.
MidForward ==
  \E c \in Circs :
    /\ Gets(c, "begin") /\ Unmarked(end, c)
    /\ IF end[c].splice = Nobody THEN Refuse(c) ELSE UNCHANGED <<end, back>>

\* command_process_destroy_cell at a relay
MidDestroyed ==
  \E c \in Circs :
    /\ Overtaken(Out(c)) /\ Leaves(c, << >>) /\ Unmarked(end, c)
    /\ UNCHANGED <<published, faults>>
    /\ end' = MarkEnd(end, c)
    /\ back' = Destroys(back, end, end', c)

-----------------------------------------------------------------------------
(* The service.                                                            *)

\* rend_service_relaunch_rendezvous: too many failures, or too late, and it
\* gives up.
Relaunch(s, c) ==
  LET old == s.circ[c] IN
  IF old.failures > MaxRendFailures \/ ~ old.pending \/ Free(s) = {} THEN {s}
  ELSE {s, [s EXCEPT !.circ[NextFree(s)] = [old EXCEPT !.failures = @ + 1],
                     !.circ[c].pending = FALSE]}

\* circuit_mark_for_close, with circuit_build_failed
ServiceClose(s, c, told) ==
  LET failed == IF s.circ[c].st = "building" /\ s.circ[c].purpose = "connect_rend"
                THEN Relaunch(s, c) ELSE {s}
  IN {[(IF told THEN r ELSE Send(r, c, Destroy)) EXCEPT !.circ[c].st = "marked"]
        : r \in failed}

\* find_intro_circuit
FindIntro(s, i, purposes) ==
  {c \in SCircs : /\ s.circ[c].st \in {"building", "open"} /\ s.circ[c].at = i.at
                  /\ s.circ[c].purpose \in purposes}

\* rend_service_launch_establish_intro, for every new point: free[j] goes to seq[j].
LaunchEstablishIntro(seq, free) ==
  [c \in SCircs |->
     IF \E j \in DOMAIN seq : free[j] = c
     THEN [Unused EXCEPT !.st = "building", !.purpose = "establish_intro",
             !.at = seq[CHOOSE j \in DOMAIN seq : free[j] = c], !.query = TRUE]
     ELSE sv.circ[c]]

\* rend_services_introduce: points whose circuit is gone are given up, and new
\* ones are picked at other relays, each with a key of its own.
ServicesIntroduce ==
  LET kept == {i \in sv.intros : FindIntro(sv, i, {"intro", "establish_intro"}) # {}}
      target == IF kept = {} THEN NumIntro + 2 ELSE NumIntro
      fresh == IntroRelays \ {i.at : i \in sv.intros}
      free == SetToSortSeq(Free(sv), <)
  IN /\ kept # sv.intros \/ Cardinality(sv.intros) < NumIntro
     /\ \E ats \in SUBSET fresh :
          /\ \/ Cardinality(ats) + Cardinality(kept) = target
             \/ ats = fresh /\ Cardinality(fresh) + Cardinality(kept) < target
             \/ Cardinality(kept) > target /\ ats = {}
          /\ Cardinality(ats) <= Len(free)
          /\ \E seq \in {q \in [1 .. Cardinality(ats) -> ats] : IsInjective(q)} :
               sv' = [sv EXCEPT
                 !.intros = kept \cup {[at |-> seq[j], key |-> free[j]] : j \in DOMAIN seq},
                 !.circ = LaunchEstablishIntro(seq, free)]
     /\ sv' # sv
     /\ UNCHANGED <<cl, end, back, published, faults>>

\* rend_service_update_descriptor: the points that are established.
UpdateDescriptor == {i \in sv.intros : FindIntro(sv, i, {"intro"}) # {}}

\* rend_consider_services_upload: half a minute after the start, when points have
\* long been picked, and from then on whenever they change or an hour is over.
Upload ==
  /\ published.stamp < MaxUploads /\ sv.intros # {}
  /\ published' = [intros |-> UpdateDescriptor, stamp |-> published.stamp + 1]
  /\ UNCHANGED <<cl, sv, end, back, faults>>

Established(s) ==
  {c \in SCircs : s.circ[c].st = "open" /\ s.circ[c].purpose \in {"establish_intro", "intro"}}

\* rend_service_intro_has_opened: a circuit too many is left for other use.
IntroHasOpened(s, c) ==
  IF Cardinality(Established(s)) > NumIntro THEN [s EXCEPT !.circ[c].purpose = "general"]
  ELSE Send(s, c, Cell("establish_intro", c, Nobody))

\* rend_service_rendezvous_has_opened: the service's half of the handshake is sent.
RendezvousHasOpened(s, c) ==
  [Send(s, c, Cell("rendezvous1", Nobody, s.circ[c].cookie)) EXCEPT
     !.circ[c].purpose = "s_joined", !.circ[c].pending = FALSE]

\* circuit_has_opened at the service
ServiceOpened ==
  /\ \E c \in SCircs :
       LET s == [sv EXCEPT !.circ[c].st = "open"] IN
       /\ sv.circ[c].st = "building"
       /\ end' = [end EXCEPT ![c] = [NoEnd EXCEPT !.st = "open"]]
       /\ \/ s.circ[c].purpose = "establish_intro" /\ sv' = IntroHasOpened(s, c)
          \/ s.circ[c].purpose = "connect_rend" /\ sv' = RendezvousHasOpened(s, c)
  /\ UNCHANGED <<cl, back, published, faults>>

ServiceReads(c, t) == c \in SCircs /\ sv.circ[c].st = "open" /\ Reads(c, t) /\ Read(c)

\* rend_service_intro_established
IntroEstablished ==
  /\ \E c \in SCircs :
       /\ ServiceReads(c, "intro_established")
       /\ IF sv.circ[c].purpose = "establish_intro"
          THEN sv' = [sv EXCEPT !.circ[c].purpose = "intro"]
          ELSE sv' \in ServiceClose(sv, c, FALSE)
  /\ UNCHANGED <<cl, end, published, faults>>

\* rend_service_introduce: the request came over an introduction circuit and is
\* encrypted to the key of that circuit.
ForUs(c, key) == sv.circ[c].purpose = "intro" /\ key = c

\* The circuit to the rendezvous point that answers a handshake; when none can be
\* launched, the handshake is lost.
Answering(s, cookie) ==
  IF Free(s) = {} THEN s
  ELSE [s EXCEPT !.circ[NextFree(s)] =
          [Unused EXCEPT !.st = "building", !.purpose = "connect_rend",
                         !.query = TRUE, !.cookie = cookie, !.pending = TRUE]]

\* mutant: handshakes are not remembered
ServiceIntroduceAgain ==
  /\ \E c \in SCircs :
       /\ ServiceReads(c, "introduce2")
       /\ sv' = IF ~ ForUs(c, Head(back[c]).key) THEN sv
                ELSE Answering(sv, Head(back[c]).cookie)
  /\ UNCHANGED <<cl, end, published, faults>>

\* rend_service_introduce: a handshake that was seen before is a replay; else a
\* circuit to the rendezvous point is launched.
ServiceIntroduce ==
  /\ \E c \in SCircs :
       LET cookie == Head(back[c]).cookie IN
       /\ ServiceReads(c, "introduce2")
       /\ sv' = IF ~ ForUs(c, Head(back[c]).key) \/ cookie \in sv.accepted THEN sv
                ELSE Answering([sv EXCEPT !.accepted = @ \cup {cookie}], cookie)
  /\ UNCHANGED <<cl, end, published, faults>>

\* command_process_destroy_cell at the service
ServiceDestroyed ==
  /\ \E c \in SCircs : /\ sv.circ[c].st = "open" /\ ReadsDestroy(c)
                       /\ sv' \in ServiceClose(sv, c, TRUE)
  /\ UNCHANGED <<cl, end, published, faults>>

\* circuit_expire_building at the service
ServiceExpires ==
  /\ faults < MaxFaults /\ faults' = faults + 1
  /\ \E c \in SCircs :
       /\ \/ sv.circ[c].st = "building"
          \/ sv.circ[c].st = "open" /\ sv.circ[c].purpose = "establish_intro"
       /\ sv' \in ServiceClose(sv, c, FALSE)
  /\ UNCHANGED <<cl, end, back, published>>

-----------------------------------------------------------------------------
\* A relay in the middle of an open circuit goes away: both ends get a DESTROY, and
\* the cells that are lost are among those it overtakes.
PathFails ==
  /\ faults < MaxFaults /\ faults' = faults + 1
  /\ \E c \in Circs :
       /\ Unmarked(end, c)
       /\ (IF c \in CCircs THEN cl ELSE sv).circ[c].st = "open"
       /\ back' = Tell(back, c, Destroy)
       /\ Leaves(c, Append(Out(c), Destroy))
  /\ UNCHANGED <<end, published>>

Next ==
  \/ NewStream \/ StreamTimeout \/ ClientSecond \/ FetchDone \/ FetchFails
  \/ RendezvousAcked \/ IntroductionAcked \/ IntroductionRefused \/ ReceiveRendezvous
  \/ ClientOpened \/ ClientDestroyed \/ ClientExpires \/ ClientExpiresOld
  \/ MidEstablishIntro \/ MidIntroduce \/ MidEstablishRendezvous \/ MidRendezvous
  \/ MidForward \/ MidDestroyed
  \/ ServicesIntroduce \/ Upload \/ ServiceOpened \/ IntroEstablished
  \/ ServiceIntroduce \/ ServiceDestroyed \/ ServiceExpires
  \/ PathFails

Spec == Init /\ [][Next]_vars

-----------------------------------------------------------------------------
\* Circuits are joined in pairs: a client's with the circuit on which the service
\* answered that client's handshake; neither is left when the other is gone.
SpliceOK ==
  /\ TypeOK
  /\ \A c \in Circs : end[c].splice # Nobody =>
       LET d == end[c].splice IN
       /\ end[d].splice = c
       /\ Unmarked(end, c) /\ Unmarked(end, d)
       /\ {end[c].purpose, end[d].purpose} = {"established"}
       /\ c \in CCircs => d \in SCircs /\ sv.circ[d].cookie = c
       /\ c \in SCircs => d \in CCircs

\* The service answers a client's handshake on one circuit at most, although the
\* client may send it through several introduction points, and the service tries
\* again when a circuit to the rendezvous point fails.
OneAnswer ==
  \A h \in CCircs :
    Cardinality({c \in SCircs : /\ sv.circ[c].cookie = h
                                /\ sv.circ[c].pending \/ sv.circ[c].purpose = "s_joined"}) <= 1

\* A client's joined circuit leads to the service, or its end is on the way:
\* streams never hang on a circuit that nobody will close.
JoinedOrTold ==
  \A c \in CCircs :
    cl.circ[c].st = "open" /\ cl.circ[c].purpose = "rend_joined" =>
      \/ /\ end[c].splice \in SCircs
         /\ sv.circ[end[c].splice].purpose = "s_joined"
      \/ Destroy \in Range(back[c])

\* A stream that waits for the descriptor has somebody to wait for, unless the
\* directories have all been asked.
SomebodyAsked ==
  Waiting(cl, "renddesc_wait") # {} => cl.fetches > 0 \/ cl.dirs = 0
=============================================================================
