------------------------- MODULE FlowControlProofs -------------------------
(***************************************************************************)
(* Proofs about FlowControl, for every set of streams and every choice of  *)
(* the window sizes, increments, water marks and supplies.                 *)
(*                                                                         *)
(* First the circuit: its windows, and the hysteresis of its cell queue.   *)
(* Then its streams: their windows stay in step, no honest side ever tears *)
(* the circuit down for a protocol error, and no open stream waits for an  *)
(* event that will not come.  The inductive invariant of that part is      *)
(* Flow.  Its parts concern one side and one stream each, so a step of the *)
(* other side, or on another stream, leaves most of them alone.            *)
(***************************************************************************)
EXTENDS FlowControl, FiniteSetTheorems, SequenceTheorems, TLAPS

----------------------------------------------------------------------------
(* Counting the cells of a sequence.                                       *)

\* CountIn is a natural number.
LEMMA CountType ==
  ASSUME NEW X, NEW seq \in Seq(X), NEW C
  PROVE  /\ IsFiniteSet({i \in DOMAIN seq : seq[i] \in C})
         /\ CountIn(seq, C) \in Nat
<1> DEFINE A == {i \in DOMAIN seq : seq[i] \in C}
<1>1. IsFiniteSet(1..Len(seq))
  BY FS_Interval
<1>2. A \subseteq 1..Len(seq)
  OBVIOUS
<1>3. IsFiniteSet(A)
  BY <1>1, <1>2, FS_Subset
<1> QED
  BY <1>3, FS_CardinalityType DEF CountIn

\* Counting is additive over concatenation.
LEMMA CountConcat ==
  ASSUME NEW X, NEW s \in Seq(X), NEW t \in Seq(X), NEW C
  PROVE  CountIn(s \o t, C) = CountIn(s, C) + CountIn(t, C)
<1> DEFINE m == Len(s)
           n == Len(t)
           A == {i \in DOMAIN s : s[i] \in C}
           B == {i \in DOMAIN t : t[i] \in C}
           D == {i \in (m + 1)..(m + n) : t[i - m] \in C}
           E == {i \in DOMAIN (s \o t) : (s \o t)[i] \in C}
           f == [i \in B |-> i + m]
<1>1. m \in Nat /\ n \in Nat /\ DOMAIN s = 1..m /\ DOMAIN t = 1..n
  OBVIOUS
<1>2. /\ DOMAIN (s \o t) = 1..(m + n)
      /\ \A i \in 1..(m + n) :
           (s \o t)[i] = IF i <= m THEN s[i] ELSE t[i - m]
  BY ConcatProperties
<1>3. E = A \cup D
  BY <1>1, <1>2
<1>4. A \cap D = {}
  BY <1>1
<1>5. IsFiniteSet(A) /\ IsFiniteSet(B)
  BY CountType
<1>6. f \in Bijection(B, D)
  <2>1. f \in [B -> D]
    BY <1>1
  <2>2. \A i, j \in B : f[i] = f[j] => i = j
    BY <1>1
  <2>3. \A k \in D : \E i \in B : f[i] = k
    <3> TAKE k \in D
    <3>1. k - m \in B /\ f[k - m] = k
      BY <1>1
    <3> QED
      BY <3>1
  <2> QED
    BY <2>1, <2>2, <2>3 DEF Bijection, Injection, IsInjective, Surjection
<1>7. IsFiniteSet(D) /\ Cardinality(D) = Cardinality(B)
  BY <1>5, <1>6, FS_Bijection DEF ExistsBijection
<1>8. Cardinality(E) = Cardinality(A) + Cardinality(D) - Cardinality(A \cap D)
  BY <1>3, <1>5, <1>7, FS_Union
<1>9. Cardinality(A \cap D) = 0
  BY <1>4, FS_EmptySet
<1>10. Cardinality(A) \in Nat /\ Cardinality(D) \in Nat
  BY <1>5, <1>7, FS_CardinalityType
<1>11. /\ CountIn(s \o t, C) = Cardinality(E)
       /\ CountIn(s, C) = Cardinality(A)
       /\ CountIn(t, C) = Cardinality(B)
  BY DEF CountIn
<1> HIDE DEF A, B, D, E
<1> QED
  BY <1>7, <1>8, <1>9, <1>10, <1>11

\* n copies of a cell count n times or not at all.
LEMMA CountCopies ==
  ASSUME NEW n \in Nat, NEW cell, NEW C
  PROVE  /\ Copies(n, cell) \in Seq({cell})
         /\ Len(Copies(n, cell)) = n
         /\ CountIn(Copies(n, cell), C) = IF cell \in C THEN n ELSE 0
<1> DEFINE A == {i \in DOMAIN Copies(n, cell) : Copies(n, cell)[i] \in C}
<1>1. Copies(n, cell) \in Seq({cell}) /\ Len(Copies(n, cell)) = n
  BY IsASeq, LenProperties DEF Copies
<1>2. Cardinality(1..n) = n
  BY FS_Interval
<1>3. CASE cell \in C
  <2>1. A = 1..n
    BY <1>3 DEF Copies
  <2> QED
    BY <1>1, <1>2, <1>3, <2>1 DEF CountIn
<1>4. CASE cell \notin C
  <2>1. A = {}
    BY <1>4 DEF Copies
  <2> QED
    BY <1>1, <1>4, <2>1, FS_EmptySet DEF CountIn
<1> QED
  BY <1>3, <1>4

\* The same, for a cell that counts ...
LEMMA CountCopiesIn ==
  ASSUME NEW n \in Nat, NEW C, NEW cell \in C
  PROVE  CountIn(Copies(n, cell), C) = n
BY CountCopies

\* ... and for one that does not.
LEMMA CountCopiesOut ==
  ASSUME NEW n \in Nat, NEW C, NEW cell, cell \notin C
  PROVE  CountIn(Copies(n, cell), C) = 0
BY CountCopies

\* The empty sequence and a single cell.
LEMMA CountSmall ==
  ASSUME NEW cell, NEW C
  PROVE  /\ CountIn(<< >>, C) = 0
         /\ CountIn(<<cell>>, C) = IF cell \in C THEN 1 ELSE 0
<1>1. CountIn(<< >>, C) = 0
  BY FS_EmptySet DEF CountIn
<1>2. Copies(1, cell) = <<cell>>
  <2>1. /\ Copies(1, cell) \in Seq({cell}) /\ Len(Copies(1, cell)) = 1
        /\ Copies(1, cell)[1] = cell
    BY CountCopies DEF Copies
  <2>2. /\ <<cell>> \in Seq({cell}) /\ Len(<<cell>>) = 1
        /\ <<cell>>[1] = cell
    OBVIOUS
  <2> QED
    BY <2>1, <2>2, SeqEqual
<1>3. CountIn(<<cell>>, C) = IF cell \in C THEN 1 ELSE 0
  <2>1. CountIn(Copies(1, cell), C) = IF cell \in C THEN 1 ELSE 0
    BY CountCopies
  <2> QED
    BY <1>2, <2>1
<1> QED
  BY <1>1, <1>3

\* Taking the oldest cell off a channel.
LEMMA CountTail ==
  ASSUME NEW X, NEW seq \in Seq(X), seq # << >>, NEW C
  PROVE  CountIn(seq, C) =
           (IF Head(seq) \in C THEN 1 ELSE 0) + CountIn(Tail(seq), C)
<1>1. /\ Tail(seq) \in Seq(X) /\ Head(seq) \in X /\ <<Head(seq)>> \in Seq(X)
      /\ seq = <<Head(seq)>> \o Tail(seq)
  BY HeadTailProperties, ConcatProperties, SeqEqual
<1>2. CountIn(<<Head(seq)>> \o Tail(seq), C) =
        CountIn(<<Head(seq)>>, C) + CountIn(Tail(seq), C)
  BY <1>1, CountConcat
<1>3. CountIn(<<Head(seq)>>, C) = IF Head(seq) \in C THEN 1 ELSE 0
  BY CountSmall
<1> QED
  BY <1>1, <1>2, <1>3

\* A consider_sending_sendme loop runs a natural number of times.
LEMMA SendmesDueNat ==
  ASSUME NEW window \in Int, NEW start \in Nat, NEW inc \in Nat \ {0}
  PROVE  SendmesDue(window, start, inc) \in Nat
BY DEF SendmesDue

----------------------------------------------------------------------------
(* Type correctness.                                                       *)

\* The part of TypeOK that Send is responsible for.
QueueTyped ==
  /\ chan \in [Side -> Seq(Cells)]
  /\ queued \in [Side -> Nat]
  /\ \A d \in Side : queued[d] <= Len(chan[d])
  /\ blocked \in [Side -> BOOLEAN]

\* Send keeps the queues typed.
LEMMA SendTyped ==
  ASSUME TypeOK, NEW d \in Side, NEW ch \in [Side -> Seq(Cells)],
         \A e \in Side : queued[e] <= Len(ch[e]),
         NEW cells \in Seq(Cells), Send(ch, d, cells)
  PROVE  QueueTyped'
<1>1. chan' = [ch EXCEPT ![d] = ch[d] \o cells]
  BY DEF Send
<1>2. /\ ch[d] \o cells \in Seq(Cells)
      /\ Len(ch[d] \o cells) = Len(ch[d]) + Len(cells)
  BY ConcatProperties
<1>3. PICK primed \in {0, 1} :
        /\ primed = 1 => queued[d] = 0 /\ cells # << >>
        /\ queued' = [queued EXCEPT ![d] = @ + Len(cells) - primed]
  BY DEF Send
<1>4. queued \in [Side -> Nat] /\ Len(cells) \in Nat
  BY DEF TypeOK
<1>5. cells # << >> => Len(cells) > 0
  BY EmptySeq, LenProperties
<1>6. /\ queued[d] + Len(cells) - primed \in Nat
      /\ queued[d] + Len(cells) - primed <= Len(ch[d]) + Len(cells)
  BY <1>3, <1>4, <1>5
<1>7. queued' \in [Side -> Nat]
  BY <1>3, <1>4, <1>6
<1>8. chan' \in [Side -> Seq(Cells)]
  BY <1>1, <1>2
<1>9. \A e \in Side : queued'[e] <= Len(chan'[e])
  BY <1>1, <1>2, <1>3, <1>4, <1>6
<1>10. blocked' \in [Side -> BOOLEAN]
  BY DEF Send, TypeOK
<1> QED
  BY <1>7, <1>8, <1>9, <1>10 DEF QueueTyped

\* Turning reading switches off keeps them typed.
LEMMA StopTyped ==
  ASSUME NEW rd \in [Streams -> BOOLEAN], NEW S
  PROVE  Stop(rd, S) \in [Streams -> BOOLEAN]
BY DEF Stop

\* The cells of the model.
LEMMA CellTyped ==
  ASSUME NEW cmd \in Commands, NEW sid \in Streams \cup {0}, NEW n \in Nat
  PROVE  /\ Cell(cmd, sid) \in Cells
         /\ <<Cell(cmd, sid)>> \in Seq(Cells)
         /\ Copies(n, Cell(cmd, sid)) \in Seq(Cells)
<1>1. Cell(cmd, sid) \in Cells
  BY DEF Cell, Cells
<1>2. Copies(n, Cell(cmd, sid)) \in Seq(Cells)
  BY <1>1, IsASeq DEF Copies
<1> QED
  BY <1>1, <1>2

\* connection_edge_package_raw_inbuf.
LEMMA PackageTyped ==
  ASSUME TypeOK, NEW d \in Side, NEW s \in Streams,
         NEW ch \in [Side -> Seq(Cells)],
         \A e \in Side : queued[e] <= Len(ch[e]),
         NEW front \in Seq(Cells), NEW pending \in Nat,
         NEW rd \in [Streams -> BOOLEAN],
         PackageRawInbuf(ch, d, s, front, pending, rd)
  PROVE  /\ QueueTyped'
         /\ inbuf' \in [Side -> [Streams -> Nat]]
         /\ circ_package' \in [Side -> Nat]
         /\ conn_package' \in [Side -> [Streams -> Nat]]
         /\ reading' \in [Side -> [Streams -> BOOLEAN]]
<1> DEFINE n == Packed(d, s, pending)
           stopped == IF circ_package[d] - n <= 0 THEN Linked(d)
                      ELSE IF conn_package[d][s] - n <= 0 THEN {s} ELSE {}
<1>1. circ_package[d] \in Nat /\ conn_package[d][s] \in Nat
  BY DEF TypeOK
<1>2. n \in Nat /\ n <= pending /\ n <= circ_package[d]
      /\ n <= conn_package[d][s]
  BY <1>1 DEF Packed, Least
<1>3. /\ Send(ch, d, front \o Copies(n, Cell("DATA", s)))
      /\ inbuf' = [inbuf EXCEPT ![d][s] = pending - n]
      /\ circ_package' = [circ_package EXCEPT ![d] = circ_package[d] - n]
      /\ conn_package' = [conn_package EXCEPT ![d][s] =
                            conn_package[d][s] - n]
      /\ reading' = [reading EXCEPT ![d] =
                       Stop(rd, stopped \cup NewlyBlocked(d))]
  BY DEF PackageRawInbuf
<1>4. Copies(n, Cell("DATA", s)) \in Seq(Cells)
  BY <1>2, CellTyped DEF Commands
<1>5. front \o Copies(n, Cell("DATA", s)) \in Seq(Cells)
  BY <1>4, ConcatProperties
<1>6. QueueTyped'
  BY <1>3, <1>5, SendTyped
<1>7. Stop(rd, stopped \cup NewlyBlocked(d)) \in [Streams -> BOOLEAN]
  BY StopTyped
<1> HIDE DEF n, stopped
<1>8. /\ pending - n \in Nat
      /\ circ_package[d] - n \in Nat
      /\ conn_package[d][s] - n \in Nat
  BY <1>1, <1>2
<1>9. inbuf' \in [Side -> [Streams -> Nat]]
  BY <1>3, <1>8 DEF TypeOK
<1>10. circ_package' \in [Side -> Nat]
  BY <1>3, <1>8 DEF TypeOK
<1>11. conn_package' \in [Side -> [Streams -> Nat]]
  BY <1>3, <1>8 DEF TypeOK
<1>12. reading' \in [Side -> [Streams -> BOOLEAN]]
  BY <1>3, <1>7 DEF TypeOK
<1> QED
  BY <1>6, <1>9, <1>10, <1>11, <1>12

\* circuit_detach_stream.
LEMMA UnlinkTyped ==
  ASSUME TypeOK, NEW d \in Side, NEW s \in Streams
  PROVE  Unlink(d, s) \in Seq(Streams)
<1> DEFINE i == CHOOSE j \in DOMAIN list[d] : list[d][j] = s
<1>1. list[d] \in Seq(Streams)
  BY DEF TypeOK
<1>2. CASE s \in Linked(d)
  <2>1. i \in DOMAIN list[d]
    BY <1>2 DEF Linked
  <2>2. i \in 1..Len(list[d])
    BY <1>1, <2>1
  <2> HIDE DEF i
  <2>3. /\ SubSeq(list[d], 1, i - 1) \in Seq(Streams)
        /\ SubSeq(list[d], i + 1, Len(list[d])) \in Seq(Streams)
    BY <1>1, <2>2, SubSeqProperties
  <2>4. Unlink(d, s) = SubSeq(list[d], 1, i - 1)
                       \o SubSeq(list[d], i + 1, Len(list[d]))
    BY <1>2 DEF Unlink, i
  <2> QED
    BY <2>3, <2>4, ConcatProperties
<1>3. CASE s \notin Linked(d)
  BY <1>1, <1>3 DEF Unlink
<1> QED
  BY <1>2, <1>3

\* Ending a stream from this side.
LEMMA EndConnTyped ==
  ASSUME TypeOK, NEW d \in Side, NEW s \in Streams,
         NEW ch \in [Side -> Seq(Cells)],
         \A e \in Side : queued[e] <= Len(ch[e]),
         EndConn(ch, d, s)
  PROVE  /\ QueueTyped'
         /\ state' \in [Side -> [Streams -> States]]
         /\ list' \in [Side -> Seq(Streams)]
         /\ outbuf' \in [Side -> [Streams -> Nat]]
         /\ reading' \in [Side -> [Streams -> BOOLEAN]]
<1>1. <<Cell("END", s)>> \in Seq(Cells)
  BY CellTyped DEF Commands
<1>2. QueueTyped'
  BY <1>1, SendTyped DEF EndConn
<1>3. Unlink(d, s) \in Seq(Streams)
  BY UnlinkTyped
<1>4. list' \in [Side -> Seq(Streams)]
  BY <1>3 DEF EndConn, CloseConn, TypeOK
<1>5. "closed" \in States
  BY DEF States
<1>6. state' \in [Side -> [Streams -> States]]
  BY <1>5 DEF EndConn, CloseConn, TypeOK
<1>7. outbuf' \in [Side -> [Streams -> Nat]]
  BY DEF EndConn, CloseConn, TypeOK
<1>8. Stop(reading[d], {s} \cup NewlyBlocked(d)) \in [Streams -> BOOLEAN]
  BY StopTyped DEF TypeOK
<1>9. reading' \in [Side -> [Streams -> BOOLEAN]]
  BY <1>8 DEF EndConn, TypeOK
<1> QED
  BY <1>2, <1>4, <1>6, <1>7, <1>9

\* Taking a cell off the wire.
LEMMA TakenTyped ==
  ASSUME TypeOK, NEW d \in Side, NEW cell, Arrives(d, cell)
  PROVE  /\ Peer(d) \in Side
         /\ chan[Peer(d)] # << >>
         /\ Taken(d) \in [Side -> Seq(Cells)]
         /\ \A e \in Side : queued[e] <= Len(Taken(d)[e])
<1> DEFINE p == Peer(d)
<1>1. p \in Side
  BY DEF Peer, Side
<1> HIDE DEF p
<1>2. /\ chan[p] \in Seq(Cells) /\ queued[p] \in Nat
      /\ Len(chan[p]) > queued[p]
  BY <1>1 DEF TypeOK, Arrives, p
<1>3. chan[p] # << >>
  BY <1>2
<1>4. /\ Tail(chan[p]) \in Seq(Cells)
      /\ Len(Tail(chan[p])) = Len(chan[p]) - 1
  BY <1>2, <1>3, HeadTailProperties
<1>5. Taken(d) = [chan EXCEPT ![p] = Tail(chan[p])]
  BY DEF Taken, p
<1>6. Taken(d) \in [Side -> Seq(Cells)]
  BY <1>1, <1>4, <1>5 DEF TypeOK
<1>7. \A e \in Side : queued[e] <= Len(Taken(d)[e])
  BY <1>1, <1>2, <1>4, <1>5 DEF TypeOK
<1> QED
  BY <1>1, <1>3, <1>6, <1>7 DEF p

\* Handlers that take a cell and send none.
LEMMA TakenSendNothing ==
  ASSUME TypeOK, NEW d \in Side, NEW cell, Arrives(d, cell),
         Send(Taken(d), d, << >>)
  PROVE  QueueTyped'
<1>1. << >> \in Seq(Cells)
  OBVIOUS
<1> QED
  BY <1>1, TakenTyped, SendTyped

\* connection_exit_connect.
LEMMA ExitConnectTyped ==
  ASSUME TypeOK, NEW s \in Streams, NEW ch \in [Side -> Seq(Cells)],
         \A e \in Side : queued[e] <= Len(ch[e]),
         ExitConnect(ch, s)
  PROVE  /\ QueueTyped'
         /\ state' \in [Side -> [Streams -> States]]
         /\ list' \in [Side -> Seq(Streams)]
         /\ reading' \in [Side -> [Streams -> BOOLEAN]]
<1>1. "exit" \in Side
  BY DEF Side
<1>2. PICK outcome \in {"closed", "CONNECTING", "OPEN"} :
        /\ state' = [state EXCEPT !["exit"][s] = outcome]
        /\ list' = [list EXCEPT !["exit"] =
                      IF outcome = "closed" THEN @ ELSE <<s>> \o @]
        /\ Send(ch, "exit",
                CASE outcome = "closed"     -> <<Cell("END", s)>>
                  [] outcome = "CONNECTING" -> << >>
                  [] outcome = "OPEN"       -> <<Cell("CONNECTED", s)>>)
        /\ reading' = [reading EXCEPT !["exit"] =
                         Stop([@ EXCEPT ![s] = /\ outcome # "closed"
                                               /\ ~JustBlocked("exit")],
                              NewlyBlocked("exit"))]
  BY DEF ExitConnect
<1>3. QueueTyped'
  <2>1. /\ <<Cell("END", s)>> \in Seq(Cells)
        /\ <<Cell("CONNECTED", s)>> \in Seq(Cells)
        /\ << >> \in Seq(Cells)
    BY CellTyped DEF Commands
  <2>2. CASE outcome = "closed"
    BY <1>1, <1>2, <2>1, <2>2, SendTyped
  <2>3. CASE outcome = "CONNECTING"
    BY <1>1, <1>2, <2>1, <2>3, SendTyped
  <2>4. CASE outcome = "OPEN"
    BY <1>1, <1>2, <2>1, <2>4, SendTyped
  <2> QED
    BY <1>2, <2>2, <2>3, <2>4
<1>4. state' \in [Side -> [Streams -> States]]
  BY <1>1, <1>2 DEF TypeOK, States, NotOpen
<1>5. list' \in [Side -> Seq(Streams)]
  <2>1. list["exit"] \in Seq(Streams) /\ <<s>> \in Seq(Streams)
    BY <1>1 DEF TypeOK
  <2>2. <<s>> \o list["exit"] \in Seq(Streams)
    BY <2>1, ConcatProperties
  <2> QED
    BY <1>1, <1>2, <2>1, <2>2 DEF TypeOK
<1>6. reading' \in [Side -> [Streams -> BOOLEAN]]
  <2> DEFINE rd == [reading["exit"] EXCEPT ![s] = /\ outcome # "closed"
                                                  /\ ~JustBlocked("exit")]
  <2>1. rd \in [Streams -> BOOLEAN]
    BY <1>1 DEF TypeOK
  <2>2. Stop(rd, NewlyBlocked("exit")) \in [Streams -> BOOLEAN]
    BY <2>1, StopTyped
  <2>3. reading' = [reading EXCEPT !["exit"] = Stop(rd, NewlyBlocked("exit"))]
    BY <1>2
  <2> HIDE DEF rd
  <2> QED
    BY <1>1, <2>2, <2>3 DEF TypeOK
<1> QED
  BY <1>3, <1>4, <1>5, <1>6

\* Every step keeps the types: one case per action.
LEMMA TypeStep ==
  ASSUME TypeOK, [Next]_vars
  PROVE  TypeOK'
<1> USE DEF circVars, connVars, queueVars, ghostVars
<1>a. "op" \in Side /\ "exit" \in Side
  BY DEF Side
<1>b. /\ STREAMWINDOW_START \in Nat /\ STREAMWINDOW_INCREMENT \in Nat \ {0}
      /\ CIRCWINDOW_START \in Nat /\ CIRCWINDOW_INCREMENT \in Nat \ {0}
      /\ STREAMWINDOW_START \in Int
  BY WindowAssumption
<1>c. \A e \in Side : queued[e] <= Len(chan[e])
  BY DEF TypeOK
<1>d. chan \in [Side -> Seq(Cells)]
  BY DEF TypeOK
<1>e. "OPEN" \in States /\ "closed" \in States /\ "CONNECT_WAIT" \in States
      /\ "RESOLVING" \in States
  BY DEF States, NotOpen
<1>1. ASSUME NEW s \in Streams, SendBegin(s) PROVE TypeOK'
  <2>1. QueueTyped'
    <3>1. <<Cell("BEGIN", s)>> \in Seq(Cells)
      BY CellTyped DEF Commands
    <3> QED
      BY <1>1, <1>a, <1>c, <1>d, <3>1, SendTyped DEF SendBegin
  <2>2. list' \in [Side -> Seq(Streams)]
    <3>1. <<s>> \o list["op"] \in Seq(Streams)
      BY <1>a, ConcatProperties DEF TypeOK
    <3> QED
      BY <1>1, <1>a, <3>1 DEF SendBegin, TypeOK
  <2>3. reading' \in [Side -> [Streams -> BOOLEAN]]
    <3> DEFINE rd == [reading["op"] EXCEPT ![s] = ~JustBlocked("op")]
    <3>1. rd \in [Streams -> BOOLEAN]
      BY <1>a DEF TypeOK
    <3>2. Stop(rd, NewlyBlocked("op")) \in [Streams -> BOOLEAN]
      BY <3>1, StopTyped
    <3>3. reading' = [reading EXCEPT !["op"] = Stop(rd, NewlyBlocked("op"))]
      BY <1>1 DEF SendBegin
    <3> HIDE DEF rd
    <3> QED
      BY <1>a, <3>2, <3>3 DEF TypeOK
  <2>4. state' \in [Side -> [Streams -> States]]
    BY <1>1, <1>a, <1>e DEF SendBegin, TypeOK
  <2>5. /\ conn_package' \in [Side -> [Streams -> Nat]]
        /\ conn_deliver' \in [Side -> [Streams -> Int]]
    <3>1. conn_package' \in [Side -> [Streams -> Nat]]
      BY <1>1, <1>a, <1>b DEF SendBegin, TypeOK
    <3>2. conn_deliver' \in [Side -> [Streams -> Int]]
      BY <1>1, <1>a, <1>b DEF SendBegin, TypeOK
    <3> QED
      BY <3>1, <3>2
  <2> QED
    BY <1>1, <2>1, <2>2, <2>3, <2>4, <2>5 DEF SendBegin, TypeOK, QueueTyped
<1>2. ASSUME NEW d \in Side, NEW s \in Streams, EndConn(chan, d, s),
             UNCHANGED <<circVars, conn_package, conn_deliver, source, inbuf,
                         resume, ghostVars>>
      PROVE  TypeOK'
  BY <1>2, <1>c, <1>d, EndConnTyped DEF TypeOK, QueueTyped
<1>3. ASSUME NEW s \in Streams, Resolved(s) PROVE TypeOK'
  BY <1>3, <1>c, <1>d, ExitConnectTyped DEF Resolved, TypeOK, QueueTyped
<1>4. ASSUME NEW s \in Streams, FinishedConnecting(s) PROVE TypeOK'
  <2> DEFINE rd == [reading["exit"] EXCEPT ![s] = TRUE]
  <2>1. /\ rd \in [Streams -> BOOLEAN] /\ inbuf["exit"][s] \in Nat
        /\ <<Cell("CONNECTED", s)>> \in Seq(Cells)
    BY <1>a, CellTyped DEF TypeOK, Commands
  <2>2. PackageRawInbuf(chan, "exit", s, <<Cell("CONNECTED", s)>>,
                        inbuf["exit"][s], rd)
    BY <1>4 DEF FinishedConnecting
  <2> HIDE DEF rd
  <2>3. /\ QueueTyped'
        /\ inbuf' \in [Side -> [Streams -> Nat]]
        /\ circ_package' \in [Side -> Nat]
        /\ conn_package' \in [Side -> [Streams -> Nat]]
        /\ reading' \in [Side -> [Streams -> BOOLEAN]]
    BY <1>a, <1>c, <1>d, <2>1, <2>2, PackageTyped
  <2>4. state' \in [Side -> [Streams -> States]]
    BY <1>4, <1>a, <1>e DEF FinishedConnecting, TypeOK
  <2> QED
    BY <1>4, <2>3, <2>4 DEF FinishedConnecting, TypeOK, QueueTyped
<1>5. ASSUME NEW d \in Side, NEW s \in Streams, HandleRead(d, s) PROVE TypeOK'
  <2>1. PICK k \in 1..source[d][s] :
          /\ source' = [source EXCEPT ![d][s] = @ - k]
          /\ \/ /\ state[d][s] = "OPEN"
                /\ PackageRawInbuf(chan, d, s, << >>, inbuf[d][s] + k,
                                   reading[d])
             \/ /\ inbuf' = [inbuf EXCEPT ![d][s] = @ + k]
                /\ UNCHANGED <<queueVars, circ_package, conn_package, reading>>
    BY <1>5 DEF HandleRead
  <2>2. /\ source[d][s] \in Nat /\ inbuf[d][s] \in Nat
        /\ reading[d] \in [Streams -> BOOLEAN]
    BY DEF TypeOK
  <2>3. k \in Nat /\ source[d][s] - k \in Nat /\ inbuf[d][s] + k \in Nat
    BY <2>2
  <2>4. source' \in [Side -> [Streams -> Nat]]
    BY <2>1, <2>3 DEF TypeOK
  <2>5. /\ QueueTyped'
        /\ inbuf' \in [Side -> [Streams -> Nat]]
        /\ circ_package' \in [Side -> Nat]
        /\ conn_package' \in [Side -> [Streams -> Nat]]
        /\ reading' \in [Side -> [Streams -> BOOLEAN]]
    <3>1. CASE PackageRawInbuf(chan, d, s, << >>, inbuf[d][s] + k, reading[d])
      <4>1. << >> \in Seq(Cells)
        OBVIOUS
      <4> QED
        BY <1>c, <1>d, <2>2, <2>3, <3>1, <4>1, PackageTyped
    <3>2. CASE /\ inbuf' = [inbuf EXCEPT ![d][s] = @ + k]
               /\ UNCHANGED <<queueVars, circ_package, conn_package, reading>>
      BY <2>3, <3>2 DEF TypeOK, QueueTyped
    <3> QED
      BY <2>1, <3>1, <3>2
  <2> QED
    BY <1>5, <2>4, <2>5 DEF HandleRead, TypeOK, QueueTyped
<1>6. ASSUME NEW d \in Side, NEW s \in Streams, HandleWrite(d, s)
      PROVE  TypeOK'
  <2>1. PICK left \in 0..(outbuf[d][s] - 1) :
          LET n == IF left = 0 THEN ConnSendmes(conn_deliver[d][s], 0) ELSE 0
          IN  /\ outbuf' = [outbuf EXCEPT ![d][s] = left]
              /\ conn_deliver' = [conn_deliver EXCEPT ![d][s] =
                                    @ + n * STREAMWINDOW_INCREMENT]
              /\ Send(chan, d, Copies(n, Cell("SENDME", s)))
              /\ reading' = [reading EXCEPT ![d] = Stop(@, NewlyBlocked(d))]
    BY <1>6 DEF HandleWrite
  <2> DEFINE n == IF left = 0 THEN ConnSendmes(conn_deliver[d][s], 0) ELSE 0
  <2>2. n \in Nat /\ conn_deliver[d][s] + n * STREAMWINDOW_INCREMENT \in Int
    <3>1. conn_deliver[d][s] \in Int
      BY DEF TypeOK
    <3>2. ConnSendmes(conn_deliver[d][s], 0) \in Nat
      BY <1>b, <3>1, SendmesDueNat DEF ConnSendmes
    <3> QED
      BY <1>b, <3>1, <3>2
  <2>3. Copies(n, Cell("SENDME", s)) \in Seq(Cells)
    BY <2>2, CellTyped DEF Commands
  <2>4. QueueTyped'
    BY <1>c, <1>d, <2>1, <2>3, SendTyped
  <2>5. Stop(reading[d], NewlyBlocked(d)) \in [Streams -> BOOLEAN]
    BY StopTyped DEF TypeOK
  <2>6. left \in Nat
    OBVIOUS
  <2> HIDE DEF n
  <2>7. outbuf' \in [Side -> [Streams -> Nat]]
    BY <2>1, <2>6 DEF TypeOK
  <2>8. conn_deliver' \in [Side -> [Streams -> Int]]
    BY <2>1, <2>2 DEF TypeOK, n
  <2>9. reading' \in [Side -> [Streams -> BOOLEAN]]
    BY <2>1, <2>5 DEF TypeOK
  <2> QED
    BY <1>6, <2>4, <2>7, <2>8, <2>9 DEF HandleWrite, TypeOK, QueueTyped
<1>7. ASSUME NEW d \in Side, FlushCell(d) PROVE TypeOK'
  <2>1. queued[d] \in Nat /\ queued[d] > 0
    BY <1>7 DEF FlushCell, TypeOK
  <2>2. /\ queued' = [queued EXCEPT ![d] = queued[d] - 1]
        /\ queued[d] - 1 \in Nat
    BY <1>7, <2>1 DEF FlushCell
  <2>3. queued' \in [Side -> Nat]
    BY <2>2 DEF TypeOK
  <2>4. \A e \in Side : queued'[e] <= Len(chan'[e])
    <3>1. chan' = chan
      BY <1>7 DEF FlushCell
    <3>2. \A e \in Side : queued'[e] <= queued[e] /\ queued[e] \in Nat
                          /\ queued'[e] \in Nat /\ Len(chan[e]) \in Nat
      BY <2>1, <2>2, <2>3, LenProperties, SMTT(30) DEF TypeOK
    <3> QED
      BY <1>c, <3>1, <3>2
  <2>5. blocked' \in [Side -> BOOLEAN]
    BY <1>7 DEF FlushCell, TypeOK
  <2>6. reading' \in [Side -> [Streams -> BOOLEAN]]
    BY <1>7 DEF FlushCell, TypeOK
  <2> QED
    BY <1>7, <2>3, <2>4, <2>5, <2>6 DEF FlushCell, TypeOK
<1>8. ASSUME NEW s \in Streams, ReceiveBegin(s) PROVE TypeOK'
  <2>1. Arrives("exit", Cell("BEGIN", s))
    BY <1>8 DEF ReceiveBegin
  <2>2. /\ Taken("exit") \in [Side -> Seq(Cells)]
        /\ \A e \in Side : queued[e] <= Len(Taken("exit")[e])
    BY <1>a, <2>1, TakenTyped
  <2>3. /\ QueueTyped'
        /\ state' \in [Side -> [Streams -> States]]
        /\ list' \in [Side -> Seq(Streams)]
        /\ reading' \in [Side -> [Streams -> BOOLEAN]]
    <3>1. CASE ExitConnect(Taken("exit"), s)
      BY <2>2, <3>1, ExitConnectTyped
    <3>2. CASE /\ state' = [state EXCEPT !["exit"][s] = "RESOLVING"]
               /\ Send(Taken("exit"), "exit", << >>)
               /\ UNCHANGED <<list, reading>>
      <4>1. QueueTyped'
        BY <1>a, <2>1, <3>2, TakenSendNothing
      <4> QED
        BY <1>a, <1>e, <3>2, <4>1 DEF TypeOK
    <3> QED
      BY <1>8, <3>1, <3>2 DEF ReceiveBegin
  <2>4. /\ conn_package' \in [Side -> [Streams -> Nat]]
        /\ conn_deliver' \in [Side -> [Streams -> Int]]
    <3>1. conn_package' \in [Side -> [Streams -> Nat]]
      BY <1>8, <1>a, <1>b DEF ReceiveBegin, TypeOK
    <3>2. conn_deliver' \in [Side -> [Streams -> Int]]
      BY <1>8, <1>a, <1>b DEF ReceiveBegin, TypeOK
    <3> QED
      BY <3>1, <3>2
  <2> QED
    BY <1>8, <2>3, <2>4 DEF ReceiveBegin, TypeOK, QueueTyped
<1>9. ASSUME NEW s \in Streams, ReceiveConnected(s) PROVE TypeOK'
  <2>1. /\ Taken("op") \in [Side -> Seq(Cells)]
        /\ \A e \in Side : queued[e] <= Len(Taken("op")[e])
    BY <1>9, <1>a, TakenTyped DEF ReceiveConnected
  <2>2. /\ reading["op"] \in [Streams -> BOOLEAN] /\ inbuf["op"][s] \in Nat
        /\ << >> \in Seq(Cells)
    BY <1>a DEF TypeOK
  <2>3. PackageRawInbuf(Taken("op"), "op", s, << >>, inbuf["op"][s],
                        reading["op"])
    BY <1>9 DEF ReceiveConnected
  <2>4. /\ QueueTyped'
        /\ inbuf' \in [Side -> [Streams -> Nat]]
        /\ circ_package' \in [Side -> Nat]
        /\ conn_package' \in [Side -> [Streams -> Nat]]
        /\ reading' \in [Side -> [Streams -> BOOLEAN]]
    BY <1>a, <2>1, <2>2, <2>3, PackageTyped
  <2>5. state' \in [Side -> [Streams -> States]]
    BY <1>9, <1>a, <1>e DEF ReceiveConnected, TypeOK
  <2> QED
    BY <1>9, <2>4, <2>5 DEF ReceiveConnected, TypeOK, QueueTyped
<1>10. ASSUME NEW s \in Streams, ReceiveBadConnected(s) PROVE TypeOK'
  <2>1. /\ Taken("op") \in [Side -> Seq(Cells)]
        /\ \A e \in Side : queued[e] <= Len(Taken("op")[e])
    BY <1>10, <1>a, TakenTyped DEF ReceiveBadConnected
  <2>2. EndConn(Taken("op"), "op", s)
    BY <1>10 DEF ReceiveBadConnected
  <2>3. /\ QueueTyped'
        /\ state' \in [Side -> [Streams -> States]]
        /\ list' \in [Side -> Seq(Streams)]
        /\ outbuf' \in [Side -> [Streams -> Nat]]
        /\ reading' \in [Side -> [Streams -> BOOLEAN]]
    BY <1>a, <2>1, <2>2, EndConnTyped
  <2> QED
    BY <1>10, <2>3 DEF ReceiveBadConnected, TypeOK, QueueTyped
<1>11. ASSUME NEW s \in Streams, ReceiveStrayConnected(s) PROVE TypeOK'
  <2>1. QueueTyped'
    BY <1>11, <1>a, TakenSendNothing DEF ReceiveStrayConnected
  <2> QED
    BY <1>11, <2>1 DEF ReceiveStrayConnected, TypeOK, QueueTyped
<1>12. ASSUME NEW d \in Side, NEW s \in Streams, ReceiveNotOpen(d, s)
       PROVE  TypeOK'
  <2>1. QueueTyped'
    BY <1>12, TakenSendNothing DEF ReceiveNotOpen
  <2>2. lost' \in [Side -> Nat]
    BY <1>12 DEF ReceiveNotOpen, TypeOK
  <2> QED
    BY <1>12, <2>1, <2>2 DEF ReceiveNotOpen, TypeOK, QueueTyped
<1>13. ASSUME NEW d \in Side, NEW s \in Streams, ReceiveData(d, s)
       PROVE  TypeOK'
  <2> DEFINE known == state[d][s] = "OPEN"
             circLeft == circ_deliver[d] - 1
             connLeft == conn_deliver[d][s] - 1
             delivered == known /\ circLeft >= 0 /\ connLeft >= 0
             a == IF circLeft < 0 THEN 0 ELSE CircSendmes(circLeft)
             b == IF delivered THEN ConnSendmes(connLeft, outbuf[d][s] + 1)
                  ELSE 0
  <2>1. circLeft \in Int /\ connLeft \in Int /\ outbuf[d][s] \in Nat
    BY DEF TypeOK
  <2>2. a \in Nat
    BY <1>b, <2>1, SendmesDueNat DEF CircSendmes
  <2>3. b \in Nat
    BY <1>b, <2>1, SendmesDueNat DEF ConnSendmes
  <2>4. /\ Arrives(d, Cell("DATA", s))
        /\ alive' = (circLeft >= 0 /\ (known => connLeft >= 0))
        /\ circ_deliver' = [circ_deliver EXCEPT ![d] =
                              circLeft + a * CIRCWINDOW_INCREMENT]
        /\ conn_deliver' = [conn_deliver EXCEPT ![d][s] =
                              IF known /\ circLeft >= 0
                                THEN connLeft + b * STREAMWINDOW_INCREMENT
                                ELSE @]
        /\ outbuf' = [outbuf EXCEPT ![d][s] = IF delivered THEN @ + 1 ELSE @]
        /\ Send(Taken(d), d, Copies(a, Cell("SENDME", 0)) \o
                             Copies(b, Cell("SENDME", s)))
        /\ reading' = [reading EXCEPT ![d] = Stop(@, NewlyBlocked(d))]
        /\ UNCHANGED <<circ_package, list, state, conn_package, source, inbuf,
                       resume, ghostVars>>
    BY <1>13 DEF ReceiveData
  <2> HIDE DEF a, b, known, circLeft, connLeft, delivered
  <2>5. QueueTyped'
    <3>1. /\ Copies(a, Cell("SENDME", 0)) \in Seq(Cells)
          /\ Copies(b, Cell("SENDME", s)) \in Seq(Cells)
      BY <2>2, <2>3, CellTyped DEF Commands
    <3>2. Copies(a, Cell("SENDME", 0)) \o Copies(b, Cell("SENDME", s))
            \in Seq(Cells)
      BY <3>1, ConcatProperties
    <3> QED
      BY <2>4, <3>2, TakenTyped, SendTyped
  <2>6. circLeft + a * CIRCWINDOW_INCREMENT \in Int
        /\ connLeft + b * STREAMWINDOW_INCREMENT \in Int
    BY <1>b, <2>1, <2>2, <2>3
  <2>7. circ_deliver' \in [Side -> Int]
    BY <2>4, <2>6 DEF TypeOK
  <2>8. conn_deliver' \in [Side -> [Streams -> Int]]
    BY <2>4, <2>6 DEF TypeOK
  <2>9. outbuf' \in [Side -> [Streams -> Nat]]
    BY <2>1, <2>4, SMTT(30) DEF TypeOK
  <2>10. reading' \in [Side -> [Streams -> BOOLEAN]]
    <3>1. Stop(reading[d], NewlyBlocked(d)) \in [Streams -> BOOLEAN]
      BY StopTyped DEF TypeOK
    <3> QED
      BY <2>4, <3>1 DEF TypeOK
  <2>11. alive' \in BOOLEAN
    BY <2>4
  <2> QED
    BY <2>4, <2>5, <2>7, <2>8, <2>9, <2>10, <2>11 DEF TypeOK, QueueTyped
<1>14. ASSUME NEW d \in Side, NEW s \in Streams, ReceiveEnd(d, s)
       PROVE  TypeOK'
  <2>1. QueueTyped'
    BY <1>14, TakenSendNothing DEF ReceiveEnd
  <2>2. Unlink(d, s) \in Seq(Streams)
    BY UnlinkTyped
  <2>3. /\ state' \in [Side -> [Streams -> States]]
        /\ list' \in [Side -> Seq(Streams)]
        /\ outbuf' \in [Side -> [Streams -> Nat]]
        /\ reading' \in [Side -> [Streams -> BOOLEAN]]
    <3>1. CASE Attached(d, s)
      <4>1. state' = [state EXCEPT ![d][s] = "closed"]
        BY <1>14, <3>1 DEF ReceiveEnd, CloseConn
      <4>2. state' \in [Side -> [Streams -> States]]
        BY <1>e, <4>1 DEF TypeOK
      <4>a. /\ list' = [list EXCEPT ![d] = Unlink(d, s)]
            /\ outbuf' = [outbuf EXCEPT ![d][s] = 0]
            /\ reading' = [reading EXCEPT ![d][s] = FALSE]
        BY <1>14, <3>1 DEF ReceiveEnd, CloseConn
      <4>3. list' \in [Side -> Seq(Streams)]
        BY <2>2, <4>a DEF TypeOK
      <4>4. outbuf' \in [Side -> [Streams -> Nat]]
        <5>1. outbuf \in [Side -> [Streams -> Nat]] /\ 0 \in Nat
          BY DEF TypeOK
        <5> QED
          BY <4>a, <5>1
      <4>5. reading' \in [Side -> [Streams -> BOOLEAN]]
        <5>1. reading \in [Side -> [Streams -> BOOLEAN]] /\ FALSE \in BOOLEAN
          BY DEF TypeOK
        <5> QED
          BY <4>a, <5>1
      <4> QED
        BY <4>2, <4>3, <4>4, <4>5
    <3>2. CASE ~Attached(d, s)
      BY <1>14, <3>2 DEF ReceiveEnd, TypeOK
    <3> QED
      BY <3>1, <3>2
  <2> QED
    BY <1>14, <2>1, <2>3 DEF ReceiveEnd, TypeOK, QueueTyped
<1>15. ASSUME NEW d \in Side, NEW sid \in Streams \cup {0},
              ReceiveCircSendme(d, sid)
       PROVE  TypeOK'
  <2>1. QueueTyped'
    BY <1>15, TakenSendNothing DEF ReceiveCircSendme
  <2>2. circ_package' \in [Side -> Nat]
    BY <1>15, <1>b DEF ReceiveCircSendme, TypeOK
  <2>3. resume' \in [Side -> Seq(Streams)]
    BY <1>15 DEF ReceiveCircSendme, TypeOK
  <2>4. bonus' \in [Side -> Nat]
    BY <1>15 DEF ReceiveCircSendme, TypeOK
  <2> QED
    BY <1>15, <2>1, <2>2, <2>3, <2>4 DEF ReceiveCircSendme, TypeOK, QueueTyped
<1>16. ASSUME NEW d \in Side, NEW s \in Streams, ReceiveConnSendme(d, s)
       PROVE  TypeOK'
  <2>1. QueueTyped'
    BY <1>16, TakenSendNothing DEF ReceiveConnSendme
  <2>2. conn_package' \in [Side -> [Streams -> Nat]]
    <3>1. conn_package[d][s] + STREAMWINDOW_INCREMENT \in Nat
      BY <1>b DEF TypeOK
    <3> QED
      BY <1>16, <3>1 DEF ReceiveConnSendme, TypeOK
  <2>3. resume' \in [Side -> Seq(Streams)]
    <3>1. <<s>> \in Seq(Streams)
      OBVIOUS
    <3> QED
      BY <1>16, <3>1 DEF ReceiveConnSendme, TypeOK
  <2> QED
    BY <1>16, <2>1, <2>2, <2>3 DEF ReceiveConnSendme, TypeOK, QueueTyped
<1>17. ASSUME NEW d \in Side, ResumeReading(d) PROVE TypeOK'
  <2> DEFINE s == Head(resume[d])
             rd == [reading[d] EXCEPT ![s] = TRUE]
  <2>1. resume[d] \in Seq(Streams) /\ resume[d] # << >>
    BY <1>17 DEF ResumeReading, TypeOK
  <2>2. s \in Streams /\ Tail(resume[d]) \in Seq(Streams)
    BY <2>1, HeadTailProperties
  <2>3. << >> \in Seq(Streams) /\ << >> \in Seq(Cells)
    OBVIOUS
  <2>4. rd \in [Streams -> BOOLEAN] /\ inbuf[d][s] \in Nat
    BY <2>2 DEF TypeOK
  <2>5. CASE conn_package[d][s] > 0
    <3>1. /\ PackageRawInbuf(chan, d, s, << >>, inbuf[d][s], rd)
          /\ resume' = [resume EXCEPT ![d] =
                          IF circ_package'[d] <= 0 THEN << >> ELSE Tail(@)]
      BY <1>17, <2>5 DEF ResumeReading
    <3> HIDE DEF s, rd
    <3>2. /\ QueueTyped'
          /\ inbuf' \in [Side -> [Streams -> Nat]]
          /\ circ_package' \in [Side -> Nat]
          /\ conn_package' \in [Side -> [Streams -> Nat]]
          /\ reading' \in [Side -> [Streams -> BOOLEAN]]
      BY <1>c, <1>d, <2>2, <2>3, <2>4, <3>1, PackageTyped
    <3>3. resume' \in [Side -> Seq(Streams)]
      BY <2>2, <2>3, <3>1 DEF TypeOK
    <3> QED
      BY <1>17, <3>2, <3>3 DEF ResumeReading, TypeOK, QueueTyped
  <2>6. CASE ~(conn_package[d][s] > 0)
    <3>1. /\ resume' = [resume EXCEPT ![d] = Tail(@)]
          /\ UNCHANGED <<queueVars, circ_package, conn_package, inbuf, reading>>
      BY <1>17, <2>6 DEF ResumeReading
    <3>2. resume' \in [Side -> Seq(Streams)]
      BY <2>2, <3>1 DEF TypeOK
    <3> QED
      BY <1>17, <3>1, <3>2 DEF ResumeReading, TypeOK
  <2> QED
    BY <2>5, <2>6
<1>18. CASE UNCHANGED vars
  BY <1>18 DEF vars, TypeOK
<1>19. ASSUME NEW s \in Streams,
              ExpireBeginning(s) \/ FailedConnecting(s)
       PROVE  TypeOK'
  BY <1>19, <1>2, <1>a DEF ExpireBeginning, FailedConnecting
<1>20. ASSUME NEW d \in Side, NEW s \in Streams,
              ReachedEof(d, s) \/ SocketError(d, s)
       PROVE  TypeOK'
  BY <1>20, <1>2 DEF ReachedEof, SocketError
<1> QED
  BY <1>1, <1>3, <1>4, <1>5, <1>6, <1>7, <1>8, <1>9, <1>10, <1>11, <1>12,
     <1>13, <1>14, <1>15, <1>16, <1>17, <1>18, <1>19, <1>20 DEF Next

\* The state of both sides always has its type: in particular the package
\* windows of relay.c never go below zero, which is what the
\* tor_assert(package_window > 0) before each decrement relies on.
THEOREM TypeCorrect == Spec => []TypeOK
<1>1. Init => TypeOK
  <2> SUFFICES ASSUME Init PROVE TypeOK
    OBVIOUS
  <2>1. << >> \in Seq(Cells) /\ << >> \in Seq(Streams) /\ Len(<< >>) = 0
    OBVIOUS
  <2>2. \A d \in Side : Supply(d) \in Nat
    BY StreamsAssumption DEF Supply, Side
  <2>3. "none" \in States
    BY DEF States
  <2> QED
    BY <2>1, <2>2, <2>3, WindowAssumption DEF Init, TypeOK
<1>2. TypeOK /\ [Next]_vars => TypeOK'
  BY TypeStep
<1> QED
  BY <1>1, <1>2, PTL DEF Spec

----------------------------------------------------------------------------
(* The circuit ledger.                                                     *)

\* DATA cells and circuit-level SENDMEs that side d has in flight.
Data(d) == CountIn(chan[d], DataCells)
Refills(d) == CountIn(chan[d], RefillCells)

\* Counts are natural numbers and the two sides are each other's peer.
LEMMA LedgerTypes ==
  ASSUME TypeOK
  PROVE  /\ \A d \in Side : /\ Data(d) \in Nat /\ Refills(d) \in Nat
                            /\ Peer(d) \in Side /\ Peer(d) # d
                            /\ Peer(Peer(d)) = d
                            /\ circ_package[d] \in Nat /\ circ_deliver[d] \in Int
                            /\ bonus[d] \in Nat /\ lost[d] \in Nat
         /\ \A d, e \in Side : e = d \/ e = Peer(d)
<1>1. \A d \in Side : Data(d) \in Nat /\ Refills(d) \in Nat
  <2> TAKE d \in Side
  <2>1. chan[d] \in Seq(Cells)
    BY DEF TypeOK
  <2> QED
    BY <2>1, CountType DEF Data, Refills
<1>2. \A d \in Side : /\ Peer(d) \in Side /\ Peer(d) # d /\ Peer(Peer(d)) = d
  BY DEF Side, Peer
<1>3. \A d, e \in Side : e = d \/ e = Peer(d)
  BY DEF Side, Peer
<1>4. \A d \in Side : /\ circ_package[d] \in Nat /\ circ_deliver[d] \in Int
                      /\ bonus[d] \in Nat /\ lost[d] \in Nat
  BY DEF TypeOK
<1> QED
  BY <1>1, <1>2, <1>3, <1>4

\* What Send adds to the channels.
LEMMA SendCounts ==
  ASSUME NEW d \in Side, NEW ch \in [Side -> Seq(Cells)],
         NEW cells \in Seq(Cells), Send(ch, d, cells), NEW C
  PROVE  /\ CountIn(chan'[d], C) = CountIn(ch[d], C) + CountIn(cells, C)
         /\ \A e \in Side : e # d => chan'[e] = ch[e]
<1>1. chan' = [ch EXCEPT ![d] = ch[d] \o cells]
  BY DEF Send
<1>2. chan'[d] = ch[d] \o cells /\ \A e \in Side : e # d => chan'[e] = ch[e]
  BY <1>1
<1>3. CountIn(ch[d] \o cells, C) = CountIn(ch[d], C) + CountIn(cells, C)
  BY CountConcat
<1> QED
  BY <1>2, <1>3

\* What Taken removes from them.
LEMMA TakenCounts ==
  ASSUME TypeOK, NEW d \in Side, NEW cell, Arrives(d, cell), NEW C
  PROVE  /\ CountIn(chan[Peer(d)], C) =
              (IF cell \in C THEN 1 ELSE 0) + CountIn(Taken(d)[Peer(d)], C)
         /\ Taken(d)[d] = chan[d]
<1>1. /\ Peer(d) \in Side /\ Peer(d) # d
      /\ chan[Peer(d)] \in Seq(Cells) /\ chan[Peer(d)] # << >>
  BY TakenTyped DEF TypeOK, Peer, Side
<1>2. Taken(d)[Peer(d)] = Tail(chan[Peer(d)]) /\ Taken(d)[d] = chan[d]
  BY <1>1 DEF Taken, TypeOK
<1>3. Head(chan[Peer(d)]) = cell
  BY DEF Arrives
<1>4. CountIn(chan[Peer(d)], C) =
        (IF Head(chan[Peer(d)]) \in C THEN 1 ELSE 0)
        + CountIn(Tail(chan[Peer(d)]), C)
  BY <1>1, CountTail
<1> QED
  BY <1>2, <1>3, <1>4

\* Which cells count.
LEMMA CellKinds ==
  ASSUME NEW cmd, NEW sid
  PROVE  /\ Cell(cmd, sid) \in DataCells <=> cmd = "DATA" /\ sid \in Streams
         /\ Cell(cmd, sid) \in RefillCells <=>
              cmd = "SENDME" /\ sid = 0
<1>1. Cell(cmd, sid) \in RefillCells <=> cmd = "SENDME" /\ sid = 0
  BY DEF Cell, RefillCells
<1>2. Cell(cmd, sid) \in DataCells <=> cmd = "DATA" /\ sid \in Streams
  BY DEF Cell, DataCells
<1> QED
  BY <1>1, <1>2

\* Steps that move no DATA cell and no circuit-level SENDME.
LEMMA LedgerNeutral ==
  ASSUME CircuitLedger,
         \A d \in Side : Data(d)' = Data(d) /\ Refills(d)' = Refills(d),
         UNCHANGED <<circ_package, circ_deliver, ghostVars>>
  PROVE  CircuitLedger'
<1> SUFFICES ASSUME NEW d \in Side
             PROVE  (circ_deliver'[d] - CIRCWINDOW_START) + InitialPackageWindow =
                      circ_package'[Peer(d)]
                      - CIRCWINDOW_INCREMENT * bonus'[Peer(d)]
                      + Data(Peer(d))' + CIRCWINDOW_INCREMENT * Refills(d)'
                      + lost'[d]
  BY DEF CircuitLedger, Data, Refills
<1>1. /\ circ_deliver' = circ_deliver /\ circ_package' = circ_package
      /\ bonus' = bonus /\ lost' = lost
  BY DEF ghostVars
<1>2. Peer(d) \in Side
  BY DEF Peer, Side
<1>3. Data(Peer(d))' = Data(Peer(d)) /\ Refills(d)' = Refills(d)
  BY <1>2
<1>4. (circ_deliver[d] - CIRCWINDOW_START) + InitialPackageWindow =
        circ_package[Peer(d)] - CIRCWINDOW_INCREMENT * bonus[Peer(d)]
        + Data(Peer(d)) + CIRCWINDOW_INCREMENT * Refills(d) + lost[d]
  BY DEF CircuitLedger, Data, Refills
<1> QED
  BY <1>1, <1>3, <1>4

\* A cell that neither pays nor refills is sent.
LEMMA NeutralSend ==
  ASSUME TypeOK, NEW d \in Side, NEW cells \in Seq(Cells),
         Send(chan, d, cells),
         CountIn(cells, DataCells) = 0,
         CountIn(cells, RefillCells) = 0
  PROVE  \A e \in Side : Data(e)' = Data(e) /\ Refills(e)' = Refills(e)
<1>1. chan \in [Side -> Seq(Cells)]
  BY DEF TypeOK
<1>2. /\ CountIn(chan'[d], DataCells) = CountIn(chan[d], DataCells)
      /\ CountIn(chan'[d], RefillCells) =
           CountIn(chan[d], RefillCells)
  <2>1. /\ CountIn(chan[d], DataCells) \in Nat
        /\ CountIn(chan[d], RefillCells) \in Nat
    BY LedgerTypes DEF Data, Refills
  <2>2. CountIn(chan'[d], DataCells) = CountIn(chan[d], DataCells) + 0
    BY <1>1, SendCounts
  <2>3. CountIn(chan'[d], RefillCells) =
          CountIn(chan[d], RefillCells) + 0
    BY <1>1, SendCounts
  <2> QED
    BY <2>1, <2>2, <2>3
<1>3. \A e \in Side : e # d => chan'[e] = chan[e]
  BY <1>1, SendCounts
<1> QED
  BY <1>2, <1>3 DEF Data, Refills

\* A cell that neither pays nor refills is answered by such cells.
LEMMA NeutralAnswer ==
  ASSUME TypeOK, NEW d \in Side, NEW cell, Arrives(d, cell),
         NEW cells \in Seq(Cells), Send(Taken(d), d, cells),
         cell \notin DataCells, cell \notin RefillCells,
         CountIn(cells, DataCells) = 0,
         CountIn(cells, RefillCells) = 0
  PROVE  \A e \in Side : Data(e)' = Data(e) /\ Refills(e)' = Refills(e)
<1>1. /\ Taken(d) \in [Side -> Seq(Cells)] /\ Peer(d) \in Side
      /\ Peer(d) # d /\ \A e \in Side : e = d \/ e = Peer(d)
  BY TakenTyped, LedgerTypes
<1>2. ASSUME NEW C, cell \notin C, CountIn(cells, C) = 0
      PROVE  \A e \in Side : CountIn(chan'[e], C) = CountIn(chan[e], C)
  <2>1. /\ CountIn(chan'[d], C) = CountIn(Taken(d)[d], C) + 0
        /\ chan'[Peer(d)] = Taken(d)[Peer(d)]
    BY <1>1, <1>2, SendCounts
  <2>2. /\ CountIn(chan[Peer(d)], C) = 0 + CountIn(Taken(d)[Peer(d)], C)
        /\ Taken(d)[d] = chan[d]
    BY <1>2, TakenCounts
  <2>3. /\ CountIn(Taken(d)[d], C) \in Nat
        /\ CountIn(Taken(d)[Peer(d)], C) \in Nat
    <3>1. Taken(d)[d] \in Seq(Cells) /\ Taken(d)[Peer(d)] \in Seq(Cells)
      BY <1>1
    <3> QED
      BY <3>1, CountType
  <2>4. /\ CountIn(chan'[d], C) = CountIn(chan[d], C)
        /\ CountIn(chan'[Peer(d)], C) = CountIn(chan[Peer(d)], C)
    BY <2>1, <2>2, <2>3
  <2> QED
    BY <1>1, <2>4
<1>3. \A e \in Side : CountIn(chan'[e], DataCells) = CountIn(chan[e], DataCells)
  BY <1>2
<1>4. \A e \in Side : CountIn(chan'[e], RefillCells) =
                      CountIn(chan[e], RefillCells)
  BY <1>2
<1> QED
  BY <1>3, <1>4 DEF Data, Refills

\* The ledger entry of side d, and what it is made of.
Entry(d) ==
  (circ_deliver[d] - CIRCWINDOW_START) + InitialPackageWindow =
    circ_package[Peer(d)] - CIRCWINDOW_INCREMENT * bonus[Peer(d)]
    + Data(Peer(d)) + CIRCWINDOW_INCREMENT * Refills(d) + lost[d]

\* The ledger holds when the entry of every side does, now and in the next
\* state.
LEMMA LedgerEntries ==
  /\ CircuitLedger <=> \A d \in Side : Entry(d)
  /\ CircuitLedger' <=> \A d \in Side : Entry(d)'
BY DEF CircuitLedger, Entry, Data, Refills

\* Arithmetic the SMT backend needs to be told.
LEMMA Distribute ==
  ASSUME NEW c \in Int, NEW x \in Int, NEW y \in Int
  PROVE  /\ c * (x + y) = c * x + c * y
         /\ c * x \in Int
         /\ c * 1 = c
OBVIOUS

\* A DATA cell leaves the wire, more of the window comes back: both sides of
\* the entry lose 1 and gain more.
LEMMA DeliverArithmetic ==
  ASSUME NEW deliver \in Int, NEW start \in Int, NEW initial \in Int,
         NEW package \in Int, NEW extra \in Int, NEW data \in Int,
         NEW refill \in Int, NEW gone \in Int, NEW more \in Int,
         (deliver - start) + initial = package - extra + data + refill + gone
  PROVE  (((deliver - 1) + more) - start) + initial =
           package - extra + (data - 1) + (refill + more) + gone
OBVIOUS

\* Packaging moves n cells from the package window to the wire.
LEMMA LedgerPackage ==
  ASSUME TypeOK, CircuitLedger, NEW d \in Side, NEW s \in Streams,
         NEW ch \in [Side -> Seq(Cells)], NEW front \in Seq(Cells),
         NEW pending \in Nat, NEW rd,
         PackageRawInbuf(ch, d, s, front, pending, rd),
         CountIn(front, DataCells) = 0,
         CountIn(front, RefillCells) = 0,
         \A e \in Side : /\ CountIn(ch[e], DataCells) = Data(e)
                         /\ CountIn(ch[e], RefillCells) = Refills(e),
         UNCHANGED <<circ_deliver, ghostVars>>
  PROVE  CircuitLedger'
<1> DEFINE n == Packed(d, s, pending)
           new == Copies(n, Cell("DATA", s))
           q == Peer(d)
<1>1. n \in Nat
  BY DEF TypeOK, Packed, Least
<1>2. /\ Send(ch, d, front \o new)
      /\ circ_package' = [circ_package EXCEPT ![d] = circ_package[d] - n]
  BY DEF PackageRawInbuf
<1> HIDE DEF n
<1>3. new \in Seq(Cells) /\ front \o new \in Seq(Cells)
  <2>1. new \in Seq(Cells)
    BY <1>1, CellTyped DEF Commands
  <2> QED
    BY <2>1, ConcatProperties
<1>4. CountIn(front \o new, DataCells) = n
  <2>1. CountIn(new, DataCells) = n
    <3>1. Cell("DATA", s) \in DataCells
      BY DEF DataCells
    <3> QED
      BY <1>1, <3>1, CountCopiesIn
  <2>2. CountIn(front \o new, DataCells) =
          CountIn(front, DataCells) + CountIn(new, DataCells)
    BY <1>3, CountConcat
  <2> QED
    BY <1>1, <2>1, <2>2
<1>5. CountIn(front \o new, RefillCells) = 0
  <2>1. CountIn(new, RefillCells) = 0
    <3>1. Cell("DATA", s) \notin RefillCells
      BY DEF RefillCells, Cell
    <3> QED
      BY <1>1, <3>1, CountCopiesOut
  <2>2. CountIn(front \o new, RefillCells) =
          CountIn(front, RefillCells) + CountIn(new, RefillCells)
    BY <1>3, CountConcat
  <2> QED
    BY <2>1, <2>2
<1> HIDE DEF new
<1>6. Data(d)' = Data(d) + n
  <2>1. CountIn(chan'[d], DataCells) = CountIn(ch[d], DataCells) + n
    BY <1>2, <1>3, <1>4, SendCounts
  <2> QED
    BY <2>1 DEF Data
<1>7. Refills(d)' = Refills(d)
  <2> DEFINE sent == front \o new
  <2>a. sent \in Seq(Cells) /\ Send(ch, d, sent) /\ CountIn(sent, RefillCells) = 0
    BY <1>2, <1>3, <1>5
  <2> HIDE DEF sent
  <2>1. CountIn(chan'[d], RefillCells) =
          CountIn(ch[d], RefillCells) + CountIn(sent, RefillCells)
    BY <2>a, SendCounts
  <2>2. Refills(d) \in Nat
    BY LedgerTypes
  <2> QED
    BY <2>a, <2>1, <2>2 DEF Refills
<1>8. /\ q \in Side /\ q # d /\ Peer(q) = d
      /\ \A e \in Side : e = d \/ e = q
  BY LedgerTypes
<1>9. chan'[q] = ch[q]
  BY <1>2, <1>3, <1>8, SendCounts
<1>10. Data(q)' = Data(q) /\ Refills(q)' = Refills(q)
  BY <1>8, <1>9 DEF Data, Refills
<1>11. /\ circ_deliver' = circ_deliver /\ bonus' = bonus /\ lost' = lost
  BY DEF ghostVars
<1>12. /\ circ_package'[d] = circ_package[d] - n
       /\ circ_package'[q] = circ_package[q]
  BY <1>2, <1>8 DEF TypeOK
<1>13. Entry(d) /\ Entry(q)
  BY <1>8, LedgerEntries
<1>14. Entry(d)'
  BY <1>7, <1>10, <1>11, <1>12, <1>13 DEF Entry
<1>15. Entry(q)'
  <2>1. (circ_deliver[q] - CIRCWINDOW_START) + InitialPackageWindow =
          circ_package[d] - CIRCWINDOW_INCREMENT * bonus[d]
          + Data(d) + CIRCWINDOW_INCREMENT * Refills(q) + lost[q]
    BY <1>8, <1>13 DEF Entry
  <2>2. /\ circ_package[d] \in Nat /\ Data(d) \in Nat
        /\ circ_deliver[q] \in Int /\ lost[q] \in Nat
        /\ CIRCWINDOW_INCREMENT * bonus[d] \in Int
        /\ CIRCWINDOW_INCREMENT * Refills(q) \in Int
    BY <1>8, LedgerTypes, WindowAssumption, Distribute
  <2>3. (circ_deliver[q] - CIRCWINDOW_START) + InitialPackageWindow =
          (circ_package[d] - n) - CIRCWINDOW_INCREMENT * bonus[d]
          + (Data(d) + n) + CIRCWINDOW_INCREMENT * Refills(q) + lost[q]
    BY <1>1, <2>1, <2>2
  <2> QED
    BY <1>6, <1>8, <1>10, <1>11, <1>12, <2>3 DEF Entry
<1> QED
  BY <1>8, <1>14, <1>15, LedgerEntries

\* Cells that no window is charged or credited for.
Neutral(cells) ==
  /\ cells \in Seq(Cells)
  /\ CountIn(cells, DataCells) = 0
  /\ CountIn(cells, RefillCells) = 0

\* BEGIN, CONNECTED, END and stream-level SENDMEs are such cells.
LEMMA NeutralCells ==
  ASSUME NEW s \in Streams, NEW n \in Nat
  PROVE  /\ Neutral(<< >>)
         /\ \A cmd \in {"BEGIN", "CONNECTED", "END"} : Neutral(<<Cell(cmd, s)>>)
         /\ Neutral(Copies(n, Cell("SENDME", s)))
<1>1. Neutral(<< >>)
  <2>1. CountIn(<< >>, DataCells) = 0 /\ CountIn(<< >>, RefillCells) = 0
    BY CountSmall
  <2>2. << >> \in Seq(Cells)
    OBVIOUS
  <2> QED
    BY <2>1, <2>2 DEF Neutral
<1>2. ASSUME NEW cmd \in {"BEGIN", "CONNECTED", "END"}
      PROVE  Neutral(<<Cell(cmd, s)>>)
  <2>1. Cell(cmd, s) \notin DataCells /\ Cell(cmd, s) \notin RefillCells
    BY CellKinds
  <2>2. <<Cell(cmd, s)>> \in Seq(Cells)
    BY CellTyped DEF Commands
  <2> QED
    BY <2>1, <2>2, CountSmall DEF Neutral
<1>3. Neutral(Copies(n, Cell("SENDME", s)))
  <2>1. s # 0
    BY StreamsAssumption
  <2>2. Cell("SENDME", s) \notin DataCells /\ Cell("SENDME", s) \notin RefillCells
    BY <2>1, CellKinds
  <2>3. Copies(n, Cell("SENDME", s)) \in Seq(Cells)
    BY CellTyped DEF Commands
  <2> QED
    BY <2>2, <2>3, CountCopiesOut DEF Neutral
<1> QED
  BY <1>1, <1>2, <1>3

\* A DATA cell is delivered: the deliver window of side d pays for it and may
\* be refilled by a SENDMEs.
LEMMA LedgerDeliver ==
  ASSUME TypeOK, CircuitLedger, NEW d \in Side, NEW s \in Streams,
         Arrives(d, Cell("DATA", s)), NEW a \in Nat, NEW b \in Nat,
         Send(Taken(d), d, Copies(a, Cell("SENDME", 0)) \o
                           Copies(b, Cell("SENDME", s))),
         circ_deliver' = [circ_deliver EXCEPT ![d] =
                            (circ_deliver[d] - 1) + a * CIRCWINDOW_INCREMENT],
         UNCHANGED <<circ_package, ghostVars>>
  PROVE  CircuitLedger'
<1> DEFINE q == Peer(d)
           x == Copies(a, Cell("SENDME", 0))
           y == Copies(b, Cell("SENDME", s))
           sent == x \o y
<1>1. /\ q \in Side /\ q # d /\ Peer(q) = d /\ \A e \in Side : e = d \/ e = q
  BY LedgerTypes
<1>2. /\ x \in Seq(Cells) /\ CountIn(x, DataCells) = 0
      /\ CountIn(x, RefillCells) = a
  <2>1. Cell("SENDME", 0) \in RefillCells
    BY DEF RefillCells
  <2>2. Cell("SENDME", 0) \notin DataCells
    BY CellKinds
  <2>3. x \in Seq(Cells)
    BY CellTyped DEF Commands
  <2>4. CountIn(x, RefillCells) = a
    BY <2>1, CountCopiesIn
  <2>5. CountIn(x, DataCells) = 0
    BY <2>2, CountCopiesOut
  <2> QED
    BY <2>3, <2>4, <2>5
<1>3. /\ y \in Seq(Cells) /\ CountIn(y, DataCells) = 0
      /\ CountIn(y, RefillCells) = 0
  BY NeutralCells DEF Neutral
<1> HIDE DEF x, y
<1>4. /\ sent \in Seq(Cells) /\ CountIn(sent, DataCells) = 0
      /\ CountIn(sent, RefillCells) = a
  <2>1. sent \in Seq(Cells)
    BY <1>2, <1>3, ConcatProperties
  <2>2. CountIn(sent, DataCells) = CountIn(x, DataCells) + CountIn(y, DataCells)
    BY <1>2, <1>3, CountConcat
  <2>3. CountIn(sent, RefillCells) =
          CountIn(x, RefillCells) + CountIn(y, RefillCells)
    BY <1>2, <1>3, CountConcat
  <2> QED
    BY <1>2, <1>3, <2>1, <2>2, <2>3
<1>5. Send(Taken(d), d, sent)
  BY DEF x, y
<1> HIDE DEF sent
<1>6. /\ Taken(d) \in [Side -> Seq(Cells)] /\ Taken(d)[d] = chan[d]
  BY TakenTyped, TakenCounts
<1>7. chan'[q] = Taken(d)[q]
  BY <1>1, <1>4, <1>5, <1>6, SendCounts
<1>8. Data(q) = 1 + Data(q)'
  <2>1. Cell("DATA", s) \in DataCells
    BY DEF DataCells
  <2>2. CountIn(chan[q], DataCells) = 1 + CountIn(Taken(d)[q], DataCells)
    BY <2>1, TakenCounts
  <2> QED
    BY <1>7, <2>2 DEF Data
<1>9. Refills(q)' = Refills(q)
  <2>1. Cell("DATA", s) \notin RefillCells
    BY CellKinds
  <2>2. CountIn(chan[q], RefillCells) = 0 + CountIn(Taken(d)[q], RefillCells)
    BY <2>1, TakenCounts
  <2>3. CountIn(Taken(d)[q], RefillCells) \in Nat
    <3>1. Taken(d)[q] \in Seq(Cells)
      BY <1>1, <1>6
    <3> QED
      BY <3>1, CountType
  <2> QED
    BY <1>7, <2>2, <2>3 DEF Refills
<1>10. Refills(d)' = Refills(d) + a
  <2>1. CountIn(chan'[d], RefillCells) =
          CountIn(Taken(d)[d], RefillCells) + CountIn(sent, RefillCells)
    BY <1>4, <1>5, <1>6, SendCounts
  <2> QED
    BY <1>4, <1>6, <2>1 DEF Refills
<1>11. Data(d)' = Data(d)
  <2>1. CountIn(chan'[d], DataCells) =
          CountIn(Taken(d)[d], DataCells) + CountIn(sent, DataCells)
    BY <1>4, <1>5, <1>6, SendCounts
  <2>2. Data(d) \in Nat
    BY LedgerTypes
  <2> QED
    BY <1>4, <1>6, <2>1, <2>2 DEF Data
<1>12. /\ circ_package' = circ_package /\ bonus' = bonus /\ lost' = lost
       /\ circ_deliver'[q] = circ_deliver[q]
       /\ circ_deliver'[d] =
            (circ_deliver[d] - 1) + a * CIRCWINDOW_INCREMENT
  BY <1>1 DEF ghostVars, TypeOK
<1>13. Entry(d) /\ Entry(q)
  BY <1>1, LedgerEntries
<1>14. Entry(q)'
  BY <1>1, <1>9, <1>11, <1>12, <1>13 DEF Entry
<1>15. Entry(d)'
  <2>1. (circ_deliver[d] - CIRCWINDOW_START) + InitialPackageWindow =
          circ_package[q] - CIRCWINDOW_INCREMENT * bonus[q]
          + Data(q) + CIRCWINDOW_INCREMENT * Refills(d) + lost[d]
    BY <1>13 DEF Entry
  <2>2. /\ circ_package[q] \in Nat /\ Data(q) \in Nat /\ Refills(d) \in Nat
        /\ circ_deliver[d] \in Int /\ lost[d] \in Nat /\ bonus[q] \in Nat
    BY <1>1, LedgerTypes
  <2>3. CIRCWINDOW_INCREMENT \in Int /\ CIRCWINDOW_START \in Int
        /\ InitialPackageWindow \in Int
    BY WindowAssumption
  <2>4. /\ CIRCWINDOW_INCREMENT * bonus[q] \in Int
        /\ CIRCWINDOW_INCREMENT * Refills(d) \in Int
        /\ a * CIRCWINDOW_INCREMENT \in Int
        /\ CIRCWINDOW_INCREMENT * (Refills(d) + a) =
             CIRCWINDOW_INCREMENT * Refills(d) + a * CIRCWINDOW_INCREMENT
    BY <2>2, <2>3, Distribute
  <2>5. Data(q)' \in Int /\ Data(q)' = Data(q) - 1
    <3>1. Data(q)' \in Nat
      BY <1>1, TypeStep, CountType, <1>7, <1>6 DEF Data
    <3> QED
      BY <1>8, <2>2, <3>1
  <2>6. (((circ_deliver[d] - 1) + a * CIRCWINDOW_INCREMENT) - CIRCWINDOW_START)
          + InitialPackageWindow =
          circ_package[q] - CIRCWINDOW_INCREMENT * bonus[q]
          + (Data(q) - 1) + CIRCWINDOW_INCREMENT * (Refills(d) + a) + lost[d]
    <3>1. (((circ_deliver[d] - 1) + a * CIRCWINDOW_INCREMENT)
            - CIRCWINDOW_START) + InitialPackageWindow =
            circ_package[q] - CIRCWINDOW_INCREMENT * bonus[q] + (Data(q) - 1)
            + (CIRCWINDOW_INCREMENT * Refills(d) + a * CIRCWINDOW_INCREMENT)
            + lost[d]
      <4> DEFINE w == CIRCWINDOW_INCREMENT * bonus[q]
                 v == CIRCWINDOW_INCREMENT * Refills(d)
                 u == a * CIRCWINDOW_INCREMENT
                 dl == circ_deliver[d]
                 pk == circ_package[q]
                 da == Data(q)
                 lo == lost[d]
      <4>1. /\ w \in Int /\ v \in Int /\ u \in Int /\ dl \in Int /\ pk \in Int
            /\ da \in Int /\ lo \in Int
        BY <2>2, <2>4
      <4>2. (dl - CIRCWINDOW_START) + InitialPackageWindow =
              pk - w + da + v + lo
        BY <2>1
      <4> HIDE DEF w, v, u, dl, pk, da, lo
      <4>3. (((dl - 1) + u) - CIRCWINDOW_START) + InitialPackageWindow =
              pk - w + (da - 1) + (v + u) + lo
        BY <2>3, <4>1, <4>2, DeliverArithmetic
      <4> QED
        BY <4>3 DEF w, v, u, dl, pk, da, lo
    <3> QED
      BY <2>4, <3>1
  <2> DEFINE dq == Data(q)
             rd == Refills(d)
  <2>a. (((circ_deliver[d] - 1) + a * CIRCWINDOW_INCREMENT) - CIRCWINDOW_START)
          + InitialPackageWindow =
          circ_package[q] - CIRCWINDOW_INCREMENT * bonus[q]
          + dq' + CIRCWINDOW_INCREMENT * rd' + lost[d]
    BY <1>10, <2>5, <2>6, Zenon
  <2>7. (circ_deliver'[d] - CIRCWINDOW_START) + InitialPackageWindow =
          circ_package'[q] - CIRCWINDOW_INCREMENT * bonus'[q]
          + dq' + CIRCWINDOW_INCREMENT * rd' + lost'[d]
    BY <1>12, <2>a, Zenon
  <2> QED
    BY <2>7 DEF Entry
<1> QED
  BY <1>1, <1>14, <1>15, LedgerEntries

\* A cell is taken and nothing is sent.
LEMMA ReceiveCounts ==
  ASSUME TypeOK, NEW d \in Side, NEW cell, Arrives(d, cell),
         Send(Taken(d), d, << >>), NEW C
  PROVE  /\ CountIn(chan[Peer(d)], C) =
              (IF cell \in C THEN 1 ELSE 0) + CountIn(chan'[Peer(d)], C)
         /\ CountIn(chan'[Peer(d)], C) \in Nat
         /\ CountIn(chan'[d], C) = CountIn(chan[d], C)
<1>1. /\ Taken(d) \in [Side -> Seq(Cells)] /\ Peer(d) \in Side
      /\ Peer(d) # d /\ << >> \in Seq(Cells)
  BY TakenTyped, LedgerTypes
<1>2. chan'[Peer(d)] = Taken(d)[Peer(d)]
  BY <1>1, SendCounts
<1>3. CountIn(chan'[d], C) = CountIn(Taken(d)[d], C) + CountIn(<< >>, C)
  <2>1. PICK w : w = << >>
    OBVIOUS
  <2>2. PICK t : t = Taken(d)
    OBVIOUS
  <2>3. w \in Seq(Cells) /\ t \in [Side -> Seq(Cells)] /\ Send(t, d, w)
    BY ONLY <1>1, <2>1, <2>2, Send(Taken(d), d, << >>)
  <2>4. CountIn(chan'[d], C) = CountIn(t[d], C) + CountIn(w, C)
    BY ONLY <2>3, d \in Side, SendCounts
  <2> QED
    BY ONLY <2>1, <2>2, <2>4
<1>4. CountIn(<< >>, C) = 0
  BY CountSmall
<1>5. Taken(d)[d] = chan[d]
  BY TakenCounts
<1>6. CountIn(chan[d], C) \in Nat
  <2>1. chan[d] \in Seq(Cells)
    BY DEF TypeOK
  <2> QED
    BY <2>1, CountType
<1>7. CountIn(chan'[Peer(d)], C) \in Nat
  <2>1. Taken(d)[Peer(d)] \in Seq(Cells)
    BY <1>1
  <2> QED
    BY <1>2, <2>1, CountType
<1>8. CountIn(chan[Peer(d)], C) =
        (IF cell \in C THEN 1 ELSE 0) + CountIn(Taken(d)[Peer(d)], C)
  BY TakenCounts
<1>9. CountIn(chan'[d], C) = CountIn(chan[d], C)
  BY <1>3, <1>4, <1>5, <1>6
<1> QED
  BY <1>2, <1>7, <1>8, <1>9

\* A DATA cell is dropped at a stream that is not open.
LEMMA LedgerNotOpen ==
  ASSUME TypeOK, CircuitLedger, NEW d \in Side, NEW s \in Streams,
         ReceiveNotOpen(d, s)
  PROVE  CircuitLedger'
<1> USE DEF circVars, ghostVars
<1> DEFINE q == Peer(d)
<1>1. PICK cmd \in {"DATA", "SENDME"} :
        /\ Arrives(d, Cell(cmd, s))
        /\ lost' = [lost EXCEPT ![d] = IF cmd = "DATA" THEN @ + 1 ELSE @]
  BY DEF ReceiveNotOpen
<1>2. Send(Taken(d), d, << >>)
  BY DEF ReceiveNotOpen
<1>3. /\ circ_package' = circ_package /\ circ_deliver' = circ_deliver
      /\ bonus' = bonus
  BY DEF ReceiveNotOpen
<1>4. /\ q \in Side /\ q # d /\ Peer(q) = d /\ \A e \in Side : e = d \/ e = q
  BY LedgerTypes
<1>5. /\ Cell(cmd, s) \in DataCells <=> cmd = "DATA"
      /\ Cell(cmd, s) \notin RefillCells
  <2>1. s # 0
    BY StreamsAssumption
  <2> QED
    BY <1>1, <2>1, CellKinds
<1>6. /\ Data(q) = (IF Cell(cmd, s) \in DataCells THEN 1 ELSE 0) + Data(q)'
      /\ Data(q)' \in Nat /\ Data(d)' = Data(d)
  BY <1>1, <1>2, ReceiveCounts DEF Data
<1>7. Refills(q)' = Refills(q) /\ Refills(d)' = Refills(d)
  <2>1. /\ CountIn(chan[q], RefillCells) = 0 + CountIn(chan'[q], RefillCells)
        /\ CountIn(chan'[q], RefillCells) \in Nat
        /\ CountIn(chan'[d], RefillCells) = CountIn(chan[d], RefillCells)
    BY <1>1, <1>2, <1>5, ReceiveCounts
  <2> QED
    BY <2>1 DEF Refills
<1>8. Entry(d) /\ Entry(q)
  BY <1>4, LedgerEntries
<1>9. CASE cmd = "SENDME"
  <2>1. lost' = lost
    BY <1>1, <1>9 DEF TypeOK
  <2>2. Data(q)' = Data(q)
    BY <1>5, <1>6, <1>9
  <2>3. \A e \in Side : Data(e)' = Data(e) /\ Refills(e)' = Refills(e)
    BY <1>4, <1>6, <1>7, <2>2
  <2> QED
    BY <1>3, <2>1, <2>3, LedgerNeutral
<1>10. CASE cmd = "DATA"
  <2>1. /\ lost'[d] = lost[d] + 1 /\ lost'[q] = lost[q]
    BY <1>1, <1>4, <1>10 DEF TypeOK
  <2>2. Data(q) = 1 + Data(q)'
    BY <1>5, <1>6, <1>10
  <2>3. Entry(q)'
    BY <1>3, <1>4, <1>6, <1>7, <1>8, <2>1 DEF Entry
  <2>4. Entry(d)'
    <3> DEFINE x == (circ_deliver[d] - CIRCWINDOW_START) + InitialPackageWindow
               y == circ_package[q] - CIRCWINDOW_INCREMENT * bonus[q]
               z == CIRCWINDOW_INCREMENT * Refills(d)
               l == lost[d]
               f == Data(q)'
    <3>1. x = y + (1 + f) + z + l
      BY <1>8, <2>2 DEF Entry
    <3>2. y \in Int /\ z \in Int /\ l \in Int /\ f \in Int
      BY <1>4, <1>6, LedgerTypes, WindowAssumption
    <3> HIDE DEF x, y, z, l, f
    <3>3. x = y + f + z + (l + 1)
      BY <3>1, <3>2
    <3> QED
      BY <1>3, <1>7, <2>1, <3>3 DEF Entry, x, y, z, l, f
  <2> QED
    BY <1>4, <2>3, <2>4, LedgerEntries
<1> QED
  BY <1>1, <1>9, <1>10

\* A SENDME is taken for a circuit-level one: either it was in the ledger as
\* such or the bonus records that it was not.
LEMMA LedgerCircSendme ==
  ASSUME TypeOK, CircuitLedger, NEW d \in Side, NEW sid \in Streams \cup {0},
         ReceiveCircSendme(d, sid)
  PROVE  CircuitLedger'
<1> DEFINE q == Peer(d)
<1>1. /\ Arrives(d, Cell("SENDME", sid)) /\ Send(Taken(d), d, << >>)
      /\ circ_package' = [circ_package EXCEPT ![d] = @ + CIRCWINDOW_INCREMENT]
      /\ bonus' = [bonus EXCEPT ![d] = IF sid = 0 THEN @ ELSE @ + 1]
      /\ circ_deliver' = circ_deliver /\ lost' = lost
  BY DEF ReceiveCircSendme
<1>2. /\ q \in Side /\ q # d /\ Peer(q) = d /\ \A e \in Side : e = d \/ e = q
  BY LedgerTypes
<1>3. /\ Cell("SENDME", sid) \in RefillCells <=> sid = 0
      /\ Cell("SENDME", sid) \notin DataCells
  BY CellKinds
<1>4. /\ Refills(q) = (IF sid = 0 THEN 1 ELSE 0) + Refills(q)'
      /\ Refills(q)' \in Nat /\ Refills(d)' = Refills(d)
  BY <1>1, <1>3, ReceiveCounts DEF Refills
<1>5. Data(q)' = Data(q) /\ Data(d)' = Data(d)
  <2>1. /\ CountIn(chan[q], DataCells) = 0 + CountIn(chan'[q], DataCells)
        /\ CountIn(chan'[q], DataCells) \in Nat
        /\ CountIn(chan'[d], DataCells) = CountIn(chan[d], DataCells)
    BY <1>1, <1>3, ReceiveCounts
  <2> QED
    BY <2>1 DEF Data
<1>6. /\ circ_package'[d] = circ_package[d] + CIRCWINDOW_INCREMENT
      /\ circ_package'[q] = circ_package[q]
      /\ bonus'[d] = IF sid = 0 THEN bonus[d] ELSE bonus[d] + 1
      /\ bonus'[q] = bonus[q]
  BY <1>1, <1>2 DEF TypeOK
<1>7. Entry(d) /\ Entry(q)
  BY <1>2, LedgerEntries
<1>8. Entry(d)'
  BY <1>1, <1>4, <1>5, <1>6, <1>7 DEF Entry
<1>9. Entry(q)'
  <2> DEFINE x == (circ_deliver[q] - CIRCWINDOW_START) + InitialPackageWindow
             c == CIRCWINDOW_INCREMENT
             k == circ_package[d]
             g == bonus[d]
             h == bonus'[d]
             r == Refills(q)
             t == Refills(q)'
             m == Data(d)
             l == lost[q]
  <2>1. x = k - c * g + m + c * r + l
    BY <1>2, <1>7 DEF Entry
  <2>2. /\ k \in Int /\ c \in Int /\ g \in Int /\ h \in Int /\ r \in Int
        /\ t \in Int /\ m \in Int /\ l \in Int
    BY <1>2, <1>4, <1>6, LedgerTypes, WindowAssumption
  <2>3. \/ h = g /\ r = t + 1
        \/ h = g + 1 /\ r = t
    BY <1>4, <1>6, <2>2
  <2>4. /\ circ_package'[d] = k + c /\ Data(d)' = m /\ lost'[q] = l
        /\ (circ_deliver'[q] - CIRCWINDOW_START) + InitialPackageWindow = x
    BY <1>1, <1>5, <1>6
  <2>5. Entry(q)' <=>
          (circ_deliver'[q] - CIRCWINDOW_START) + InitialPackageWindow =
             circ_package'[d] - c * h + Data(d)' + c * t + lost'[q]
    BY <1>2 DEF Entry
  <2> HIDE DEF x, c, k, g, h, r, t, m, l
  <2>6. x = (k + c) - c * h + m + c * t + l
    <3>1. /\ c * (g + 1) = c * g + c /\ c * (t + 1) = c * t + c
          /\ c * g \in Int /\ c * t \in Int /\ c * h \in Int /\ c * r \in Int
      BY <2>2, Distribute
    <3>2. \/ c * h = c * g /\ c * r = c * t + c
          \/ c * h = c * g + c /\ c * r = c * t
      BY <2>3, <3>1
    <3> DEFINE cg == c * g
               ct == c * t
               ch == c * h
               cr == c * r
    <3> HIDE DEF cg, ct, ch, cr
    <3>3. /\ cg \in Int /\ ct \in Int /\ ch \in Int /\ cr \in Int
          /\ \/ ch = cg /\ cr = ct + c
             \/ ch = cg + c /\ cr = ct
          /\ x = k - cg + m + cr + l
      BY <2>1, <3>1, <3>2 DEF cg, ct, ch, cr
    <3>4. x = (k + c) - ch + m + ct + l
      BY <2>2, <3>3
    <3> QED
      BY <3>4 DEF ch, ct
  <2> QED
    BY <2>4, <2>5, <2>6
<1> QED
  BY <1>2, <1>8, <1>9, LedgerEntries

\* The handlers that send at most cells without a price, and take none that
\* has one, leave the ledger alone.
LEMMA LedgerQuiet ==
  ASSUME TypeOK, CircuitLedger, NEW d \in Side, NEW cells, Neutral(cells),
         UNCHANGED <<circ_package, circ_deliver, ghostVars>>,
         \/ Send(chan, d, cells)
         \/ \E cell : /\ Arrives(d, cell) /\ Send(Taken(d), d, cells)
                      /\ cell \notin DataCells /\ cell \notin RefillCells
  PROVE  CircuitLedger'
<1>1. CASE Send(chan, d, cells)
  BY <1>1, NeutralSend, LedgerNeutral DEF Neutral
<1>2. CASE \E cell : /\ Arrives(d, cell) /\ Send(Taken(d), d, cells)
                     /\ cell \notin DataCells /\ cell \notin RefillCells
  <2>1. PICK cell : /\ Arrives(d, cell) /\ Send(Taken(d), d, cells)
                    /\ cell \notin DataCells /\ cell \notin RefillCells
    BY <1>2
  <2>2. \A e \in Side : Data(e)' = Data(e) /\ Refills(e)' = Refills(e)
    BY <2>1, NeutralAnswer DEF Neutral
  <2> QED
    BY <2>2, LedgerNeutral
<1> QED
  BY <1>1, <1>2

\* Every step keeps the ledger: one case per action, grouped by what the
\* action does to the wire.
LEMMA LedgerStep ==
  ASSUME TypeOK, CircuitLedger, [Next]_vars
  PROVE  CircuitLedger'
<1> USE DEF circVars, connVars, queueVars, ghostVars
<1>a. "op" \in Side /\ "exit" \in Side
  BY DEF Side
<1>b. chan \in [Side -> Seq(Cells)]
  BY DEF TypeOK
<1>c. \A s \in Streams :
        /\ Neutral(<< >>)
        /\ \A cmd \in {"BEGIN", "CONNECTED", "END"} : Neutral(<<Cell(cmd, s)>>)
  <2> TAKE s \in Streams
  <2>1. 0 \in Nat
    OBVIOUS
  <2> QED
    BY <2>1, NeutralCells
<1>d. \A s \in Streams :
        /\ \A cmd \in {"BEGIN", "CONNECTED", "END", "SENDME"} :
             Cell(cmd, s) \notin DataCells /\ Cell(cmd, s) \notin RefillCells
  <2> TAKE s \in Streams
  <2>1. s # 0
    BY StreamsAssumption
  <2> QED
    BY <2>1, CellKinds
<1>e. \A e \in Side : /\ CountIn(chan[e], DataCells) = Data(e)
                      /\ CountIn(chan[e], RefillCells) = Refills(e)
  BY DEF Data, Refills
\* Nothing moves on the wire.
<1>f. ASSUME chan' = chan, UNCHANGED <<circ_package, circ_deliver, ghostVars>>
      PROVE  CircuitLedger'
  <2>1. \A e \in Side : Data(e)' = Data(e) /\ Refills(e)' = Refills(e)
    BY <1>f DEF Data, Refills
  <2> QED
    BY <1>f, <2>1, LedgerNeutral
\* An END is sent.
<1>g. ASSUME NEW d \in Side, NEW s \in Streams, EndConn(chan, d, s),
             UNCHANGED <<circVars, ghostVars>>
      PROVE  CircuitLedger'
  <2>1. Send(chan, d, <<Cell("END", s)>>) /\ Neutral(<<Cell("END", s)>>)
    BY <1>c, <1>g DEF EndConn
  <2> QED
    BY <1>g, <2>1, LedgerQuiet
\* A cell without a price is taken and nothing is sent.
<1>h. ASSUME NEW d \in Side, NEW s \in Streams,
             NEW cmd \in {"BEGIN", "CONNECTED", "END", "SENDME"},
             Arrives(d, Cell(cmd, s)), Send(Taken(d), d, << >>),
             UNCHANGED <<circ_package, circ_deliver, ghostVars>>
      PROVE  CircuitLedger'
  <2>1. Neutral(<< >>) /\ Cell(cmd, s) \notin DataCells
        /\ Cell(cmd, s) \notin RefillCells
    BY <1>c, <1>d
  <2> QED
    BY <1>h, <2>1, LedgerQuiet
<1>1. ASSUME NEW s \in Streams, SendBegin(s) PROVE CircuitLedger'
  <2>1. Send(chan, "op", <<Cell("BEGIN", s)>>) /\ Neutral(<<Cell("BEGIN", s)>>)
    BY <1>1, <1>c DEF SendBegin
  <2>2. UNCHANGED <<circ_package, circ_deliver, ghostVars>>
    BY <1>1 DEF SendBegin
  <2> QED
    BY <1>a, <2>1, <2>2, LedgerQuiet
<1>2. ASSUME NEW s \in Streams, ExpireBeginning(s) \/ FailedConnecting(s)
      PROVE  CircuitLedger'
  BY <1>2, <1>a, <1>g DEF ExpireBeginning, FailedConnecting
<1>3. ASSUME NEW d \in Side, NEW s \in Streams,
             ReachedEof(d, s) \/ SocketError(d, s)
      PROVE  CircuitLedger'
  BY <1>3, <1>g DEF ReachedEof, SocketError
<1>4. ASSUME NEW s \in Streams, NEW ch, ExitConnect(ch, s)
      PROVE  \E cells : Send(ch, "exit", cells) /\ Neutral(cells)
  <2>1. PICK outcome \in {"closed", "CONNECTING", "OPEN"} :
          Send(ch, "exit", CASE outcome = "closed"     -> <<Cell("END", s)>>
                             [] outcome = "CONNECTING" -> << >>
                             [] outcome = "OPEN" -> <<Cell("CONNECTED", s)>>)
    BY <1>4 DEF ExitConnect
  <2>2. CASE outcome = "closed"
    BY <1>c, <2>1, <2>2
  <2>3. CASE outcome = "CONNECTING"
    BY <1>c, <2>1, <2>3
  <2>4. CASE outcome = "OPEN"
    BY <1>c, <2>1, <2>4
  <2> QED
    BY <2>1, <2>2, <2>3, <2>4
<1>5. ASSUME NEW s \in Streams, Resolved(s) PROVE CircuitLedger'
  <2>1. PICK cells : Send(chan, "exit", cells) /\ Neutral(cells)
    BY <1>4, <1>5 DEF Resolved
  <2>2. UNCHANGED <<circ_package, circ_deliver, ghostVars>>
    BY <1>5 DEF Resolved
  <2> QED
    BY <1>a, <2>1, <2>2, LedgerQuiet
<1>6. ASSUME NEW s \in Streams, FinishedConnecting(s) PROVE CircuitLedger'
  <2>1. PackageRawInbuf(chan, "exit", s, <<Cell("CONNECTED", s)>>,
                        inbuf["exit"][s], [reading["exit"] EXCEPT ![s] = TRUE])
    BY <1>6 DEF FinishedConnecting
  <2>2. Neutral(<<Cell("CONNECTED", s)>>) /\ inbuf["exit"][s] \in Nat
    BY <1>a, <1>c DEF TypeOK
  <2>3. UNCHANGED <<circ_deliver, ghostVars>>
    BY <1>6 DEF FinishedConnecting
  <2> QED
    BY <1>a, <1>b, <1>e, <2>1, <2>2, <2>3, LedgerPackage DEF Neutral
<1>7. ASSUME NEW s \in Streams, ReceiveBegin(s) PROVE CircuitLedger'
  <2>1. PICK cells : Send(Taken("exit"), "exit", cells) /\ Neutral(cells)
    BY <1>4, <1>7, <1>c DEF ReceiveBegin
  <2>2. /\ Arrives("exit", Cell("BEGIN", s))
        /\ UNCHANGED <<circ_package, circ_deliver, ghostVars>>
    BY <1>7 DEF ReceiveBegin
  <2> QED
    BY <1>a, <1>d, <2>1, <2>2, LedgerQuiet
<1>8. ASSUME NEW s \in Streams, ReceiveConnected(s) PROVE CircuitLedger'
  <2> DEFINE ch == Taken("op")
  <2>1. /\ Arrives("op", Cell("CONNECTED", s))
        /\ PackageRawInbuf(ch, "op", s, << >>, inbuf["op"][s], reading["op"])
        /\ UNCHANGED <<circ_deliver, ghostVars>>
    BY <1>8 DEF ReceiveConnected
  <2>2. ch \in [Side -> Seq(Cells)] /\ inbuf["op"][s] \in Nat
    BY <1>a, <2>1, TakenTyped DEF TypeOK
  <2>3. ASSUME NEW C, Cell("CONNECTED", s) \notin C
        PROVE  \A e \in Side : CountIn(ch[e], C) = CountIn(chan[e], C)
    <3>1. /\ CountIn(chan[Peer("op")], C) = 0 + CountIn(ch[Peer("op")], C)
          /\ ch["op"] = chan["op"]
      BY <1>a, <2>1, <2>3, TakenCounts
    <3>2. CountIn(ch[Peer("op")], C) \in Nat
      <4>1. ch[Peer("op")] \in Seq(Cells)
        BY <2>2 DEF Peer, Side
      <4> QED
        BY <4>1, CountType
    <3> QED
      BY <3>1, <3>2 DEF Peer, Side
  <2>4. /\ Cell("CONNECTED", s) \notin DataCells
        /\ Cell("CONNECTED", s) \notin RefillCells
    BY <1>d
  <2>5. \A e \in Side : CountIn(ch[e], DataCells) = Data(e)
    BY <2>3, <2>4 DEF Data
  <2>6. \A e \in Side : CountIn(ch[e], RefillCells) = Refills(e)
    BY <2>3, <2>4 DEF Refills
  <2>7. Neutral(<< >>)
    BY <1>c
  <2> HIDE DEF ch
  <2> QED
    BY <1>a, <2>1, <2>2, <2>5, <2>6, <2>7, LedgerPackage DEF Neutral
<1>9. ASSUME NEW s \in Streams, ReceiveBadConnected(s) PROVE CircuitLedger'
  <2>1. /\ Arrives("op", Cell("CONNECTED", s))
        /\ Send(Taken("op"), "op", <<Cell("END", s)>>)
        /\ UNCHANGED <<circ_package, circ_deliver, ghostVars>>
    BY <1>9 DEF ReceiveBadConnected, EndConn
  <2> QED
    BY <1>a, <1>c, <1>d, <2>1, LedgerQuiet
<1>10. ASSUME NEW s \in Streams, ReceiveStrayConnected(s) PROVE CircuitLedger'
  BY <1>10, <1>a, <1>h DEF ReceiveStrayConnected
<1>11. ASSUME NEW d \in Side, NEW s \in Streams, HandleRead(d, s)
       PROVE  CircuitLedger'
  <2>1. PICK k \in 1..source[d][s] :
          \/ PackageRawInbuf(chan, d, s, << >>, inbuf[d][s] + k, reading[d])
          \/ UNCHANGED <<queueVars, circ_package>>
    BY <1>11 DEF HandleRead
  <2>2. UNCHANGED <<circ_deliver, ghostVars>>
    BY <1>11 DEF HandleRead
  <2>3. CASE UNCHANGED <<queueVars, circ_package>>
    BY <1>f, <2>2, <2>3
  <2>4. CASE PackageRawInbuf(chan, d, s, << >>, inbuf[d][s] + k, reading[d])
    <3>1. inbuf[d][s] + k \in Nat
      BY DEF TypeOK
    <3>2. Neutral(<< >>)
      BY <1>c
    <3> QED
      BY <1>b, <1>e, <2>2, <2>4, <3>1, <3>2, LedgerPackage DEF Neutral
  <2> QED
    BY <2>1, <2>3, <2>4
<1>12. ASSUME NEW d \in Side, NEW s \in Streams, HandleWrite(d, s)
       PROVE  CircuitLedger'
  <2>1. PICK left \in 0..(outbuf[d][s] - 1) :
          Send(chan, d, Copies(IF left = 0
                                 THEN ConnSendmes(conn_deliver[d][s], 0)
                                 ELSE 0, Cell("SENDME", s)))
    BY <1>12 DEF HandleWrite
  <2> DEFINE n == IF left = 0 THEN ConnSendmes(conn_deliver[d][s], 0) ELSE 0
  <2>2. n \in Nat
    <3>1. conn_deliver[d][s] \in Int
      BY DEF TypeOK
    <3> QED
      BY <3>1, SendmesDueNat, WindowAssumption DEF ConnSendmes
  <2>3. Send(chan, d, Copies(n, Cell("SENDME", s)))
    BY <2>1
  <2> HIDE DEF n
  <2>4. Neutral(Copies(n, Cell("SENDME", s)))
    BY <2>2, NeutralCells
  <2>5. UNCHANGED <<circ_package, circ_deliver, ghostVars>>
    BY <1>12 DEF HandleWrite
  <2> QED
    BY <2>3, <2>4, <2>5, LedgerQuiet
<1>13. ASSUME NEW d \in Side, NEW s \in Streams, ReceiveNotOpen(d, s)
       PROVE  CircuitLedger'
  BY <1>13, LedgerNotOpen
<1>14. ASSUME NEW d \in Side, NEW s \in Streams, ReceiveData(d, s)
       PROVE  CircuitLedger'
  <2> DEFINE known == state[d][s] = "OPEN"
             circLeft == circ_deliver[d] - 1
             connLeft == conn_deliver[d][s] - 1
             delivered == known /\ circLeft >= 0 /\ connLeft >= 0
             a == IF circLeft < 0 THEN 0 ELSE CircSendmes(circLeft)
             b == IF delivered THEN ConnSendmes(connLeft, outbuf[d][s] + 1)
                  ELSE 0
  <2>1. /\ Arrives(d, Cell("DATA", s))
        /\ circ_deliver' = [circ_deliver EXCEPT ![d] =
                              circLeft + a * CIRCWINDOW_INCREMENT]
        /\ Send(Taken(d), d, Copies(a, Cell("SENDME", 0)) \o
                             Copies(b, Cell("SENDME", s)))
        /\ UNCHANGED <<circ_package, ghostVars>>
    BY <1>14 DEF ReceiveData
  <2>2. circLeft \in Int /\ connLeft \in Int
    BY DEF TypeOK
  <2>3. a \in Nat
    BY <2>2, SendmesDueNat, WindowAssumption DEF CircSendmes
  <2>4. b \in Nat
    BY <2>2, SendmesDueNat, WindowAssumption DEF ConnSendmes
  <2> HIDE DEF a, b
  <2> QED
    BY <2>1, <2>3, <2>4, LedgerDeliver
<1>15. ASSUME NEW d \in Side, NEW s \in Streams,
              ReceiveEnd(d, s) \/ ReceiveConnSendme(d, s)
       PROVE  CircuitLedger'
  BY <1>15, <1>h DEF ReceiveEnd, ReceiveConnSendme
<1>16. ASSUME NEW d \in Side, NEW sid \in Streams \cup {0},
              ReceiveCircSendme(d, sid)
       PROVE  CircuitLedger'
  BY <1>16, LedgerCircSendme
<1>17. ASSUME NEW d \in Side, FlushCell(d) PROVE CircuitLedger'
  BY <1>17, <1>f DEF FlushCell
<1>18. ASSUME NEW d \in Side, ResumeReading(d) PROVE CircuitLedger'
  <2> DEFINE s == Head(resume[d])
  <2>1. s \in Streams
    <3>1. resume[d] \in Seq(Streams) /\ resume[d] # << >>
      BY <1>18 DEF ResumeReading, TypeOK
    <3> QED
      BY <3>1, HeadTailProperties
  <2>2. UNCHANGED <<circ_deliver, ghostVars>>
    BY <1>18 DEF ResumeReading
  <2>3. \/ PackageRawInbuf(chan, d, s, << >>, inbuf[d][s],
                           [reading[d] EXCEPT ![s] = TRUE])
        \/ UNCHANGED <<queueVars, circ_package>>
    BY <1>18 DEF ResumeReading
  <2> HIDE DEF s
  <2>4. inbuf[d][s] \in Nat /\ Neutral(<< >>)
    BY <1>c, <2>1 DEF TypeOK
  <2>5. CASE UNCHANGED <<queueVars, circ_package>>
    BY <1>f, <2>2, <2>5
  <2>6. CASE PackageRawInbuf(chan, d, s, << >>, inbuf[d][s],
                             [reading[d] EXCEPT ![s] = TRUE])
    BY <1>b, <1>e, <2>1, <2>2, <2>4, <2>6, LedgerPackage DEF Neutral
  <2> QED
    BY <2>3, <2>5, <2>6
<1>19. CASE UNCHANGED vars
  BY <1>19, <1>f DEF vars
<1> QED
  BY <1>1, <1>2, <1>3, <1>5, <1>6, <1>7, <1>8, <1>9, <1>10, <1>11, <1>12,
     <1>13, <1>14, <1>15, <1>16, <1>17, <1>18, <1>19 DEF Next

\* The circuit-level windows of the two sides never drift apart by anything but
\* the two leaks the history variables record, whatever the interleaving of
\* packaging, delivery, SENDMEs, resets and timeouts.
THEOREM CircuitLedgerHolds == Spec => []CircuitLedger
<1>1. Init => CircuitLedger
  <2> SUFFICES ASSUME Init, NEW d \in Side PROVE Entry(d)
    BY LedgerEntries
  <2>1. Peer(d) \in Side
    BY DEF Peer, Side
  <2>2. Data(Peer(d)) = 0 /\ Refills(d) = 0
    BY <2>1, CountSmall DEF Init, Data, Refills
  <2>3. /\ circ_deliver[d] = CIRCWINDOW_START /\ lost[d] = 0
        /\ circ_package[Peer(d)] = InitialPackageWindow /\ bonus[Peer(d)] = 0
    BY <2>1 DEF Init
  <2>4. CIRCWINDOW_INCREMENT * 0 = 0
    BY WindowAssumption
  <2> QED
    BY <2>2, <2>3, <2>4, WindowAssumption DEF Entry
<1>2. TypeOK /\ CircuitLedger /\ [Next]_vars => CircuitLedger'
  BY LedgerStep
<1> QED
  BY <1>1, <1>2, TypeCorrect, PTL DEF Spec

----------------------------------------------------------------------------
(* The water marks of the cell queue.                                      *)

\* Sending cells keeps the hysteresis: a queue only gets longer, and the step
\* that fills it blocks the streams.
LEMMA SendHysteresis ==
  ASSUME TypeOK, QueueHysteresis, NEW d \in Side, NEW ch,
         NEW cells \in Seq(Cells), Send(ch, d, cells)
  PROVE  QueueHysteresis'
<1>1. PICK primed \in {0, 1} :
        /\ primed = 1 => queued[d] = 0 /\ cells # << >>
        /\ queued' = [queued EXCEPT ![d] = @ + Len(cells) - primed]
  BY DEF Send
<1>2. blocked' = [blocked EXCEPT ![d] =
                    @ \/ queued'[d] >= CELL_QUEUE_HIGHWATER_SIZE]
  BY DEF Send
<1>3. /\ Len(cells) \in Nat /\ Len(cells) >= primed
      /\ queued[d] \in Nat
  BY <1>1, EmptySeq DEF TypeOK
<1>4. queued'[d] = queued[d] + Len(cells) - primed
  BY <1>1 DEF TypeOK
<1>5. queued'[d] \in Int /\ queued'[d] >= queued[d]
  BY <1>3, <1>4
<1>6. blocked'[d] <=> blocked[d] \/ queued'[d] >= CELL_QUEUE_HIGHWATER_SIZE
  BY <1>2 DEF TypeOK
<1>7. \A e \in Side : e # d => queued'[e] = queued[e] /\ blocked'[e] = blocked[e]
  BY <1>1, <1>2 DEF TypeOK
<1>8. /\ ~blocked'[d] => queued'[d] < CELL_QUEUE_HIGHWATER_SIZE
      /\ blocked'[d] => queued'[d] > CELL_QUEUE_LOWWATER_SIZE
  <2>1. /\ ~blocked[d] => queued[d] < CELL_QUEUE_HIGHWATER_SIZE
        /\ blocked[d] => queued[d] > CELL_QUEUE_LOWWATER_SIZE
    BY DEF QueueHysteresis
  <2> QED
    BY <1>3, <1>5, <1>6, <2>1, QueueAssumption
<1>9. QED
  BY <1>7, <1>8 DEF QueueHysteresis

\* How a step may touch a cell queue: it sends cells, or it flushes one.
LEMMA QueueMoves ==
  ASSUME TypeOK, [Next]_vars
  PROVE  \/ UNCHANGED <<queued, blocked>>
         \/ \E d \in Side : FlushCell(d)
         \/ \E d \in Side, cells \in Seq(Cells) : \E ch : Send(ch, d, cells)
<1> USE DEF queueVars
<1> DEFINE Sends == \E d \in Side, cells \in Seq(Cells) :
                      \E ch : Send(ch, d, cells)
<1>a. "op" \in Side /\ "exit" \in Side /\ << >> \in Seq(Cells)
  BY DEF Side
<1>b. \A s \in Streams, cmd \in Commands : <<Cell(cmd, s)>> \in Seq(Cells)
  BY CellTyped
<1>c. ASSUME NEW d \in Side, NEW s \in Streams, NEW ch, NEW front \in Seq(Cells),
             NEW pending \in Nat, NEW rd,
             PackageRawInbuf(ch, d, s, front, pending, rd)
      PROVE  Sends
  <2> DEFINE n == Packed(d, s, pending)
  <2>1. n \in Nat
    BY DEF TypeOK, Packed, Least
  <2>2. Send(ch, d, front \o Copies(n, Cell("DATA", s)))
    BY <1>c DEF PackageRawInbuf
  <2> HIDE DEF n
  <2>3. Copies(n, Cell("DATA", s)) \in Seq(Cells)
    BY <2>1, CellTyped DEF Commands
  <2>4. front \o Copies(n, Cell("DATA", s)) \in Seq(Cells)
    BY <2>3, ConcatProperties
  <2> QED
    BY <2>2, <2>4
<1>d. ASSUME NEW d \in Side, NEW s \in Streams, NEW ch, EndConn(ch, d, s)
      PROVE  Sends
  BY <1>b, <1>d DEF EndConn, Commands
<1>e. ASSUME NEW s \in Streams, NEW ch, ExitConnect(ch, s) PROVE Sends
  <2>1. PICK outcome \in {"closed", "CONNECTING", "OPEN"} :
          Send(ch, "exit", CASE outcome = "closed"     -> <<Cell("END", s)>>
                             [] outcome = "CONNECTING" -> << >>
                             [] outcome = "OPEN" -> <<Cell("CONNECTED", s)>>)
    BY <1>e DEF ExitConnect
  <2>2. CASE outcome = "closed"
    BY <1>a, <1>b, <2>1, <2>2 DEF Commands
  <2>3. CASE outcome = "CONNECTING"
    BY <1>a, <2>1, <2>3
  <2>4. CASE outcome = "OPEN"
    BY <1>a, <1>b, <2>1, <2>4 DEF Commands
  <2> QED
    BY <2>1, <2>2, <2>3, <2>4
<1>1. ASSUME NEW s \in Streams,
             SendBegin(s) \/ ExpireBeginning(s) \/ FailedConnecting(s)
             \/ Resolved(s) \/ ReceiveBadConnected(s) \/ ReceiveStrayConnected(s)
      PROVE  Sends
  <2>1. CASE SendBegin(s)
    BY <1>a, <1>b, <2>1 DEF SendBegin, Commands
  <2>2. CASE ExpireBeginning(s) \/ FailedConnecting(s) \/ ReceiveBadConnected(s)
    BY <1>a, <1>d, <2>2 DEF ExpireBeginning, FailedConnecting,
                            ReceiveBadConnected
  <2>3. CASE Resolved(s)
    BY <1>e, <2>3 DEF Resolved
  <2>4. CASE ReceiveStrayConnected(s)
    BY <1>a, <2>4 DEF ReceiveStrayConnected
  <2> QED
    BY <1>1, <2>1, <2>2, <2>3, <2>4
<1>2. ASSUME NEW s \in Streams, FinishedConnecting(s) PROVE Sends
  <2>1. inbuf["exit"][s] \in Nat /\ <<Cell("CONNECTED", s)>> \in Seq(Cells)
    BY <1>a, <1>b DEF TypeOK, Commands
  <2> QED
    BY <1>2, <1>a, <1>c, <2>1 DEF FinishedConnecting
<1>3. ASSUME NEW s \in Streams, ReceiveConnected(s) PROVE Sends
  <2>1. inbuf["op"][s] \in Nat
    BY <1>a DEF TypeOK
  <2> QED
    BY <1>3, <1>a, <1>c, <2>1 DEF ReceiveConnected
<1>4. ASSUME NEW s \in Streams, ReceiveBegin(s) PROVE Sends
  BY <1>4, <1>a, <1>e DEF ReceiveBegin
<1>5. ASSUME NEW d \in Side, NEW s \in Streams, HandleRead(d, s)
      PROVE  Sends \/ UNCHANGED <<queued, blocked>>
  <2>1. PICK k \in 1..source[d][s] :
          \/ PackageRawInbuf(chan, d, s, << >>, inbuf[d][s] + k, reading[d])
          \/ UNCHANGED queueVars
    BY <1>5 DEF HandleRead
  <2>2. inbuf[d][s] + k \in Nat
    BY DEF TypeOK
  <2> QED
    BY <1>a, <1>c, <2>1, <2>2
<1>6. ASSUME NEW d \in Side, NEW s \in Streams,
             ReachedEof(d, s) \/ SocketError(d, s)
      PROVE  Sends
  BY <1>6, <1>d DEF ReachedEof, SocketError
<1>7. ASSUME NEW d \in Side, NEW s \in Streams, HandleWrite(d, s) PROVE Sends
  <2>1. PICK left \in 0..(outbuf[d][s] - 1) :
          Send(chan, d, Copies(IF left = 0
                                 THEN ConnSendmes(conn_deliver[d][s], 0)
                                 ELSE 0, Cell("SENDME", s)))
    BY <1>7 DEF HandleWrite
  <2> DEFINE n == IF left = 0 THEN ConnSendmes(conn_deliver[d][s], 0) ELSE 0
  <2>2. n \in Nat
    <3>1. conn_deliver[d][s] \in Int
      BY DEF TypeOK
    <3> QED
      BY <3>1, SendmesDueNat, WindowAssumption DEF ConnSendmes
  <2>3. Send(chan, d, Copies(n, Cell("SENDME", s)))
    BY <2>1
  <2> HIDE DEF n
  <2>4. Copies(n, Cell("SENDME", s)) \in Seq(Cells)
    BY <2>2, CellTyped DEF Commands
  <2> QED
    BY <2>3, <2>4
<1>8. ASSUME NEW d \in Side, NEW s \in Streams,
             ReceiveNotOpen(d, s) \/ ReceiveEnd(d, s) \/ ReceiveConnSendme(d, s)
      PROVE  Sends
  BY <1>8, <1>a DEF ReceiveNotOpen, ReceiveEnd, ReceiveConnSendme
<1>9. ASSUME NEW d \in Side, NEW sid \in Streams \cup {0},
             ReceiveCircSendme(d, sid)
      PROVE  Sends
  BY <1>9, <1>a DEF ReceiveCircSendme
<1>10. ASSUME NEW d \in Side, NEW s \in Streams, ReceiveData(d, s) PROVE Sends
  <2> DEFINE circLeft == circ_deliver[d] - 1
             connLeft == conn_deliver[d][s] - 1
             delivered == state[d][s] = "OPEN" /\ circLeft >= 0 /\ connLeft >= 0
             a == IF circLeft < 0 THEN 0 ELSE CircSendmes(circLeft)
             b == IF delivered THEN ConnSendmes(connLeft, outbuf[d][s] + 1)
                  ELSE 0
  <2>1. Send(Taken(d), d, Copies(a, Cell("SENDME", 0)) \o
                          Copies(b, Cell("SENDME", s)))
    BY <1>10 DEF ReceiveData
  <2>2. circLeft \in Int /\ connLeft \in Int
    BY DEF TypeOK
  <2>3. a \in Nat
    BY <2>2, SendmesDueNat, WindowAssumption DEF CircSendmes
  <2>4. b \in Nat
    BY <2>2, SendmesDueNat, WindowAssumption DEF ConnSendmes
  <2> HIDE DEF a, b
  <2>5. /\ Copies(a, Cell("SENDME", 0)) \in Seq(Cells)
        /\ Copies(b, Cell("SENDME", s)) \in Seq(Cells)
    BY <2>3, <2>4, CellTyped DEF Commands
  <2>6. Copies(a, Cell("SENDME", 0)) \o Copies(b, Cell("SENDME", s))
          \in Seq(Cells)
    BY <2>5, ConcatProperties
  <2> QED
    BY <2>1, <2>6
<1>11. ASSUME NEW d \in Side, ResumeReading(d)
       PROVE  Sends \/ UNCHANGED <<queued, blocked>>
  <2> DEFINE s == Head(resume[d])
  <2>1. s \in Streams
    <3>1. resume[d] \in Seq(Streams) /\ resume[d] # << >>
      BY <1>11 DEF ResumeReading, TypeOK
    <3> QED
      BY <3>1, HeadTailProperties
  <2>2. \/ PackageRawInbuf(chan, d, s, << >>, inbuf[d][s],
                           [reading[d] EXCEPT ![s] = TRUE])
        \/ UNCHANGED queueVars
    BY <1>11 DEF ResumeReading
  <2> HIDE DEF s
  <2>3. inbuf[d][s] \in Nat
    BY <2>1 DEF TypeOK
  <2> QED
    BY <1>a, <1>c, <2>1, <2>2, <2>3
<1>12. ASSUME UNCHANGED vars PROVE UNCHANGED <<queued, blocked>>
  BY <1>12 DEF vars
<1> HIDE DEF Sends
<1>13. \/ Sends \/ UNCHANGED <<queued, blocked>>
       \/ \E d \in Side : FlushCell(d)
  BY <1>1, <1>2, <1>3, <1>4, <1>5, <1>6, <1>7, <1>8, <1>9, <1>10, <1>11,
     <1>12 DEF Next
<1> QED
  BY <1>13 DEF Sends

\* Every step keeps the hysteresis.
LEMMA HysteresisStep ==
  ASSUME TypeOK, QueueHysteresis, [Next]_vars
  PROVE  QueueHysteresis'
<1> USE DEF queueVars
<1>1. CASE UNCHANGED <<queued, blocked>>
  BY <1>1 DEF QueueHysteresis
<1>2. ASSUME NEW d \in Side, FlushCell(d) PROVE QueueHysteresis'
    <2>1. /\ queued' = [queued EXCEPT ![d] = @ - 1]
        /\ blocked' = [blocked EXCEPT ![d] = @ /\ ~Unblocks(d)]
    BY <1>2 DEF FlushCell
  <2>2. /\ queued'[d] = queued[d] - 1
        /\ \A e \in Side : e # d => queued'[e] = queued[e]
    BY <2>1 DEF TypeOK
  <2>3. /\ blocked'[d] <=> blocked[d] /\ ~Unblocks(d)
        /\ \A e \in Side : e # d => blocked'[e] = blocked[e]
    BY <2>1 DEF TypeOK
  <2>4. queued[d] \in Nat
    BY DEF TypeOK
  <2>5. /\ ~blocked'[d] => queued'[d] < CELL_QUEUE_HIGHWATER_SIZE
        /\ blocked'[d] => queued'[d] > CELL_QUEUE_LOWWATER_SIZE
    BY <2>2, <2>3, <2>4, QueueAssumption DEF QueueHysteresis, Unblocks
  <2> QED
    BY <2>2, <2>3, <2>5 DEF QueueHysteresis
<1>3. ASSUME NEW d \in Side, NEW ch, NEW cells \in Seq(Cells),
             Send(ch, d, cells)
      PROVE  QueueHysteresis'
  BY <1>3, SendHysteresis
<1>4. \/ UNCHANGED <<queued, blocked>>
      \/ \E d \in Side : FlushCell(d)
      \/ \E d \in Side, cells \in Seq(Cells) : \E ch : Send(ch, d, cells)
  BY QueueMoves
<1> QED
  BY <1>1, <1>2, <1>3, <1>4

\* The streams of a circuit are blocked exactly between the moment its cell
\* queue reaches the high-water mark and the moment it is back at the low-water
\* mark, at both sides and on every behaviour.
THEOREM QueueHysteresisHolds == Spec => []QueueHysteresis
<1>1. Init => QueueHysteresis
  BY QueueAssumption DEF Init, QueueHysteresis
<1>2. TypeOK /\ QueueHysteresis /\ [Next]_vars => QueueHysteresis'
  BY HysteresisStep
<1> QED
  BY <1>1, <1>2, TypeCorrect, PTL DEF Spec

----------------------------------------------------------------------------
(* The inductive invariant.                                                *)

\* The streams circuit_resume_edge_reading_helper has still to visit.
Resuming(d) == {resume[d][i] : i \in DOMAIN resume[d]}

\* A stream on the circuit's list, or to be put on it.
Active(d, s) == state[d][s] \in {"CONNECT_WAIT", "CONNECTING", "OPEN"}

\* A stream that has not begun has untouched windows and an empty inbuf.
Fresh(d, s) ==
  /\ state[d][s] = "none" => /\ conn_package[d][s] = STREAMWINDOW_START
                             /\ conn_deliver[d][s] = STREAMWINDOW_START
  /\ state[d][s] \in {"none", "RESOLVING"} => inbuf[d][s] = 0

\* Who is on the list of a side's streams.
OnLists(d, s) ==
  /\ Active(d, s) => s \in Linked(d)
  /\ s \in Linked(d) \cup Resuming(d) => state[d][s] # "none"

\* A stream that does not read waits for a SENDME, for the queue to drain, or
\* for its turn in circuit_resume_edge_reading_helper; likewise for the payloads
\* that stay on an inbuf.
Awake(d, s) ==
  Active(d, s) /\ ~reading[d][s] =>
    \/ circ_package[d] = 0 \/ conn_package[d][s] = 0 \/ blocked[d]
    \/ s \in Resuming(d)

Drained(d, s) ==
  state[d][s] = "OPEN" /\ inbuf[d][s] > 0 =>
    circ_package[d] = 0 \/ conn_package[d][s] = 0 \/ s \in Resuming(d)

\* The stream ledger, whatever state the two ends of the stream are in.
Covered(d, s) ==
  conn_deliver[d][s] >=
    conn_package[Peer(d)][s] + CountIn(chan[Peer(d)], {Cell("DATA", s)})
    + STREAMWINDOW_INCREMENT * CountIn(chan[d], {Cell("SENDME", s)})

\* Circuit-level SENDMEs are sent as soon as they are due.
Replenished(d) == circ_deliver[d] > CIRCWINDOW_START - CIRCWINDOW_INCREMENT

\* The exit tells the origin once that a stream is connected.
OneConnected(s) ==
  CountIn(chan["exit"], {Cell("CONNECTED", s)})
    + (IF state["op"][s] = "OPEN" THEN 1 ELSE 0)
    <= IF state["exit"][s] \in {"OPEN", "closed"} THEN 1 ELSE 0

Local(d, s) ==
  Fresh(d, s) /\ OnLists(d, s) /\ Awake(d, s) /\ Drained(d, s)

Flow ==
  /\ TypeOK /\ alive
  /\ \A d \in Side, s \in Streams : Local(d, s) /\ Covered(d, s)
  /\ \A d \in Side : Replenished(d)
  /\ \A s \in Streams : OneConnected(s)

----------------------------------------------------------------------------
(* What a step does to the channels.                                       *)

\* The cells of stream s on their way from side d.
Sent(d, s) == CountIn(chan[d], {Cell("DATA", s)})
Credit(d, s) == CountIn(chan[d], {Cell("SENDME", s)})
Told(s) == CountIn(chan["exit"], {Cell("CONNECTED", s)})

\* Side d sends cells, having taken at most one cell off the wire.
Moves(d, cells) ==
  /\ cells \in Seq(Cells)
  /\ \A C : /\ CountIn(chan'[d], C) = CountIn(chan[d], C) + CountIn(cells, C)
            /\ CountIn(chan'[Peer(d)], C) <= CountIn(chan[Peer(d)], C)
            /\ CountIn(chan[d], C) \in Nat /\ CountIn(cells, C) \in Nat
            /\ CountIn(chan[Peer(d)], C) \in Nat
            /\ CountIn(chan'[Peer(d)], C) \in Nat

\* The cell side d took was in C.
Takes(d, C) ==
  CountIn(chan[Peer(d)], C) = 1 + CountIn(chan'[Peer(d)], C)

\* A step that only sends.
LEMMA MovesSend ==
  ASSUME TypeOK, NEW d \in Side, NEW cells \in Seq(Cells),
         Send(chan, d, cells)
  PROVE  Moves(d, cells)
<1>1. chan \in [Side -> Seq(Cells)] /\ Peer(d) \in Side /\ Peer(d) # d
  BY LedgerTypes DEF TypeOK
<1> SUFFICES ASSUME NEW C
             PROVE  /\ CountIn(chan'[d], C) =
                         CountIn(chan[d], C) + CountIn(cells, C)
                    /\ CountIn(chan'[Peer(d)], C) <= CountIn(chan[Peer(d)], C)
                    /\ CountIn(chan[d], C) \in Nat /\ CountIn(cells, C) \in Nat
                    /\ CountIn(chan[Peer(d)], C) \in Nat
                    /\ CountIn(chan'[Peer(d)], C) \in Nat
  BY DEF Moves
<1>2. /\ CountIn(chan'[d], C) = CountIn(chan[d], C) + CountIn(cells, C)
      /\ chan'[Peer(d)] = chan[Peer(d)]
  <2>1. /\ CountIn(chan'[d], C) = CountIn(chan[d], C) + CountIn(cells, C)
        /\ \A e \in Side : e # d => chan'[e] = chan[e]
    BY ONLY <1>1, d \in Side, cells \in Seq(Cells), Send(chan, d, cells), SendCounts, SMTT(30)
  <2> QED
    BY ONLY <1>1, <2>1, Zenon
<1>3. chan[d] \in Seq(Cells) /\ chan[Peer(d)] \in Seq(Cells)
  BY <1>1
<1>4. /\ CountIn(chan[d], C) \in Nat /\ CountIn(cells, C) \in Nat
      /\ CountIn(chan[Peer(d)], C) \in Nat
  BY <1>3, CountType
<1> QED
  BY <1>2, <1>4

\* A step that takes a cell and answers it.
LEMMA MovesTaken ==
  ASSUME TypeOK, NEW d \in Side, NEW cell, Arrives(d, cell),
         NEW cells \in Seq(Cells), Send(Taken(d), d, cells)
  PROVE  Moves(d, cells) /\ \A C : cell \in C => Takes(d, C)
<1>1. /\ Taken(d) \in [Side -> Seq(Cells)] /\ chan \in [Side -> Seq(Cells)]
      /\ Peer(d) \in Side /\ Peer(d) # d
  BY TakenTyped, LedgerTypes DEF TypeOK
<1>2. ASSUME NEW C
      PROVE  /\ CountIn(chan'[d], C) = CountIn(chan[d], C) + CountIn(cells, C)
             /\ CountIn(chan'[Peer(d)], C) <= CountIn(chan[Peer(d)], C)
             /\ CountIn(chan[d], C) \in Nat /\ CountIn(cells, C) \in Nat
             /\ CountIn(chan[Peer(d)], C) \in Nat
             /\ CountIn(chan'[Peer(d)], C) \in Nat
             /\ cell \in C => Takes(d, C)
  <2>1. /\ CountIn(chan'[d], C) = CountIn(Taken(d)[d], C) + CountIn(cells, C)
        /\ chan'[Peer(d)] = Taken(d)[Peer(d)]
    BY <1>1, SendCounts
  <2>2. /\ CountIn(chan[Peer(d)], C) =
             (IF cell \in C THEN 1 ELSE 0) + CountIn(Taken(d)[Peer(d)], C)
        /\ Taken(d)[d] = chan[d]
    BY TakenCounts
  <2>3. /\ chan[d] \in Seq(Cells) /\ chan[Peer(d)] \in Seq(Cells)
        /\ Taken(d)[Peer(d)] \in Seq(Cells)
    BY <1>1
  <2>4. /\ CountIn(chan[d], C) \in Nat /\ CountIn(cells, C) \in Nat
        /\ CountIn(chan[Peer(d)], C) \in Nat
        /\ CountIn(Taken(d)[Peer(d)], C) \in Nat
    BY <2>3, CountType
  <2> QED
    BY <2>1, <2>2, <2>4 DEF Takes
<1> QED
  BY <1>2 DEF Moves

\* A step that leaves the channels alone.
LEMMA MovesNothing ==
  ASSUME TypeOK, NEW d \in Side, UNCHANGED chan
  PROVE  Moves(d, << >>)
<1>1. chan \in [Side -> Seq(Cells)] /\ Peer(d) \in Side
  BY LedgerTypes DEF TypeOK
<1>2. ASSUME NEW C
      PROVE  /\ CountIn(chan[d], C) \in Nat /\ CountIn(chan[Peer(d)], C) \in Nat
             /\ CountIn(<< >>, C) = 0
  <2>1. chan[d] \in Seq(Cells) /\ chan[Peer(d)] \in Seq(Cells)
    BY <1>1
  <2> QED
    BY <2>1, CountType, CountSmall
<1>3. << >> \in Seq(Cells)
  OBVIOUS
<1>4. chan' = chan
  OBVIOUS
<1> QED
  BY <1>2, <1>3, <1>4 DEF Moves

\* How many cells of one kind a handler's answer holds.
LEMMA KindSame ==
  ASSUME NEW cmd, NEW sid, NEW n \in Nat
  PROVE  /\ CountIn(<<Cell(cmd, sid)>>, {Cell(cmd, sid)}) = 1
         /\ CountIn(Copies(n, Cell(cmd, sid)), {Cell(cmd, sid)}) = n
<1>1. Cell(cmd, sid) \in {Cell(cmd, sid)}
  OBVIOUS
<1>2. CountIn(<<Cell(cmd, sid)>>, {Cell(cmd, sid)}) = 1
  BY <1>1, CountSmall
<1>3. CountIn(Copies(n, Cell(cmd, sid)), {Cell(cmd, sid)}) = n
  BY <1>1, CountCopiesIn
<1> QED
  BY <1>2, <1>3

\* How many of another kind.
LEMMA KindOther ==
  ASSUME NEW cmd, NEW sid, NEW kind, NEW t, NEW n \in Nat,
         cmd # kind \/ sid # t
  PROVE  /\ CountIn(<<Cell(cmd, sid)>>, {Cell(kind, t)}) = 0
         /\ CountIn(Copies(n, Cell(cmd, sid)), {Cell(kind, t)}) = 0
<1>1. Cell(cmd, sid) \notin {Cell(kind, t)}
  BY DEF Cell
<1>2. CountIn(<<Cell(cmd, sid)>>, {Cell(kind, t)}) = 0
  BY <1>1, CountSmall
<1>3. CountIn(Copies(n, Cell(cmd, sid)), {Cell(kind, t)}) = 0
  BY <1>1, CountCopiesOut
<1> QED
  BY <1>2, <1>3

----------------------------------------------------------------------------
(* The stream ledger.                                                      *)

\* Cells that no stream's window is charged or credited for.
Plain(cells) ==
  \A t \in Streams : /\ CountIn(cells, {Cell("DATA", t)}) = 0
                     /\ CountIn(cells, {Cell("SENDME", t)}) = 0

\* The stream windows of the other side.
PeerKeepsWindows(d) ==
  /\ conn_package'[Peer(d)] = conn_package[Peer(d)]
  /\ conn_deliver'[Peer(d)] = conn_deliver[Peer(d)]

\* A step of side d that offers no more than it took, and promises no more than
\* it paid for, on stream t.
Solvent(d, t) ==
  /\ conn_deliver'[d][t] - Sent(Peer(d), t)'
       - STREAMWINDOW_INCREMENT * Credit(d, t)' >=
     conn_deliver[d][t] - Sent(Peer(d), t)
       - STREAMWINDOW_INCREMENT * Credit(d, t)
  /\ conn_package'[d][t] + Sent(d, t)'
       + STREAMWINDOW_INCREMENT * Credit(Peer(d), t)' <=
     conn_package[d][t] + Sent(d, t)
       + STREAMWINDOW_INCREMENT * Credit(Peer(d), t)

\* Everything in the ledger is a number.
LEMMA StreamTypes ==
  ASSUME TypeOK, NEW d \in Side, NEW t \in Streams
  PROVE  /\ conn_deliver[d][t] \in Int /\ conn_package[d][t] \in Nat
         /\ Sent(d, t) \in Nat /\ Credit(d, t) \in Nat
         /\ STREAMWINDOW_INCREMENT * Credit(d, t) \in Nat
<1>1. chan[d] \in Seq(Cells)
  BY DEF TypeOK
<1>2. Sent(d, t) \in Nat /\ Credit(d, t) \in Nat
  BY <1>1, CountType DEF Sent, Credit
<1>3. STREAMWINDOW_INCREMENT * Credit(d, t) \in Nat
  BY <1>2, WindowAssumption
<1>4. conn_deliver[d][t] \in Int /\ conn_package[d][t] \in Nat
  BY DEF TypeOK
<1> QED
  BY <1>2, <1>3, <1>4

\* Solvent steps keep the ledger of every stream.
LEMMA SolventStep ==
  ASSUME TypeOK, TypeOK', NEW d \in Side, PeerKeepsWindows(d),
         \A t \in Streams : Solvent(d, t),
         \A e \in Side, t \in Streams : Covered(e, t)
  PROVE  \A e \in Side, t \in Streams : Covered(e, t)'
<1> SUFFICES ASSUME NEW t \in Streams
             PROVE  Covered(d, t)' /\ Covered(Peer(d), t)'
  BY LedgerTypes
<1> DEFINE p == Peer(d)
<1>1. p \in Side /\ Peer(p) = d
  BY LedgerTypes
<1>2. /\ conn_deliver[d][t] \in Int /\ conn_package[d][t] \in Nat
      /\ Sent(d, t) \in Nat /\ STREAMWINDOW_INCREMENT * Credit(d, t) \in Nat
      /\ conn_deliver[p][t] \in Int /\ conn_package[p][t] \in Nat
      /\ Sent(p, t) \in Nat /\ STREAMWINDOW_INCREMENT * Credit(p, t) \in Nat
  BY <1>1, StreamTypes
<1>3. /\ conn_deliver'[d][t] \in Int /\ conn_package'[d][t] \in Nat
      /\ Sent(d, t)' \in Nat /\ STREAMWINDOW_INCREMENT * Credit(d, t)' \in Nat
      /\ conn_deliver'[p][t] \in Int /\ conn_package'[p][t] \in Nat
      /\ Sent(p, t)' \in Nat /\ STREAMWINDOW_INCREMENT * Credit(p, t)' \in Nat
  <2>1. /\ chan'[d] \in Seq(Cells) /\ chan'[p] \in Seq(Cells)
    BY <1>1 DEF TypeOK
  <2>2. /\ Sent(d, t)' \in Nat /\ Credit(d, t)' \in Nat
        /\ Sent(p, t)' \in Nat /\ Credit(p, t)' \in Nat
    BY <2>1, CountType DEF Sent, Credit
  <2>3. /\ STREAMWINDOW_INCREMENT * Credit(d, t)' \in Nat
        /\ STREAMWINDOW_INCREMENT * Credit(p, t)' \in Nat
    BY <2>2, WindowAssumption
  <2>4. /\ conn_deliver'[d][t] \in Int /\ conn_package'[d][t] \in Nat
        /\ conn_deliver'[p][t] \in Int /\ conn_package'[p][t] \in Nat
    BY <1>1 DEF TypeOK
  <2> QED
    BY <2>2, <2>3, <2>4
<1>4. /\ conn_package'[p][t] = conn_package[p][t]
      /\ conn_deliver'[p][t] = conn_deliver[p][t]
  BY DEF PeerKeepsWindows
<1>5. /\ conn_deliver[d][t] >= conn_package[p][t] + Sent(p, t)
                               + STREAMWINDOW_INCREMENT * Credit(d, t)
      /\ conn_deliver[p][t] >= conn_package[d][t] + Sent(d, t)
                               + STREAMWINDOW_INCREMENT * Credit(p, t)
  BY <1>1 DEF Covered, Sent, Credit
<1>6. /\ conn_deliver'[d][t] - Sent(p, t)'
           - STREAMWINDOW_INCREMENT * Credit(d, t)' >=
         conn_deliver[d][t] - Sent(p, t)
           - STREAMWINDOW_INCREMENT * Credit(d, t)
      /\ conn_package'[d][t] + Sent(d, t)'
           + STREAMWINDOW_INCREMENT * Credit(p, t)' <=
         conn_package[d][t] + Sent(d, t)
           + STREAMWINDOW_INCREMENT * Credit(p, t)
  BY DEF Solvent
<1>7. conn_deliver'[d][t] >= conn_package'[p][t] + Sent(p, t)'
                             + STREAMWINDOW_INCREMENT * Credit(d, t)'
  BY <1>2, <1>3, <1>4, <1>5, <1>6
<1>8. conn_deliver'[p][t] >= conn_package'[d][t] + Sent(d, t)'
                             + STREAMWINDOW_INCREMENT * Credit(p, t)'
  BY <1>2, <1>3, <1>4, <1>5, <1>6
<1> QED
  BY <1>1, <1>7, <1>8 DEF Covered, Sent, Credit

\* What makes a step solvent: a SENDME sent is covered by the deliver window it
\* announces and a DATA cell sent by the package window; x is 1 when a DATA cell
\* of the stream was taken and paid for, y when a SENDME of it was credited.
Settled(d, t, cells, x, y) ==
  /\ x \in {0, 1} /\ (x = 1 => Takes(d, {Cell("DATA", t)}))
  /\ y \in {0, 1} /\ (y = 1 => Takes(d, {Cell("SENDME", t)}))
  /\ conn_deliver'[d][t] =
       conn_deliver[d][t] - x
       + STREAMWINDOW_INCREMENT * CountIn(cells, {Cell("SENDME", t)})
  /\ conn_package'[d][t] =
       conn_package[d][t] - CountIn(cells, {Cell("DATA", t)})
       + STREAMWINDOW_INCREMENT * y

\* Settled steps are solvent.
LEMMA SettledSolvent ==
  ASSUME TypeOK, NEW d \in Side, NEW t \in Streams, NEW cells,
         Moves(d, cells), NEW x, NEW y, Settled(d, t, cells, x, y)
  PROVE  Solvent(d, t)
<1> DEFINE p == Peer(d)
           D == {Cell("DATA", t)}
           S == {Cell("SENDME", t)}
           I == STREAMWINDOW_INCREMENT
<1>1. p \in Side /\ I \in Nat
  BY LedgerTypes, WindowAssumption
<1>2. /\ conn_deliver[d][t] \in Int /\ conn_package[d][t] \in Nat
      /\ Sent(d, t) \in Nat /\ Credit(d, t) \in Nat
      /\ Sent(p, t) \in Nat /\ Credit(p, t) \in Nat
  BY <1>1, StreamTypes
<1>3. /\ Sent(d, t)' = Sent(d, t) + CountIn(cells, D)
      /\ Credit(d, t)' = Credit(d, t) + CountIn(cells, S)
      /\ Sent(p, t)' <= Sent(p, t) /\ Credit(p, t)' <= Credit(p, t)
      /\ Sent(p, t)' \in Nat /\ Credit(p, t)' \in Nat
      /\ CountIn(cells, D) \in Nat /\ CountIn(cells, S) \in Nat
  BY DEF Moves, Sent, Credit
<1>4. /\ x = 1 => Sent(p, t) = 1 + Sent(p, t)'
      /\ y = 1 => Credit(p, t) = 1 + Credit(p, t)'
      /\ x \in {0, 1} /\ y \in {0, 1}
  BY DEF Settled, Takes, Sent, Credit
<1>5. /\ conn_deliver'[d][t] = conn_deliver[d][t] - x + I * CountIn(cells, S)
      /\ conn_package'[d][t] = conn_package[d][t] - CountIn(cells, D) + I * y
  BY DEF Settled
<1>6. PICK m \in Nat : m = CountIn(cells, S)
  BY <1>3
<1>7. PICK n \in Nat : n = CountIn(cells, D)
  BY <1>3
<1> HIDE DEF p, D, S, I
<1>8. /\ I * Credit(d, t)' = I * Credit(d, t) + I * m
      /\ I * m \in Int /\ I * Credit(d, t) \in Int
      /\ I * Credit(p, t)' + I * y <= I * Credit(p, t)
      /\ I * Credit(p, t)' \in Int /\ I * Credit(p, t) \in Int
      /\ I * y \in Int
  <2>1. I * (Credit(d, t) + m) = I * Credit(d, t) + I * m
    BY <1>1, <1>2, Distribute
  <2>2. PICK z \in Nat : Credit(p, t) = (Credit(p, t)' + y) + z
    <3>1. Credit(p, t) - (Credit(p, t)' + y) \in Nat
      BY <1>2, <1>3, <1>4
    <3> QED
      BY <1>2, <1>3, <1>4, <3>1
  <2>3. PICK c \in Nat : c = Credit(p, t)'
    BY <1>3
  <2>4. y \in Int /\ z \in Int /\ c + y \in Int
    BY <1>4
  <2>5. /\ I * ((c + y) + z) = I * (c + y) + I * z
        /\ I * (c + y) = I * c + I * y
    BY <1>1, <2>4, Distribute
  <2>6. I * z \in Nat /\ I * c \in Int /\ I * y \in Int
        /\ I * Credit(p, t) \in Int
    BY <1>1, <1>2, <1>4, Distribute
  <2>7. I * c + I * y <= I * Credit(p, t)
    BY <2>2, <2>3, <2>5, <2>6
  <2>8. I * m \in Int /\ I * Credit(d, t) \in Int
    BY <1>1, <1>2, Distribute
  <2> QED
    BY <1>3, <1>6, <2>1, <2>3, <2>6, <2>7, <2>8
<1>9. conn_deliver'[d][t] - Sent(p, t)' - I * Credit(d, t)' >=
        conn_deliver[d][t] - Sent(p, t) - I * Credit(d, t)
  BY <1>2, <1>3, <1>4, <1>5, <1>6, <1>8
<1>10. conn_package'[d][t] + Sent(d, t)' + I * Credit(p, t)' <=
         conn_package[d][t] + Sent(d, t) + I * Credit(p, t)
  <2>1. conn_package'[d][t] = conn_package[d][t] - n + I * y
    BY <1>5, <1>7
  <2>2. Sent(d, t)' = Sent(d, t) + n
    BY <1>3, <1>7
  <2> QED
    BY <1>2, <1>8, <2>1, <2>2
<1> QED
  BY <1>9, <1>10 DEF Solvent, p, I

\* Steps that keep the stream windows and send plain cells.
LEMMA PlainSettled ==
  ASSUME TypeOK, NEW d \in Side, NEW t \in Streams, NEW cells, Plain(cells),
         conn_deliver'[d][t] = conn_deliver[d][t],
         conn_package'[d][t] = conn_package[d][t]
  PROVE  Settled(d, t, cells, 0, 0)
<1>1. conn_deliver[d][t] \in Int /\ conn_package[d][t] \in Nat
  BY StreamTypes
<1>2. /\ CountIn(cells, {Cell("DATA", t)}) = 0
      /\ CountIn(cells, {Cell("SENDME", t)}) = 0
  BY DEF Plain
<1>3. STREAMWINDOW_INCREMENT * 0 = 0
  BY WindowAssumption
<1> QED
  BY <1>1, <1>2, <1>3 DEF Settled

\* A handler that sends nothing.
LEMMA PlainNothing == << >> \in Seq(Cells) /\ Plain(<< >>)
<1>1. \A t \in Streams : /\ CountIn(<< >>, {Cell("DATA", t)}) = 0
                         /\ CountIn(<< >>, {Cell("SENDME", t)}) = 0
  BY CountSmall
<1>2. << >> \in Seq(Cells)
  OBVIOUS
<1> QED
  BY <1>1, <1>2 DEF Plain

\* The cells of the handlers that no stream window is concerned with.
LEMMA PlainCells ==
  ASSUME NEW s \in Streams
  PROVE  /\ << >> \in Seq(Cells) /\ Plain(<< >>)
         /\ \A cmd \in {"BEGIN", "CONNECTED", "END"} :
              <<Cell(cmd, s)>> \in Seq(Cells) /\ Plain(<<Cell(cmd, s)>>)
<1>1. << >> \in Seq(Cells) /\ Plain(<< >>)
  BY PlainNothing
<1>2. ASSUME NEW cmd \in {"BEGIN", "CONNECTED", "END"}
      PROVE  <<Cell(cmd, s)>> \in Seq(Cells) /\ Plain(<<Cell(cmd, s)>>)
  <2>1. <<Cell(cmd, s)>> \in Seq(Cells)
    BY CellTyped DEF Commands
  <2>2. ASSUME NEW t \in Streams
        PROVE  /\ CountIn(<<Cell(cmd, s)>>, {Cell("DATA", t)}) = 0
               /\ CountIn(<<Cell(cmd, s)>>, {Cell("SENDME", t)}) = 0
    <3>1. cmd # "DATA" /\ cmd # "SENDME"
      OBVIOUS
    <3> QED
      BY <3>1, KindOther
  <2> QED
    BY <2>1, <2>2 DEF Plain
<1> QED
  BY <1>1, <1>2

\* The ledger is kept by steps that settle every stream ...
LEMMA SettledStep ==
  ASSUME TypeOK, TypeOK', NEW d \in Side, NEW cells, Moves(d, cells),
         PeerKeepsWindows(d),
         \A t \in Streams : \E x, y : Settled(d, t, cells, x, y),
         \A e \in Side, t \in Streams : Covered(e, t)
  PROVE  \A e \in Side, t \in Streams : Covered(e, t)'
<1>1. \A t \in Streams : Solvent(d, t)
  BY SettledSolvent
<1> QED
  BY <1>1, SolventStep

\* ... in particular by those that change no stream window.
LEMMA PlainStep ==
  ASSUME TypeOK, TypeOK', NEW d \in Side, NEW cells, Moves(d, cells),
         Plain(cells), UNCHANGED <<conn_package, conn_deliver>>,
         \A e \in Side, t \in Streams : Covered(e, t)
  PROVE  \A e \in Side, t \in Streams : Covered(e, t)'
<1>1. conn_package' = conn_package /\ conn_deliver' = conn_deliver
  OBVIOUS
<1>2. PeerKeepsWindows(d)
  BY <1>1 DEF PeerKeepsWindows
<1>3. \A t \in Streams : Settled(d, t, cells, 0, 0)
  BY <1>1, PlainSettled
<1> QED
  BY <1>2, <1>3, SettledStep

\* What connection_edge_package_raw_inbuf sends: the payloads the two windows
\* let through.
LEMMA PackedBounds ==
  ASSUME TypeOK, NEW d \in Side, NEW s \in Streams, NEW pending \in Nat
  PROVE  /\ Packed(d, s, pending) \in Nat /\ Packed(d, s, pending) <= pending
         /\ Packed(d, s, pending) <= circ_package[d]
         /\ Packed(d, s, pending) <= conn_package[d][s]
         /\ \/ Packed(d, s, pending) = pending
            \/ Packed(d, s, pending) = circ_package[d]
            \/ Packed(d, s, pending) = conn_package[d][s]
<1>1. circ_package[d] \in Nat /\ conn_package[d][s] \in Nat
  BY DEF TypeOK
<1> QED
  BY <1>1 DEF Packed, Least

\* Packaging moves payloads from the package window of the stream to the wire.
LEMMA PackageCovered ==
  ASSUME TypeOK, TypeOK', NEW d \in Side, NEW s \in Streams, NEW ch,
         \A cells \in Seq(Cells) : Send(ch, d, cells) => Moves(d, cells),
         NEW front \in Seq(Cells), Plain(front), NEW pending \in Nat, NEW rd,
         PackageRawInbuf(ch, d, s, front, pending, rd),
         UNCHANGED conn_deliver,
         \A e \in Side, t \in Streams : Covered(e, t)
  PROVE  \A e \in Side, t \in Streams : Covered(e, t)'
<1> DEFINE n == Packed(d, s, pending)
           new == Copies(n, Cell("DATA", s))
           sent == front \o new
<1>1. n \in Nat
  BY PackedBounds
<1>2. Send(ch, d, sent) /\ conn_package' = [conn_package EXCEPT ![d][s] = @ - n]
  BY DEF PackageRawInbuf
<1> HIDE DEF n
<1>3. new \in Seq(Cells) /\ sent \in Seq(Cells)
  <2>1. new \in Seq(Cells)
    BY <1>1, CellTyped DEF Commands
  <2> QED
    BY <2>1, ConcatProperties
<1>4. ASSUME NEW t \in Streams
      PROVE  /\ CountIn(sent, {Cell("DATA", t)}) = IF t = s THEN n ELSE 0
             /\ CountIn(sent, {Cell("SENDME", t)}) = 0
  <2>1. /\ CountIn(sent, {Cell("DATA", t)}) =
             CountIn(front, {Cell("DATA", t)}) + CountIn(new, {Cell("DATA", t)})
        /\ CountIn(sent, {Cell("SENDME", t)}) =
             CountIn(front, {Cell("SENDME", t)})
             + CountIn(new, {Cell("SENDME", t)})
    BY <1>3, CountConcat
  <2>2. /\ CountIn(front, {Cell("DATA", t)}) = 0
        /\ CountIn(front, {Cell("SENDME", t)}) = 0
    BY DEF Plain
  <2>3. /\ CountIn(new, {Cell("DATA", t)}) = IF t = s THEN n ELSE 0
        /\ CountIn(new, {Cell("SENDME", t)}) = 0
    <3>1. CountIn(new, {Cell("SENDME", t)}) = 0
      BY <1>1, KindOther
    <3>2. CASE t = s
      BY <1>1, <3>1, <3>2, KindSame
    <3>3. CASE t # s
      BY <1>1, <3>1, <3>3, KindOther
    <3> QED
      BY <3>2, <3>3
  <2> HIDE DEF new, sent
  <2> QED
    BY <1>1, <2>1, <2>2, <2>3
<1>5. Moves(d, sent)
  BY <1>2, <1>3
<1> HIDE DEF new, sent
<1>6. PeerKeepsWindows(d)
  <2>1. Peer(d) \in Side /\ Peer(d) # d
    BY LedgerTypes
  <2> QED
    BY <1>2, <2>1 DEF PeerKeepsWindows, TypeOK
<1>7. ASSUME NEW t \in Streams PROVE Settled(d, t, sent, 0, 0)
  <2>1. conn_deliver[d][t] \in Int /\ conn_package[d][t] \in Nat
    BY StreamTypes
  <2>2. conn_deliver'[d][t] = conn_deliver[d][t]
    OBVIOUS
  <2>3. conn_package'[d][t] = conn_package[d][t] - (IF t = s THEN n ELSE 0)
    <3>1. CASE t = s
      BY <1>2, <3>1 DEF TypeOK
    <3>2. CASE t # s
      BY <1>2, <2>1, <3>2 DEF TypeOK
    <3> QED
      BY <3>1, <3>2
  <2>4. /\ STREAMWINDOW_INCREMENT * 0 = 0
        /\ CountIn(sent, {Cell("DATA", t)}) = IF t = s THEN n ELSE 0
        /\ CountIn(sent, {Cell("SENDME", t)}) = 0
    <3>1. STREAMWINDOW_INCREMENT * 0 = 0
      BY WindowAssumption
    <3> QED
      BY <1>4, <3>1
  <2>5. conn_deliver'[d][t] =
          conn_deliver[d][t] - 0
          + STREAMWINDOW_INCREMENT * CountIn(sent, {Cell("SENDME", t)})
    BY <2>1, <2>2, <2>4
  <2>6. conn_package'[d][t] =
          conn_package[d][t] - CountIn(sent, {Cell("DATA", t)})
          + STREAMWINDOW_INCREMENT * 0
    <3>1. PICK m \in Nat : m = IF t = s THEN n ELSE 0
      BY <1>1
    <3> QED
      BY <2>1, <2>3, <2>4, <3>1
  <2> QED
    BY <2>5, <2>6 DEF Settled
<1> QED
  BY <1>5, <1>6, <1>7, SettledStep

\* The refill of the circuit's deliver window: at most one SENDME is due after
\* a DATA cell, and the window is above its threshold again.
LEMMA CircRefill ==
  ASSUME NEW w \in Int, w > CIRCWINDOW_START - CIRCWINDOW_INCREMENT
  PROVE  /\ w >= 1 /\ CircSendmes(w - 1) \in {0, 1}
         /\ (w - 1) + CircSendmes(w - 1) * CIRCWINDOW_INCREMENT >
              CIRCWINDOW_START - CIRCWINDOW_INCREMENT
<1> DEFINE S == CIRCWINDOW_START
           I == CIRCWINDOW_INCREMENT
<1>1. S \in Nat /\ I \in Nat \ {0} /\ S >= I
  BY WindowAssumption
<1> HIDE DEF S, I
<1>2. w >= 1
  BY <1>1 DEF S, I
<1>3. CircSendmes(w - 1) = IF w - 1 <= S - I
                             THEN ((S - I - (w - 1)) \div I) + 1 ELSE 0
  BY DEF CircSendmes, SendmesDue, S, I
<1>4. w > S - I
  BY DEF S, I
<1>5. CASE w - 1 <= S - I
  <2>1. S - I - (w - 1) = 0
    BY <1>1, <1>4, <1>5
  <2>2. 0 \div I = 0
    BY <1>1
  <2>3. CircSendmes(w - 1) = 1
    BY <1>3, <1>5, <2>1, <2>2
  <2>4. 1 * I = I
    BY <1>1
  <2>5. (w - 1) + I > S - I
    BY <1>1, <1>4
  <2> QED
    BY <1>2, <2>3, <2>4, <2>5 DEF S, I
<1>6. CASE w - 1 > S - I
  <2>1. CircSendmes(w - 1) = 0
    BY <1>1, <1>3, <1>6
  <2>2. 0 * I = 0
    BY <1>1
  <2>3. (w - 1) + 0 > S - I
    BY <1>6
  <2> QED
    BY <1>2, <2>1, <2>2, <2>3 DEF S, I
<1> QED
  BY <1>1, <1>5, <1>6

\* A cell that arrives is counted.
LEMMA ArrivesCounted ==
  ASSUME TypeOK, NEW d \in Side, NEW cell, Arrives(d, cell)
  PROVE  CountIn(chan[Peer(d)], {cell}) >= 1
<1>1. Taken(d)[Peer(d)] \in Seq(Cells)
  BY TakenTyped
<1>2. CountIn(Taken(d)[Peer(d)], {cell}) \in Nat
  BY <1>1, CountType
<1>3. CountIn(chan[Peer(d)], {cell}) = 1 + CountIn(Taken(d)[Peer(d)], {cell})
  BY TakenCounts
<1> QED
  BY <1>2, <1>3

\* What DATA does to a side whose windows are covered: neither deliver window
\* falls below zero, and the circuit's is replenished at once.
LEMMA DataEffect ==
  ASSUME Flow, NEW d \in Side, NEW s \in Streams, ReceiveData(d, s)
  PROVE  /\ alive'
         /\ circ_deliver'[d] > CIRCWINDOW_START - CIRCWINDOW_INCREMENT
         /\ \E a, b \in Nat, x \in {0, 1} :
              /\ Send(Taken(d), d, Copies(a, Cell("SENDME", 0)) \o
                                   Copies(b, Cell("SENDME", s)))
              /\ conn_deliver' = [conn_deliver EXCEPT ![d][s] =
                                    conn_deliver[d][s] - x
                                    + STREAMWINDOW_INCREMENT * b]
              /\ state[d][s] # "OPEN" => x = 0 /\ b = 0
<1> DEFINE known == state[d][s] = "OPEN"
           w == circ_deliver[d]
           v == conn_deliver[d][s]
           delivered == known /\ w - 1 >= 0 /\ v - 1 >= 0
           a == IF w - 1 < 0 THEN 0 ELSE CircSendmes(w - 1)
           b == IF delivered THEN ConnSendmes(v - 1, outbuf[d][s] + 1) ELSE 0
<1>1. TypeOK /\ w \in Int /\ v \in Int /\ outbuf[d][s] \in Nat
      /\ circ_deliver \in [Side -> Int]
      /\ conn_deliver \in [Side -> [Streams -> Int]]
  BY DEF Flow, TypeOK
<1>2. /\ Arrives(d, Cell("DATA", s))
      /\ alive' = (w - 1 >= 0 /\ (known => v - 1 >= 0))
      /\ circ_deliver' = [circ_deliver EXCEPT ![d] =
                            (w - 1) + a * CIRCWINDOW_INCREMENT]
      /\ conn_deliver' = [conn_deliver EXCEPT ![d][s] =
                            IF known /\ w - 1 >= 0
                              THEN (v - 1) + b * STREAMWINDOW_INCREMENT
                              ELSE @]
      /\ Send(Taken(d), d, Copies(a, Cell("SENDME", 0)) \o
                           Copies(b, Cell("SENDME", s)))
  BY DEF ReceiveData
<1>3. w > CIRCWINDOW_START - CIRCWINDOW_INCREMENT
  BY DEF Flow, Replenished
<1>4. /\ w >= 1 /\ CircSendmes(w - 1) \in {0, 1}
      /\ (w - 1) + CircSendmes(w - 1) * CIRCWINDOW_INCREMENT >
           CIRCWINDOW_START - CIRCWINDOW_INCREMENT
  BY <1>1, <1>3, CircRefill
<1>5. v >= 1
  <2> DEFINE p == Peer(d)
  <2>1. p \in Side
    BY <1>1, LedgerTypes
  <2>2. /\ Sent(p, s) \in Nat /\ conn_package[p][s] \in Nat
        /\ STREAMWINDOW_INCREMENT * Credit(d, s) \in Nat
    BY <1>1, <2>1, StreamTypes
  <2>3. Sent(p, s) >= 1
    BY <1>1, <1>2, ArrivesCounted DEF Sent
  <2>4. v >= conn_package[p][s] + Sent(p, s)
             + STREAMWINDOW_INCREMENT * Credit(d, s)
    BY DEF Flow, Covered, Sent, Credit
  <2> HIDE DEF p, v
  <2>5. v \in Int
    BY <1>1
  <2> QED
    BY <2>2, <2>3, <2>4, <2>5
<1>6. a = CircSendmes(w - 1) /\ a \in Nat
  BY <1>1, <1>4
<1>7. b \in Nat
  <2>1. v - 1 \in Int
    BY <1>1
  <2>2. SendmesDue(v - 1, STREAMWINDOW_START, STREAMWINDOW_INCREMENT) \in Nat
    BY <2>1, SendmesDueNat, WindowAssumption
  <2> QED
    BY <2>2 DEF ConnSendmes
<1>8. alive'
  <2>1. w - 1 >= 0 /\ v - 1 >= 0
    BY <1>1, <1>4, <1>5
  <2> HIDE DEF w, v, known, a, b
  <2>2. alive' = (w - 1 >= 0 /\ (known => v - 1 >= 0))
    BY <1>2
  <2> QED
    BY <2>1, <2>2, Zenon
<1>9. circ_deliver'[d] > CIRCWINDOW_START - CIRCWINDOW_INCREMENT
  BY <1>1, <1>2, <1>4, <1>6
<1>10. known => b * STREAMWINDOW_INCREMENT = STREAMWINDOW_INCREMENT * b
  <2> HIDE DEF b
  <2> QED
    BY <1>7, WindowAssumption
<1>11. \E x \in {0, 1} :
         /\ conn_deliver' = [conn_deliver EXCEPT ![d][s] =
                               conn_deliver[d][s] - x
                               + STREAMWINDOW_INCREMENT * b]
         /\ ~known => x = 0 /\ b = 0
  <2>1. CASE known
    <3>1. conn_deliver' = [conn_deliver EXCEPT ![d][s] =
                             (v - 1) + STREAMWINDOW_INCREMENT * b]
      <4>1. w - 1 >= 0
        BY <1>1, <1>4
      <4> HIDE DEF b, a, w
      <4> QED
        BY <1>2, <1>10, <2>1, <4>1
    <3> HIDE DEF b
    <3> QED
      BY <2>1, <3>1
  <2>2. CASE ~known
    <3>1. b = 0 /\ STREAMWINDOW_INCREMENT * 0 = 0
      BY <2>2, WindowAssumption
    <3>2. conn_deliver' = [conn_deliver EXCEPT ![d][s] = @]
      BY <1>2, <2>2
    <3>3. v - 0 + STREAMWINDOW_INCREMENT * b = v
      BY <1>1, <3>1
    <3> HIDE DEF b
    <3> QED
      BY <3>1, <3>2, <3>3
  <2> QED
    BY <2>1, <2>2
<1> HIDE DEF a, b
<1> QED
  BY <1>2, <1>6, <1>7, <1>8, <1>9, <1>11

\* The windows of a stream that begins are set to what they are.
LEMMA BeginKeepsWindows ==
  ASSUME Flow, NEW d \in Side, NEW s \in Streams, state[d][s] = "none",
         conn_package' = [conn_package EXCEPT ![d][s] = STREAMWINDOW_START],
         conn_deliver' = [conn_deliver EXCEPT ![d][s] = STREAMWINDOW_START]
  PROVE  UNCHANGED <<conn_package, conn_deliver>>
<1>1. /\ conn_package[d][s] = STREAMWINDOW_START
      /\ conn_deliver[d][s] = STREAMWINDOW_START
  BY DEF Flow, Local, Fresh
<1>2. /\ conn_package \in [Side -> [Streams -> Nat]]
      /\ conn_deliver \in [Side -> [Streams -> Int]]
  BY DEF Flow, TypeOK
<1>3. conn_package' = conn_package
  BY <1>1, <1>2
<1>4. conn_deliver' = conn_deliver
  BY <1>1, <1>2
<1> QED
  BY <1>3, <1>4

\* Sending stream-level SENDMEs moves the window it announces; x is 1 when a
\* DATA cell has been paid for.
LEMMA CreditSettled ==
  ASSUME TypeOK, NEW d \in Side, NEW s \in Streams, NEW a \in Nat, NEW b \in Nat,
         NEW x \in {0, 1}, x = 1 => Takes(d, {Cell("DATA", s)}),
         conn_deliver' = [conn_deliver EXCEPT ![d][s] =
                            conn_deliver[d][s] - x
                            + STREAMWINDOW_INCREMENT * b],
         UNCHANGED conn_package
  PROVE  /\ Copies(a, Cell("SENDME", 0)) \o Copies(b, Cell("SENDME", s))
              \in Seq(Cells)
         /\ Copies(b, Cell("SENDME", s)) \in Seq(Cells)
         /\ PeerKeepsWindows(d)
         /\ \A t \in Streams : \E w, y :
              Settled(d, t, Copies(a, Cell("SENDME", 0)) \o
                            Copies(b, Cell("SENDME", s)), w, y)
         /\ \A t \in Streams : \E w, y :
              Settled(d, t, Copies(b, Cell("SENDME", s)), w, y)
<1> DEFINE A == Copies(a, Cell("SENDME", 0))
           B == Copies(b, Cell("SENDME", s))
<1>1. A \in Seq(Cells) /\ B \in Seq(Cells)
  BY CellTyped DEF Commands
<1>2. A \o B \in Seq(Cells)
  BY <1>1, ConcatProperties
<1>3. PeerKeepsWindows(d)
  <2>1. Peer(d) \in Side /\ Peer(d) # d
    BY LedgerTypes
  <2> QED
    BY <2>1 DEF PeerKeepsWindows, TypeOK
<1>4. ASSUME NEW t \in Streams
      PROVE  /\ CountIn(B, {Cell("DATA", t)}) = 0
             /\ t = s => CountIn(B, {Cell("SENDME", t)}) = b
             /\ t # s => CountIn(B, {Cell("SENDME", t)}) = 0
             /\ CountIn(A, {Cell("DATA", t)}) = 0
             /\ CountIn(A, {Cell("SENDME", t)}) = 0
  <2>1. CountIn(B, {Cell("DATA", t)}) = 0 /\ CountIn(A, {Cell("DATA", t)}) = 0
    <3>1. CountIn(B, {Cell("DATA", t)}) = 0
      BY KindOther, Zenon
    <3>2. CountIn(A, {Cell("DATA", t)}) = 0
      <4>1. Cell("SENDME", 0) \notin {Cell("DATA", t)}
        BY DEF Cell
      <4> QED
        BY <4>1, CountCopiesOut
    <3> QED
      BY <3>1, <3>2
  <2>2. CountIn(A, {Cell("SENDME", t)}) = 0
    <3>1. 0 # t
      BY StreamsAssumption
    <3>2. Cell("SENDME", 0) \notin {Cell("SENDME", t)}
      BY <3>1 DEF Cell
    <3> QED
      BY <3>2, CountCopiesOut
  <2>3. t = s => CountIn(B, {Cell("SENDME", t)}) = b
    <3>1. CountIn(B, {Cell("SENDME", s)}) = b
      BY ONLY b \in Nat, KindSame
    <3> QED
      BY <3>1
  <2>4. t # s => CountIn(B, {Cell("SENDME", t)}) = 0
    BY KindOther
  <2> QED
    BY <2>1, <2>2, <2>3, <2>4
<1>5. ASSUME NEW cells, NEW t \in Streams, CountIn(cells, {Cell("DATA", t)}) = 0,
             t = s => CountIn(cells, {Cell("SENDME", t)}) = b,
             t # s => CountIn(cells, {Cell("SENDME", t)}) = 0
      PROVE  \E w, y : Settled(d, t, cells, w, y)
  <2>1. /\ conn_deliver[d][t] \in Int /\ conn_package[d][t] \in Nat
        /\ conn_package'[d][t] = conn_package[d][t]
        /\ STREAMWINDOW_INCREMENT * 0 = 0
        /\ conn_deliver \in [Side -> [Streams -> Int]]
    <3>1. conn_deliver[d][t] \in Int /\ conn_package[d][t] \in Nat
      BY StreamTypes
    <3>2. STREAMWINDOW_INCREMENT * 0 = 0
      BY WindowAssumption
    <3>3. conn_deliver \in [Side -> [Streams -> Int]]
      BY DEF TypeOK
    <3> QED
      BY <3>1, <3>2, <3>3
  <2>2. conn_package'[d][t] =
          conn_package[d][t] - CountIn(cells, {Cell("DATA", t)})
          + STREAMWINDOW_INCREMENT * 0
    BY <1>5, <2>1
  <2>3. CASE t = s
    <3>1. conn_deliver'[d][t] = conn_deliver[d][t] - x
                                + STREAMWINDOW_INCREMENT * b
      BY <2>1, <2>3
    <3>2. Settled(d, t, cells, x, 0)
      BY <1>5, <2>2, <2>3, <3>1 DEF Settled
    <3> QED
      BY <3>2
  <2>4. CASE t # s
    <3>1. conn_deliver'[d][t] = conn_deliver[d][t]
      BY <2>1, <2>4
    <3>2. conn_deliver'[d][t] =
            conn_deliver[d][t] - 0
            + STREAMWINDOW_INCREMENT * CountIn(cells, {Cell("SENDME", t)})
      BY <1>5, <2>1, <2>4, <3>1
    <3>3. Settled(d, t, cells, 0, 0)
      BY <2>2, <3>2 DEF Settled
    <3> QED
      BY <3>3
  <2> QED
    BY <2>3, <2>4
<1>6. ASSUME NEW t \in Streams PROVE \E w, y : Settled(d, t, B, w, y)
  BY <1>4, <1>5
<1>7. ASSUME NEW t \in Streams PROVE \E w, y : Settled(d, t, A \o B, w, y)
  <2>1. /\ CountIn(A \o B, {Cell("DATA", t)}) =
             CountIn(A, {Cell("DATA", t)}) + CountIn(B, {Cell("DATA", t)})
        /\ CountIn(A \o B, {Cell("SENDME", t)}) =
             CountIn(A, {Cell("SENDME", t)}) + CountIn(B, {Cell("SENDME", t)})
    BY <1>1, CountConcat
  <2>2. /\ CountIn(B, {Cell("DATA", t)}) = 0
        /\ t = s => CountIn(B, {Cell("SENDME", t)}) = b
        /\ t # s => CountIn(B, {Cell("SENDME", t)}) = 0
        /\ CountIn(A, {Cell("DATA", t)}) = 0
        /\ CountIn(A, {Cell("SENDME", t)}) = 0
    BY <1>4
  <2> HIDE DEF A, B
  <2>3. /\ CountIn(A \o B, {Cell("DATA", t)}) = 0
        /\ t = s => CountIn(A \o B, {Cell("SENDME", t)}) = b
        /\ t # s => CountIn(A \o B, {Cell("SENDME", t)}) = 0
    BY <2>1, <2>2
  <2> QED
    BY <1>5, <2>3
<1> QED
  BY <1>1, <1>2, <1>3, <1>6, <1>7

\* Every step keeps the ledger of every stream.
LEMMA CoveredStep ==
  ASSUME Flow, [Next]_vars
  PROVE  \A e \in Side, t \in Streams : Covered(e, t)'
<1> USE DEF circVars, connVars, queueVars, ghostVars
<1> DEFINE Goal == \A e \in Side, t \in Streams : Covered(e, t)'
<1>a. "op" \in Side /\ "exit" \in Side
  BY DEF Side
<1>b. TypeOK /\ \A e \in Side, t \in Streams : Covered(e, t)
  BY DEF Flow
<1>c. TypeOK'
  BY <1>b, TypeStep
<1> HIDE DEF Goal
<1>p. ASSUME NEW d \in Side, NEW cells, Moves(d, cells), Plain(cells),
             UNCHANGED <<conn_package, conn_deliver>>
      PROVE  Goal
  BY <1>b, <1>c, <1>p, PlainStep DEF Goal
<1>q. ASSUME NEW d \in Side, NEW cells \in Seq(Cells), Plain(cells),
             \/ Send(chan, d, cells)
             \/ \E cell : Arrives(d, cell) /\ Send(Taken(d), d, cells),
             UNCHANGED <<conn_package, conn_deliver>>
      PROVE  Goal
  <2>1. Moves(d, cells)
    BY <1>b, <1>q, MovesSend, MovesTaken
  <2> QED
    BY <1>p, <1>q, <2>1
<1>r. ASSUME NEW d \in Side, NEW s \in Streams, NEW ch,
             \/ ch = chan
             \/ \E cell : Arrives(d, cell) /\ ch = Taken(d),
             EndConn(ch, d, s), UNCHANGED <<conn_package, conn_deliver>>
      PROVE  Goal
  <2>1. <<Cell("END", s)>> \in Seq(Cells) /\ Plain(<<Cell("END", s)>>)
    BY PlainCells
  <2>2. Send(ch, d, <<Cell("END", s)>>)
    BY <1>r DEF EndConn
  <2> QED
    BY <1>q, <1>r, <2>1, <2>2
<1>s. ASSUME NEW d \in Side, NEW s \in Streams, NEW ch,
             \/ ch = chan
             \/ \E cell : Arrives(d, cell) /\ ch = Taken(d),
             NEW front \in Seq(Cells), Plain(front), NEW pending \in Nat, NEW rd,
             PackageRawInbuf(ch, d, s, front, pending, rd),
             UNCHANGED conn_deliver
      PROVE  Goal
  <2>1. \A cells \in Seq(Cells) : Send(ch, d, cells) => Moves(d, cells)
    BY <1>b, <1>s, MovesSend, MovesTaken
  <2> QED
    BY <1>b, <1>c, <1>s, <2>1, PackageCovered DEF Goal
<1>t. ASSUME NEW s \in Streams, NEW ch,
             \/ ch = chan
             \/ \E cell : Arrives("exit", cell) /\ ch = Taken("exit"),
             ExitConnect(ch, s), UNCHANGED <<conn_package, conn_deliver>>
      PROVE  Goal
  <2>1. PICK outcome \in {"closed", "CONNECTING", "OPEN"} :
          Send(ch, "exit", CASE outcome = "closed"     -> <<Cell("END", s)>>
                             [] outcome = "CONNECTING" -> << >>
                             [] outcome = "OPEN" -> <<Cell("CONNECTED", s)>>)
    BY <1>t DEF ExitConnect
  <2>2. PICK cells : cells = CASE outcome = "closed"     -> <<Cell("END", s)>>
                               [] outcome = "CONNECTING" -> << >>
                               [] outcome = "OPEN" -> <<Cell("CONNECTED", s)>>
    OBVIOUS
  <2>3. cells \in {<<Cell("END", s)>>, << >>, <<Cell("CONNECTED", s)>>}
    BY <2>2
  <2>4. cells \in Seq(Cells) /\ Plain(cells)
    BY <2>3, PlainCells
  <2>5. Send(ch, "exit", cells)
    BY <2>1, <2>2
  <2> QED
    BY <1>a, <1>q, <1>t, <2>4, <2>5
<1>n. << >> \in Seq(Cells) /\ Plain(<< >>)
  BY PlainNothing
<1>1. ASSUME NEW s \in Streams, SendBegin(s) PROVE Goal
  <2>1. UNCHANGED <<conn_package, conn_deliver>>
    BY <1>1, <1>a, BeginKeepsWindows DEF SendBegin
  <2>2. <<Cell("BEGIN", s)>> \in Seq(Cells) /\ Plain(<<Cell("BEGIN", s)>>)
    BY PlainCells
  <2>3. Send(chan, "op", <<Cell("BEGIN", s)>>)
    BY <1>1 DEF SendBegin
  <2> QED
    BY <1>a, <1>q, <2>1, <2>2, <2>3
<1>2. ASSUME NEW s \in Streams, ExpireBeginning(s) PROVE Goal
  BY <1>2, <1>a, <1>r DEF ExpireBeginning
<1>3. ASSUME NEW s \in Streams, Resolved(s) PROVE Goal
  BY <1>3, <1>t DEF Resolved
<1>4. ASSUME NEW s \in Streams, FinishedConnecting(s) PROVE Goal
  <2>1. <<Cell("CONNECTED", s)>> \in Seq(Cells) /\ Plain(<<Cell("CONNECTED", s)>>)
    BY PlainCells
  <2>2. inbuf["exit"][s] \in Nat
    BY <1>a, <1>b DEF TypeOK
  <2> QED
    BY <1>4, <1>a, <1>s, <2>1, <2>2 DEF FinishedConnecting
<1>5. ASSUME NEW s \in Streams, FailedConnecting(s) PROVE Goal
  BY <1>5, <1>a, <1>r DEF FailedConnecting
<1>6. ASSUME NEW s \in Streams, ReceiveBegin(s) PROVE Goal
  <2>1. UNCHANGED <<conn_package, conn_deliver>>
    BY <1>6, <1>a, BeginKeepsWindows DEF ReceiveBegin
  <2>2. Arrives("exit", Cell("BEGIN", s))
    BY <1>6 DEF ReceiveBegin
  <2>3. CASE ExitConnect(Taken("exit"), s)
    BY <1>t, <2>1, <2>2, <2>3
  <2>4. CASE Send(Taken("exit"), "exit", << >>)
    BY <1>a, <1>n, <1>q, <2>1, <2>2, <2>4
  <2> QED
    BY <1>6, <2>3, <2>4 DEF ReceiveBegin
<1>7. ASSUME NEW s \in Streams, ReceiveConnected(s) PROVE Goal
  <2>1. inbuf["op"][s] \in Nat
    BY <1>a, <1>b DEF TypeOK
  <2> QED
    BY <1>7, <1>a, <1>n, <1>s, <2>1 DEF ReceiveConnected
<1>8. ASSUME NEW s \in Streams, ReceiveBadConnected(s) PROVE Goal
  BY <1>8, <1>a, <1>r DEF ReceiveBadConnected
<1>9. ASSUME NEW s \in Streams, ReceiveStrayConnected(s) PROVE Goal
  BY <1>9, <1>a, <1>n, <1>q DEF ReceiveStrayConnected
<1>10. ASSUME NEW d \in Side, NEW s \in Streams, HandleRead(d, s) PROVE Goal
  <2>1. PICK k \in 1..source[d][s] :
          \/ PackageRawInbuf(chan, d, s, << >>, inbuf[d][s] + k, reading[d])
          \/ UNCHANGED <<queueVars, circ_package, conn_package, reading>>
    BY <1>10 DEF HandleRead
  <2>2. inbuf[d][s] + k \in Nat
    BY <1>b DEF TypeOK
  <2>3. UNCHANGED conn_deliver
    BY <1>10 DEF HandleRead
  <2>4. CASE PackageRawInbuf(chan, d, s, << >>, inbuf[d][s] + k, reading[d])
    BY <1>n, <1>s, <2>2, <2>3, <2>4
  <2>5. CASE UNCHANGED <<queueVars, circ_package, conn_package, reading>>
    <3>1. Moves(d, << >>)
      BY <1>b, <2>5, MovesNothing
    <3> QED
      BY <1>n, <1>p, <2>3, <2>5, <3>1
  <2> QED
    BY <2>1, <2>4, <2>5
<1>11. ASSUME NEW d \in Side, NEW s \in Streams, ReachedEof(d, s) PROVE Goal
  BY <1>11, <1>r DEF ReachedEof
<1>12. ASSUME NEW d \in Side, NEW s \in Streams, SocketError(d, s) PROVE Goal
  BY <1>12, <1>r DEF SocketError
<1>13. ASSUME NEW d \in Side, NEW s \in Streams, HandleWrite(d, s) PROVE Goal
  <2>1. PICK left \in 0..(outbuf[d][s] - 1) :
          LET n == IF left = 0 THEN ConnSendmes(conn_deliver[d][s], 0) ELSE 0
          IN  /\ conn_deliver' = [conn_deliver EXCEPT ![d][s] =
                                    @ + n * STREAMWINDOW_INCREMENT]
              /\ Send(chan, d, Copies(n, Cell("SENDME", s)))
    BY <1>13 DEF HandleWrite
  <2> DEFINE n == IF left = 0 THEN ConnSendmes(conn_deliver[d][s], 0) ELSE 0
  <2>2. n \in Nat
    <3>1. conn_deliver[d][s] \in Int
      BY <1>b DEF TypeOK
    <3> QED
      BY <3>1, SendmesDueNat, WindowAssumption DEF ConnSendmes
  <2>3. /\ conn_deliver' = [conn_deliver EXCEPT ![d][s] =
                              @ + n * STREAMWINDOW_INCREMENT]
        /\ Send(chan, d, Copies(n, Cell("SENDME", s)))
    BY <2>1
  <2> HIDE DEF n
  <2>4. conn_deliver[d][s] + n * STREAMWINDOW_INCREMENT =
          conn_deliver[d][s] - 0 + STREAMWINDOW_INCREMENT * n
    BY <1>b, <2>2, WindowAssumption DEF TypeOK
  <2>5. conn_deliver' = [conn_deliver EXCEPT ![d][s] =
                           conn_deliver[d][s] - 0 + STREAMWINDOW_INCREMENT * n]
    BY <2>3, <2>4
  <2>6. UNCHANGED conn_package
    BY <1>13 DEF HandleWrite
  <2>7. /\ Copies(n, Cell("SENDME", s)) \in Seq(Cells) /\ PeerKeepsWindows(d)
        /\ \A t \in Streams : \E w, y :
             Settled(d, t, Copies(n, Cell("SENDME", s)), w, y)
    <3>1. 0 \in {0, 1} /\ (0 = 1 => Takes(d, {Cell("DATA", s)}))
      OBVIOUS
    <3> QED
      BY <1>b, <2>2, <2>5, <2>6, <3>1, CreditSettled
  <2>8. Moves(d, Copies(n, Cell("SENDME", s)))
    BY <1>b, <2>3, <2>7, MovesSend
  <2> QED
    BY <1>b, <1>c, <2>7, <2>8, SettledStep DEF Goal
<1>14. ASSUME NEW d \in Side, NEW s \in Streams, ReceiveNotOpen(d, s)
       PROVE  Goal
  BY <1>14, <1>n, <1>q DEF ReceiveNotOpen
<1>15. ASSUME NEW d \in Side, NEW s \in Streams, ReceiveData(d, s) PROVE Goal
  <2>1. PICK a \in Nat, b \in Nat, x \in {0, 1} :
          /\ Send(Taken(d), d, Copies(a, Cell("SENDME", 0)) \o
                               Copies(b, Cell("SENDME", s)))
          /\ conn_deliver' = [conn_deliver EXCEPT ![d][s] =
                                conn_deliver[d][s] - x
                                + STREAMWINDOW_INCREMENT * b]
    BY <1>15, DataEffect
  <2>2. PICK sent : sent = Copies(a, Cell("SENDME", 0)) \o
                           Copies(b, Cell("SENDME", s))
    OBVIOUS
  <2>3. Arrives(d, Cell("DATA", s)) /\ UNCHANGED conn_package
    BY <1>15 DEF ReceiveData
  <2>4. sent \in Seq(Cells)
    <3>1. /\ Copies(a, Cell("SENDME", 0)) \in Seq(Cells)
          /\ Copies(b, Cell("SENDME", s)) \in Seq(Cells)
      BY CellTyped DEF Commands
    <3> QED
      BY <2>2, <3>1, ConcatProperties
  <2>5. Moves(d, sent) /\ Takes(d, {Cell("DATA", s)})
    <3>1. Send(Taken(d), d, sent)
      BY <2>1, <2>2
    <3>2. Cell("DATA", s) \in {Cell("DATA", s)}
      OBVIOUS
    <3> QED
      BY <1>b, <2>3, <2>4, <3>1, <3>2, MovesTaken
  <2>6. /\ PeerKeepsWindows(d)
        /\ \A t \in Streams : \E w, y : Settled(d, t, sent, w, y)
    BY <1>b, <2>1, <2>2, <2>3, <2>5, CreditSettled
  <2> QED
    BY <1>b, <1>c, <2>5, <2>6, SettledStep DEF Goal
<1>16. ASSUME NEW d \in Side, NEW s \in Streams, ReceiveEnd(d, s) PROVE Goal
  BY <1>16, <1>n, <1>q DEF ReceiveEnd
<1>17. ASSUME NEW d \in Side, NEW s \in Streams, ReceiveConnSendme(d, s)
       PROVE  Goal
  <2>1. /\ Arrives(d, Cell("SENDME", s)) /\ Send(Taken(d), d, << >>)
        /\ conn_package' = [conn_package EXCEPT ![d][s] =
                              @ + STREAMWINDOW_INCREMENT]
        /\ UNCHANGED conn_deliver
    BY <1>17 DEF ReceiveConnSendme
  <2>2. Moves(d, << >>) /\ Takes(d, {Cell("SENDME", s)})
    <3>1. Cell("SENDME", s) \in {Cell("SENDME", s)}
      OBVIOUS
    <3> QED
      BY <1>b, <1>n, <2>1, <3>1, MovesTaken
  <2>3. PeerKeepsWindows(d)
    <3>1. Peer(d) \in Side /\ Peer(d) # d
      BY <1>b, LedgerTypes
    <3> QED
      BY <1>b, <2>1, <3>1 DEF PeerKeepsWindows, TypeOK
  <2>4. ASSUME NEW t \in Streams PROVE \E w, y : Settled(d, t, << >>, w, y)
    <3>1. /\ conn_deliver[d][t] \in Int /\ conn_package[d][t] \in Nat
          /\ conn_deliver'[d][t] = conn_deliver[d][t]
          /\ STREAMWINDOW_INCREMENT \in Nat
      BY <1>b, <2>1, StreamTypes, WindowAssumption
    <3>2. /\ CountIn(<< >>, {Cell("DATA", t)}) = 0
          /\ CountIn(<< >>, {Cell("SENDME", t)}) = 0
      BY CountSmall
    <3>3. /\ STREAMWINDOW_INCREMENT * 0 = 0
          /\ STREAMWINDOW_INCREMENT * 1 = STREAMWINDOW_INCREMENT
      BY <3>1
    <3>4. CASE t = s
      <4>1. conn_package'[d][t] = conn_package[d][t] + STREAMWINDOW_INCREMENT
        BY <1>b, <2>1, <3>4 DEF TypeOK
      <4>2. Settled(d, t, << >>, 0, 1)
        BY <2>2, <3>1, <3>2, <3>3, <3>4, <4>1 DEF Settled
      <4> QED
        BY <4>2
    <3>5. CASE t # s
      <4>1. conn_package'[d][t] = conn_package[d][t]
        BY <1>b, <2>1, <3>5 DEF TypeOK
      <4> QED
        BY <1>b, <1>n, <3>1, <4>1, PlainSettled
    <3> QED
      BY <3>4, <3>5
  <2> QED
    BY <1>b, <1>c, <2>2, <2>3, <2>4, SettledStep DEF Goal
<1>18. ASSUME NEW d \in Side, NEW sid \in Streams \cup {0},
              ReceiveCircSendme(d, sid)
       PROVE  Goal
  BY <1>18, <1>n, <1>q DEF ReceiveCircSendme
<1>19. ASSUME NEW d \in Side, UNCHANGED <<chan, conn_package, conn_deliver>>
       PROVE  Goal
  <2>1. Moves(d, << >>)
    BY <1>b, <1>19, MovesNothing
  <2> QED
    BY <1>19, <1>n, <1>p, <2>1
<1>20. ASSUME NEW d \in Side, ResumeReading(d) PROVE Goal
  <2> DEFINE s == Head(resume[d])
  <2>1. s \in Streams /\ inbuf[d][s] \in Nat
    <3>1. resume[d] \in Seq(Streams) /\ resume[d] # << >>
      BY <1>20, <1>b DEF ResumeReading, TypeOK
    <3>2. s \in Streams
      BY <3>1, HeadTailProperties
    <3> QED
      BY <1>b, <3>2 DEF TypeOK
  <2>2. UNCHANGED conn_deliver
    BY <1>20 DEF ResumeReading
  <2>3. CASE conn_package[d][s] > 0
    <3>1. PICK rd : PackageRawInbuf(chan, d, s, << >>, inbuf[d][s], rd)
      BY <1>20, <2>3 DEF ResumeReading
    <3> HIDE DEF s
    <3> QED
      BY <1>n, <1>s, <2>1, <2>2, <3>1
  <2>4. CASE ~(conn_package[d][s] > 0)
    BY <1>19, <1>20, <2>2, <2>4 DEF ResumeReading
  <2> QED
    BY <2>3, <2>4
<1>21. ASSUME NEW d \in Side, FlushCell(d) PROVE Goal
  BY <1>19, <1>21 DEF FlushCell
<1>22. ASSUME UNCHANGED vars PROVE Goal
  BY <1>19, <1>22, <1>a DEF vars
<1>23. ASSUME Next PROVE Goal
  BY <1>1, <1>2, <1>3, <1>4, <1>5, <1>6, <1>7, <1>8, <1>9, <1>10, <1>11, <1>12,
     <1>13, <1>14, <1>15, <1>16, <1>17, <1>18, <1>20, <1>21, <1>23 DEF Next
<1>24. Goal
  BY <1>22, <1>23
<1> QED
  BY <1>24 DEF Goal

----------------------------------------------------------------------------
(* The circuit stays up.                                                   *)

\* One CONNECTED per stream: what a step may do to the count.
LEMMA ToldTypes ==
  ASSUME TypeOK, NEW t
  PROVE  Told(t) \in Nat
<1>1. chan["exit"] \in Seq(Cells)
  BY DEF TypeOK, Side
<1> QED
  BY <1>1, CountType DEF Told

\* Steps that tell the origin nothing.
LEMMA QuietConnected ==
  ASSUME TypeOK, NEW t \in Streams, OneConnected(t),
         Told(t)' \in Nat, Told(t)' <= Told(t),
         state'["op"][t] = "OPEN" => state["op"][t] = "OPEN",
         state["exit"][t] \in {"OPEN", "closed"} =>
           state'["exit"][t] \in {"OPEN", "closed"}
  PROVE  OneConnected(t)'
<1>1. Told(t) \in Nat
  BY ToldTypes
<1> QED
  BY <1>1 DEF OneConnected, Told

\* Cells among which there is no CONNECTED.
Untold(cells) == \A t \in Streams : CountIn(cells, {Cell("CONNECTED", t)}) = 0

\* What a move does to the count.
LEMMA MovesTold ==
  ASSUME NEW d \in Side, NEW cells, Moves(d, cells), NEW t \in Streams,
         d = "exit" => Untold(cells)
  PROVE  Told(t)' \in Nat /\ Told(t)' <= Told(t)
<1> DEFINE C == {Cell("CONNECTED", t)}
<1>1. /\ CountIn(chan'[d], C) = CountIn(chan[d], C) + CountIn(cells, C)
      /\ CountIn(chan'[Peer(d)], C) <= CountIn(chan[Peer(d)], C)
      /\ CountIn(chan[d], C) \in Nat
      /\ CountIn(chan'[Peer(d)], C) \in Nat
  BY DEF Moves
<1>2. CASE d = "op"
  <2>1. Peer(d) = "exit"
    BY <1>2 DEF Peer
  <2> QED
    BY <1>1, <2>1 DEF Told
<1>3. CASE d = "exit"
  <2>1. CountIn(cells, C) = 0
    BY <1>3 DEF Untold
  <2> QED
    BY <1>1, <1>3, <2>1 DEF Told
<1> QED
  BY <1>2, <1>3 DEF Side

\* Most handlers: at most one connection changes its state, the origin opens
\* none, and the exit leaves the final states to no one.
StateMove(e, s, v) ==
  /\ state' = [state EXCEPT ![e][s] = v]
  /\ e = "op" => v # "OPEN"
  /\ v \in {"OPEN", "closed"} \/ state[e][s] \notin {"OPEN", "closed"}

\* They keep OneConnected.
LEMMA ConnectedStep ==
  ASSUME TypeOK, \A t \in Streams : OneConnected(t),
         NEW d \in Side, NEW cells, Moves(d, cells), d = "exit" => Untold(cells),
         \/ UNCHANGED state
         \/ \E e \in Side, s \in Streams : \E v : StateMove(e, s, v)
  PROVE  \A t \in Streams : OneConnected(t)'
<1> SUFFICES ASSUME NEW t \in Streams PROVE OneConnected(t)'
  OBVIOUS
<1>1. Told(t)' \in Nat /\ Told(t)' <= Told(t)
  BY MovesTold
<1>2. state \in [Side -> [Streams -> States]] /\ "op" \in Side /\ "exit" \in Side
  BY DEF TypeOK, Side
<1>3. /\ state'["op"][t] = "OPEN" => state["op"][t] = "OPEN"
      /\ state["exit"][t] \in {"OPEN", "closed"} =>
           state'["exit"][t] \in {"OPEN", "closed"}
  <2>1. CASE UNCHANGED state
    BY <2>1
  <2>2. ASSUME NEW e \in Side, NEW s \in Streams, NEW v, StateMove(e, s, v)
        PROVE  /\ state'["op"][t] = "OPEN" => state["op"][t] = "OPEN"
               /\ state["exit"][t] \in {"OPEN", "closed"} =>
                    state'["exit"][t] \in {"OPEN", "closed"}
    BY <1>2, <2>2 DEF StateMove
  <2> QED
    BY <2>1, <2>2
<1> QED
  BY <1>1, <1>3, QuietConnected

\* The exit tells the origin that stream s is connected.
LEMMA TellConnected ==
  ASSUME TypeOK, \A t \in Streams : OneConnected(t),
         NEW s \in Streams, NEW cells, Moves("exit", cells),
         state["exit"][s] \notin {"OPEN", "closed"},
         \A t \in Streams : CountIn(cells, {Cell("CONNECTED", t)}) =
                              IF t = s THEN 1 ELSE 0,
         state' = [state EXCEPT !["exit"][s] = "OPEN"]
  PROVE  \A t \in Streams : OneConnected(t)'
<1> SUFFICES ASSUME NEW t \in Streams PROVE OneConnected(t)'
  OBVIOUS
<1>1. state \in [Side -> [Streams -> States]] /\ "op" \in Side /\ "exit" \in Side
  BY DEF TypeOK, Side
<1>2. Told(t) \in Nat
  BY ToldTypes
<1>3. Told(t)' = Told(t) + (IF t = s THEN 1 ELSE 0)
  BY DEF Moves, Told
<1>4. CASE t = s
  <2>1. Told(t) = 0 /\ state["op"][t] # "OPEN"
    BY <1>2, <1>4 DEF OneConnected, Told
  <2>2. Told(t)' = 1 /\ state'["op"][t] # "OPEN" /\ state'["exit"][t] = "OPEN"
    BY <1>1, <1>3, <1>4, <2>1
  <2> QED
    BY <2>2 DEF OneConnected, Told
<1>5. CASE t # s
  <2>1. /\ Told(t)' \in Nat /\ Told(t)' <= Told(t)
        /\ state'["op"][t] = state["op"][t]
        /\ state'["exit"][t] = state["exit"][t]
    BY <1>1, <1>2, <1>3, <1>5
  <2> QED
    BY <2>1, QuietConnected
<1> QED
  BY <1>4, <1>5

\* The origin takes the CONNECTED of stream s and opens it.
LEMMA HearConnected ==
  ASSUME TypeOK, \A t \in Streams : OneConnected(t),
         NEW s \in Streams, NEW cells, Moves("op", cells),
         Takes("op", {Cell("CONNECTED", s)}), state["op"][s] # "OPEN",
         state' = [state EXCEPT !["op"][s] = "OPEN"]
  PROVE  \A t \in Streams : OneConnected(t)'
<1> SUFFICES ASSUME NEW t \in Streams PROVE OneConnected(t)'
  OBVIOUS
<1>1. state \in [Side -> [Streams -> States]] /\ "op" \in Side /\ "exit" \in Side
  BY DEF TypeOK, Side
<1>2. Told(t) \in Nat
  BY ToldTypes
<1>3. Told(t)' \in Nat /\ Told(t)' <= Told(t)
  BY <1>1, MovesTold
<1>4. CASE t = s
  <2>1. Told(t) = 1 + Told(t)'
    BY <1>4 DEF Takes, Told, Peer
  <2>2. /\ Told(t) <= IF state["exit"][t] \in {"OPEN", "closed"} THEN 1 ELSE 0
    BY <1>2, <1>4 DEF OneConnected, Told
  <2>3. state'["op"][t] = "OPEN" /\ state'["exit"][t] = state["exit"][t]
    BY <1>1, <1>4
  <2>4. Told(t)' + 1 <= IF state'["exit"][t] \in {"OPEN", "closed"}
                          THEN 1 ELSE 0
    BY <1>2, <1>3, <2>1, <2>2, <2>3
  <2> QED
    BY <2>3, <2>4 DEF OneConnected, Told
<1>5. CASE t # s
  <2>1. /\ state'["op"][t] = state["op"][t]
        /\ state'["exit"][t] = state["exit"][t]
    BY <1>1, <1>5
  <2> QED
    BY <1>3, <2>1, QuietConnected
<1> QED
  BY <1>4, <1>5

\* Which handlers' cells say nothing about a connect.
LEMMA UntoldCells ==
  ASSUME NEW s \in Streams, NEW n \in Nat
  PROVE  /\ Untold(<<Cell("END", s)>>)
         /\ Untold(Copies(n, Cell("DATA", s)))
         /\ Untold(Copies(n, Cell("SENDME", s)))
         /\ Untold(Copies(n, Cell("SENDME", 0)))
<1>1. ASSUME NEW t \in Streams
      PROVE  /\ CountIn(<<Cell("END", s)>>, {Cell("CONNECTED", t)}) = 0
             /\ CountIn(Copies(n, Cell("DATA", s)), {Cell("CONNECTED", t)}) = 0
             /\ CountIn(Copies(n, Cell("SENDME", s)), {Cell("CONNECTED", t)}) = 0
             /\ CountIn(Copies(n, Cell("SENDME", 0)), {Cell("CONNECTED", t)}) = 0
  <2>1. /\ Cell("END", s) \notin {Cell("CONNECTED", t)}
        /\ Cell("DATA", s) \notin {Cell("CONNECTED", t)}
        /\ Cell("SENDME", s) \notin {Cell("CONNECTED", t)}
        /\ Cell("SENDME", 0) \notin {Cell("CONNECTED", t)}
    BY DEF Cell
  <2>2. CountIn(<<Cell("END", s)>>, {Cell("CONNECTED", t)}) = 0
    BY <2>1, CountSmall
  <2>3. CountIn(Copies(n, Cell("DATA", s)), {Cell("CONNECTED", t)}) = 0
    BY <2>1, CountCopiesOut
  <2>4. CountIn(Copies(n, Cell("SENDME", s)), {Cell("CONNECTED", t)}) = 0
    BY <2>1, CountCopiesOut
  <2>5. CountIn(Copies(n, Cell("SENDME", 0)), {Cell("CONNECTED", t)}) = 0
    BY <2>1, CountCopiesOut
  <2> QED
    BY <2>2, <2>3, <2>4, <2>5
<1> QED
  BY <1>1 DEF Untold

\* A handler that sends nothing says nothing.
LEMMA UntoldNothing == Untold(<< >>)
BY CountSmall DEF Untold

\* Joining two such sequences.
LEMMA UntoldConcat ==
  ASSUME NEW A \in Seq(Cells), NEW B \in Seq(Cells), Untold(A), Untold(B)
  PROVE  Untold(A \o B)
<1>1. ASSUME NEW t \in Streams
      PROVE  CountIn(A \o B, {Cell("CONNECTED", t)}) = 0
  <2>1. CountIn(A \o B, {Cell("CONNECTED", t)}) =
          CountIn(A, {Cell("CONNECTED", t)}) + CountIn(B, {Cell("CONNECTED", t)})
    BY CountConcat
  <2> QED
    BY <2>1 DEF Untold
<1> QED
  BY <1>1 DEF Untold

\* connection_edge_package_raw_inbuf moves front and some DATA cells.
LEMMA PackageMoves ==
  ASSUME TypeOK, NEW d \in Side, NEW s \in Streams, NEW ch,
         \A cells \in Seq(Cells) : Send(ch, d, cells) => Moves(d, cells),
         NEW front \in Seq(Cells), NEW pending \in Nat, NEW rd,
         PackageRawInbuf(ch, d, s, front, pending, rd)
  PROVE  \E n \in Nat : /\ Copies(n, Cell("DATA", s)) \in Seq(Cells)
                        /\ Moves(d, front \o Copies(n, Cell("DATA", s)))
<1> DEFINE n == Packed(d, s, pending)
<1>1. n \in Nat
  BY PackedBounds
<1>2. Send(ch, d, front \o Copies(n, Cell("DATA", s)))
  BY DEF PackageRawInbuf
<1> HIDE DEF n
<1>3. Copies(n, Cell("DATA", s)) \in Seq(Cells)
  BY <1>1, CellTyped DEF Commands
<1>4. front \o Copies(n, Cell("DATA", s)) \in Seq(Cells)
  BY <1>3, ConcatProperties
<1> QED
  BY <1>1, <1>2, <1>3, <1>4

\* Where the channels of a handler come from.
Source(ch, d) == ch = chan \/ \E cell : Arrives(d, cell) /\ ch = Taken(d)

\* Sending on them is a move.
LEMMA SourceMoves ==
  ASSUME TypeOK, NEW d \in Side, NEW ch, Source(ch, d)
  PROVE  \A cells \in Seq(Cells) : Send(ch, d, cells) => Moves(d, cells)
BY MovesSend, MovesTaken DEF Source

\* Every step keeps the count of CONNECTED cells.
LEMMA OneConnectedStep ==
  ASSUME Flow, [Next]_vars
  PROVE  \A t \in Streams : OneConnected(t)'
<1> USE DEF circVars, connVars, queueVars, ghostVars
<1> DEFINE Goal == \A t \in Streams : OneConnected(t)'
<1>a. "op" \in Side /\ "exit" \in Side
  BY DEF Side
<1>b. TypeOK /\ \A t \in Streams : OneConnected(t)
  BY DEF Flow
<1>n. << >> \in Seq(Cells) /\ Untold(<< >>)
  BY PlainNothing, UntoldNothing
<1> HIDE DEF Goal
<1>p. ASSUME NEW d \in Side, NEW cells, Moves(d, cells),
             d = "exit" => Untold(cells),
             \/ UNCHANGED state
             \/ \E e \in Side, s \in Streams : \E v : StateMove(e, s, v)
      PROVE  Goal
  BY <1>b, <1>p, ConnectedStep DEF Goal
<1>q. ASSUME NEW d \in Side, NEW ch, Source(ch, d), NEW cells \in Seq(Cells),
             Send(ch, d, cells), d = "exit" => Untold(cells),
             \/ UNCHANGED state
             \/ \E e \in Side, s \in Streams : \E v : StateMove(e, s, v)
      PROVE  Goal
  <2>1. Moves(d, cells)
    BY <1>b, <1>q, SourceMoves
  <2> QED
    BY <1>p, <1>q, <2>1
<1>r. ASSUME NEW d \in Side, NEW s \in Streams, NEW ch, Source(ch, d),
             EndConn(ch, d, s)
      PROVE  Goal
  <2>1. <<Cell("END", s)>> \in Seq(Cells) /\ Untold(<<Cell("END", s)>>)
    BY PlainCells, UntoldCells
  <2>2. Send(ch, d, <<Cell("END", s)>>)
    BY <1>r DEF EndConn
  <2>3. StateMove(d, s, "closed")
    BY <1>r DEF EndConn, CloseConn, StateMove
  <2> QED
    BY <1>q, <1>r, <2>1, <2>2, <2>3
<1>s. ASSUME NEW d \in Side, NEW s \in Streams, NEW pending \in Nat, NEW rd,
             PackageRawInbuf(chan, d, s, << >>, pending, rd), UNCHANGED state
      PROVE  Goal
  <2>1. \A cells \in Seq(Cells) : Send(chan, d, cells) => Moves(d, cells)
    BY <1>b, MovesSend
  <2>2. PICK n \in Nat : /\ Copies(n, Cell("DATA", s)) \in Seq(Cells)
                         /\ Moves(d, << >> \o Copies(n, Cell("DATA", s)))
    BY <1>b, <1>n, <1>s, <2>1, PackageMoves
  <2>3. Untold(Copies(n, Cell("DATA", s)))
    BY UntoldCells
  <2>4. Untold(<< >> \o Copies(n, Cell("DATA", s)))
    BY <1>n, <2>2, <2>3, UntoldConcat
  <2> QED
    BY <1>p, <1>s, <2>2, <2>4
<1>t. ASSUME NEW s \in Streams, NEW ch, Source(ch, "exit"), ExitConnect(ch, s),
             state["exit"][s] \notin {"OPEN", "closed"}
      PROVE  Goal
  <2>1. PICK outcome \in {"closed", "CONNECTING", "OPEN"} :
          /\ state' = [state EXCEPT !["exit"][s] = outcome]
          /\ Send(ch, "exit", CASE outcome = "closed"     -> <<Cell("END", s)>>
                                [] outcome = "CONNECTING" -> << >>
                                [] outcome = "OPEN" -> <<Cell("CONNECTED", s)>>)
    BY <1>t DEF ExitConnect
  <2>2. StateMove("exit", s, outcome)
    BY <1>t, <2>1 DEF StateMove
  <2>3. CASE outcome = "closed"
    <3>1. /\ <<Cell("END", s)>> \in Seq(Cells) /\ Untold(<<Cell("END", s)>>)
          /\ Send(ch, "exit", <<Cell("END", s)>>)
      BY <2>1, <2>3, PlainCells, UntoldCells
    <3> QED
      BY <1>a, <1>q, <1>t, <2>2, <3>1
  <2>4. CASE outcome = "CONNECTING"
    <3>1. Send(ch, "exit", << >>)
      BY <2>1, <2>4
    <3> QED
      BY <1>a, <1>n, <1>q, <1>t, <2>2, <3>1
  <2>5. CASE outcome = "OPEN"
    <3>1. /\ <<Cell("CONNECTED", s)>> \in Seq(Cells)
          /\ Send(ch, "exit", <<Cell("CONNECTED", s)>>)
      BY <2>1, <2>5, PlainCells
    <3>2. Moves("exit", <<Cell("CONNECTED", s)>>)
      BY <1>a, <1>b, <1>t, <3>1, SourceMoves
    <3>3. \A t \in Streams : CountIn(<<Cell("CONNECTED", s)>>,
                                     {Cell("CONNECTED", t)}) =
                               IF t = s THEN 1 ELSE 0
      <4> TAKE t \in Streams
      <4>1. CASE t = s
        <5>1. CountIn(<<Cell("CONNECTED", s)>>, {Cell("CONNECTED", s)}) = 1
          BY KindSame
        <5> QED
          BY <4>1, <5>1
      <4>2. CASE t # s
        BY <4>2, KindOther
      <4> QED
        BY <4>1, <4>2
    <3>4. state' = [state EXCEPT !["exit"][s] = "OPEN"]
      BY <2>1, <2>5
    <3> QED
      BY <1>b, <1>t, <3>2, <3>3, <3>4, TellConnected DEF Goal
  <2> QED
    BY <2>3, <2>4, <2>5
<1>u. \A d : Source(chan, d) /\ \A cell : Arrives(d, cell) => Source(Taken(d), d)
  BY DEF Source
<1>1. ASSUME NEW s \in Streams, SendBegin(s) PROVE Goal
  <2>1. <<Cell("BEGIN", s)>> \in Seq(Cells)
    BY PlainCells
  <2>2. Send(chan, "op", <<Cell("BEGIN", s)>>)
    BY <1>1 DEF SendBegin
  <2>3. StateMove("op", s, "CONNECT_WAIT")
    BY <1>1 DEF SendBegin, StateMove
  <2> QED
    BY <1>a, <1>q, <1>u, <2>1, <2>2, <2>3
<1>2. ASSUME NEW s \in Streams, ExpireBeginning(s) PROVE Goal
  BY <1>2, <1>a, <1>r, <1>u DEF ExpireBeginning
<1>3. ASSUME NEW s \in Streams, Resolved(s) PROVE Goal
  BY <1>3, <1>t, <1>u DEF Resolved
<1>4. ASSUME NEW s \in Streams, FinishedConnecting(s) PROVE Goal
  <2>1. <<Cell("CONNECTED", s)>> \in Seq(Cells) /\ inbuf["exit"][s] \in Nat
    BY <1>a, <1>b, PlainCells DEF TypeOK
  <2>2. \A cells \in Seq(Cells) : Send(chan, "exit", cells) =>
                                    Moves("exit", cells)
    BY <1>a, <1>b, MovesSend
  <2>3. PICK n \in Nat :
          /\ Copies(n, Cell("DATA", s)) \in Seq(Cells)
          /\ Moves("exit", <<Cell("CONNECTED", s)>> \o
                           Copies(n, Cell("DATA", s)))
    BY <1>4, <1>a, <1>b, <2>1, <2>2, PackageMoves DEF FinishedConnecting
  <2>4. \A t \in Streams : CountIn(<<Cell("CONNECTED", s)>> \o
                                   Copies(n, Cell("DATA", s)),
                                   {Cell("CONNECTED", t)}) =
                             IF t = s THEN 1 ELSE 0
    <3> TAKE t \in Streams
    <3> DEFINE C == {Cell("CONNECTED", t)}
    <3>1. CountIn(<<Cell("CONNECTED", s)>> \o Copies(n, Cell("DATA", s)), C) =
            CountIn(<<Cell("CONNECTED", s)>>, C)
            + CountIn(Copies(n, Cell("DATA", s)), C)
      <4>1. PICK A \in Seq(Cells) : A = <<Cell("CONNECTED", s)>>
        BY <2>1
      <4>2. PICK B \in Seq(Cells) : B = Copies(n, Cell("DATA", s))
        BY <2>3
      <4>3. CountIn(A \o B, C) = CountIn(A, C) + CountIn(B, C)
        BY CountConcat
      <4> QED
        BY <4>1, <4>2, <4>3
    <3>2. CountIn(Copies(n, Cell("DATA", s)), C) = 0
      BY KindOther
    <3>3. CASE t = s
      <4>1. CountIn(<<Cell("CONNECTED", s)>>, {Cell("CONNECTED", s)}) = 1
        BY KindSame
      <4> QED
        BY <3>1, <3>2, <3>3, <4>1
    <3>4. CASE t # s
      <4>1. CountIn(<<Cell("CONNECTED", s)>>, C) = 0
        BY <3>4, KindOther
      <4> QED
        BY <3>1, <3>2, <3>4, <4>1
    <3> QED
      BY <3>3, <3>4
  <2>5. /\ state["exit"][s] = "CONNECTING"
        /\ state' = [state EXCEPT !["exit"][s] = "OPEN"]
    BY <1>4 DEF FinishedConnecting
  <2> QED
    BY <1>b, <2>3, <2>4, <2>5, TellConnected DEF Goal
<1>5. ASSUME NEW s \in Streams, FailedConnecting(s) PROVE Goal
  BY <1>5, <1>a, <1>r, <1>u DEF FailedConnecting
<1>6. ASSUME NEW s \in Streams, ReceiveBegin(s) PROVE Goal
  <2>1. Arrives("exit", Cell("BEGIN", s)) /\ state["exit"][s] = "none"
    BY <1>6 DEF ReceiveBegin
  <2>2. CASE ExitConnect(Taken("exit"), s)
    BY <1>t, <1>u, <2>1, <2>2
  <2>3. CASE /\ state' = [state EXCEPT !["exit"][s] = "RESOLVING"]
             /\ Send(Taken("exit"), "exit", << >>)
    <3>1. StateMove("exit", s, "RESOLVING")
      BY <2>1, <2>3 DEF StateMove
    <3> QED
      BY <1>a, <1>n, <1>q, <1>u, <2>1, <2>3, <3>1
  <2> QED
    BY <1>6, <2>2, <2>3 DEF ReceiveBegin
<1>7. ASSUME NEW s \in Streams, ReceiveConnected(s) PROVE Goal
  <2>1. /\ Arrives("op", Cell("CONNECTED", s)) /\ state["op"][s] = "CONNECT_WAIT"
        /\ state' = [state EXCEPT !["op"][s] = "OPEN"]
        /\ PackageRawInbuf(Taken("op"), "op", s, << >>, inbuf["op"][s],
                           reading["op"])
    BY <1>7 DEF ReceiveConnected
  <2>2. inbuf["op"][s] \in Nat
    BY <1>a, <1>b DEF TypeOK
  <2>3. \A cells \in Seq(Cells) : Send(Taken("op"), "op", cells) =>
          Moves("op", cells) /\ Takes("op", {Cell("CONNECTED", s)})
    <3>1. Cell("CONNECTED", s) \in {Cell("CONNECTED", s)}
      OBVIOUS
    <3> QED
      BY <1>a, <1>b, <2>1, <3>1, MovesTaken
  <2>4. \E cells : Moves("op", cells)
    <3>1. \A cells \in Seq(Cells) : Send(Taken("op"), "op", cells) =>
            Moves("op", cells)
      BY <2>3
    <3> QED
      BY <1>a, <1>b, <1>n, <2>1, <2>2, <3>1, PackageMoves
  <2>5. Takes("op", {Cell("CONNECTED", s)})
    <3>1. PICK n \in Nat : Send(Taken("op"), "op",
                                << >> \o Copies(n, Cell("DATA", s)))
      <4>1. Packed("op", s, inbuf["op"][s]) \in Nat
        BY <1>a, <1>b, <2>2, PackedBounds
      <4> QED
        BY <2>1, <4>1 DEF PackageRawInbuf
    <3>2. << >> \o Copies(n, Cell("DATA", s)) \in Seq(Cells)
      <4>1. Copies(n, Cell("DATA", s)) \in Seq(Cells)
        BY CellTyped DEF Commands
      <4> QED
        BY <1>n, <4>1, ConcatProperties
    <3> QED
      BY <2>3, <3>1, <3>2
  <2> QED
    BY <1>b, <2>1, <2>4, <2>5, HearConnected DEF Goal
<1>8. ASSUME NEW s \in Streams, ReceiveBadConnected(s) PROVE Goal
  BY <1>8, <1>a, <1>r, <1>u DEF ReceiveBadConnected
<1>9. ASSUME NEW s \in Streams, ReceiveStrayConnected(s) PROVE Goal
  BY <1>9, <1>a, <1>n, <1>q, <1>u DEF ReceiveStrayConnected
<1>10. ASSUME NEW d \in Side, NEW s \in Streams, HandleRead(d, s) PROVE Goal
  <2>1. PICK k \in 1..source[d][s] :
          \/ PackageRawInbuf(chan, d, s, << >>, inbuf[d][s] + k, reading[d])
          \/ UNCHANGED chan
    BY <1>10 DEF HandleRead
  <2>2. inbuf[d][s] + k \in Nat
    BY <1>b DEF TypeOK
  <2>3. UNCHANGED state
    BY <1>10 DEF HandleRead
  <2>4. CASE PackageRawInbuf(chan, d, s, << >>, inbuf[d][s] + k, reading[d])
    BY <1>s, <2>2, <2>3, <2>4
  <2>5. CASE UNCHANGED chan
    <3>1. Moves(d, << >>)
      BY <1>b, <2>5, MovesNothing
    <3> QED
      BY <1>n, <1>p, <2>3, <3>1
  <2> QED
    BY <2>1, <2>4, <2>5
<1>11. ASSUME NEW d \in Side, NEW s \in Streams, ReachedEof(d, s) PROVE Goal
  BY <1>11, <1>r, <1>u DEF ReachedEof
<1>12. ASSUME NEW d \in Side, NEW s \in Streams, SocketError(d, s) PROVE Goal
  BY <1>12, <1>r, <1>u DEF SocketError
<1>13. ASSUME NEW d \in Side, NEW s \in Streams, HandleWrite(d, s) PROVE Goal
  <2>1. PICK n : n \in Nat /\ Send(chan, d, Copies(n, Cell("SENDME", s)))
    <3>1. PICK left \in 0..(outbuf[d][s] - 1) :
            Send(chan, d, Copies(IF left = 0
                                   THEN ConnSendmes(conn_deliver[d][s], 0)
                                   ELSE 0, Cell("SENDME", s)))
      BY <1>13 DEF HandleWrite
    <3>2. conn_deliver[d][s] \in Int
      BY <1>b DEF TypeOK
    <3>3. ConnSendmes(conn_deliver[d][s], 0) \in Nat
      BY <3>2, SendmesDueNat, WindowAssumption DEF ConnSendmes
    <3> QED
      BY <3>1, <3>3
  <2>2. /\ Copies(n, Cell("SENDME", s)) \in Seq(Cells)
        /\ Untold(Copies(n, Cell("SENDME", s)))
    BY <2>1, CellTyped, UntoldCells DEF Commands
  <2>3. UNCHANGED state
    BY <1>13 DEF HandleWrite
  <2> QED
    BY <1>q, <1>u, <2>1, <2>2, <2>3
<1>14. ASSUME NEW d \in Side, NEW s \in Streams, ReceiveNotOpen(d, s)
       PROVE  Goal
  BY <1>14, <1>n, <1>q, <1>u DEF ReceiveNotOpen
<1>15. ASSUME NEW d \in Side, NEW s \in Streams, ReceiveData(d, s) PROVE Goal
  <2>1. PICK a \in Nat, b \in Nat :
          Send(Taken(d), d, Copies(a, Cell("SENDME", 0)) \o
                            Copies(b, Cell("SENDME", s)))
    BY <1>15, DataEffect
  <2>2. /\ Copies(a, Cell("SENDME", 0)) \in Seq(Cells)
        /\ Copies(b, Cell("SENDME", s)) \in Seq(Cells)
    BY CellTyped DEF Commands
  <2>3. /\ Untold(Copies(a, Cell("SENDME", 0)))
        /\ Untold(Copies(b, Cell("SENDME", s)))
    BY UntoldCells
  <2>4. PICK cells : cells = Copies(a, Cell("SENDME", 0)) \o
                             Copies(b, Cell("SENDME", s))
    OBVIOUS
  <2>5. cells \in Seq(Cells) /\ Untold(cells) /\ Send(Taken(d), d, cells)
    <3>1. Untold(cells)
      BY <2>2, <2>3, <2>4, UntoldConcat
    <3>2. cells \in Seq(Cells)
      BY <2>2, <2>4, ConcatProperties
    <3> QED
      BY <2>1, <2>4, <3>1, <3>2
  <2>6. Arrives(d, Cell("DATA", s)) /\ UNCHANGED state
    BY <1>15 DEF ReceiveData
  <2> QED
    BY <1>q, <1>u, <2>5, <2>6
<1>16. ASSUME NEW d \in Side, NEW s \in Streams, ReceiveEnd(d, s) PROVE Goal
  <2>1. UNCHANGED state \/ StateMove(d, s, "closed")
    BY <1>16 DEF ReceiveEnd, CloseConn, StateMove
  <2> QED
    BY <1>16, <1>n, <1>q, <1>u, <2>1 DEF ReceiveEnd
<1>17. ASSUME NEW d \in Side, NEW s \in Streams, ReceiveConnSendme(d, s)
       PROVE  Goal
  BY <1>17, <1>n, <1>q, <1>u DEF ReceiveConnSendme
<1>18. ASSUME NEW d \in Side, NEW sid \in Streams \cup {0},
              ReceiveCircSendme(d, sid)
       PROVE  Goal
  BY <1>18, <1>n, <1>q, <1>u DEF ReceiveCircSendme
<1>19. ASSUME NEW d \in Side, UNCHANGED <<chan, state>> PROVE Goal
  <2>1. Moves(d, << >>)
    BY <1>b, <1>19, MovesNothing
  <2> QED
    BY <1>19, <1>n, <1>p, <2>1
<1>20. ASSUME NEW d \in Side, ResumeReading(d) PROVE Goal
  <2> DEFINE s == Head(resume[d])
  <2>1. s \in Streams /\ inbuf[d][s] \in Nat
    <3>1. resume[d] \in Seq(Streams) /\ resume[d] # << >>
      BY <1>20, <1>b DEF ResumeReading, TypeOK
    <3>2. s \in Streams
      BY <3>1, HeadTailProperties
    <3> QED
      BY <1>b, <3>2 DEF TypeOK
  <2>2. UNCHANGED state
    BY <1>20 DEF ResumeReading
  <2>3. CASE conn_package[d][s] > 0
    <3>1. PICK rd : PackageRawInbuf(chan, d, s, << >>, inbuf[d][s], rd)
      BY <1>20, <2>3 DEF ResumeReading
    <3> HIDE DEF s
    <3> QED
      BY <1>s, <2>1, <2>2, <3>1
  <2>4. CASE ~(conn_package[d][s] > 0)
    BY <1>19, <1>20, <2>2, <2>4 DEF ResumeReading
  <2> QED
    BY <2>3, <2>4
<1>21. ASSUME NEW d \in Side, FlushCell(d) PROVE Goal
  BY <1>19, <1>21 DEF FlushCell
<1>22. ASSUME UNCHANGED vars PROVE Goal
  BY <1>19, <1>22, <1>a DEF vars
<1>23. ASSUME Next PROVE Goal
  BY <1>1, <1>2, <1>3, <1>4, <1>5, <1>6, <1>7, <1>8, <1>9, <1>10, <1>11, <1>12,
     <1>13, <1>14, <1>15, <1>16, <1>17, <1>18, <1>20, <1>21, <1>23 DEF Next
<1>24. Goal
  BY <1>22, <1>23
<1> QED
  BY <1>24 DEF Goal

\* Every step keeps the circuit alive and its deliver windows replenished.
LEMMA AliveStep ==
  ASSUME Flow, [Next]_vars
  PROVE  alive' /\ \A e \in Side : Replenished(e)'
<1> USE DEF circVars, connVars, queueVars, ghostVars
<1>a. "op" \in Side /\ "exit" \in Side
  BY DEF Side
<1>b. TypeOK /\ alive /\ \A e \in Side : Replenished(e)
  BY DEF Flow
<1>1. ASSUME NEW s \in Streams, ReceiveStrayConnected(s)
      PROVE  alive' /\ UNCHANGED circ_deliver
  <2>1. /\ Arrives("op", Cell("CONNECTED", s)) /\ UNCHANGED circ_deliver
        /\ alive' = (state["op"][s] # "OPEN")
    BY <1>1 DEF ReceiveStrayConnected
  <2>2. Peer("op") = "exit"
    BY DEF Peer
  <2>3. Told(s) >= 1
    BY <1>a, <1>b, <2>1, <2>2, ArrivesCounted DEF Told
  <2>4. Told(s) \in Nat
    BY <1>b, ToldTypes
  <2>5. Told(s) + (IF state["op"][s] = "OPEN" THEN 1 ELSE 0) <= 1
    BY <2>4 DEF Flow, OneConnected, Told
  <2>6. state["op"][s] # "OPEN"
    BY <2>3, <2>4, <2>5
  <2> QED
    BY <2>1, <2>6
<1>2. ASSUME NEW d \in Side, NEW s \in Streams, ReceiveData(d, s)
      PROVE  alive' /\ \A e \in Side : Replenished(e)'
  <2>1. /\ alive'
        /\ circ_deliver'[d] > CIRCWINDOW_START - CIRCWINDOW_INCREMENT
    BY <1>2, DataEffect
  <2>2. \A e \in Side : e # d => circ_deliver'[e] = circ_deliver[e]
    BY <1>2, <1>b DEF ReceiveData, TypeOK
  <2> QED
    BY <1>b, <2>1, <2>2 DEF Replenished
<1>3. \/ UNCHANGED <<alive, circ_deliver>>
      \/ \E s \in Streams : ReceiveStrayConnected(s)
      \/ \E d \in Side, s \in Streams : ReceiveData(d, s)
  <2>1. ASSUME Next
        PROVE  \/ UNCHANGED <<alive, circ_deliver>>
               \/ \E s \in Streams : ReceiveStrayConnected(s)
               \/ \E d \in Side, s \in Streams : ReceiveData(d, s)
    BY <2>1, Zenon DEF Next, SendBegin, ExpireBeginning, Resolved, FinishedConnecting,
                FailedConnecting, ReceiveBegin, ReceiveConnected,
                ReceiveBadConnected, HandleRead, ReachedEof, SocketError,
                HandleWrite, ReceiveNotOpen, ReceiveEnd, ReceiveConnSendme,
                ReceiveCircSendme, FlushCell, ResumeReading
  <2> QED
    BY <2>1, SMTT(30) DEF vars
<1> QED
  BY <1>1, <1>2, <1>3, <1>b DEF Replenished

----------------------------------------------------------------------------
(* Lists of streams.                                                       *)

\* The streams of a sequence, of its tail, and of a longer one.
LEMMA StreamsOf ==
  ASSUME NEW q \in Seq(Streams)
  PROVE  /\ q # << >> =>
              {q[i] : i \in DOMAIN q} =
                {Head(q)} \cup {Tail(q)[i] : i \in DOMAIN Tail(q)}
         /\ \A s \in Streams :
              {(<<s>> \o q)[i] : i \in DOMAIN (<<s>> \o q)} =
                {s} \cup {q[i] : i \in DOMAIN q}
<1>1. ASSUME q # << >>
      PROVE  {q[i] : i \in DOMAIN q} =
               {Head(q)} \cup {Tail(q)[i] : i \in DOMAIN Tail(q)}
  <2>1. /\ Len(q) \in Nat /\ Len(q) >= 1 /\ DOMAIN q = 1..Len(q)
        /\ DOMAIN Tail(q) = 1..(Len(q) - 1) /\ Head(q) = q[1]
        /\ \A i \in 1..(Len(q) - 1) : Tail(q)[i] = q[i + 1]
    BY <1>1, EmptySeq, HeadTailProperties
  <2>2. ASSUME NEW i \in DOMAIN q
        PROVE  q[i] \in {Head(q)} \cup {Tail(q)[j] : j \in DOMAIN Tail(q)}
    <3>1. CASE i = 1
      BY <2>1, <3>1
    <3>2. CASE i # 1
      <4>1. i - 1 \in DOMAIN Tail(q) /\ Tail(q)[i - 1] = q[i]
        BY <2>1, <3>2
      <4> QED
        BY <4>1
    <3> QED
      BY <3>1, <3>2
  <2>3. ASSUME NEW j \in DOMAIN Tail(q)
        PROVE  Tail(q)[j] \in {q[i] : i \in DOMAIN q}
    <3>1. j + 1 \in DOMAIN q /\ Tail(q)[j] = q[j + 1]
      BY <2>1
    <3> QED
      BY <3>1
  <2>4. Head(q) \in {q[i] : i \in DOMAIN q}
    BY <2>1
  <2> QED
    BY <2>2, <2>3, <2>4
<1>2. ASSUME NEW s \in Streams
      PROVE  {(<<s>> \o q)[i] : i \in DOMAIN (<<s>> \o q)} =
               {s} \cup {q[i] : i \in DOMAIN q}
  <2> DEFINE r == <<s>> \o q
  <2>1. /\ Len(q) \in Nat /\ DOMAIN q = 1..Len(q)
        /\ DOMAIN r = 1..(Len(q) + 1) /\ r[1] = s
        /\ \A i \in 2..(Len(q) + 1) : r[i] = q[i - 1]
    <3>1. <<s>> \in Seq(Streams) /\ Len(<<s>>) = 1 /\ <<s>>[1] = s
      OBVIOUS
    <3>2. /\ r \in Seq(Streams) /\ Len(r) = 1 + Len(q)
          /\ \A i \in 1..Len(r) : r[i] = IF i <= 1 THEN <<s>>[i] ELSE q[i - 1]
      BY <3>1, ConcatProperties
    <3>3. Len(q) \in Nat /\ DOMAIN q = 1..Len(q) /\ DOMAIN r = 1..Len(r)
      BY <3>2, LenProperties
    <3> HIDE DEF r
    <3> QED
      BY <3>1, <3>2, <3>3
  <2> HIDE DEF r
  <2>2. ASSUME NEW i \in DOMAIN r
        PROVE  r[i] \in {s} \cup {q[j] : j \in DOMAIN q}
    <3>1. CASE i = 1
      BY <2>1, <3>1
    <3>2. CASE i # 1
      <4>1. i - 1 \in DOMAIN q /\ r[i] = q[i - 1]
        BY <2>1, <3>2
      <4> QED
        BY <4>1
    <3> QED
      BY <3>1, <3>2
  <2>3. ASSUME NEW j \in DOMAIN q PROVE q[j] \in {r[i] : i \in DOMAIN r}
    <3>1. j + 1 \in DOMAIN r /\ r[j + 1] = q[j]
      BY <2>1
    <3> QED
      BY <3>1
  <2>4. s \in {r[i] : i \in DOMAIN r}
    <3>1. 1 \in DOMAIN r
      BY <2>1
    <3> QED
      BY <2>1, <3>1
  <2>5. {r[i] : i \in DOMAIN r} = {s} \cup {q[i] : i \in DOMAIN q}
    BY <2>2, <2>3, <2>4
  <2> QED
    BY <2>5 DEF r
<1> QED
  BY <1>1, <1>2

\* circuit_detach_stream takes no other stream off the list.
LEMMA UnlinkStreams ==
  ASSUME TypeOK, NEW d \in Side, NEW s \in Streams
  PROVE  \A t \in Streams :
           /\ t \in {Unlink(d, s)[j] : j \in DOMAIN Unlink(d, s)} =>
                t \in Linked(d)
           /\ t # s /\ t \in Linked(d) =>
                t \in {Unlink(d, s)[j] : j \in DOMAIN Unlink(d, s)}
<1> DEFINE q == list[d]
           i == CHOOSE j \in DOMAIN q : q[j] = s
           u == Unlink(d, s)
<1>1. q \in Seq(Streams) /\ Len(q) \in Nat /\ DOMAIN q = 1..Len(q)
  BY LenProperties DEF TypeOK
<1>2. CASE s \notin Linked(d)
  <2>1. u = q
    BY <1>2 DEF Unlink
  <2> QED
    BY <2>1 DEF Linked
<1>3. CASE s \in Linked(d)
  <2>1. i \in 1..Len(q) /\ q[i] = s
    BY <1>1, <1>3 DEF Linked
  <2>2. u = SubSeq(q, 1, i - 1) \o SubSeq(q, i + 1, Len(q))
    BY <1>3 DEF Unlink
  <2> HIDE DEF i
  <2> DEFINE a == SubSeq(q, 1, i - 1)
             b == SubSeq(q, i + 1, Len(q))
  <2>3. /\ a \in Seq(Streams) /\ Len(a) = i - 1
        /\ \A j \in 1..(i - 1) : a[j] = q[j]
    BY <1>1, <2>1, SubSeqProperties
  <2>4. /\ b \in Seq(Streams) /\ Len(b) = Len(q) - i
        /\ \A j \in 1..(Len(q) - i) : b[j] = q[i + j]
    BY <1>1, <2>1, SubSeqProperties
  <2>5. /\ u \in Seq(Streams) /\ Len(u) = Len(a) + Len(b)
        /\ \A j \in 1..Len(u) : u[j] = IF j <= Len(a) THEN a[j]
                                       ELSE b[j - Len(a)]
    BY <2>2, <2>3, <2>4, ConcatProperties
  <2>6. DOMAIN u = 1..Len(u)
    BY <2>5, LenProperties
  <2> HIDE DEF a, b, u, q
  <2>7. ASSUME NEW j \in DOMAIN u PROVE u[j] \in {q[k] : k \in DOMAIN q}
    <3>1. CASE j <= i - 1
      <4>1. j \in 1..Len(u) /\ j \in 1..(i - 1) /\ j \in DOMAIN q
        BY <1>1, <2>1, <2>6, <3>1
      <4>2. u[j] = a[j]
        BY <2>1, <2>3, <2>5, <4>1
      <4>3. u[j] = q[j]
        BY <2>3, <4>1, <4>2
      <4> QED
        BY <4>1, <4>3
    <3>2. CASE j > i - 1
      <4>1. j - (i - 1) \in 1..(Len(q) - i)
        BY <1>1, <2>1, <2>3, <2>4, <2>5, <2>6, <3>2
      <4>2. u[j] = b[j - (i - 1)]
        BY <1>1, <2>1, <2>3, <2>5, <2>6, <3>2
      <4>3. u[j] = q[j + 1] /\ j + 1 \in DOMAIN q
        BY <1>1, <2>1, <2>4, <2>6, <4>1, <4>2
      <4> QED
        BY <4>3
    <3> QED
      BY <1>1, <2>1, <2>6, <3>1, <3>2
  <2>8. ASSUME NEW k \in DOMAIN q, q[k] # s
        PROVE  q[k] \in {u[j] : j \in DOMAIN u}
    <3>1. k # i
      BY <2>1, <2>8
    <3>2. CASE k < i
      <4>1. k \in DOMAIN u /\ u[k] = q[k]
        BY <1>1, <2>1, <2>3, <2>4, <2>5, <2>6, <3>2
      <4> QED
        BY <4>1
    <3>3. CASE k > i
      <4>1. k - 1 \in DOMAIN u /\ k - i \in 1..(Len(q) - i)
        BY <1>1, <2>1, <2>3, <2>4, <2>5, <2>6, <3>3
      <4>2. u[k - 1] = b[k - i]
        BY <1>1, <2>1, <2>3, <2>5, <2>6, <3>3, <4>1
      <4>3. u[k - 1] = q[k]
        BY <1>1, <2>1, <2>4, <4>1, <4>2
      <4> QED
        BY <4>1, <4>3
    <3> QED
      BY <1>1, <2>1, <3>1, <3>2, <3>3
  <2>9. Linked(d) = {q[k] : k \in DOMAIN q}
    BY DEF Linked, q
  <2> QED
    BY <2>7, <2>8, <2>9 DEF u
<1> QED
  BY <1>2, <1>3

----------------------------------------------------------------------------
(* The local part of the invariant.                                        *)

\* A side that takes no step.
Still(e) ==
  /\ state'[e] = state[e] /\ list'[e] = list[e] /\ resume'[e] = resume[e]
  /\ conn_package'[e] = conn_package[e] /\ conn_deliver'[e] = conn_deliver[e]
  /\ inbuf'[e] = inbuf[e] /\ circ_package'[e] = circ_package[e]
  /\ reading'[e] = reading[e] /\ blocked'[e] = blocked[e]

\* It keeps its part of the invariant.
LEMMA StillLocal ==
  ASSUME NEW e \in Side, NEW t \in Streams, Still(e), Local(e, t)
  PROVE  Local(e, t)'
<1>1. Linked(e)' = Linked(e) /\ Resuming(e)' = Resuming(e)
  BY DEF Still, Linked, Resuming
<1>2. /\ state'[e][t] = state[e][t] /\ conn_package'[e][t] = conn_package[e][t]
      /\ conn_deliver'[e][t] = conn_deliver[e][t] /\ inbuf'[e][t] = inbuf[e][t]
      /\ circ_package'[e] = circ_package[e] /\ reading'[e][t] = reading[e][t]
      /\ blocked'[e] = blocked[e]
  BY DEF Still
<1>3. Fresh(e, t)'
  BY <1>2 DEF Local, Fresh
<1>4. OnLists(e, t)'
  BY <1>1, <1>2 DEF Local, OnLists, Active
<1>5. Awake(e, t)' /\ Drained(e, t)'
  BY <1>1, <1>2 DEF Local, Awake, Drained, Active
<1> QED
  BY <1>3, <1>4, <1>5 DEF Local

\* A stream whose windows and buffers a step leaves alone ...
Held(d, t) ==
  /\ state'[d][t] = state[d][t]
  /\ conn_package'[d][t] = conn_package[d][t]
  /\ conn_deliver'[d][t] = conn_deliver[d][t]
  /\ inbuf'[d][t] = inbuf[d][t]
  /\ t \in Linked(d)' <=> t \in Linked(d)

\* ... and which it stops only for a full queue.
Paused(d, t) ==
  /\ reading[d][t] => reading'[d][t] \/ blocked'[d]
  /\ blocked[d] => blocked'[d]

\* Such a stream keeps its part of the invariant while the circuit's windows
\* and the list of streams to visit stay.
LEMMA HeldLocal ==
  ASSUME NEW d \in Side, NEW t \in Streams, Held(d, t), Paused(d, t),
         circ_package'[d] = circ_package[d], Resuming(d)' = Resuming(d),
         Local(d, t)
  PROVE  Local(d, t)'
<1>1. Fresh(d, t)'
  BY DEF Held, Local, Fresh
<1>2. OnLists(d, t)'
  BY DEF Held, Local, OnLists, Active
<1>3. Awake(d, t)'
  BY DEF Held, Paused, Local, Awake, Active
<1>4. Drained(d, t)'
  BY DEF Held, Local, Drained
<1> QED
  BY <1>1, <1>2, <1>3, <1>4 DEF Local

\* A stream that is closed needs nothing, if it had begun.
LEMMA ClosedLocal ==
  ASSUME NEW d \in Side, NEW t \in Streams, state'[d][t] = "closed"
  PROVE  Local(d, t)'
BY DEF Local, Fresh, OnLists, Awake, Drained, Active

\* What Send does to the streams it may block.
LEMMA SendBlocks ==
  ASSUME TypeOK, NEW d \in Side, NEW ch, NEW cells, Send(ch, d, cells)
  PROVE  /\ blocked[d] => blocked'[d]
         /\ \A t : t \in NewlyBlocked(d) => blocked'[d]
         /\ JustBlocked(d) => blocked'[d]
         /\ \A e \in Side : e # d => blocked'[e] = blocked[e]
<1>1. /\ blocked' = [blocked EXCEPT ![d] =
                       @ \/ queued'[d] >= CELL_QUEUE_HIGHWATER_SIZE]
      /\ blocked \in [Side -> BOOLEAN]
  BY DEF Send, TypeOK
<1>2. blocked[d] => blocked'[d]
  BY <1>1
<1>3. \A e \in Side : e # d => blocked'[e] = blocked[e]
  BY <1>1
<1>4. JustBlocked(d) => blocked'[d]
  BY DEF JustBlocked
<1>5. \A t : t \in NewlyBlocked(d) => blocked'[d]
  BY <1>4 DEF NewlyBlocked
<1> QED
  BY <1>2, <1>3, <1>4, <1>5

LocalAll == \A e \in Side, t \in Streams : Local(e, t)

\* A step of side d keeps the local part when the other side is still.
LEMMA LocalSides ==
  ASSUME LocalAll, NEW d \in Side, \A e \in Side : e # d => Still(e),
         \A t \in Streams : Local(d, t)'
  PROVE  LocalAll'
BY StillLocal DEF LocalAll

\* The stream is closed and leaves the list.
LEMMA CloseLocal ==
  ASSUME TypeOK, LocalAll, NEW d \in Side, NEW s \in Streams, CloseConn(d, s),
         NEW ch, NEW cells, Send(ch, d, cells),
         NEW R, reading' = [reading EXCEPT ![d] = R],
         \A t \in Streams : t # s /\ reading[d][t] => R[t] \/ blocked'[d],
         UNCHANGED <<circ_package, conn_package, conn_deliver, inbuf, resume>>
  PROVE  LocalAll'
<1>1. /\ state' = [state EXCEPT ![d][s] = "closed"]
      /\ list' = [list EXCEPT ![d] = Unlink(d, s)]
  BY DEF CloseConn
<1>2. /\ state \in [Side -> [Streams -> States]]
      /\ list \in [Side -> Seq(Streams)]
      /\ reading \in [Side -> [Streams -> BOOLEAN]]
  BY DEF TypeOK
<1>3. /\ blocked[d] => blocked'[d]
      /\ \A e \in Side : e # d => blocked'[e] = blocked[e]
  BY SendBlocks
<1>4. \A e \in Side : e # d => Still(e)
  BY <1>1, <1>2, <1>3 DEF Still
<1>5. ASSUME NEW t \in Streams, t # s PROVE Local(d, t)'
  <2>1. state'[d][t] = state[d][t]
    BY <1>1, <1>2, <1>5
  <2>2. t \in Linked(d)' <=> t \in Linked(d)
    <3>1. list'[d] = Unlink(d, s)
      BY <1>1, <1>2
    <3> QED
      BY <1>5, <3>1, UnlinkStreams DEF Linked
  <2>3. Held(d, t)
    BY <2>1, <2>2 DEF Held
  <2>4. reading'[d][t] = R[t]
    BY <1>2
  <2>5. Paused(d, t)
    BY <1>3, <1>5, <2>4 DEF Paused
  <2>6. Resuming(d)' = Resuming(d) /\ circ_package'[d] = circ_package[d]
    BY DEF Resuming
  <2>7. Local(d, t)
    BY DEF LocalAll
  <2> QED
    BY <2>3, <2>5, <2>6, <2>7, HeldLocal
<1>6. Local(d, s)'
  <2>1. state'[d][s] = "closed"
    BY <1>1, <1>2
  <2> QED
    BY <2>1, ClosedLocal
<1>7. \A t \in Streams : Local(d, t)'
  BY <1>5, <1>6
<1> QED
  BY <1>4, <1>7, LocalSides

\* ... with an END.
LEMMA EndLocal ==
  ASSUME TypeOK, LocalAll, NEW d \in Side, NEW s \in Streams, NEW ch,
         EndConn(ch, d, s),
         UNCHANGED <<circ_package, conn_package, conn_deliver, inbuf, resume>>
  PROVE  LocalAll'
<1> DEFINE R == Stop(reading[d], {s} \cup NewlyBlocked(d))
<1>1. /\ CloseConn(d, s) /\ Send(ch, d, <<Cell("END", s)>>)
      /\ reading' = [reading EXCEPT ![d] = R]
  BY DEF EndConn
<1>2. ASSUME NEW t \in Streams, t # s, reading[d][t]
      PROVE  R[t] \/ blocked'[d]
  <2>1. t \in NewlyBlocked(d) => blocked'[d]
    BY <1>1, SendBlocks
  <2> QED
    BY <1>2, <2>1 DEF Stop
<1> HIDE DEF R
<1> QED
  BY <1>1, <1>2, CloseLocal

\* Steps that change neither a window nor an inbuf of side d, and stop its
\* streams at most for a full queue.
LEMMA QuietLocal ==
  ASSUME TypeOK, LocalAll, NEW d \in Side, NEW ch, NEW cells,
         Send(ch, d, cells),
         NEW R, reading' = [reading EXCEPT ![d] = R],
         \A t \in Streams : reading[d][t] => R[t] \/ blocked'[d],
         \A e \in Side, t \in Streams :
           /\ conn_deliver'[e][t] # conn_deliver[e][t] =>
                e = d /\ state[e][t] # "none"
           /\ e # d => conn_deliver'[e] = conn_deliver[e],
         UNCHANGED <<circ_package, list, state, conn_package, inbuf, resume>>
  PROVE  LocalAll'
<1>1. reading \in [Side -> [Streams -> BOOLEAN]]
  BY DEF TypeOK
<1>2. /\ blocked[d] => blocked'[d]
      /\ \A e \in Side : e # d => blocked'[e] = blocked[e]
  BY SendBlocks
<1>3. \A e \in Side, t \in Streams : e # d => Still(e)
  BY <1>1, <1>2 DEF Still
<1>4. ASSUME NEW t \in Streams PROVE Local(d, t)'
  <2>1. Local(d, t)
    BY DEF LocalAll
  <2>2. reading'[d][t] = R[t]
    BY <1>1
  <2>3. Paused(d, t)
    BY <1>2, <2>2 DEF Paused
  <2>4. /\ Resuming(d)' = Resuming(d) /\ Linked(d)' = Linked(d)
        /\ circ_package'[d] = circ_package[d]
    BY DEF Resuming, Linked
  <2>5. CASE conn_deliver'[d][t] = conn_deliver[d][t]
    <3>1. Held(d, t)
      BY <2>4, <2>5 DEF Held
    <3> QED
      BY <2>1, <2>3, <2>4, <3>1, HeldLocal
  <2>6. CASE state[d][t] # "none"
    <3>1. /\ state'[d][t] = state[d][t] /\ inbuf'[d][t] = inbuf[d][t]
          /\ conn_package'[d][t] = conn_package[d][t]
      OBVIOUS
    <3>2. Fresh(d, t)'
      BY <2>1, <2>6, <3>1 DEF Local, Fresh
    <3>3. OnLists(d, t)'
      BY <2>1, <2>4, <3>1 DEF Local, OnLists, Active
    <3>4. Awake(d, t)'
      BY <2>1, <2>3, <2>4, <3>1 DEF Local, Awake, Active, Paused
    <3>5. Drained(d, t)'
      BY <2>1, <2>4, <3>1 DEF Local, Drained
    <3> QED
      BY <3>2, <3>3, <3>4, <3>5 DEF Local
  <2> QED
    BY <2>5, <2>6
<1>5. CASE Streams = {}
  BY <1>5 DEF LocalAll
<1>6. CASE Streams # {}
  BY <1>3, <1>4, <1>6, LocalSides
<1> QED
  BY <1>5, <1>6

\* Steps on stream s that change its state only.
LEMMA OneStreamLocal ==
  ASSUME TypeOK, LocalAll, NEW d \in Side, NEW s \in Streams,
         NEW ch, NEW cells, Send(ch, d, cells),
         NEW v, state' = [state EXCEPT ![d][s] = v],
         NEW q, list' = [list EXCEPT ![d] = q],
         \A t \in Streams : t # s => (t \in Linked(d)' <=> t \in Linked(d)),
         NEW R, reading' = [reading EXCEPT ![d] = R],
         \A t \in Streams : t # s /\ reading[d][t] => R[t] \/ blocked'[d],
         UNCHANGED <<circ_package, conn_package, conn_deliver, inbuf, resume>>,
         Local(d, s)'
  PROVE  LocalAll'
<1>1. /\ state \in [Side -> [Streams -> States]]
      /\ list \in [Side -> Seq(Streams)]
      /\ reading \in [Side -> [Streams -> BOOLEAN]]
  BY DEF TypeOK
<1>2. /\ blocked[d] => blocked'[d]
      /\ \A e \in Side : e # d => blocked'[e] = blocked[e]
  BY SendBlocks
<1>3. \A e \in Side : e # d => Still(e)
  BY <1>1, <1>2 DEF Still
<1>4. ASSUME NEW t \in Streams, t # s PROVE Local(d, t)'
  <2>1. state'[d][t] = state[d][t] /\ reading'[d][t] = R[t]
    BY <1>1, <1>4
  <2>2. Held(d, t)
    BY <1>4, <2>1 DEF Held
  <2>3. Paused(d, t)
    BY <1>2, <1>4, <2>1 DEF Paused
  <2>4. Resuming(d)' = Resuming(d) /\ circ_package'[d] = circ_package[d]
    BY DEF Resuming
  <2>5. Local(d, t)
    BY DEF LocalAll
  <2> QED
    BY <2>2, <2>3, <2>4, <2>5, HeldLocal
<1>5. \A t \in Streams : Local(d, t)'
  BY <1>4
<1> QED
  BY <1>3, <1>5, LocalSides

\* A stream begins: it is put on the list and reads, unless the queue is full.
LEMMA BeginLocal ==
  ASSUME TypeOK, LocalAll, NEW d \in Side, NEW s \in Streams,
         state[d][s] \in {"none", "RESOLVING"},
         NEW ch, NEW cells, Send(ch, d, cells),
         NEW v \in {"CONNECT_WAIT", "CONNECTING", "OPEN"},
         state' = [state EXCEPT ![d][s] = v],
         list' = [list EXCEPT ![d] = <<s>> \o @],
         NEW J \in BOOLEAN, ~J => blocked'[d],
         reading' = [reading EXCEPT ![d] =
                       Stop([@ EXCEPT ![s] = J], NewlyBlocked(d))],
         UNCHANGED <<circ_package, conn_package, conn_deliver, inbuf, resume>>
  PROVE  LocalAll'
<1> DEFINE R == Stop([reading[d] EXCEPT ![s] = J], NewlyBlocked(d))
<1>1. /\ state \in [Side -> [Streams -> States]]
      /\ list \in [Side -> Seq(Streams)] /\ list[d] \in Seq(Streams)
      /\ reading \in [Side -> [Streams -> BOOLEAN]]
      /\ reading[d] \in [Streams -> BOOLEAN]
  BY DEF TypeOK
<1>2. \A t : t \in NewlyBlocked(d) => blocked'[d]
  BY SendBlocks
<1>3. Linked(d)' = {s} \cup Linked(d)
  <2>1. list'[d] = <<s>> \o list[d]
    BY <1>1
  <2>2. PICK q \in Seq(Streams) : q = list[d]
    BY <1>1
  <2>3. {(<<s>> \o q)[i] : i \in DOMAIN (<<s>> \o q)} =
          {s} \cup {q[i] : i \in DOMAIN q}
    BY StreamsOf
  <2>4. PICK r : r = <<s>> \o q
    OBVIOUS
  <2>5. {r[i] : i \in DOMAIN r} = {s} \cup {q[i] : i \in DOMAIN q}
    BY <2>3, <2>4
  <2>6. list'[d] = r
    BY <2>1, <2>2, <2>4
  <2> QED
    BY <2>2, <2>5, <2>6, ZenonT(60) DEF Linked
<1>4. \A t \in Streams : t # s /\ reading[d][t] => R[t] \/ blocked'[d]
  BY <1>1, <1>2 DEF Stop
<1>5. R[s] \/ blocked'[d]
  BY <1>1, <1>2 DEF Stop
<1>6. reading' = [reading EXCEPT ![d] = R]
  OBVIOUS
<1> HIDE DEF R
<1>7. Local(d, s)'
  <2>1. state'[d][s] = v /\ reading'[d][s] = R[s] /\ inbuf'[d][s] = inbuf[d][s]
    BY <1>1, <1>6
  <2>2. inbuf[d][s] = 0
    BY DEF LocalAll, Local, Fresh
  <2>3. Fresh(d, s)'
    BY <2>1 DEF Fresh
  <2>4. OnLists(d, s)'
    BY <1>3, <2>1 DEF OnLists
  <2>5. Awake(d, s)'
    BY <1>5, <2>1 DEF Awake
  <2>6. Drained(d, s)'
    BY <2>1, <2>2 DEF Drained
  <2> QED
    BY <2>3, <2>4, <2>5, <2>6 DEF Local
<1>8. list' = [list EXCEPT ![d] = <<s>> \o list[d]]
  OBVIOUS
<1>9. \A t \in Streams : t # s => (t \in Linked(d)' <=> t \in Linked(d))
  BY <1>3
<1> QED
  BY <1>4, <1>6, <1>7, <1>8, <1>9, OneStreamLocal

\* connection_exit_connect.
LEMMA ExitConnectLocal ==
  ASSUME TypeOK, LocalAll, NEW s \in Streams, NEW ch, ExitConnect(ch, s),
         state["exit"][s] \in {"none", "RESOLVING"},
         UNCHANGED <<circ_package, conn_package, conn_deliver, inbuf, resume>>
  PROVE  LocalAll'
<1>a. "exit" \in Side
  BY DEF Side
<1>1. PICK outcome \in {"closed", "CONNECTING", "OPEN"} :
        /\ state' = [state EXCEPT !["exit"][s] = outcome]
        /\ list' = [list EXCEPT !["exit"] =
                      IF outcome = "closed" THEN @ ELSE <<s>> \o @]
        /\ \E cells : Send(ch, "exit", cells)
        /\ reading' = [reading EXCEPT !["exit"] =
                         Stop([@ EXCEPT ![s] = /\ outcome # "closed"
                                               /\ ~JustBlocked("exit")],
                              NewlyBlocked("exit"))]
  BY DEF ExitConnect
<1>2. PICK cells : Send(ch, "exit", cells)
  BY <1>1
<1>3. PICK J \in BOOLEAN : J <=> outcome # "closed" /\ ~JustBlocked("exit")
  <2>1. (outcome # "closed" /\ ~JustBlocked("exit")) \in BOOLEAN
    OBVIOUS
  <2> QED
    BY <2>1
<1>4. reading' = [reading EXCEPT !["exit"] =
                    Stop([@ EXCEPT ![s] = J], NewlyBlocked("exit"))]
  <2>1. J = (outcome # "closed" /\ ~JustBlocked("exit"))
    BY <1>3
  <2> QED
    BY <1>1, <2>1
<1>5. CASE outcome # "closed"
  <2>1. ~J => blocked'["exit"]
    BY <1>2, <1>3, <1>5, <1>a, SendBlocks
  <2>2. list' = [list EXCEPT !["exit"] = <<s>> \o @]
    BY <1>1, <1>5
  <2>3. outcome \in {"CONNECT_WAIT", "CONNECTING", "OPEN"}
    BY <1>5
  <2> QED
    BY <1>1, <1>2, <1>4, <1>a, <2>1, <2>2, <2>3, BeginLocal
<1>6. CASE outcome = "closed"
  <2> DEFINE R == Stop([reading["exit"] EXCEPT ![s] = J], NewlyBlocked("exit"))
  <2>1. /\ list \in [Side -> Seq(Streams)] /\ reading["exit"] \in [Streams -> BOOLEAN]
        /\ state \in [Side -> [Streams -> States]]
    BY <1>a DEF TypeOK
  <2>2. list' = [list EXCEPT !["exit"] = list["exit"]]
    BY <1>1, <1>6
  <2>3. Linked("exit")' = Linked("exit")
    BY <1>a, <2>1, <2>2 DEF Linked
  <2>4. \A t \in Streams : t # s /\ reading["exit"][t] =>
                             R[t] \/ blocked'["exit"]
    BY <1>2, <1>a, <2>1, SendBlocks DEF Stop
  <2>5. reading' = [reading EXCEPT !["exit"] = R]
    BY <1>4
  <2> HIDE DEF R
  <2>6. Local("exit", s)'
    <3>1. state'["exit"][s] = "closed"
      BY <1>1, <1>6, <1>a, <2>1
    <3> QED
      BY <1>a, <3>1, ClosedLocal
  <2>7. \A t \in Streams : t # s => (t \in Linked("exit")' <=> t \in Linked("exit"))
    BY <2>3
  <2> QED
    BY <1>1, <1>2, <1>a, <2>2, <2>4, <2>5, <2>6, <2>7, OneStreamLocal
<1> QED
  BY <1>5, <1>6

\* What connection_edge_package_raw_inbuf does to side d: it stops reading only
\* where a window is used up or the queue is full, and it leaves payloads on the
\* inbuf only when a window is used up.
LEMMA PackageEffect ==
  ASSUME TypeOK, NEW d \in Side, NEW s \in Streams, NEW ch, NEW front,
         NEW pending \in Nat, NEW rd \in [Streams -> BOOLEAN],
         PackageRawInbuf(ch, d, s, front, pending, rd)
  PROVE  /\ circ_package[d] = 0 => circ_package'[d] = 0
         /\ \A t \in Streams : conn_package[d][t] = 0 =>
                                 conn_package'[d][t] = 0
         /\ \A t \in Streams : t # s =>
              /\ conn_package'[d][t] = conn_package[d][t]
              /\ inbuf'[d][t] = inbuf[d][t]
         /\ pending = 0 => inbuf'[d][s] = 0
         /\ inbuf'[d][s] > 0 => circ_package'[d] = 0 \/ conn_package'[d][s] = 0
         /\ blocked[d] => blocked'[d]
         /\ \A t \in Streams : rd[t] =>
              \/ reading'[d][t] \/ blocked'[d]
              \/ circ_package'[d] = 0 \/ conn_package'[d][t] = 0
         /\ \A e \in Side : e # d =>
              /\ circ_package'[e] = circ_package[e] /\ blocked'[e] = blocked[e]
              /\ conn_package'[e] = conn_package[e] /\ inbuf'[e] = inbuf[e]
              /\ reading'[e] = reading[e]
<1> DEFINE n == Packed(d, s, pending)
           stopped == IF circ_package[d] - n <= 0 THEN Linked(d)
                      ELSE IF conn_package[d][s] - n <= 0 THEN {s} ELSE {}
<1>1. /\ circ_package[d] \in Nat /\ conn_package[d][s] \in Nat
      /\ circ_package \in [Side -> Nat]
      /\ conn_package \in [Side -> [Streams -> Nat]]
      /\ inbuf \in [Side -> [Streams -> Nat]]
      /\ reading \in [Side -> [Streams -> BOOLEAN]]
  BY DEF TypeOK
<1>2. /\ n \in Nat /\ n <= pending /\ n <= circ_package[d]
      /\ n <= conn_package[d][s]
      /\ n = pending \/ n = circ_package[d] \/ n = conn_package[d][s]
  BY PackedBounds
<1>3. /\ \E cells : Send(ch, d, cells)
      /\ inbuf' = [inbuf EXCEPT ![d][s] = pending - n]
      /\ circ_package' = [circ_package EXCEPT ![d] = circ_package[d] - n]
      /\ conn_package' = [conn_package EXCEPT ![d][s] =
                            conn_package[d][s] - n]
      /\ reading' = [reading EXCEPT ![d] =
                       Stop(rd, stopped \cup NewlyBlocked(d))]
  BY DEF PackageRawInbuf
<1>4. /\ blocked[d] => blocked'[d]
      /\ \A t : t \in NewlyBlocked(d) => blocked'[d]
      /\ \A e \in Side : e # d => blocked'[e] = blocked[e]
  BY <1>3, SendBlocks
<1> HIDE DEF n
<1>5. /\ circ_package'[d] = circ_package[d] - n
      /\ conn_package'[d][s] = conn_package[d][s] - n
      /\ inbuf'[d][s] = pending - n
  BY <1>1, <1>3
<1>6. \A t \in Streams : t # s =>
        /\ conn_package'[d][t] = conn_package[d][t]
        /\ inbuf'[d][t] = inbuf[d][t]
  BY <1>1, <1>3
<1>7. \A e \in Side : e # d =>
        /\ circ_package'[e] = circ_package[e]
        /\ conn_package'[e] = conn_package[e] /\ inbuf'[e] = inbuf[e]
        /\ reading'[e] = reading[e]
  BY <1>1, <1>3
<1>8. /\ circ_package[d] = 0 => circ_package'[d] = 0
      /\ pending = 0 => inbuf'[d][s] = 0
      /\ inbuf'[d][s] > 0 => circ_package'[d] = 0 \/ conn_package'[d][s] = 0
      /\ conn_package[d][s] = 0 => conn_package'[d][s] = 0
  BY <1>1, <1>2, <1>5
<1>a. ASSUME NEW c \in Nat, NEW k \in Nat, k <= c, c - k <= 0 PROVE c - k = 0
  BY <1>a
<1>b. circ_package[d] - n <= 0 => circ_package'[d] = 0
  BY <1>1, <1>2, <1>5, <1>a
<1>c. conn_package[d][s] - n <= 0 => conn_package'[d][s] = 0
  BY <1>1, <1>2, <1>5, <1>a
<1>9. ASSUME NEW t \in Streams, rd[t]
      PROVE  \/ reading'[d][t] \/ blocked'[d]
             \/ circ_package'[d] = 0 \/ conn_package'[d][t] = 0
  <2>1. reading'[d][t] <=> t \notin stopped \cup NewlyBlocked(d)
    BY <1>1, <1>3, <1>9 DEF Stop
  <2>2. CASE t \in stopped
    <3>1. CASE circ_package[d] - n <= 0
      BY <1>b, <3>1
    <3>2. CASE ~(circ_package[d] - n <= 0)
      <4>1. conn_package[d][s] - n <= 0 /\ t = s
        BY <2>2, <3>2
      <4>2. conn_package'[d][s] = 0
        BY <1>c, <4>1
      <4> QED
        BY <4>1, <4>2
    <3> QED
      BY <3>1, <3>2
  <2>3. CASE t \notin stopped
    BY <1>4, <2>1, <2>3
  <2> QED
    BY <2>2, <2>3
<1>10. \A t \in Streams : conn_package[d][t] = 0 => conn_package'[d][t] = 0
  BY <1>6, <1>8
<1> QED
  BY <1>4, <1>6, <1>7, <1>8, <1>9, <1>10

\* Packaging keeps the local part: s is not new, reading was only switched on
\* before, and the streams still to be visited are the same but for s.
LEMMA PackageLocal ==
  ASSUME TypeOK, LocalAll, NEW d \in Side, NEW s \in Streams, NEW ch, NEW front,
         NEW pending \in Nat, NEW rd \in [Streams -> BOOLEAN],
         PackageRawInbuf(ch, d, s, front, pending, rd),
         \A t \in Streams : reading[d][t] => rd[t],
         \A t \in Streams : t # s => state'[d][t] = state[d][t],
         \/ state'[d][s] = state[d][s]
         \/ state'[d][s] = "OPEN" /\ Active(d, s),
         state[d][s] # "none", state[d][s] = "RESOLVING" => pending = 0,
         \A e \in Side : e # d => /\ state'[e] = state[e]
                                  /\ resume'[e] = resume[e],
         Resuming(d)' \subseteq Resuming(d),
         \A t \in Resuming(d) :
           (t = s /\ rd[t]) \/ t \in Resuming(d)' \/ circ_package'[d] = 0,
         UNCHANGED <<list, conn_deliver>>
  PROVE  LocalAll'
<1>1. /\ circ_package[d] = 0 => circ_package'[d] = 0
      /\ \A t \in Streams : conn_package[d][t] = 0 => conn_package'[d][t] = 0
      /\ \A t \in Streams : t # s => /\ conn_package'[d][t] = conn_package[d][t]
                                     /\ inbuf'[d][t] = inbuf[d][t]
      /\ pending = 0 => inbuf'[d][s] = 0
      /\ inbuf'[d][s] > 0 => circ_package'[d] = 0 \/ conn_package'[d][s] = 0
      /\ blocked[d] => blocked'[d]
  BY PackageEffect
<1>2. \A t \in Streams : rd[t] => \/ reading'[d][t] \/ blocked'[d]
                                  \/ circ_package'[d] = 0
                                  \/ conn_package'[d][t] = 0
  BY PackageEffect
<1>3. \A e \in Side : e # d =>
        /\ circ_package'[e] = circ_package[e] /\ blocked'[e] = blocked[e]
        /\ conn_package'[e] = conn_package[e] /\ inbuf'[e] = inbuf[e]
        /\ reading'[e] = reading[e]
  BY PackageEffect
<1>4. \A e \in Side : e # d => Still(e)
  BY <1>3 DEF Still
<1>5. Linked(d)' = Linked(d)
  BY DEF Linked
<1>6. ASSUME NEW t \in Streams PROVE Local(d, t)'
  <2>1. Fresh(d, t) /\ OnLists(d, t) /\ Awake(d, t) /\ Drained(d, t)
    BY DEF LocalAll, Local
  <2>2. conn_deliver'[d][t] = conn_deliver[d][t]
    OBVIOUS
  <2>3. Fresh(d, t)'
    <3>1. CASE t = s
      <4>1. state'[d][s] # "none" /\ (state'[d][s] = "RESOLVING" => pending = 0)
        OBVIOUS
      <4> QED
        BY <1>1, <3>1, <4>1 DEF Fresh
    <3>2. CASE t # s
      BY <1>1, <2>1, <2>2, <3>2 DEF Fresh
    <3> QED
      BY <3>1, <3>2
  <2>4. /\ Active(d, t)' => Active(d, t)
        /\ state[d][t] # "none" => state'[d][t] # "none"
    BY DEF Active
  <2>5. OnLists(d, t)'
    BY <1>5, <2>1, <2>4 DEF OnLists
  <2>6. Awake(d, t)'
    <3> SUFFICES ASSUME Active(d, t)', ~reading'[d][t],
                        ~blocked'[d], circ_package'[d] # 0,
                        conn_package'[d][t] # 0, t \notin Resuming(d)'
                 PROVE  FALSE
      BY DEF Awake
    <3>1. ~rd[t]
      BY <1>2
    <3>2. ~reading[d][t]
      BY <3>1
    <3>3. \/ circ_package[d] = 0 \/ conn_package[d][t] = 0 \/ blocked[d]
          \/ t \in Resuming(d)
      BY <2>1, <2>4, <3>2 DEF Awake
    <3> QED
      BY <1>1, <3>1, <3>3
  <2>7. Drained(d, t)'
    <3>1. CASE t = s
      BY <1>1, <3>1 DEF Drained
    <3>2. CASE t # s
      <4> SUFFICES ASSUME state'[d][t] = "OPEN", inbuf'[d][t] > 0,
                          circ_package'[d] # 0, conn_package'[d][t] # 0,
                          t \notin Resuming(d)'
                   PROVE  FALSE
        BY DEF Drained
      <4>1. \/ circ_package[d] = 0 \/ conn_package[d][t] = 0
            \/ t \in Resuming(d)
        BY <1>1, <2>1, <3>2 DEF Drained
      <4> QED
        BY <1>1, <3>2, <4>1
    <3> QED
      BY <3>1, <3>2
  <2> QED
    BY <2>3, <2>5, <2>6, <2>7 DEF Local
<1> QED
  BY <1>4, <1>6, LocalSides

\* circuit_resume_edge_reading_helper has nothing to do.
LEMMA IdleResuming ==
  ASSUME NEW d, Idle(d)
  PROVE  Resuming(d) = {}
BY DEF Idle, Resuming

\* Every step keeps the local part of the invariant.
LEMMA LocalStep ==
  ASSUME Flow, [Next]_vars
  PROVE  LocalAll'
<1> USE DEF circVars, connVars, queueVars, ghostVars
<1>a. "op" \in Side /\ "exit" \in Side
  BY DEF Side
<1>b. TypeOK /\ LocalAll
  BY DEF Flow, LocalAll
<1>c. \A d \in Side : reading[d] \in [Streams -> BOOLEAN]
  BY <1>b DEF TypeOK
<1>e. ASSUME NEW d \in Side, NEW s \in Streams, NEW ch, EndConn(ch, d, s),
             UNCHANGED <<circVars, conn_package, conn_deliver, source, inbuf,
                         resume, ghostVars>>
      PROVE  LocalAll'
  BY <1>b, <1>e, EndLocal
<1>q. ASSUME NEW d \in Side, NEW ch, NEW cells, Send(ch, d, cells),
             UNCHANGED reading \/
               reading' = [reading EXCEPT ![d] = Stop(@, NewlyBlocked(d))],
             \A e \in Side, t \in Streams :
               /\ conn_deliver'[e][t] # conn_deliver[e][t] =>
                    e = d /\ state[e][t] # "none"
               /\ e # d => conn_deliver'[e] = conn_deliver[e],
             UNCHANGED <<circ_package, list, state, conn_package, inbuf, resume>>
      PROVE  LocalAll'
  <2>1. CASE UNCHANGED reading
    <3>1. reading' = [reading EXCEPT ![d] = reading[d]]
      BY <1>b, <2>1 DEF TypeOK
    <3>2. \A t \in Streams : reading[d][t] => reading[d][t] \/ blocked'[d]
      OBVIOUS
    <3> QED
      BY <1>b, <1>q, <3>1, <3>2, QuietLocal
  <2>2. CASE reading' = [reading EXCEPT ![d] = Stop(@, NewlyBlocked(d))]
    <3>1. PICK R : R = Stop(reading[d], NewlyBlocked(d))
      OBVIOUS
    <3>2. \A t : t \in NewlyBlocked(d) => blocked'[d]
      BY <1>b, <1>q, SendBlocks
    <3>3. \A t \in Streams : reading[d][t] => R[t] \/ blocked'[d]
      BY <3>1, <3>2 DEF Stop
    <3>4. reading' = [reading EXCEPT ![d] = R]
      BY <2>2, <3>1
    <3> QED
      BY <1>b, <1>q, <3>3, <3>4, QuietLocal
  <2> QED
    BY <1>q, <2>1, <2>2
<1>r. UNCHANGED conn_deliver =>
        \A d \in Side : \A e \in Side, t \in Streams :
          /\ conn_deliver'[e][t] # conn_deliver[e][t] =>
               e = d /\ state[e][t] # "none"
          /\ e # d => conn_deliver'[e] = conn_deliver[e]
  OBVIOUS
<1>1. ASSUME NEW s \in Streams, SendBegin(s) PROVE LocalAll'
  <2>1. UNCHANGED <<conn_package, conn_deliver>>
    BY <1>1, <1>a, BeginKeepsWindows DEF SendBegin
  <2>2. PICK J \in BOOLEAN : J = ~JustBlocked("op")
    <3>1. (~JustBlocked("op")) \in BOOLEAN
      OBVIOUS
    <3> QED
      BY <3>1
  <2>3. /\ Send(chan, "op", <<Cell("BEGIN", s)>>)
        /\ state["op"][s] \in {"none", "RESOLVING"}
        /\ state' = [state EXCEPT !["op"][s] = "CONNECT_WAIT"]
        /\ list' = [list EXCEPT !["op"] = <<s>> \o @]
        /\ UNCHANGED <<circ_package, inbuf, resume>>
    BY <1>1 DEF SendBegin
  <2>4. reading' = [reading EXCEPT !["op"] =
                      Stop([@ EXCEPT ![s] = J], NewlyBlocked("op"))]
    BY <1>1, <2>2 DEF SendBegin
  <2>5. ~J => blocked'["op"]
    BY <1>a, <1>b, <2>2, <2>3, SendBlocks
  <2>6. "CONNECT_WAIT" \in {"CONNECT_WAIT", "CONNECTING", "OPEN"}
    OBVIOUS
  <2> QED
    BY <1>a, <1>b, <2>1, <2>3, <2>4, <2>5, <2>6, BeginLocal
<1>2. ASSUME NEW s \in Streams, ExpireBeginning(s) PROVE LocalAll'
  BY <1>2, <1>a, <1>e DEF ExpireBeginning
<1>3. ASSUME NEW s \in Streams, Resolved(s) PROVE LocalAll'
  BY <1>3, <1>b, ExitConnectLocal DEF Resolved
<1>4. ASSUME NEW s \in Streams, FinishedConnecting(s) PROVE LocalAll'
  <2>1. PICK rd : rd = [reading["exit"] EXCEPT ![s] = TRUE]
    OBVIOUS
  <2>2. /\ rd \in [Streams -> BOOLEAN]
        /\ \A t \in Streams : reading["exit"][t] => rd[t]
    BY <1>a, <1>c, <2>1
  <2>3. /\ Idle("exit") /\ state["exit"][s] = "CONNECTING"
        /\ state' = [state EXCEPT !["exit"][s] = "OPEN"]
        /\ PackageRawInbuf(chan, "exit", s, <<Cell("CONNECTED", s)>>,
                           inbuf["exit"][s], rd)
        /\ UNCHANGED <<list, conn_deliver, resume>>
    BY <1>4, <2>1 DEF FinishedConnecting
  <2>4. inbuf["exit"][s] \in Nat
    BY <1>a, <1>b DEF TypeOK
  <2>5. /\ \A t \in Streams : t # s => state'["exit"][t] = state["exit"][t]
        /\ state'["exit"][s] = "OPEN" /\ Active("exit", s)
        /\ \A e \in Side : e # "exit" => state'[e] = state[e]
    BY <1>a, <1>b, <2>3 DEF TypeOK, Active
  <2>6. Resuming("exit") = {} /\ Resuming("exit")' = Resuming("exit")
    BY <2>3, IdleResuming DEF Resuming
  <2> QED
    BY <1>a, <1>b, <2>2, <2>3, <2>4, <2>5, <2>6, PackageLocal
<1>5. ASSUME NEW s \in Streams, FailedConnecting(s) PROVE LocalAll'
  BY <1>5, <1>a, <1>e DEF FailedConnecting
<1>6. ASSUME NEW s \in Streams, ReceiveBegin(s) PROVE LocalAll'
  <2>1. UNCHANGED <<conn_package, conn_deliver>>
    BY <1>6, <1>a, BeginKeepsWindows DEF ReceiveBegin
  <2>2. state["exit"][s] = "none" /\ UNCHANGED <<circ_package, inbuf, resume>>
    BY <1>6 DEF ReceiveBegin
  <2>3. CASE ExitConnect(Taken("exit"), s)
    BY <1>b, <2>1, <2>2, <2>3, ExitConnectLocal
  <2>4. CASE /\ state' = [state EXCEPT !["exit"][s] = "RESOLVING"]
             /\ Send(Taken("exit"), "exit", << >>)
             /\ UNCHANGED <<list, reading>>
    <3>1. /\ list' = [list EXCEPT !["exit"] = list["exit"]]
          /\ reading' = [reading EXCEPT !["exit"] = reading["exit"]]
          /\ state'["exit"][s] = "RESOLVING"
      BY <1>a, <1>b, <2>4 DEF TypeOK
    <3>2. Linked("exit")' = Linked("exit")
      BY <2>4 DEF Linked
    <3>3. /\ \A t \in Streams : t # s => (t \in Linked("exit")' <=>
                                          t \in Linked("exit"))
          /\ \A t \in Streams : t # s /\ reading["exit"][t] =>
                                  reading["exit"][t] \/ blocked'["exit"]
      BY <3>2
    <3>4. inbuf'["exit"][s] = 0
      BY <1>a, <1>b, <2>2 DEF LocalAll, Local, Fresh
    <3>5. Local("exit", s)'
      BY <3>1, <3>4 DEF Local, Fresh, OnLists, Awake, Drained, Active
    <3> QED
      BY <1>a, <1>b, <2>1, <2>2, <2>4, <3>1, <3>3, <3>5, OneStreamLocal
  <2> QED
    BY <1>6, <2>3, <2>4 DEF ReceiveBegin
<1>7. ASSUME NEW s \in Streams, ReceiveConnected(s) PROVE LocalAll'
  <2>1. /\ Idle("op") /\ state["op"][s] = "CONNECT_WAIT"
        /\ state' = [state EXCEPT !["op"][s] = "OPEN"]
        /\ PackageRawInbuf(Taken("op"), "op", s, << >>, inbuf["op"][s],
                           reading["op"])
        /\ UNCHANGED <<list, conn_deliver, resume>>
    BY <1>7 DEF ReceiveConnected, Arrives
  <2>2. inbuf["op"][s] \in Nat
    BY <1>a, <1>b DEF TypeOK
  <2>3. /\ \A t \in Streams : t # s => state'["op"][t] = state["op"][t]
        /\ state'["op"][s] = "OPEN" /\ Active("op", s)
        /\ \A e \in Side : e # "op" => state'[e] = state[e]
    BY <1>a, <1>b, <2>1 DEF TypeOK, Active
  <2>4. Resuming("op") = {} /\ Resuming("op")' = Resuming("op")
    BY <2>1, IdleResuming DEF Resuming
  <2> QED
    BY <1>a, <1>b, <1>c, <2>1, <2>2, <2>3, <2>4, PackageLocal
<1>8. ASSUME NEW s \in Streams, ReceiveBadConnected(s) PROVE LocalAll'
  BY <1>8, <1>a, <1>e DEF ReceiveBadConnected
<1>9. ASSUME NEW s \in Streams, ReceiveStrayConnected(s) PROVE LocalAll'
  BY <1>9, <1>a, <1>q, <1>r DEF ReceiveStrayConnected
<1>10. ASSUME NEW d \in Side, NEW s \in Streams, HandleRead(d, s)
       PROVE  LocalAll'
  <2>1. PICK k \in 1..source[d][s] :
          \/ /\ state[d][s] = "OPEN"
             /\ PackageRawInbuf(chan, d, s, << >>, inbuf[d][s] + k, reading[d])
          \/ /\ state[d][s] \in {"CONNECT_WAIT", "CONNECTING"}
             /\ inbuf' = [inbuf EXCEPT ![d][s] = @ + k]
             /\ UNCHANGED <<queueVars, circ_package, conn_package, reading>>
    BY <1>10 DEF HandleRead
  <2>2. inbuf[d][s] + k \in Nat /\ inbuf \in [Side -> [Streams -> Nat]]
    BY <1>b DEF TypeOK
  <2>3. Idle(d) /\ UNCHANGED <<list, state, conn_deliver, resume>>
    BY <1>10 DEF HandleRead
  <2>4. Resuming(d) = {} /\ Resuming(d)' = Resuming(d)
    BY <2>3, IdleResuming DEF Resuming
  <2>5. CASE /\ state[d][s] = "OPEN"
             /\ PackageRawInbuf(chan, d, s, << >>, inbuf[d][s] + k, reading[d])
    <3>1. PICK pending \in Nat : pending = inbuf[d][s] + k
      BY <2>2
    <3>2. PackageRawInbuf(chan, d, s, << >>, pending, reading[d])
      BY <2>5, <3>1
    <3>3. /\ \A t \in Streams : reading[d][t] => reading[d][t]
          /\ \A t \in Streams : t # s => state'[d][t] = state[d][t]
          /\ state'[d][s] = state[d][s] /\ state[d][s] # "none"
          /\ state[d][s] = "RESOLVING" => pending = 0
          /\ \A e \in Side : e # d => /\ state'[e] = state[e]
                                      /\ resume'[e] = resume[e]
      BY <2>3, <2>5
    <3> QED
      BY <1>b, <1>c, <2>3, <2>4, <3>2, <3>3, PackageLocal
  <2>6. CASE /\ state[d][s] \in {"CONNECT_WAIT", "CONNECTING"}
             /\ inbuf' = [inbuf EXCEPT ![d][s] = @ + k]
             /\ UNCHANGED <<queueVars, circ_package, conn_package, reading>>
    <3>1. \A e \in Side : e # d => Still(e)
      BY <2>2, <2>3, <2>6 DEF Still
    <3>2. Linked(d)' = Linked(d)
      BY <2>3 DEF Linked
    <3>3. ASSUME NEW t \in Streams PROVE Local(d, t)'
      <4>1. Local(d, t)
        BY <1>b DEF LocalAll
      <4>2. CASE t = s
        <5>1. /\ state'[d][s] = state[d][s]
              /\ state[d][s] \in {"CONNECT_WAIT", "CONNECTING"}
          BY <2>3, <2>6
        <5>2. Fresh(d, s)' /\ Drained(d, s)'
          BY <5>1 DEF Fresh, Drained
        <5>3. OnLists(d, s)'
          BY <2>4, <3>2, <4>1, <4>2, <5>1 DEF Local, OnLists, Active
        <5>4. Awake(d, s)'
          BY <2>4, <2>6, <4>1, <4>2, <5>1 DEF Local, Awake, Active
        <5> QED
          BY <4>2, <5>2, <5>3, <5>4 DEF Local
      <4>3. CASE t # s
        <5>1. inbuf'[d][t] = inbuf[d][t]
          BY <2>2, <2>6, <4>3
        <5>2. Held(d, t) /\ Paused(d, t) /\ circ_package'[d] = circ_package[d]
          BY <2>3, <2>6, <3>2, <5>1 DEF Held, Paused
        <5> QED
          BY <2>4, <4>1, <5>2, HeldLocal
      <4> QED
        BY <4>2, <4>3
    <3> QED
      BY <1>b, <3>1, <3>3, LocalSides
  <2> QED
    BY <2>1, <2>5, <2>6
<1>11. ASSUME NEW d \in Side, NEW s \in Streams, ReachedEof(d, s)
       PROVE  LocalAll'
  BY <1>11, <1>e DEF ReachedEof
<1>12. ASSUME NEW d \in Side, NEW s \in Streams, SocketError(d, s)
       PROVE  LocalAll'
  BY <1>12, <1>e DEF SocketError
<1>13. ASSUME NEW d \in Side, NEW s \in Streams, HandleWrite(d, s)
       PROVE  LocalAll'
  <2>1. PICK n, cells :
          /\ conn_deliver' = [conn_deliver EXCEPT ![d][s] = n]
          /\ Send(chan, d, cells)
          /\ reading' = [reading EXCEPT ![d] = Stop(@, NewlyBlocked(d))]
    BY <1>13 DEF HandleWrite
  <2>2. /\ state[d][s] = "OPEN"
        /\ UNCHANGED <<circ_package, list, state, conn_package, inbuf, resume>>
    BY <1>13 DEF HandleWrite
  <2>3. \A e \in Side, t \in Streams :
          /\ conn_deliver'[e][t] # conn_deliver[e][t] =>
               e = d /\ state[e][t] # "none"
          /\ e # d => conn_deliver'[e] = conn_deliver[e]
    BY <1>b, <2>1, <2>2 DEF TypeOK
  <2> QED
    BY <1>q, <2>1, <2>2, <2>3
<1>14. ASSUME NEW d \in Side, NEW s \in Streams, ReceiveNotOpen(d, s)
       PROVE  LocalAll'
  BY <1>14, <1>q, <1>r DEF ReceiveNotOpen
<1>15. ASSUME NEW d \in Side, NEW s \in Streams, ReceiveData(d, s)
       PROVE  LocalAll'
  <2>1. PICK a \in Nat, b \in Nat, x \in {0, 1} :
          /\ Send(Taken(d), d, Copies(a, Cell("SENDME", 0)) \o
                               Copies(b, Cell("SENDME", s)))
          /\ conn_deliver' = [conn_deliver EXCEPT ![d][s] =
                                conn_deliver[d][s] - x
                                + STREAMWINDOW_INCREMENT * b]
          /\ state[d][s] # "OPEN" => x = 0 /\ b = 0
    BY <1>15, DataEffect
  <2>2. /\ reading' = [reading EXCEPT ![d] = Stop(@, NewlyBlocked(d))]
        /\ UNCHANGED <<circ_package, list, state, conn_package, inbuf, resume>>
    BY <1>15 DEF ReceiveData
  <2>3. state[d][s] = "none" => conn_deliver' = conn_deliver
    <3>1. /\ conn_deliver \in [Side -> [Streams -> Int]]
          /\ STREAMWINDOW_INCREMENT * 0 = 0
      BY <1>b, WindowAssumption DEF TypeOK
    <3>2. state[d][s] = "none" => x = 0 /\ b = 0
      BY <2>1
    <3>3. state[d][s] = "none" =>
            conn_deliver[d][s] - x + STREAMWINDOW_INCREMENT * b =
              conn_deliver[d][s]
      BY <3>1, <3>2
    <3> QED
      BY <2>1, <3>1, <3>3
  <2>4. PICK v : conn_deliver' = [conn_deliver EXCEPT ![d][s] = v]
    BY <2>1
  <2>5. \A e \in Side, t \in Streams :
          /\ conn_deliver'[e][t] # conn_deliver[e][t] =>
               e = d /\ state[e][t] # "none"
          /\ e # d => conn_deliver'[e] = conn_deliver[e]
    BY <1>b, <2>3, <2>4 DEF TypeOK
  <2> QED
    BY <1>q, <2>1, <2>2, <2>5
<1>16. ASSUME NEW d \in Side, NEW s \in Streams, ReceiveEnd(d, s)
       PROVE  LocalAll'
  <2>1. /\ Send(Taken(d), d, << >>)
        /\ UNCHANGED <<circ_package, conn_package, conn_deliver, inbuf, resume>>
    BY <1>16 DEF ReceiveEnd
  <2>2. CASE Attached(d, s)
    <3>1. CloseConn(d, s) /\ reading' = [reading EXCEPT ![d][s] = FALSE]
      BY <1>16, <2>2 DEF ReceiveEnd
    <3>2. PICK R : R = [reading[d] EXCEPT ![s] = FALSE]
      OBVIOUS
    <3>3. /\ reading' = [reading EXCEPT ![d] = R]
          /\ \A t \in Streams : t # s /\ reading[d][t] => R[t] \/ blocked'[d]
      BY <1>c, <3>1, <3>2
    <3> QED
      BY <1>b, <2>1, <3>1, <3>3, CloseLocal
  <2>3. CASE ~Attached(d, s)
    BY <1>16, <1>q, <1>r, <2>1, <2>3 DEF ReceiveEnd
  <2> QED
    BY <2>2, <2>3
<1>17. ASSUME NEW d \in Side, NEW s \in Streams, ReceiveConnSendme(d, s)
       PROVE  LocalAll'
  <2>1. /\ Idle(d) /\ state[d][s] = "OPEN" /\ Send(Taken(d), d, << >>)
        /\ conn_package' = [conn_package EXCEPT ![d][s] =
                              @ + STREAMWINDOW_INCREMENT]
        /\ resume' = [resume EXCEPT ![d] = <<s>>]
        /\ UNCHANGED <<circ_package, list, state, conn_deliver, inbuf, reading>>
    BY <1>17 DEF ReceiveConnSendme, Arrives
  <2>2. /\ blocked[d] => blocked'[d]
        /\ \A e \in Side : e # d => blocked'[e] = blocked[e]
    BY <1>b, <2>1, SendBlocks
  <2>3. /\ resume \in [Side -> Seq(Streams)]
        /\ conn_package \in [Side -> [Streams -> Nat]]
    BY <1>b DEF TypeOK
  <2>4. \A e \in Side : e # d => Still(e)
    BY <2>1, <2>2, <2>3 DEF Still
  <2>5. Resuming(d) = {} /\ Resuming(d)' = {s} /\ Linked(d)' = Linked(d)
    <3>1. resume'[d] = <<s>>
      BY <2>1, <2>3
    <3>2. Resuming(d)' = {s}
      BY <3>1 DEF Resuming
    <3> QED
      BY <2>1, <3>2, IdleResuming DEF Linked
  <2>6. ASSUME NEW t \in Streams PROVE Local(d, t)'
    <3>1. Fresh(d, t) /\ OnLists(d, t) /\ Awake(d, t) /\ Drained(d, t)
      BY <1>b DEF LocalAll, Local
    <3>2. CASE t = s
      <4>1. state'[d][s] = "OPEN" /\ s \in Linked(d)' /\ s \in Resuming(d)'
        BY <2>1, <2>5, <3>1, <3>2 DEF OnLists, Active
      <4> QED
        BY <3>2, <4>1 DEF Local, Fresh, OnLists, Awake, Drained, Active
    <3>3. CASE t # s
      <4>1. conn_package'[d][t] = conn_package[d][t]
        BY <2>1, <2>3, <3>3
      <4>2. Fresh(d, t)'
        BY <2>1, <3>1, <4>1 DEF Fresh
      <4>3. OnLists(d, t)'
        BY <2>1, <2>5, <3>1, <3>3 DEF OnLists, Active
      <4>4. Awake(d, t)'
        BY <2>1, <2>2, <2>5, <3>1, <4>1 DEF Awake, Active
      <4>5. Drained(d, t)'
        BY <2>1, <2>5, <3>1, <4>1 DEF Drained
      <4> QED
        BY <4>2, <4>3, <4>4, <4>5 DEF Local
    <3> QED
      BY <3>2, <3>3
  <2> QED
    BY <1>b, <2>4, <2>6, LocalSides
<1>18. ASSUME NEW d \in Side, NEW sid \in Streams \cup {0},
              ReceiveCircSendme(d, sid)
       PROVE  LocalAll'
  <2>1. /\ Idle(d) /\ Send(Taken(d), d, << >>)
        /\ circ_package' = [circ_package EXCEPT ![d] = @ + CIRCWINDOW_INCREMENT]
        /\ resume' = [resume EXCEPT ![d] = list[d]]
        /\ UNCHANGED <<list, state, conn_package, conn_deliver, inbuf, reading>>
    BY <1>18 DEF ReceiveCircSendme, Arrives
  <2>2. \A e \in Side : e # d => blocked'[e] = blocked[e]
    BY <1>b, <2>1, SendBlocks
  <2>3. /\ resume \in [Side -> Seq(Streams)] /\ circ_package \in [Side -> Nat]
    BY <1>b DEF TypeOK
  <2>4. \A e \in Side : e # d => Still(e)
    BY <2>1, <2>2, <2>3 DEF Still
  <2>5. Resuming(d)' = Linked(d) /\ Linked(d)' = Linked(d)
    <3>1. resume'[d] = list[d] /\ list' = list
      BY <2>1, <2>3
    <3> QED
      BY <3>1 DEF Linked, Resuming
  <2>6. ASSUME NEW t \in Streams PROVE Local(d, t)'
    <3>1. Fresh(d, t) /\ OnLists(d, t)
      BY <1>b DEF LocalAll, Local
    <3>2. Fresh(d, t)'
      BY <2>1, <3>1 DEF Fresh
    <3>3. OnLists(d, t)'
      BY <2>1, <2>5, <3>1 DEF OnLists, Active
    <3>4. Awake(d, t)'
      BY <2>1, <2>5, <3>1 DEF OnLists, Awake, Active
    <3>5. Drained(d, t)'
      BY <2>1, <2>5, <3>1 DEF OnLists, Drained, Active
    <3> QED
      BY <3>2, <3>3, <3>4, <3>5 DEF Local
  <2> QED
    BY <1>b, <2>4, <2>6, LocalSides
<1>19. ASSUME NEW d \in Side, FlushCell(d) PROVE LocalAll'
  <2>1. /\ blocked' = [blocked EXCEPT ![d] = @ /\ ~Unblocks(d)]
        /\ reading' = [reading EXCEPT ![d] =
             [s \in Streams |-> @[s] \/ (Unblocks(d) /\ s \in Linked(d))]]
        /\ UNCHANGED <<circ_package, list, state, conn_package, conn_deliver,
                       inbuf, resume>>
    BY <1>19 DEF FlushCell
  <2>2. blocked \in [Side -> BOOLEAN] /\ reading \in [Side -> [Streams -> BOOLEAN]]
    BY <1>b DEF TypeOK
  <2>3. \A e \in Side : e # d => Still(e)
    BY <2>1, <2>2 DEF Still
  <2>4. Linked(d)' = Linked(d) /\ Resuming(d)' = Resuming(d)
    BY <2>1 DEF Linked, Resuming
  <2>5. ASSUME NEW t \in Streams PROVE Local(d, t)'
    <3>1. Fresh(d, t) /\ OnLists(d, t) /\ Awake(d, t) /\ Drained(d, t)
      BY <1>b DEF LocalAll, Local
    <3>2. /\ blocked'[d] <=> blocked[d] /\ ~Unblocks(d)
          /\ reading'[d][t] <=> reading[d][t] \/ (Unblocks(d) /\ t \in Linked(d))
      BY <2>1, <2>2
    <3>3. Fresh(d, t)'
      BY <2>1, <3>1 DEF Fresh
    <3>4. OnLists(d, t)'
      BY <2>1, <2>4, <3>1 DEF OnLists, Active
    <3>5. Awake(d, t)'
      BY <2>1, <2>4, <3>1, <3>2 DEF OnLists, Awake, Active
    <3>6. Drained(d, t)'
      BY <2>1, <2>4, <3>1 DEF Drained
    <3> QED
      BY <3>3, <3>4, <3>5, <3>6 DEF Local
  <2> QED
    BY <1>b, <2>3, <2>5, LocalSides
<1>20. ASSUME NEW d \in Side, ResumeReading(d) PROVE LocalAll'
  <2> DEFINE s == Head(resume[d])
  <2>1. /\ resume \in [Side -> Seq(Streams)]
        /\ resume[d] \in Seq(Streams) /\ resume[d] # << >>
    BY <1>20, <1>b DEF ResumeReading, TypeOK
  <2>2. s \in Streams /\ Resuming(d) =
          {s} \cup {Tail(resume[d])[i] : i \in DOMAIN Tail(resume[d])}
    <3>1. PICK q \in Seq(Streams) : q = resume[d] /\ q # << >>
      BY <2>1
    <3>2. /\ Head(q) \in Streams
          /\ {q[i] : i \in DOMAIN q} =
               {Head(q)} \cup {Tail(q)[i] : i \in DOMAIN Tail(q)}
      BY <3>1, HeadTailProperties, StreamsOf
    <3> QED
      BY <3>1, <3>2 DEF Resuming
  <2>3. UNCHANGED <<list, state, conn_deliver>>
    BY <1>20 DEF ResumeReading
  <2>4. /\ state[d][s] # "none" /\ inbuf[d][s] \in Nat
        /\ state[d][s] = "RESOLVING" => inbuf[d][s] = 0
    <3>1. Fresh(d, s) /\ OnLists(d, s)
      BY <1>b, <2>2 DEF LocalAll, Local
    <3>2. state[d][s] # "none"
      BY <2>2, <3>1 DEF OnLists
    <3>3. state[d][s] = "RESOLVING" => inbuf[d][s] = 0
      BY <3>1 DEF Fresh
    <3>4. inbuf[d][s] \in Nat
      BY <1>b, <2>2 DEF TypeOK
    <3> QED
      BY <3>2, <3>3, <3>4
  <2>5. CASE conn_package[d][s] > 0
    <3>1. PICK rd : rd = [reading[d] EXCEPT ![s] = TRUE]
      OBVIOUS
    <3>2. /\ PackageRawInbuf(chan, d, s, << >>, inbuf[d][s], rd)
          /\ resume' = [resume EXCEPT ![d] = IF circ_package'[d] <= 0 THEN << >>
                                             ELSE Tail(@)]
      BY <1>20, <2>5, <3>1 DEF ResumeReading
    <3>3. /\ rd \in [Streams -> BOOLEAN] /\ rd[s]
          /\ \A t \in Streams : reading[d][t] => rd[t]
      BY <1>c, <2>2, <3>1
    <3>4. circ_package'[d] \in Nat
      <4>1. TypeOK'
        BY <1>b, TypeStep
      <4> QED
        BY <4>1 DEF TypeOK
    <3> HIDE DEF s
    <3>5. /\ circ_package'[d] <= 0 => circ_package'[d] = 0 /\ Resuming(d)' = {}
          /\ ~(circ_package'[d] <= 0) =>
               Resuming(d)' = {Tail(resume[d])[i] : i \in DOMAIN Tail(resume[d])}
      <4>1. circ_package'[d] <= 0 => circ_package'[d] = 0
        BY <3>4
      <4>2. circ_package'[d] <= 0 => resume'[d] = << >>
        BY <2>1, <3>2
      <4>3. ~(circ_package'[d] <= 0) => resume'[d] = Tail(resume[d])
        BY <2>1, <3>2
      <4>4. resume'[d] = << >> => Resuming(d)' = {}
        BY DEF Resuming
      <4>5. resume'[d] = Tail(resume[d]) =>
              Resuming(d)' =
                {Tail(resume[d])[i] : i \in DOMAIN Tail(resume[d])}
        BY DEF Resuming
      <4> QED
        BY <4>1, <4>2, <4>3, <4>4, <4>5
    <3>6. /\ Resuming(d)' \subseteq Resuming(d)
          /\ \A t \in Resuming(d) :
               (t = s /\ rd[t]) \/ t \in Resuming(d)' \/ circ_package'[d] = 0
      BY <2>2, <3>3, <3>5
    <3>7. /\ \A t \in Streams : t # s => state'[d][t] = state[d][t]
          /\ state'[d][s] = state[d][s]
          /\ \A e \in Side : e # d => /\ state'[e] = state[e]
                                      /\ resume'[e] = resume[e]
      BY <2>1, <2>3, <3>2
    <3>8. PICK pending \in Nat : pending = inbuf[d][s]
      BY <2>4
    <3>9. /\ PackageRawInbuf(chan, d, s, << >>, pending, rd)
          /\ state[d][s] = "RESOLVING" => pending = 0
      BY <2>4, <3>2, <3>8
    <3> QED
      BY <1>b, <2>2, <2>3, <2>4, <3>3, <3>6, <3>7, <3>9, PackageLocal
  <2>6. CASE ~(conn_package[d][s] > 0)
    <3>1. /\ resume' = [resume EXCEPT ![d] = Tail(@)]
          /\ UNCHANGED <<queueVars, circ_package, conn_package, inbuf, reading>>
      BY <1>20, <2>6 DEF ResumeReading
    <3>2. \A e \in Side : e # d => Still(e)
      BY <2>1, <2>3, <3>1 DEF Still
    <3>3. conn_package[d][s] = 0
      <4>1. conn_package[d][s] \in Nat
        BY <1>b, <2>2 DEF TypeOK
      <4> QED
        BY <2>6, <4>1
    <3> HIDE DEF s
    <3>4. /\ Resuming(d)' \subseteq Resuming(d) /\ Linked(d)' = Linked(d)
          /\ \A t \in Resuming(d) : t = s \/ t \in Resuming(d)'
      <4>1. resume'[d] = Tail(resume[d])
        BY <2>1, <3>1
      <4>2. Resuming(d)' =
              {Tail(resume[d])[i] : i \in DOMAIN Tail(resume[d])}
        BY <4>1 DEF Resuming
      <4> QED
        BY <2>2, <2>3, <4>2 DEF Linked
    <3>5. ASSUME NEW t \in Streams PROVE Local(d, t)'
      <4>1. Fresh(d, t) /\ OnLists(d, t) /\ Awake(d, t) /\ Drained(d, t)
        BY <1>b DEF LocalAll, Local
      <4>2. Fresh(d, t)'
        BY <2>3, <3>1, <4>1 DEF Fresh
      <4>3. OnLists(d, t)'
        BY <2>3, <3>4, <4>1 DEF OnLists, Active
      <4>4. Awake(d, t)'
        BY <2>3, <3>1, <3>3, <3>4, <4>1 DEF Awake, Active
      <4>5. Drained(d, t)'
        BY <2>3, <3>1, <3>3, <3>4, <4>1 DEF Drained
      <4> QED
        BY <4>2, <4>3, <4>4, <4>5 DEF Local
    <3> QED
      BY <1>b, <3>2, <3>5, LocalSides
  <2> QED
    BY <2>5, <2>6
<1>21. ASSUME UNCHANGED vars PROVE LocalAll'
  <2>1. \A e \in Side : Still(e)
    BY <1>21 DEF vars, Still
  <2> QED
    BY <1>b, <2>1, StillLocal DEF LocalAll
<1>22. ASSUME Next PROVE LocalAll'
  BY <1>1, <1>2, <1>3, <1>4, <1>5, <1>6, <1>7, <1>8, <1>9, <1>10, <1>11, <1>12,
     <1>13, <1>14, <1>15, <1>16, <1>17, <1>18, <1>19, <1>20, <1>22 DEF Next
<1> QED
  BY <1>21, <1>22

----------------------------------------------------------------------------
(* The theorems.                                                           *)

\* Flow holds initially.
LEMMA FlowInit ==
  ASSUME Init
  PROVE  Flow
<1>1. TypeOK /\ alive
  BY StreamsAssumption, WindowAssumption
     DEF Init, TypeOK, Side, Supply, States, NotOpen
<1>2. ASSUME NEW d \in Side, NEW s \in Streams PROVE Local(d, s)
  <2>1. /\ state[d][s] = "none" /\ list[d] = << >> /\ resume[d] = << >>
        /\ conn_package[d][s] = STREAMWINDOW_START
        /\ conn_deliver[d][s] = STREAMWINDOW_START /\ inbuf[d][s] = 0
    BY DEF Init
  <2>2. Linked(d) = {} /\ Resuming(d) = {}
    BY <2>1 DEF Linked, Resuming
  <2> QED
    BY <2>1, <2>2 DEF Local, Fresh, OnLists, Awake, Drained, Active
<1>3. \A d \in Side : chan[d] = << >> /\ \A C : CountIn(chan[d], C) = 0
  <2>1. \A d \in Side : chan[d] = << >>
    BY DEF Init
  <2> QED
    BY <2>1, CountSmall
<1>4. ASSUME NEW d \in Side, NEW s \in Streams PROVE Covered(d, s)
  <2>1. Peer(d) \in Side
    BY <1>1, LedgerTypes
  <2>2. /\ CountIn(chan[Peer(d)], {Cell("DATA", s)}) = 0
        /\ CountIn(chan[d], {Cell("SENDME", s)}) = 0
    BY <1>3, <2>1
  <2>3. /\ conn_deliver[d][s] = STREAMWINDOW_START
        /\ conn_package[Peer(d)][s] = STREAMWINDOW_START
    BY <2>1 DEF Init
  <2>4. STREAMWINDOW_START \in Nat /\ STREAMWINDOW_INCREMENT * 0 = 0
    BY WindowAssumption
  <2> QED
    BY <2>2, <2>3, <2>4 DEF Covered
<1>5. \A d \in Side : Replenished(d)
  BY WindowAssumption DEF Init, Replenished
<1>6. ASSUME NEW s \in Streams PROVE OneConnected(s)
  <2>1. /\ CountIn(chan["exit"], {Cell("CONNECTED", s)}) = 0
        /\ state["op"][s] = "none"
    BY <1>3 DEF Init, Side
  <2> QED
    BY <2>1 DEF OneConnected
<1> QED
  BY <1>1, <1>2, <1>4, <1>5, <1>6 DEF Flow

\* Flow is preserved by every step.
LEMMA FlowStep ==
  ASSUME Flow, [Next]_vars
  PROVE  Flow'
<1>1. TypeOK'
  BY TypeStep DEF Flow
<1>2. \A e \in Side, t \in Streams : Covered(e, t)'
  BY CoveredStep
<1>3. \A t \in Streams : OneConnected(t)'
  BY OneConnectedStep
<1>4. alive' /\ \A e \in Side : Replenished(e)'
  BY AliveStep
<1>5. \A e \in Side, t \in Streams : Local(e, t)'
  BY LocalStep DEF LocalAll
<1> QED
  BY <1>1, <1>2, <1>3, <1>4, <1>5 DEF Flow

\* Flow is an invariant.
THEOREM FlowHolds == Spec => []Flow
<1>1. Init => Flow
  BY FlowInit
<1>2. Flow /\ [Next]_vars => Flow'
  BY FlowStep
<1> QED
  BY <1>1, <1>2, PTL DEF Spec

\* connection_edge_process_relay_cell and package_raw_inbuf: the deliver window
\* of a live stream covers everything its peer may still send, whatever the
\* window sizes and the interleaving of DATA, SENDME and END.
THEOREM StreamLedgerHolds == Spec => []StreamLedger
<1>1. Flow => StreamLedger
  BY DEF Flow, Covered, StreamLedger
<1> QED
  BY <1>1, FlowHolds, PTL

\* Two honest sides never tear a circuit down: no deliver window falls below
\* zero and no CONNECTED reaches an open stream.
THEOREM NeverKilled == Spec => []NoProtocolKill
<1>1. Flow => NoProtocolKill
  BY DEF Flow, NoProtocolKill
<1> QED
  BY <1>1, FlowHolds, PTL

\* connection_stop_reading leaves no open stream waiting for an event that will
\* not come.
THEOREM ReadersWake == Spec => []NoStuckReader
<1>1. Flow => NoStuckReader
  <2> SUFFICES ASSUME Flow, NEW d \in Side, NEW s \in Streams,
                      Idle(d), state[d][s] = "OPEN", ~reading[d][s]
               PROVE  circ_package[d] = 0 \/ conn_package[d][s] = 0 \/ blocked[d]
    BY DEF NoStuckReader
  <2>1. Awake(d, s) /\ Resuming(d) = {}
    BY IdleResuming DEF Flow, Local
  <2> QED
    BY <2>1 DEF Awake, Active
<1> QED
  BY <1>1, FlowHolds, PTL

\* connection_edge_package_raw_inbuf leaves nothing on an inbuf while both
\* windows have room.
THEOREM InbufsDrain == Spec => []NoStuckInbuf
<1>1. Flow => NoStuckInbuf
  <2> SUFFICES ASSUME Flow, NEW d \in Side, NEW s \in Streams,
                      Idle(d), state[d][s] = "OPEN", inbuf[d][s] > 0
               PROVE  circ_package[d] = 0 \/ conn_package[d][s] = 0
    BY DEF NoStuckInbuf
  <2>1. Drained(d, s) /\ Resuming(d) = {}
    BY IdleResuming DEF Flow, Local
  <2> QED
    BY <2>1 DEF Drained
<1> QED
  BY <1>1, FlowHolds, PTL
=============================================================================
