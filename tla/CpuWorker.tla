----------------------------- MODULE CpuWorker -----------------------------
(***************************************************************************)
(* The CPU workers of a relay and the circuits that wait for them.  A      *)
(* CREATE cell makes a circuit whose onionskin is given to an idle worker, *)
(* or queued (ol_list) when all workers are busy; the answer comes back    *)
(* later, tagged with the connection and circuit id the circuit had then.  *)
(* Meanwhile the circuit may be destroyed, its connection may close, the   *)
(* worker may die or be given up, and the onion keys may be rotated.       *)
(*                                                                         *)
(* job[w] is the circuit worker w was asked about; the main process only   *)
(* knows its tag, TagOf[job[w]].  A circuit is created at most once.       *)
(***************************************************************************)
EXTENDS Integers, Sequences, FiniteSets, Queues

CONSTANTS
  Circuits, Conns,
  TagOf,               \* the connection and circuit id of a circuit
  Workers,             \* places for worker connections
  NumCpus,             \* num_cpuworkers_needed
  MaxOnionsPending,
  NoCirc

ASSUME CpuWorkerAssumption ==
  /\ IsFiniteSet(Workers) /\ NoCirc \notin Circuits
  /\ TagOf \in [Circuits -> Conns \X Nat]
  /\ NumCpus \in Nat \ {0} /\ MaxOnionsPending \in Nat

VARIABLES
  up,                  \* OR connections: "open", "marked", "closed"
  state,               \* circuits: "none", "pending", "open", "marked", "freed"
  linked,              \* is the circuit's p_conn set (and in the circid map)?
  ol_list,             \* circuits waiting for a worker
  worker,              \* "none", "idle", "busy", or "closing" once marked
  job, reply,          \* what a worker was asked, and its unread answer
  old,                 \* timestamp_created < last_rotation_time
  num_cpuworkers, num_cpuworkers_busy,
  crashed              \* a tor_assert has failed

vars == <<up, state, linked, ol_list, worker, job, reply, old,
          num_cpuworkers, num_cpuworkers_busy, crashed>>

TypeOK ==
  /\ up \in [Conns -> {"open", "marked", "closed"}]
  /\ state \in [Circuits -> {"none", "pending", "open", "marked", "freed"}]
  /\ linked \in [Circuits -> BOOLEAN]
  /\ ol_list \in Seq(Circuits)
  /\ worker \in [Workers -> {"none", "idle", "busy", "closing"}]
  /\ job \in [Workers -> Circuits \cup {NoCirc}]
  /\ reply \in [Workers -> {"none", "ok", "bad"}]
  /\ old \in [Workers -> BOOLEAN]
  /\ num_cpuworkers \in Nat /\ num_cpuworkers_busy \in Nat
  /\ crashed \in BOOLEAN

\* cpu_init: the first workers are spawned; spawning may fail.
Init ==
  /\ up = [o \in Conns |-> "open"]
  /\ state = [c \in Circuits |-> "none"]
  /\ linked = [c \in Circuits |-> FALSE]
  /\ ol_list = << >>
  /\ \E S \in SUBSET Workers :
       /\ Cardinality(S) <= NumCpus
       /\ worker = [w \in Workers |-> IF w \in S THEN "idle" ELSE "none"]
       /\ num_cpuworkers = Cardinality(S)
  /\ job = [w \in Workers |-> NoCirc]
  /\ reply = [w \in Workers |-> "none"]
  /\ old = [w \in Workers |-> FALSE]
  /\ num_cpuworkers_busy = 0
  /\ crashed = FALSE

----------------------------------------------------------------------------
(* The functions of cpuworker.c and onion.c, from a state T to the set of  *)
(* states they may leave.                                                  *)

Current ==
  [state |-> state, linked |-> linked, ol_list |-> ol_list, worker |-> worker,
   job |-> job, reply |-> reply, old |-> old, num |-> num_cpuworkers,
   busy |-> num_cpuworkers_busy, crashed |-> crashed]

Become(T) ==
  /\ state' = T.state /\ linked' = T.linked /\ ol_list' = T.ol_list
  /\ worker' = T.worker /\ job' = T.job /\ reply' = T.reply /\ old' = T.old
  /\ num_cpuworkers' = T.num /\ num_cpuworkers_busy' = T.busy
  /\ crashed' = T.crashed

In(T, s) == {w \in Workers : T.worker[w] = s}
SetAll(f, S, v) == [x \in DOMAIN f |-> IF x \in S THEN v ELSE f[x]]
Without(q, c) == Keep(q, Circuits \ {c})

\* Mutant of MarkForClose: the circuit stays on ol_list.
MarkKeepsQueued(T, c) == [T EXCEPT !.state[c] = "marked"]

\* _circuit_mark_for_close: a pending circuit leaves ol_list.
MarkForClose(T, c) ==
  [T EXCEPT !.state[c] = "marked",
            !.ol_list = IF T.state[c] = "pending" THEN Without(@, c) ELSE @]

\* Mutant of Culls: the culled workers go on counting as busy.
CullsStillBusy(T) ==
  {[T EXCEPT !.worker = SetAll(@, S, "closing"), !.num = @ - Cardinality(S)]
     : S \in SUBSET In(T, "busy")}

\* Mutant of Culls: the culled workers are not marked for close.
CullsUnmarked(T) ==
  {[T EXCEPT !.num = @ - Cardinality(S), !.busy = @ - Cardinality(S)]
     : S \in SUBSET In(T, "busy")}

\* cull_wedged_cpuworkers: any of the busy ones may have been so for too long.
Culls(T) ==
  {[T EXCEPT !.worker = SetAll(@, S, "closing"), !.num = @ - Cardinality(S),
             !.busy = @ - Cardinality(S)] : S \in SUBSET In(T, "busy")}

\* spawn_enough_cpuworkers, which gives up when a spawn fails.
Spawns(T) ==
  {[T EXCEPT !.worker = SetAll(@, S, "idle"), !.num = @ + Cardinality(S),
             !.old = SetAll(@, S, FALSE)]
     : S \in {S \in SUBSET In(T, "none") :
                S = {} \/ T.num + Cardinality(S) <= NumCpus}}

\* onion_pending_add: refused by a full list; the oldest requests, if too old,
\* are given up.
PendingAdd(T, c) ==
  LET n == Len(T.ol_list)
      tooOld(k) == {T.ol_list[i] : i \in 1..k}
  IN  CASE n = 0 -> {[T EXCEPT !.ol_list = <<c>>]}
        [] n > 0 /\ n >= MaxOnionsPending -> {}
        [] OTHER ->
             {[T EXCEPT !.ol_list = SubSeq(@, k + 1, n) \o <<c>>,
                        !.state = SetAll(@, tooOld(k), "marked")] : k \in 0..n}

\* assign_onionskin_to_cpuworker(w, c): w is one of W, or any idle worker when W
\* is empty.  A result that is not ok is the error return.
Assigns(T0, W, c) ==
  LET give(T, w) == [T EXCEPT !.worker[w] = "busy", !.job[w] = c,
                              !.busy = @ + 1]
      queue(T) == IF PendingAdd(T, c) = {} THEN {[ok |-> FALSE, T |-> T]}
                  ELSE {[ok |-> TRUE, T |-> U] : U \in PendingAdd(T, c)}
      idle(T) == IF W = {} THEN In(T, "idle") ELSE W
      result(T) ==
        CASE T.busy = T.num -> queue(T)
          [] T.busy # T.num /\ idle(T) = {} ->
               {[ok |-> TRUE, T |-> [T EXCEPT !.crashed = TRUE]]}
          [] T.busy # T.num /\ idle(T) # {} /\ ~T.linked[c] ->
               {[ok |-> FALSE, T |-> T]}
          [] OTHER -> {[ok |-> TRUE, T |-> give(T, w)] : w \in idle(T)}
  IN  UNION {result(T) : T \in UNION {Spawns(S) : S \in Culls(T0)}}

\* process_pending_task: the next circuit on ol_list, if any, goes to w; an
\* error is ignored.
ProcessPendingTask(T, w) ==
  LET c == Head(T.ol_list)
  IN  CASE T.ol_list = << >> -> {T}
        [] T.ol_list # << >> /\ ~T.linked[c] -> {[T EXCEPT !.crashed = TRUE]}
        [] OTHER ->
             {r.T : r \in Assigns([T EXCEPT !.ol_list = Tail(@)], {w}, c)}

\* Mutant of Found: a circuit with this id on any connection will do.
FoundById(T, tag) ==
  {c \in Circuits : /\ T.linked[c] /\ TagOf[c][2] = tag[2]
                    /\ T.state[c] # "marked" /\ up[tag[1]] = "open"}

\* connection_get_by_global_id and circuit_get_by_circid_orconn.
Found(T, tag) ==
  {c \in Circuits : /\ T.linked[c] /\ TagOf[c] = tag
                    /\ T.state[c] # "marked" /\ up[tag[1]] = "open"}

----------------------------------------------------------------------------
(* Circuits.                                                               *)

\* command_process_create_cell, CREATE: circuit c gets an id that is not in use.
Create(c) ==
  /\ ~crashed /\ state[c] = "none" /\ up[TagOf[c][1]] = "open"
  /\ \A d \in Circuits : linked[d] => TagOf[d] # TagOf[c]
  /\ \E r \in Assigns([Current EXCEPT !.state[c] = "pending",
                                      !.linked[c] = TRUE], {}, c) :
       Become(IF r.ok THEN r.T ELSE MarkForClose(r.T, c))
  /\ UNCHANGED up

\* ... and CREATE_FAST, answered or refused on the spot.
CreateFast(c) ==
  /\ ~crashed /\ state[c] = "none" /\ up[TagOf[c][1]] = "open"
  /\ \A d \in Circuits : linked[d] => TagOf[d] # TagOf[c]
  /\ \E s \in {"open", "marked"} :
       Become([Current EXCEPT !.state[c] = s, !.linked[c] = TRUE])
  /\ UNCHANGED up

\* circuit_mark_for_close for any reason, for instance a relay cell for a
\* circuit that is still pending.
MarkCircuit(c) ==
  /\ ~crashed /\ state[c] \in {"pending", "open"}
  /\ Become(MarkForClose(Current, c))
  /\ UNCHANGED up

\* command_process_destroy_cell: the id is free again at once.
DestroyFromBehind(c) ==
  /\ ~crashed /\ c \in Found(Current, TagOf[c])
  /\ Become(MarkForClose([Current EXCEPT !.linked[c] = FALSE], c))
  /\ UNCHANGED up

\* circuit_free
FreeCircuit(c) ==
  /\ ~crashed /\ state[c] = "marked"
  /\ Become([Current EXCEPT !.state[c] = "freed", !.linked[c] = FALSE])
  /\ UNCHANGED up

\* An OR connection is marked for close,
MarkConn(o) ==
  /\ ~crashed /\ up[o] = "open"
  /\ up' = [up EXCEPT ![o] = "marked"]
  /\ Become(Current)

\* ... and closed: circuit_unlink_all_from_or_conn.
CloseConn(o) ==
  LET gone == {c \in Circuits : linked[c] /\ TagOf[c][1] = o}
      queued == Keep(ol_list, {c \in Circuits :
                                 ~(c \in gone /\ state[c] = "pending")})
  IN  /\ ~crashed /\ up[o] = "marked"
      /\ up' = [up EXCEPT ![o] = "closed"]
      /\ Become([Current EXCEPT !.linked = SetAll(@, gone, FALSE),
                                !.state = SetAll(@, gone, "marked"),
                                !.ol_list = queued])

----------------------------------------------------------------------------
(* Workers.                                                                *)

\* cpuworker_main: the worker has done its sum and written the answer.
Compute(w) ==
  /\ ~crashed /\ worker[w] = "busy" /\ reply[w] = "none"
  /\ \E r \in {"ok", "bad"} : reply' = [reply EXCEPT ![w] = r]
  /\ UNCHANGED <<up, state, linked, ol_list, worker, job, old, num_cpuworkers,
                 num_cpuworkers_busy, crashed>>

\* connection_cpu_process_inbuf.  A worker from before the last key rotation is
\* replaced, another one gets the next task.
ProcessInbuf(w) ==
  LET found == Found(Current, TagOf[job[w]])
      c == CHOOSE x \in found : TRUE
      opened == [Current EXCEPT !.state[c] = "open"]
      answered ==                 \* onionskin_answer may fail, once open
        CASE found = {} -> {Current}
          [] found # {} /\ reply[w] = "ok" -> {opened, MarkForClose(opened, c)}
          [] OTHER -> {MarkForClose(Current, c)}
      done(T) == [T EXCEPT !.worker[w] = "idle", !.job[w] = NoCirc,
                           !.reply[w] = "none", !.busy = @ - 1]
      replaced(T) == Spawns([T EXCEPT !.worker[w] = "closing", !.num = @ - 1])
  IN  /\ ~crashed /\ worker[w] = "busy" /\ reply[w] # "none"
      /\ \E A \in answered :
           \E T \in IF old[w] THEN replaced(done(A))
                    ELSE ProcessPendingTask(done(A), w) :
             Become(T)
      /\ UNCHANGED up

\* connection_cpu_reached_eof: the worker died.
ReachedEof(w) ==
  LET T == [Current EXCEPT !.busy = IF worker[w] = "busy" THEN @ - 1 ELSE @,
                           !.num = @ - 1]
  IN  /\ ~crashed /\ worker[w] \in {"idle", "busy"} /\ reply[w] = "none"
      /\ \E S \in Spawns(T) : Become([S EXCEPT !.worker[w] = "closing"])
      /\ UNCHANGED up

\* The worker died before it had read its question: connection_handle_read or
\* _handle_write sees an error instead of an EOF and only marks the connection.
SocketError(w) ==
  /\ ~crashed /\ worker[w] = "busy" /\ reply[w] = "none"
  /\ Become([Current EXCEPT !.worker[w] = "closing"])
  /\ UNCHANGED up

\* The main loop closes the marked connection.
CloseWorker(w) ==
  /\ ~crashed /\ worker[w] = "closing"
  /\ Become([Current EXCEPT !.worker[w] = "none", !.job[w] = NoCirc,
                            !.reply[w] = "none", !.old[w] = FALSE])
  /\ UNCHANGED up

\* cpuworkers_rotate: idle workers go; busy ones are old now if they were created
\* in an earlier second.
Rotate ==
  LET idle == In(Current, "idle")
  IN  /\ ~crashed
      /\ \E S \in SUBSET In(Current, "busy") :
           \E T \in Spawns([Current EXCEPT
                              !.worker = SetAll(@, idle, "closing"),
                              !.num = @ - Cardinality(idle),
                              !.old = SetAll(@, S, TRUE)]) :
             Become(T)
      /\ UNCHANGED up

Next ==
  \/ \E c \in Circuits : Create(c)
  \/ \E c \in Circuits : CreateFast(c)
  \/ \E c \in Circuits : MarkCircuit(c)
  \/ \E c \in Circuits : DestroyFromBehind(c)
  \/ \E c \in Circuits : FreeCircuit(c)
  \/ \E o \in Conns : MarkConn(o)
  \/ \E o \in Conns : CloseConn(o)
  \/ \E w \in Workers : Compute(w)
  \/ \E w \in Workers : ProcessInbuf(w)
  \/ \E w \in Workers : ReachedEof(w)
  \/ \E w \in Workers : SocketError(w)
  \/ \E w \in Workers : CloseWorker(w)
  \/ Rotate

Spec == Init /\ [][Next]_vars

----------------------------------------------------------------------------
(* Properties.                                                             *)

\* The two counters, kept by six functions of cpuworker.c, differ by the number
\* of idle workers: assign_onionskin_to_cpuworker compares them to decide
\* whether there is an idle worker, and then asserts that it finds one.
IdleCounted ==
  num_cpuworkers - num_cpuworkers_busy = Cardinality(In(Current, "idle"))

\* Had another circuit the tag of circuit c before it?
IdUsedBefore(c) ==
  \E d \in Circuits \ {c} :
    TagOf[d] = TagOf[c] /\ state[d] \in {"marked", "freed"}

\* Every circuit on ol_list can be given to a worker ("make sure it's still
\* valid", onion_next_task): it is pending, has its p_conn, waits in one place
\* only and is not at a worker as well, whatever has happened to the others.
\* The exception is a circuit whose id is used for the second time: the late
\* answer to its predecessor may open it while it waits.
QueueValid ==
  /\ \A i \in DOMAIN ol_list :
       \/ state[ol_list[i]] = "pending" /\ linked[ol_list[i]]
       \/ IdUsedBefore(ol_list[i])
  /\ \A i, j \in DOMAIN ol_list : ol_list[i] = ol_list[j] => i = j
  /\ \A i \in DOMAIN ol_list, w \in In(Current, "busy") : job[w] # ol_list[i]

\* Somebody will see to circuit c: it is on ol_list or a worker is at it.
Tended(c) ==
  \/ \E i \in DOMAIN ol_list : ol_list[i] = c
  \/ \E w \in Workers : worker[w] = "busy" /\ job[w] = c

\* No onionskin is forgotten: as long as the connection is up, a circuit that
\* waits for its answer is on ol_list or at a worker, from the CREATE cell on,
\* although it moves between the two, older requests are given up to make
\* room, and answers are matched by connection and circuit id, which an earlier
\* circuit may have had.  It is lost only with the worker that had it, which
\* dies, is culled or has its socket fail in that very step.
NeverForgotten ==
  [][\A c \in Circuits :
       state'[c] = "pending" /\ up'[TagOf[c][1]] = "open" =>
         \/ Tended(c)'
         \/ state[c] = "pending" /\ ~Tended(c)
         \/ \E w \in Workers : /\ worker[w] = "busy" /\ job[w] = c
                               /\ worker'[w] = "closing"]_vars
=============================================================================
