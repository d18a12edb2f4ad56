----------------------------- MODULE RoundRobin -----------------------------
(***************************************************************************)
(* What the active-circuits ring of an OR connection promises: the waiting *)
(* members form a line.  Who joins stands last; who is served goes from    *)
(* the front to the back or leaves; nobody ever overtakes anybody.         *)
(***************************************************************************)
EXTENDS Integers, Sequences

CONSTANTS Conns, Members

VARIABLE line

Init == line = [o \in Conns |-> << >>]

Standing(s) == {s[i] : i \in DOMAIN s}

\* A newcomer stands last.
Join(s) == {s} \cup {Append(s, m) : m \in Members \ Standing(s)}

\* The first one is served and has more to send, or has not.
Serve(s) == IF s = << >> THEN {} ELSE {Append(Tail(s), Head(s)), Tail(s)}

\* Somebody gives up.
Leave(s) ==
  {SubSeq(s, 1, i - 1) \o SubSeq(s, i + 1, Len(s)) : i \in DOMAIN s}

\* One handler may let a member join and then serve the first one.
Moves(s) == Join(s) \cup Leave(s) \cup {<< >>} \cup UNION {Serve(t) : t \in Join(s)}

Next ==
  /\ line' = [o \in Conns |-> line'[o]]
  /\ \A o \in Conns : line'[o] \in Moves(line[o])

Spec == Init /\ [][Next]_line
=============================================================================
