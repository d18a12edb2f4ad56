---------------------------- MODULE MCHibernate ----------------------------
(* Small instances of Hibernate for TLC.                                   *)
EXTENDS Hibernate

MCCfgs == {[unit |-> "day", day |-> 1, hour |-> 1],
           [unit |-> "week", day |-> 2, hour |-> 2],
           [unit |-> "month", day |-> 2, hour |-> 0]}

\* Early in every other interval, late in the others.
MCDigest(start) == IF (start \div DayLen) % 2 = 0 THEN 1 ELSE 3
=============================================================================
