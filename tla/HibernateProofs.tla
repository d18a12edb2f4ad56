-------------------------- MODULE HibernateProofs --------------------------
(***************************************************************************)
(* Proofs about Hibernate: the accounting interval is the one the relay is *)
(* in, usage is remembered across restarts and crashes, the limit stops    *)
(* the relay and it wakes up in time.                                      *)
(***************************************************************************)
EXTENDS Hibernate, TLAPS

-----------------------------------------------------------------------------
(* Arithmetic.                                                             *)

\* Quotient and remainder.
LEMMA DivMod ==
  ASSUME NEW a \in Int, NEW b \in Nat \ {0}
  PROVE  /\ a \div b \in Int /\ a % b \in 0 .. b - 1
         /\ a = b * (a \div b) + (a % b)
OBVIOUS

\* They are unique.
LEMMA DivUnique ==
  ASSUME NEW b \in Nat \ {0}, NEW q \in Int, NEW r \in 0 .. b - 1,
         NEW a, a = b * q + r
  PROVE  a \div b = q /\ a % b = r
OBVIOUS

\* Multiples of b are b apart.
LEMMA Multiples ==
  ASSUME NEW b \in Nat \ {0}, NEW x \in Int, NEW y \in Int
  PROVE  /\ x <= y => b * x <= b * y
         /\ x < y => b * x + b <= b * y
         /\ b * (x + 1) = b * x + b /\ b * (x - 1) = b * x - b
OBVIOUS

-----------------------------------------------------------------------------
(* Accounting intervals, for the AccountingStart cal.                      *)

UnitLen(cal) == CASE cal.unit = "month" -> MonthLen
             [] cal.unit = "week" -> WeekLen
             [] cal.unit = "day" -> 1

\* The day on which the period of t begins, as edge_of_accounting_period_containing
\* finds it.
FirstDay(cal, t) ==
  LET day == t \div DayLen
      before == (t % DayLen) < cal.hour
      mday == (day % MonthLen) + 1
      wday == day % WeekLen
      delta == (WeekLen + wday - (cal.day % WeekLen)) % WeekLen
  IN  CASE cal.unit = "month" ->
             day - mday + cal.day
               - (IF mday < cal.day \/ (mday < cal.day /\ before)
                  THEN MonthLen ELSE 0)
        [] cal.unit = "week" ->
             day - (IF delta = 0 /\ before THEN WeekLen ELSE delta)
        [] cal.unit = "day" -> IF before THEN day - 1 ELSE day

\* The day of t when days are taken to begin at the starting hour.
DayOf(cal, t) == IF (t % DayLen) < cal.hour THEN (t \div DayLen) - 1 ELSE t \div DayLen

\* The phase of a day in the period, and the phase at which periods begin.
Phase(cal, d) == CASE cal.unit = "month" -> d % MonthLen
              [] cal.unit = "week" -> d % WeekLen
              [] cal.unit = "day" -> 0
StartPhase(cal) == CASE cal.unit = "month" -> cal.day - 1
                [] cal.unit = "week" -> cal.day % WeekLen
                [] cal.unit = "day" -> 0

\* Monthly periods begin at midnight, whichever AccountingStart is chosen.  Otherwise
\* the code takes the period that is about to start when asked on its first day,
\* before the starting hour.
Midnight == \A cal \in Cfgs : cal.unit = "month" => cal.hour = 0

Units == {"day", "week", "month"}

\* What the constants are.
LEMMA Calendar ==
  ASSUME NEW cal \in Cfgs
  PROVE  /\ DayLen \in Nat \ {0} /\ WeekLen \in Nat \ {0} /\ MonthLen \in Nat \ {0}
         /\ cal.unit \in Units /\ cal.day \in 1 .. MonthLen
         /\ cal.hour \in 0 .. DayLen - 1
         /\ UnitLen(cal) \in Nat \ {0} /\ UnitLen(cal) <= MonthLen + WeekLen
BY HibernateAssumption DEF UnitLen, Units

\* Edge in terms of FirstDay.
LEMMA Edges ==
  ASSUME NEW cal, NEW t, FirstDay(cal, t) \in Int
  PROVE  /\ PeriodContaining(cal, t) = FirstDay(cal, t) * DayLen + cal.hour
         /\ PeriodAfter(cal, t) = (FirstDay(cal, t) + UnitLen(cal)) * DayLen + cal.hour
<1>1. PeriodAfter(cal, t) = (FirstDay(cal, t) + UnitLen(cal)) * DayLen + cal.hour
  BY DEF PeriodAfter, Edge, FirstDay, UnitLen
<1>2. PeriodContaining(cal, t) = (FirstDay(cal, t) + 0) * DayLen + cal.hour
  BY DEF PeriodContaining, Edge, FirstDay
<1> QED
  BY <1>1, <1>2

\* The starting day is in phase and is the last such day not after t's.
LEMMA FirstDayBounds ==
  ASSUME NEW cal \in Cfgs, NEW t \in Int
  PROVE  /\ FirstDay(cal, t) \in Int /\ Phase(cal, FirstDay(cal, t)) = StartPhase(cal)
         /\ FirstDay(cal, t) <= t \div DayLen
         /\ DayOf(cal, t) < FirstDay(cal, t) + UnitLen(cal)
         /\ Midnight => FirstDay(cal, t) <= DayOf(cal, t)
<1>1. PICK D, R : D = t \div DayLen /\ R = t % DayLen
  OBVIOUS
<1>2. D \in Int /\ R \in 0 .. DayLen - 1
  BY <1>1, Calendar, DivMod
<1>3. DayOf(cal, t) = IF R < cal.hour THEN D - 1 ELSE D
  BY <1>1 DEF DayOf
<1>4. CASE cal.unit = "month"
  <2>1. PICK q, m, k : q = D \div MonthLen /\ m = D % MonthLen /\ k = cal.day
    OBVIOUS
  <2>2. /\ q \in Int /\ m \in 0 .. MonthLen - 1 /\ D = MonthLen * q + m
        /\ k \in 1 .. MonthLen /\ MonthLen \in Nat \ {0}
    BY <1>2, <2>1, Calendar, DivMod
  <2>3. PICK F : F = D - (m + 1) + k - (IF m + 1 < k THEN MonthLen ELSE 0)
    OBVIOUS
  <2>4. FirstDay(cal, t) = F
    BY <1>1, <1>4, <2>1, <2>3 DEF FirstDay
  <2>5. PICK p \in Int : p = IF m + 1 < k THEN q - 1 ELSE q
    BY <2>2
  <2>6. F = MonthLen * p + (k - 1) /\ k - 1 \in 0 .. MonthLen - 1
    BY <2>2, <2>3, <2>5, Multiples
  <2>7. F % MonthLen = k - 1
    <3>1. PICK b \in Nat \ {0}, r \in 0 .. MonthLen - 1 : b = MonthLen /\ r = k - 1
      BY <2>2, <2>6
    <3>2. r \in 0 .. b - 1 /\ F = b * p + r
      BY <2>6, <3>1
    <3>3. F % b = r
      BY ONLY <3>2, DivUnique, b \in Nat \ {0}, p \in Int
    <3> QED
      BY <3>1, <3>3
  <2>8. F \in Int /\ F <= D /\ D < F + MonthLen
    BY <2>2, <2>3, <1>2
  <2>9. DayOf(cal, t) \in Int /\ DayOf(cal, t) <= D
    BY <1>2, <1>3
  <2>10. Midnight => DayOf(cal, t) = D
    BY <1>2, <1>3, <1>4 DEF Midnight
  <2>11. /\ UnitLen(cal) = MonthLen /\ Phase(cal, F) = F % MonthLen
         /\ StartPhase(cal) = cal.day - 1
    BY <1>4 DEF UnitLen, Phase, StartPhase
  <2>12. DayOf(cal, t) < F + MonthLen /\ (Midnight => F <= DayOf(cal, t))
    BY <1>2, <2>2, <2>8, <2>9, <2>10
  <2> QED
    BY <1>1, <2>1, <2>4, <2>7, <2>8, <2>11, <2>12
<1>5. CASE cal.unit = "week"
  <2>1. PICK q, w, k : q = D \div WeekLen /\ w = D % WeekLen /\ k = cal.day % WeekLen
    OBVIOUS
  <2>2. /\ q \in Int /\ w \in 0 .. WeekLen - 1 /\ D = WeekLen * q + w
        /\ k \in 0 .. WeekLen - 1 /\ WeekLen \in Nat \ {0}
    <3>1. WeekLen \in Nat \ {0} /\ cal.day \in Int
      BY Calendar
    <3>2. k \in 0 .. WeekLen - 1
      BY <2>1, <3>1, DivMod
    <3> QED
      BY <1>2, <2>1, <3>1, <3>2, DivMod
  <2>3. PICK a, p, delta : /\ a = WeekLen + w - k
                           /\ p = a \div WeekLen /\ delta = a % WeekLen
    OBVIOUS
  <2>4. /\ a \in Int /\ p \in Int /\ delta \in 0 .. WeekLen - 1
        /\ a = WeekLen * p + delta
    BY <2>2, <2>3, DivMod
  <2>5. PICK F : F = D - (IF delta = 0 /\ R < cal.hour THEN WeekLen ELSE delta)
    OBVIOUS
  <2>6. FirstDay(cal, t) = F
    BY <1>1, <1>5, <2>1, <2>3, <2>5 DEF FirstDay
  <2>7. PICK x \in Int : x = IF delta = 0 /\ R < cal.hour THEN q + p - 1 - 1 ELSE q + p - 1
    BY <2>2, <2>4
  <2>8. F = WeekLen * x + k
    <3>1. WeekLen * (q + p) = WeekLen * q + WeekLen * p /\ q + p \in Int
      BY <2>2, <2>4
    <3>2. PICK z \in Int : z = q + p
      BY <3>1
    <3>3. /\ WeekLen * (z - 1) = WeekLen * z - WeekLen
          /\ WeekLen * ((z - 1) - 1) = WeekLen * (z - 1) - WeekLen
      BY <2>2, <3>2, Multiples
    <3>4. WeekLen * q \in Int /\ WeekLen * p \in Int /\ WeekLen * z \in Int
          /\ WeekLen * x \in Int
      BY <2>2, <2>4, <2>7, <3>2
    <3>5. WeekLen * x = IF delta = 0 /\ R < cal.hour
                        THEN WeekLen * z - WeekLen - WeekLen ELSE WeekLen * z - WeekLen
      <4>1. CASE delta = 0 /\ R < cal.hour
        <5>1. x = (z - 1) - 1
          BY <2>2, <2>4, <2>7, <3>2, <4>1
        <5> QED
          BY <3>3, <4>1, <5>1
      <4>2. CASE ~(delta = 0 /\ R < cal.hour)
        <5>1. x = z - 1
          BY <2>2, <2>4, <2>7, <3>2, <4>2
        <5> QED
          BY <3>3, <4>2, <5>1
      <4> QED
        BY <4>1, <4>2
    <3>6. WeekLen * z = D - w + a - delta
      BY <2>2, <2>4, <3>1, <3>2, <3>4
    <3> QED
      BY <1>2, <2>2, <2>3, <2>4, <2>5, <3>4, <3>5, <3>6
  <2>9. F % WeekLen = k
    <3>1. PICK b \in Nat \ {0} : b = WeekLen
      BY <2>2
    <3>2. k \in 0 .. b - 1 /\ F = b * x + k
      BY <2>2, <2>8, <3>1
    <3>3. F % b = k
      BY ONLY <3>2, DivUnique, b \in Nat \ {0}, x \in Int
    <3> QED
      BY <3>1, <3>3
  <2>10. /\ F \in Int /\ F <= D /\ DayOf(cal, t) < F + WeekLen /\ F <= DayOf(cal, t)
    BY <1>2, <1>3, <2>2, <2>4, <2>5, Calendar
  <2>11. /\ UnitLen(cal) = WeekLen /\ Phase(cal, F) = F % WeekLen
         /\ StartPhase(cal) = cal.day % WeekLen
    BY <1>5 DEF UnitLen, Phase, StartPhase
  <2> QED
    BY <1>1, <2>1, <2>6, <2>9, <2>10, <2>11
<1>6. CASE cal.unit = "day"
  <2>1. FirstDay(cal, t) = IF R < cal.hour THEN D - 1 ELSE D
    BY <1>1, <1>6 DEF FirstDay
  <2>2. UnitLen(cal) = 1 /\ Phase(cal, FirstDay(cal, t)) = StartPhase(cal)
    BY <1>6 DEF UnitLen, Phase, StartPhase
  <2> QED
    BY <1>1, <1>2, <1>3, <2>1, <2>2
<1> QED
  BY <1>4, <1>5, <1>6, Calendar DEF Units

\* Days in phase are a unit apart.
LEMMA PhaseUnique ==
  ASSUME NEW cal \in Cfgs, NEW e \in Int, NEW f \in Int, NEW g \in Int,
         Phase(cal, f) = Phase(cal, g), f <= e, e < f + UnitLen(cal),
         g <= e, e < g + UnitLen(cal)
  PROVE  f = g
<1>1. PICK L : L = UnitLen(cal)
  OBVIOUS
<1>2. L \in Nat \ {0} /\ f % L = g % L
  BY <1>1, Calendar DEF Phase, UnitLen, Units
<1>3. PICK q, r, s : q = f \div L /\ r = g \div L /\ s = f % L
  OBVIOUS
<1>4. /\ q \in Int /\ r \in Int /\ s \in 0 .. L - 1
      /\ f = L * q + s /\ g = L * r + s
  BY <1>2, <1>3, DivMod
<1>5. /\ q < r => L * q + L <= L * r
      /\ r < q => L * r + L <= L * q
  BY <1>2, <1>4, Multiples
<1>6. L * q \in Int /\ L * r \in Int
  BY <1>2, <1>4
<1>7. ~(q < r) /\ ~(r < q)
  BY <1>1, <1>2, <1>4, <1>5, <1>6
<1> QED
  BY <1>4, <1>7

Span(cal) == DayLen * UnitLen(cal)

\* The day of t begins at the starting hour not after t.
LEMMA DayOfBounds ==
  ASSUME NEW cal \in Cfgs, NEW t \in Int
  PROVE  /\ DayOf(cal, t) \in Int /\ DayLen * DayOf(cal, t) \in Int
         /\ DayLen * DayOf(cal, t) + cal.hour <= t
         /\ t < DayLen * DayOf(cal, t) + DayLen + cal.hour
         /\ t \div DayLen \in Int /\ DayLen * (t \div DayLen) <= t
         /\ DayOf(cal, t) >= (t \div DayLen) - 1
         /\ t < DayLen * (t \div DayLen) + DayLen
<1>1. PICK D, R, x : D = t \div DayLen /\ R = t % DayLen /\ x = cal.hour
  OBVIOUS
<1>2. /\ DayLen \in Nat \ {0} /\ x \in 0 .. DayLen - 1
      /\ D \in Int /\ R \in 0 .. DayLen - 1 /\ t = DayLen * D + R
  BY <1>1, Calendar, DivMod
<1>3. DayOf(cal, t) = IF R < x THEN D - 1 ELSE D
  BY <1>1 DEF DayOf
<1>4. DayLen * D \in Int /\ DayLen * (D - 1) = DayLen * D - DayLen
  BY <1>2, Multiples
<1>5. CASE R < x
  <2>1. DayOf(cal, t) = D - 1
    BY <1>3, <1>5
  <2>2. DayLen * DayOf(cal, t) = DayLen * D - DayLen
    BY <1>4, <2>1
  <2> QED
    BY <1>1, <1>2, <1>4, <1>5, <2>1, <2>2
<1>6. CASE ~(R < x)
  <2>1. DayOf(cal, t) = D
    BY <1>3, <1>6
  <2> QED
    BY <1>1, <1>2, <1>4, <1>6, <2>1
<1> QED
  BY <1>5, <1>6

\* And it is the only one.
LEMMA DayOfUnique ==
  ASSUME NEW cal \in Cfgs, NEW t \in Int, NEW e \in Int,
         DayLen * e + cal.hour <= t, t < DayLen * e + DayLen + cal.hour
  PROVE  DayOf(cal, t) = e
<1>1. PICK d, x, D : d = DayOf(cal, t) /\ x = cal.hour /\ D = DayLen
  OBVIOUS
<1>2. /\ D \in Nat \ {0} /\ x \in Int /\ d \in Int /\ D * d \in Int /\ D * e \in Int
      /\ D * d + x <= t /\ t < D * d + D + x
      /\ D * e + x <= t /\ t < D * e + D + x
  <2>1. /\ D \in Nat \ {0} /\ x \in Int /\ D * e \in Int
        /\ D * e + x <= t /\ t < D * e + D + x
    BY <1>1, Calendar
  <2>2. /\ d \in Int /\ D * d \in Int /\ D * d + x <= t /\ t < D * d + D + x
    BY <1>1, DayOfBounds
  <2> QED
    BY <2>1, <2>2
<1>3. (d < e => D * d + D <= D * e) /\ (e < d => D * e + D <= D * d)
  BY <1>2, Multiples
<1>4. ~(d < e) /\ ~(e < d)
  BY <1>2, <1>3
<1> QED
  BY <1>1, <1>2, <1>4

\* The same for the period that edge_of_accounting_period_containing takes t to
\* be in: it has one length, it ends after t, and its own start is in it.
LEMMA Period ==
  ASSUME NEW cal \in Cfgs, NEW t \in Int, NEW S, S = PeriodContaining(cal, t)
  PROVE  /\ S \in Int /\ Span(cal) \in Nat \ {0} /\ t < S + Span(cal)
         /\ S <= t + DayLen /\ t < S + Span(cal) + DayLen
         /\ PeriodAfter(cal, t) = S + Span(cal)
         /\ PeriodContaining(cal, S) = S /\ PeriodAfter(cal, S) = S + Span(cal)
         /\ Midnight => S <= t
<1>1. PICK F, x, L : F = FirstDay(cal, t) /\ x = cal.hour /\ L = UnitLen(cal)
  OBVIOUS
<1>2. /\ DayLen \in Nat \ {0} /\ x \in 0 .. DayLen - 1 /\ L \in Nat \ {0}
  BY <1>1, Calendar
<1>3. /\ F \in Int /\ Phase(cal, F) = StartPhase(cal) /\ F <= t \div DayLen
      /\ DayOf(cal, t) < F + L /\ (Midnight => F <= DayOf(cal, t))
  BY <1>1, FirstDayBounds
<1>4. S = F * DayLen + x /\ PeriodAfter(cal, t) = (F + L) * DayLen + x
  BY <1>1, <1>3, Edges
<1>5. /\ DayLen * F \in Int /\ DayLen * L \in Nat \ {0}
      /\ F * DayLen = DayLen * F /\ (F + L) * DayLen = DayLen * F + DayLen * L
      /\ DayLen * (F + L) = DayLen * F + DayLen * L
      /\ F + L \in Int
  BY <1>2, <1>3
<1>6. /\ Span(cal) = DayLen * L /\ S = DayLen * F + x /\ S \in Int
      /\ PeriodAfter(cal, t) = S + Span(cal)
  BY <1>1, <1>2, <1>4, <1>5 DEF Span
<1>7. PICK e, D : e = DayOf(cal, t) /\ D = t \div DayLen
  OBVIOUS
<1>8. /\ e \in Int /\ D \in Int /\ DayLen * e \in Int /\ DayLen * D \in Int
      /\ DayLen * e + x <= t /\ t < DayLen * e + DayLen + x
      /\ DayLen * D <= t
  BY <1>1, <1>2, <1>3, <1>7, DayOfBounds
<1>9. t < S + Span(cal)
  <2>1. DayLen * e + DayLen <= DayLen * (F + L)
    <3>1. PICK g \in Int : g = F + L
      BY <1>5
    <3>2. e < g
      BY <1>3, <1>7, <3>1, <1>1
    <3>3. DayLen * e + DayLen <= DayLen * g
      BY <1>2, <1>8, <3>2, Multiples
    <3> QED
      BY <3>1, <3>3
  <2> QED
    BY <1>2, <1>5, <1>6, <1>8, <2>1
<1>10. S <= t + DayLen
  <2>1. DayLen * F <= DayLen * D
    BY <1>2, <1>3, <1>7, <1>8, Multiples
  <2> QED
    BY <1>2, <1>5, <1>6, <1>8, <2>1
<1>11. Midnight => S <= t
  <2>1. Midnight => DayLen * F <= DayLen * e
    BY <1>2, <1>3, <1>7, <1>8, Multiples
  <2> QED
    BY <1>2, <1>5, <1>6, <1>8, <2>1
<1>12. FirstDay(cal, S) = F
  <2>1. DayOf(cal, S) = F
    BY <1>1, <1>2, <1>3, <1>5, <1>6, DayOfUnique
  <2>2. S \div DayLen = F
    <3>1. PICK b \in Nat \ {0} : b = DayLen
      BY <1>2
    <3>2. x \in 0 .. b - 1 /\ S = b * F + x
      BY <1>2, <1>6, <3>1
    <3>3. S \div b = F
      BY ONLY <3>2, DivUnique, b \in Nat \ {0}, <1>3
    <3> QED
      BY <3>1, <3>3
  <2>3. /\ FirstDay(cal, S) \in Int /\ Phase(cal, FirstDay(cal, S)) = StartPhase(cal)
        /\ FirstDay(cal, S) <= S \div DayLen
        /\ DayOf(cal, S) < FirstDay(cal, S) + UnitLen(cal)
    BY <1>6, FirstDayBounds
  <2>4. F < F + L
    BY <1>2, <1>3
  <2> QED
    BY <1>1, <1>3, <2>1, <2>2, <2>3, <2>4, PhaseUnique
<1>13. PeriodContaining(cal, S) = S /\ PeriodAfter(cal, S) = S + Span(cal)
  BY <1>1, <1>3, <1>4, <1>5, <1>6, <1>12, Edges
<1> QED
  BY <1>2, <1>5, <1>6, <1>9, <1>10, <1>11, <1>13

\* Every time in a period belongs to it.
LEMMA InsidePeriod ==
  ASSUME NEW cal \in Cfgs, Midnight, NEW t \in Int, NEW S, S = PeriodContaining(cal, t),
         NEW u \in Int, S <= u, u < S + Span(cal)
  PROVE  PeriodContaining(cal, u) = S
<1>1. PICK F, x, L : F = FirstDay(cal, t) /\ x = cal.hour /\ L = UnitLen(cal)
  OBVIOUS
<1>2. /\ DayLen \in Nat \ {0} /\ x \in 0 .. DayLen - 1 /\ L \in Nat \ {0}
  BY <1>1, Calendar
<1>3. /\ F \in Int /\ Phase(cal, F) = StartPhase(cal)
  BY <1>1, FirstDayBounds
<1>4. S = F * DayLen + x
  BY <1>1, <1>3, Edges
<1>5. /\ DayLen * F \in Int /\ DayLen * L \in Nat \ {0} /\ F * DayLen = DayLen * F
      /\ DayLen * (F + L) = DayLen * F + DayLen * L /\ F + L \in Int
  BY <1>2, <1>3
<1>6. Span(cal) = DayLen * L /\ S = DayLen * F + x
  BY <1>1, <1>4, <1>5 DEF Span
<1>7. PICK e, g : e = DayOf(cal, u) /\ g = F + L
  OBVIOUS
<1>8. /\ e \in Int /\ DayLen * e \in Int
      /\ DayLen * e + x <= u /\ u < DayLen * e + DayLen + x
  BY <1>1, <1>7, DayOfBounds
<1>9. F <= e
  <2>1. e < F => DayLen * e + DayLen <= DayLen * F
    BY <1>2, <1>3, <1>8, Multiples
  <2> QED
    BY <1>2, <1>3, <1>5, <1>6, <1>8, <2>1
<1>10. e < g
  <2>1. g <= e => DayLen * g <= DayLen * e
    BY <1>2, <1>5, <1>7, <1>8, Multiples
  <2>2. u < DayLen * g + x /\ DayLen * g \in Int
    BY <1>2, <1>5, <1>6, <1>7
  <2> QED
    BY <1>2, <1>5, <1>7, <1>8, <2>1, <2>2
<1>11. /\ FirstDay(cal, u) \in Int /\ Phase(cal, FirstDay(cal, u)) = StartPhase(cal)
       /\ DayOf(cal, u) < FirstDay(cal, u) + UnitLen(cal)
       /\ FirstDay(cal, u) <= DayOf(cal, u)
  BY FirstDayBounds
<1>12. FirstDay(cal, u) = F
  BY <1>1, <1>3, <1>7, <1>8, <1>9, <1>10, <1>11, PhaseUnique
<1> QED
  BY <1>1, <1>3, <1>12, Edges

-----------------------------------------------------------------------------
(* What holds of the process's state s at time t.                          *)

Times == 0 .. Never
Usages == [start : Times, bytes : Nat, active : Nat, expected : 0 .. MaxRate]
States == [usage : Usages, end : Times, wakeup : Times,
           state : {"live", "exiting", "lowbandwidth", "dormant"},
           end_time : Times, shutdown_time : Times,
           noted_time : Times, noted_bytes : Nat,
           saved : Usages, next_write : Times]

\* The usage u was counted in a period that had begun at t.
Old(u, t) == u.start <= t + DayLen /\ (Midnight => u.start <= t)

\* The relay plans to wake up in the interval; start = 0 until accounting is
\* configured.
Sane(s) ==
  /\ s.usage.start = 0 => s.end = 0
  /\ s.wakeup <= s.end

\* The interval that s accounts is one of the settings cal.
Fits(cal, s) ==
  /\ s.usage.start # 0 /\ s.usage.start = PeriodContaining(cal, s.usage.start)
  /\ s.end = PeriodAfter(cal, s.usage.start)

Fine(s, t) ==
  /\ s \in States /\ Sane(s) /\ Old(s.usage, t) /\ Old(s.saved, t)
  /\ s.noted_time <= t
  /\ s.next_write = Never \/ s.next_write <= t + WriteDelay

\* The record v of the state file covers the usage u.
Covers(v, u) == v.start = u.start /\ v.bytes >= u.bytes

\* Nothing that is recorded is forgotten until it is written.
Dirtied(s, r) == r.next_write = Never => s.next_write = Never /\ r.saved = s.saved

\* Within the interval r differs from s by notes of the usage only.
Kept(s, r, t) ==
  /\ r.usage = s.usage /\ r.end = s.end /\ r.wakeup = s.wakeup
  /\ \/ r.saved = s.saved /\ r.next_write = s.next_write
     \/ /\ Covers(r.saved, s.usage)
        /\ r.next_write <= s.next_write /\ r.next_write <= t + WriteDelay
  /\ \/ r.noted_time = s.noted_time
     \/ r.noted_time = t /\ Covers(r.saved, s.usage)

Moments == StartTime .. MaxTime

\* What the other constants are.
LEMMA Bounds ==
  /\ MaxRate \in Nat \ {0} /\ NoteInterval \in Nat \ {0} /\ NoteBytes \in Nat \ {0}
  /\ RoundTo \in Nat \ {0} /\ MinActive \in Nat \ {0}
  /\ WriteDelay \in Nat /\ ShutdownWait \in Nat /\ MaxTime \in Nat
  /\ StartTime \in Nat /\ StartTime <= MaxTime /\ MaxCrashes \in Nat
  /\ Limits \subseteq Nat /\ DayLen \in Nat \ {0}
  /\ DayLen * (MonthLen + WeekLen) \in Nat
  /\ Never \in Nat
  /\ Never > MaxTime + WriteDelay + ShutdownWait + DayLen * (MonthLen + WeekLen)
  /\ \A t \in Times : Digest(t) \in Nat
  /\ StartTime > DayLen * (MonthLen + WeekLen)
<1>1. /\ MaxRate \in Nat \ {0} /\ NoteInterval \in Nat \ {0} /\ NoteBytes \in Nat \ {0}
      /\ RoundTo \in Nat \ {0} /\ MinActive \in Nat \ {0}
      /\ WriteDelay \in Nat /\ ShutdownWait \in Nat /\ MaxTime \in Nat
      /\ StartTime \in Nat /\ StartTime <= MaxTime /\ MaxCrashes \in Nat
      /\ Limits \subseteq Nat
      /\ DayLen \in Nat \ {0} /\ MonthLen \in Nat /\ WeekLen \in Nat
  BY HibernateAssumption
<1>2. PICK x : x = DayLen * (MonthLen + WeekLen)
  OBVIOUS
<1>3. x \in Nat
  BY <1>1, <1>2
<1>4. StartTime > x * 2 /\ Never > MaxTime + WriteDelay + ShutdownWait + x
  BY <1>2, HibernateAssumption
<1>5. StartTime > x
  BY <1>1, <1>3, <1>4
<1>6. Never \in Nat
  BY HibernateAssumption
<1> QED
  BY <1>1, <1>2, <1>3, <1>4, <1>5, <1>6, HibernateAssumption DEF Times

\* A period and a day are no longer than a month and a week.
LEMMA SpanBound ==
  ASSUME NEW cal \in Cfgs
  PROVE  Span(cal) \in Nat \ {0} /\ Span(cal) + DayLen <= DayLen * (MonthLen + WeekLen)
<1>1. PICK d, L, x : d = DayLen /\ L = UnitLen(cal) /\ x = MonthLen + WeekLen
  OBVIOUS
<1>2. d \in Nat \ {0} /\ L \in Nat \ {0} /\ x \in Nat /\ L < x
  BY <1>1, Calendar DEF UnitLen, Units
<1>3. d * L + d <= d * x /\ d * L \in Nat \ {0}
  BY <1>2, Multiples
<1> QED
  BY <1>1, <1>3 DEF Span

\* The period of a moment is within the bounds of time.
LEMMA PeriodBounds ==
  ASSUME NEW cal \in Cfgs, NEW t \in Moments, NEW S, S = PeriodContaining(cal, t)
  PROVE  /\ S \in Times /\ S # 0 /\ S + Span(cal) \in Times /\ t < S + Span(cal)
         /\ Span(cal) \in Nat \ {0}
         /\ PeriodContaining(cal, S) = S /\ PeriodAfter(cal, S) = S + Span(cal)
         /\ PeriodAfter(cal, t) = S + Span(cal)
         /\ S <= t + DayLen /\ (Midnight => S <= t)
<1>1. t \in Int /\ t >= StartTime /\ t <= MaxTime
  BY Bounds DEF Moments
<1>2. /\ S \in Int /\ Span(cal) \in Nat \ {0} /\ t < S + Span(cal)
      /\ S <= t + DayLen /\ t < S + Span(cal) + DayLen
      /\ PeriodAfter(cal, t) = S + Span(cal)
      /\ PeriodContaining(cal, S) = S /\ PeriodAfter(cal, S) = S + Span(cal)
      /\ Midnight => S <= t
  BY <1>1, Period
<1>3. PICK x : x = DayLen * (MonthLen + WeekLen)
  OBVIOUS
<1>4. /\ Span(cal) + DayLen <= x /\ x \in Nat /\ DayLen \in Nat
      /\ StartTime > x /\ Never > MaxTime + WriteDelay + ShutdownWait + x
      /\ StartTime \in Nat /\ MaxTime \in Nat /\ WriteDelay \in Nat
      /\ ShutdownWait \in Nat /\ Never \in Nat
  BY <1>3, SpanBound, Bounds, Calendar
<1>5. S > 0 /\ S + Span(cal) <= Never /\ S + Span(cal) >= 0 /\ S <= Never
  BY <1>1, <1>2, <1>4
<1> QED
  BY <1>2, <1>4, <1>5 DEF Times

\* The same for a period that was found earlier.
LEMMA OldPeriod ==
  ASSUME NEW cal \in Cfgs, NEW t \in Moments, NEW u \in Usages, Old(u, t),
         u.start = PeriodContaining(cal, u.start)
  PROVE  /\ u.start + Span(cal) \in Times /\ PeriodAfter(cal, u.start) = u.start + Span(cal)
         /\ Midnight /\ t < u.start + Span(cal) => u.start = PeriodContaining(cal, t)
<1>1. PICK S : S = u.start
  OBVIOUS
<1>2. S \in Int /\ S >= 0 /\ t \in Int /\ t <= MaxTime /\ S = PeriodContaining(cal, S)
  BY <1>1, Bounds DEF Moments, Usages, Times
<1>3. Span(cal) \in Nat \ {0} /\ PeriodAfter(cal, S) = S + Span(cal)
  BY <1>2, Period
<1>4. PICK x : x = DayLen * (MonthLen + WeekLen)
  OBVIOUS
<1>5. /\ Span(cal) + DayLen <= x /\ x \in Nat /\ DayLen \in Nat
      /\ Never > MaxTime + WriteDelay + ShutdownWait + x
      /\ MaxTime \in Nat /\ WriteDelay \in Nat
      /\ ShutdownWait \in Nat /\ Never \in Nat
  BY <1>4, SpanBound, Bounds, Calendar
<1>6. S <= t + DayLen /\ (Midnight => S <= t)
  BY <1>1 DEF Old
<1>7. S + Span(cal) \in Times
  BY <1>2, <1>3, <1>5, <1>6 DEF Times
<1>8. ASSUME Midnight, t < S + Span(cal) PROVE S = PeriodContaining(cal, t)
  BY <1>2, <1>6, <1>8, InsidePeriod
<1> QED
  BY <1>1, <1>3, <1>7, <1>8

-----------------------------------------------------------------------------
(* The functions of hibernate.c.                                           *)

\* The fields of a state.
LEMMA Fields ==
  ASSUME NEW s \in States
  PROVE  /\ s.usage \in Usages /\ s.end \in Times /\ s.wakeup \in Times
         /\ s.state \in {"live", "exiting", "lowbandwidth", "dormant"}
         /\ s.end_time \in Times /\ s.shutdown_time \in Times
         /\ s.noted_time \in Times /\ s.noted_bytes \in Nat
         /\ s.saved \in Usages /\ s.next_write \in Times
         /\ s.usage.start \in Times /\ s.usage.bytes \in Nat /\ s.usage.active \in Nat
         /\ s.usage.expected \in 0 .. MaxRate
         /\ s.saved.start \in Times /\ s.saved.bytes \in Nat
         /\ Times \subseteq Int /\ 0 \in Times /\ Never \in Times
BY Bounds DEF States, Usages, Times

\* ROUND_UP
LEMMA RoundUpBounds ==
  ASSUME NEW x \in Nat
  PROVE  RoundUp(x) \in Nat /\ RoundUp(x) >= x
<1>1. PICK r, a, q, m : /\ r = RoundTo /\ a = x + r - 1
                        /\ q = a \div r /\ m = a % r
  OBVIOUS
<1>2. r \in Nat \ {0} /\ a \in Nat
  BY <1>1, Bounds
<1>3. q \in Int /\ m \in 0 .. r - 1 /\ a = r * q + m
  BY <1>1, <1>2, DivMod
<1>4. RoundUp(x) = q * r /\ q * r = r * q /\ r * q \in Int
  BY <1>1, <1>2, <1>3 DEF RoundUp
<1> QED
  BY <1>1, <1>2, <1>3, <1>4

\* What recording leaves alone.
SameButRecord(s, r) ==
  /\ r.usage = s.usage /\ r.end = s.end /\ r.wakeup = s.wakeup
  /\ r.state = s.state /\ r.end_time = s.end_time
  /\ r.shutdown_time = s.shutdown_time

\* accounting_record_bandwidth_usage
LEMMA RecordFine ==
  ASSUME NEW s \in States, NEW t \in Moments, NEW r, r = Record(s, t)
  PROVE  /\ r \in States /\ SameButRecord(s, r) /\ Covers(r.saved, s.usage)
         /\ r.noted_time = s.noted_time
         /\ r.next_write <= s.next_write /\ r.next_write <= t + WriteDelay
<1>1. /\ s.usage \in Usages /\ s.next_write \in Times /\ s.usage.bytes \in Nat
      /\ s.usage.start \in Times
  BY Fields
<1>2. PICK v : v = [s.usage EXCEPT !.bytes = RoundUp(s.usage.bytes)]
  OBVIOUS
<1>3. v \in Usages /\ Covers(v, s.usage)
  <2>1. RoundUp(s.usage.bytes) \in Nat /\ RoundUp(s.usage.bytes) >= s.usage.bytes
    BY <1>1, RoundUpBounds
  <2> QED
    BY <1>1, <1>2, <2>1 DEF Usages, Covers
<1>4. PICK w : w = Sooner(s.next_write, t + WriteDelay)
  OBVIOUS
<1>5. w \in Times /\ w <= s.next_write /\ w <= t + WriteDelay
  BY <1>1, <1>4, Bounds DEF Sooner, Times, Moments
<1>6. r = [s EXCEPT !.saved = v, !.next_write = w]
  BY <1>2, <1>4 DEF Record, MarkDirty, States
<1> QED
  BY <1>3, <1>5, <1>6 DEF States, SameButRecord

\* The usage is noted if it is time to.
LEMMA NoteFine ==
  ASSUME NEW s \in States, NEW t \in Moments, NEW r, r = Note(s, t), s.noted_time <= t
  PROVE  /\ r \in States /\ SameButRecord(s, r) /\ Kept(s, r, t)
         /\ t < r.noted_time + NoteInterval /\ r.noted_time <= t
<1>1. CASE TimeToRecord(s, t)
  <2>1. PICK p : p = [s EXCEPT !.noted_time = t, !.noted_bytes = s.usage.bytes]
    OBVIOUS
  <2>2. t \in Times /\ t \in Int /\ t < t + NoteInterval /\ t <= t
    BY Bounds DEF Times, Moments
  <2>3. s.usage.bytes \in Nat
    BY Fields
  <2>4. p \in States /\ SameButRecord(s, p) /\ p.noted_time = t
        /\ p.saved = s.saved /\ p.next_write = s.next_write
    BY <2>1, <2>2, <2>3 DEF States, SameButRecord
  <2>5. r = Record(p, t)
    BY <1>1, <2>1 DEF Note
  <2>6. /\ r \in States /\ SameButRecord(p, r) /\ Covers(r.saved, p.usage)
        /\ r.noted_time = p.noted_time
        /\ r.next_write <= p.next_write /\ r.next_write <= t + WriteDelay
    BY <2>4, <2>5, RecordFine
  <2> QED
    BY <2>2, <2>4, <2>6 DEF SameButRecord, Kept
<1>2. CASE ~TimeToRecord(s, t)
  <2>1. r = s
    BY <1>2 DEF Note
  <2>2. s.noted_time \in Int /\ t \in Int
    BY Fields, Bounds DEF Moments
  <2>3. t < s.noted_time + NoteInterval
    BY <1>2, <2>2, Bounds DEF TimeToRecord
  <2> QED
    BY <2>1, <2>3 DEF SameButRecord, Kept
<1> QED
  BY <1>1, <1>2

\* Being fine only depends on these fields.
LEMMA FineRecord ==
  ASSUME NEW s, NEW t \in Moments, Fine(s, t), NEW r \in States, SameButRecord(s, r),
         r.noted_time <= t, r.saved = s.saved \/ Covers(r.saved, s.usage),
         r.next_write = s.next_write \/ r.next_write <= t + WriteDelay
  PROVE  Fine(r, t)
<1>1. Sane(r)
  BY DEF Fine, Sane, SameButRecord
<1>2. Old(r.usage, t) /\ Old(r.saved, t)
  BY DEF Fine, Old, SameButRecord, Covers
<1> QED
  BY <1>1, <1>2 DEF Fine

\* update_expected_bandwidth
LEMMA ExpectedBounds ==
  ASSUME NEW u \in Usages
  PROVE  Expected(u) \in 0 .. MaxRate
<1>1. PICK a, b : a = u.active /\ b = u.bytes
  OBVIOUS
<1>2. a \in Nat /\ b \in Nat /\ MaxRate \in Nat
  BY <1>1, Bounds DEF Usages
<1>3. CASE a < MinActive
  BY <1>1, <1>2, <1>3 DEF Expected
<1>4. CASE ~(a < MinActive)
  <2>1. a \in Nat \ {0}
    BY <1>2, <1>4, Bounds
  <2>2. PICK e : e = b \div a
    OBVIOUS
  <2>3. e \in Nat
    BY <1>2, <2>1, <2>2
  <2>4. Expected(u) = IF e > MaxRate THEN MaxRate ELSE e
    BY <1>1, <1>4, <2>2 DEF Expected
  <2> QED
    BY <1>2, <2>3, <2>4
<1> QED
  BY <1>3, <1>4

\* What configuring accounting leaves alone.
SameButInterval(s, r) ==
  /\ r.state = s.state /\ r.end_time = s.end_time
  /\ r.shutdown_time = s.shutdown_time
  /\ r.noted_time = s.noted_time /\ r.noted_bytes = s.noted_bytes
  /\ r.saved = s.saved /\ r.next_write = s.next_write

\* The interval of u goes on at t.
GoesOn(cal, u, t) ==
  /\ u.start # 0 /\ PeriodAfter(cal, u.start) > t
  /\ u.start = PeriodContaining(cal, u.start)

\* The interval goes on, or a new one begins.
LEMMA InPeriodFine ==
  ASSUME NEW cal \in Cfgs, NEW s \in States, NEW t \in Moments, Old(s.usage, t),
         NEW r, r = InPeriod(cal, s, t)
  PROVE  /\ r \in States /\ SameButInterval(s, r)
         /\ r.usage.start # 0 /\ t < r.end
         /\ r.usage.start = PeriodContaining(cal, r.usage.start)
         /\ r.end = PeriodAfter(cal, r.usage.start) /\ r.usage.start <= r.end
         /\ Old(r.usage, t)
         /\ GoesOn(cal, s.usage, t) => r.usage = s.usage
         /\ ~GoesOn(cal, s.usage, t) => /\ r.usage.start = PeriodContaining(cal, t)
                                        /\ r.usage.bytes = 0
<1>1. s.usage \in Usages /\ s.usage.start \in Times /\ Times \subseteq Int
  BY Fields
<1>2. Span(cal) \in Nat \ {0}
  BY SpanBound
<1>3. CASE GoesOn(cal, s.usage, t)
  <2>1. r = [s EXCEPT !.end = PeriodAfter(cal, s.usage.start)]
    BY <1>3 DEF InPeriod, GoesOn
  <2>2. /\ PeriodAfter(cal, s.usage.start) \in Times
        /\ PeriodAfter(cal, s.usage.start) = s.usage.start + Span(cal)
    BY <1>1, <1>3, OldPeriod DEF GoesOn
  <2>3. r \in States /\ SameButInterval(s, r) /\ r.usage = s.usage
        /\ r.end = PeriodAfter(cal, s.usage.start)
    BY <2>1, <2>2 DEF States, SameButInterval
  <2>4. t < r.end /\ r.usage.start <= r.end
    BY <1>1, <1>2, <1>3, <2>2, <2>3 DEF GoesOn, Times, Moments
  <2> QED
    BY <1>3, <2>3, <2>4 DEF GoesOn
<1>4. CASE ~GoesOn(cal, s.usage, t)
  <2>1. PICK S, e : S = PeriodContaining(cal, t) /\ e = Expected(s.usage)
    OBVIOUS
  <2>2. PICK v : v = [Fresh EXCEPT !.start = S, !.expected = e]
    OBVIOUS
  <2>3. r = [s EXCEPT !.usage = v, !.end = PeriodAfter(cal, S)]
    BY <1>4, <2>1, <2>2 DEF InPeriod, GoesOn, Reset
  <2>4. /\ S \in Times /\ S # 0 /\ S + Span(cal) \in Times /\ t < S + Span(cal)
        /\ PeriodContaining(cal, S) = S /\ PeriodAfter(cal, S) = S + Span(cal)
        /\ S <= t + DayLen /\ (Midnight => S <= t)
    BY <2>1, PeriodBounds
  <2>5. e \in 0 .. MaxRate
    BY <1>1, <2>1, ExpectedBounds
  <2>6. v \in Usages /\ v.start = S /\ v.bytes = 0
    BY <2>2, <2>4, <2>5 DEF Fresh, Usages
  <2>7. r \in States /\ SameButInterval(s, r) /\ r.usage = v /\ r.end = S + Span(cal)
    <3>1. PICK E : E = S + Span(cal)
      OBVIOUS
    <3>2. r = [s EXCEPT !.usage = v, !.end = E] /\ E \in Times
      BY <2>3, <2>4, <3>1
    <3>3. r \in States /\ SameButInterval(s, r) /\ r.usage = v /\ r.end = E
      BY <2>6, <3>2 DEF States, SameButInterval
    <3> QED
      BY <3>1, <3>3
  <2>8. S <= S + Span(cal)
    <3>1. S \in Int
      BY <1>1, <2>4
    <3> QED
      BY <1>2, <3>1
  <2>9. Old(v, t)
    BY <2>4, <2>6 DEF Old
  <2> QED
    BY <1>4, <2>1, <2>4, <2>6, <2>7, <2>8, <2>9
<1> QED
  BY <1>3, <1>4

\* accounting_set_wakeup_time
LEMMA SetWakeupFine ==
  ASSUME NEW s \in States, s.usage.start <= s.end, NEW max \in Nat,
         NEW r, r = SetWakeup(s, max)
  PROVE  /\ r \in States /\ SameButInterval(s, r)
         /\ r.usage = s.usage /\ r.end = s.end /\ r.wakeup <= r.end
<1>1. PICK a, b, x : a = s.usage.start /\ b = s.end /\ x = s.usage.expected
  OBVIOUS
<1>2. a \in Times /\ b \in Times /\ x \in Nat /\ a <= b
  BY <1>1, Fields, Bounds
<1>3. PICK c, off : /\ c = (b - a) - (max \div x)
                    /\ off = IF x = 0 THEN 0 ELSE IF c <= 0 THEN 0 ELSE Digest(a) % c
  OBVIOUS
<1>4. r = [s EXCEPT !.wakeup = a + off]
  BY <1>1, <1>3 DEF SetWakeup
<1>5. off \in Nat /\ a + off <= b
  <2>1. CASE x = 0 \/ c <= 0
    BY <1>2, <1>3, <2>1 DEF Times
  <2>2. CASE x # 0 /\ ~(c <= 0)
    <3>1. PICK q : q = max \div x
      OBVIOUS
    <3>2. q \in Nat
      BY <1>2, <2>2, <3>1
    <3>3. c \in Nat \ {0} /\ c <= b - a /\ a \in Int /\ b \in Int
      BY <1>2, <1>3, <2>2, <3>1, <3>2 DEF Times
    <3>4. Digest(a) \in Nat
      BY <1>2, Bounds
    <3>5. off = Digest(a) % c
      BY <1>3, <2>2
    <3>6. off \in 0 .. c - 1
      <4>1. PICK d \in Int : d = Digest(a)
        BY <3>4
      <4>2. d % c \in 0 .. c - 1
        BY <3>3, DivMod
      <4> QED
        BY <3>5, <4>1, <4>2
    <3> QED
      BY <3>3, <3>6
  <2> QED
    BY <2>1, <2>2
<1>6. a + off \in Times
  <2>1. a \in Nat /\ b <= Never /\ b \in Int /\ Never \in Int
    BY <1>2, Bounds DEF Times
  <2>2. a + off \in Int /\ a + off >= 0 /\ a + off <= Never
    BY <1>5, <2>1
  <2> QED
    BY <2>1, <2>2 DEF Times
<1>7. r \in States /\ SameButInterval(s, r) /\ r.usage = s.usage /\ r.end = s.end
      /\ r.wakeup = a + off
  BY <1>4, <1>6 DEF States, SameButInterval
<1> QED
  BY <1>1, <1>5, <1>7

\* Which usage configure_accounting goes by.
Known(s) == IF s.usage.start = 0 THEN s.saved ELSE s.usage

\* The bytes that count for the interval of t.
Counted(cal, u, t) == IF u.start = PeriodContaining(cal, t) THEN u.bytes ELSE 0

\* configure_accounting
LEMMA ConfigureFine ==
  ASSUME NEW cal \in Cfgs, NEW s, NEW t \in Moments, Fine(s, t), NEW max \in Nat,
         NEW r, r = Configure(cal, s, t, max)
  PROVE  /\ Fine(r, t) /\ SameButInterval(s, r) /\ Fits(cal, r) /\ t < r.end
         /\ r.usage.bytes >= Counted(cal, Known(s), t)
         /\ Fits(cal, s) /\ t >= s.end => r.usage.bytes = 0
         /\ Fits(cal, s) /\ t < s.end => r.usage = s.usage
         /\ s.usage.start # 0 /\ s.usage.start = PeriodContaining(cal, t) => r.usage = s.usage
<1>1. s \in States /\ Sane(s) /\ Old(s.usage, t) /\ Old(s.saved, t) /\ s.noted_time <= t
  BY DEF Fine
<1>2. PICK p : p = IF s.usage.start = 0 THEN [s EXCEPT !.usage = s.saved] ELSE s
  OBVIOUS
<1>3. p \in States /\ SameButInterval(s, p) /\ p.usage = Known(s)
  BY <1>1, <1>2, Fields DEF States, SameButInterval, Known
<1>4. Old(p.usage, t)
  BY <1>1, <1>3 DEF Known
<1>5. PICK q : q = InPeriod(cal, p, t)
  OBVIOUS
<1>6. /\ q \in States /\ SameButInterval(p, q)
      /\ q.usage.start # 0 /\ t < q.end
      /\ q.usage.start = PeriodContaining(cal, q.usage.start)
      /\ q.end = PeriodAfter(cal, q.usage.start) /\ q.usage.start <= q.end
      /\ Old(q.usage, t)
      /\ GoesOn(cal, p.usage, t) => q.usage = p.usage
      /\ ~GoesOn(cal, p.usage, t) => /\ q.usage.start = PeriodContaining(cal, t)
                                     /\ q.usage.bytes = 0
  BY <1>3, <1>4, <1>5, InPeriodFine
<1>7. r = SetWakeup(q, max)
  BY <1>2, <1>5 DEF Configure
<1>8. /\ r \in States /\ SameButInterval(q, r)
      /\ r.usage = q.usage /\ r.end = q.end /\ r.wakeup <= r.end
  BY <1>6, <1>7, SetWakeupFine
<1>9. SameButInterval(s, r)
  BY <1>3, <1>6, <1>8 DEF SameButInterval
<1>10. t \in Int /\ s.end \in Int /\ q.end \in Int /\ s.usage.start \in Int
  BY <1>1, <1>6, Fields, Bounds DEF Moments
<1>11. Fits(cal, s) => p.usage = s.usage /\ (GoesOn(cal, p.usage, t) <=> t < s.end)
  <2>1. Fits(cal, s) => p.usage = s.usage
    BY <1>3 DEF Known, Fits
  <2> QED
    BY <1>10, <2>1 DEF GoesOn, Fits
<1>12. Fits(cal, s) /\ t < s.end => r.usage = s.usage
  BY <1>6, <1>8, <1>11
<1>13. Fits(cal, s) /\ t >= s.end => r.usage.bytes = 0
  BY <1>6, <1>8, <1>10, <1>11
<1>14. Fits(cal, r) /\ t < r.end
  BY <1>6, <1>8 DEF Fits
<1>15. Fine(r, t)
  <2>1. Sane(r)
    BY <1>6, <1>8 DEF Sane
  <2> QED
    BY <1>1, <1>6, <1>8, <1>9, <2>1 DEF Fine, SameButInterval
<1>16. p.usage.start = PeriodContaining(cal, t) => GoesOn(cal, p.usage, t)
  <2>1. PICK S : S = PeriodContaining(cal, t)
    OBVIOUS
  <2>2. /\ S # 0 /\ PeriodContaining(cal, S) = S
        /\ PeriodAfter(cal, S) = S + Span(cal) /\ t < S + Span(cal)
        /\ S \in Int /\ Span(cal) \in Int
    BY <2>1, PeriodBounds DEF Times
  <2> QED
    BY <1>10, <2>1, <2>2 DEF GoesOn
<1>17. r.usage.bytes >= Counted(cal, Known(s), t)
  <2>1. r.usage.bytes \in Nat /\ p.usage.bytes \in Nat
    BY <1>3, <1>8, Fields
  <2>2. CASE GoesOn(cal, p.usage, t)
    BY <1>3, <1>6, <1>8, <2>1, <2>2 DEF Counted
  <2>3. CASE ~GoesOn(cal, p.usage, t)
    BY <1>3, <1>16, <2>1, <2>3 DEF Counted
  <2> QED
    BY <2>2, <2>3
<1>18. s.usage.start # 0 /\ s.usage.start = PeriodContaining(cal, t) => r.usage = s.usage
  BY <1>3, <1>6, <1>8, <1>16 DEF Known
<1> QED
  BY <1>9, <1>12, <1>13, <1>14, <1>15, <1>17, <1>18

\* What the notes keep, they keep together.
LEMMA KeptChain ==
  ASSUME NEW s \in States, NEW r \in States, NEW q \in States, NEW t \in Moments,
         Kept(s, r, t), Kept(r, q, t)
  PROVE  Kept(s, q, t)
<1>1. s.next_write \in Int /\ r.next_write \in Int /\ q.next_write \in Int
  BY Fields
<1> QED
  BY <1>1 DEF Kept

\* A record that is kept is either the old one or dirty.
LEMMA KeptDirtied ==
  ASSUME NEW s \in States, NEW r \in States, NEW t \in Moments, Kept(s, r, t)
  PROVE  Dirtied(s, r)
<1>1. s.next_write \in Int /\ r.next_write \in Int
  BY Fields
<1>2. t + WriteDelay < Never
  BY Bounds DEF Moments
<1>3. t \in Int /\ WriteDelay \in Int /\ Never \in Int
  BY Bounds DEF Moments
<1> QED
  BY <1>1, <1>2, <1>3 DEF Kept, Dirtied

\* Dirty is dirty.
LEMMA DirtiedChain ==
  ASSUME NEW s, NEW r, NEW q, Dirtied(s, r), Dirtied(r, q)
  PROVE  Dirtied(s, q)
BY DEF Dirtied

\* What accounting_run_housekeeping leaves alone.
SameHibernation(s, r) ==
  r.state = s.state /\ r.end_time = s.end_time /\ r.shutdown_time = s.shutdown_time

\* accounting_run_housekeeping
LEMMA HousekeepingFine ==
  ASSUME NEW cal \in Cfgs, NEW s, NEW t \in Moments, Fine(s, t), NEW max \in Nat,
         NEW r, r = Housekeeping(cal, s, t, max)
  PROVE  /\ Fine(r, t) /\ SameHibernation(s, r) /\ Dirtied(s, r)
         /\ t < r.end /\ s.end <= r.end
         /\ t < r.noted_time + NoteInterval
         /\ t < s.end => Kept(s, r, t)
         /\ Fits(cal, s) => Fits(cal, r)
         /\ Fits(cal, s) /\ ~(t < s.end) => r.usage.bytes = 0
<1>1. s \in States /\ s.end \in Int /\ t \in Int
  BY Fields, Bounds DEF Fine, Moments
<1>2. PICK p : p = IF t >= s.end THEN Configure(cal, s, t, max) ELSE s
  OBVIOUS
<1>3. r = Note(p, t)
  BY <1>2 DEF Housekeeping
<1>4. /\ Fine(p, t) /\ SameHibernation(s, p) /\ t < p.end /\ s.end <= p.end
      /\ p.saved = s.saved /\ p.next_write = s.next_write
      /\ t < s.end => p = s
      /\ Fits(cal, s) => Fits(cal, p)
      /\ Fits(cal, s) /\ ~(t < s.end) => p.usage.bytes = 0
  <2>1. CASE t >= s.end
    <3>1. p = Configure(cal, s, t, max)
      BY <1>2, <2>1
    <3>2. /\ Fine(p, t) /\ SameButInterval(s, p) /\ Fits(cal, p) /\ t < p.end
          /\ Fits(cal, s) /\ t >= s.end => p.usage.bytes = 0
      BY <3>1, ConfigureFine
    <3>3. p.end \in Int
      BY <3>2, Fields DEF Fine
    <3> QED
      BY <1>1, <2>1, <3>2, <3>3 DEF SameButInterval, SameHibernation
  <2>2. CASE ~(t >= s.end)
    <3>1. p = s /\ t < s.end /\ s.end <= s.end
      BY <1>1, <1>2, <2>2
    <3> QED
      BY <3>1 DEF SameHibernation
  <2> QED
    BY <2>1, <2>2
<1>5. p \in States /\ p.noted_time <= t
  BY <1>4 DEF Fine
<1>6. /\ r \in States /\ SameButRecord(p, r) /\ Kept(p, r, t)
      /\ t < r.noted_time + NoteInterval /\ r.noted_time <= t
  BY <1>3, <1>5, NoteFine
<1>7. /\ r.saved = p.saved \/ Covers(r.saved, p.usage)
      /\ r.next_write = p.next_write \/ r.next_write <= t + WriteDelay
  BY <1>6 DEF Kept
<1>8. Fine(r, t)
  BY <1>4, <1>6, <1>7, FineRecord
<1>9. Dirtied(p, r)
  BY <1>5, <1>6, KeptDirtied
<1>10. Dirtied(s, r)
  BY <1>4, <1>9 DEF Dirtied
<1>11. /\ r.usage = p.usage /\ r.end = p.end /\ SameHibernation(s, r)
  BY <1>4, <1>6 DEF SameButRecord, SameHibernation
<1>12. t < s.end => Kept(s, r, t)
  BY <1>4, <1>6
<1>13. Fits(cal, s) => Fits(cal, r)
  BY <1>4, <1>11 DEF Fits
<1> QED
  BY <1>4, <1>6, <1>8, <1>10, <1>11, <1>12, <1>13

\* Marking the state dirty, as of time 0.
LEMMA DirtyNow ==
  ASSUME NEW s \in States, NEW r, r = MarkDirty(s, 0)
  PROVE  /\ r \in States /\ SameButRecord(s, r)
         /\ r.saved = s.saved /\ r.noted_time = s.noted_time
         /\ r.next_write = 0
<1>1. s.next_write \in Times /\ 0 \in Times /\ Times \subseteq Int
  BY Fields
<1>2. Sooner(s.next_write, 0) = 0
  BY <1>1 DEF Sooner, Times
<1>3. r = [s EXCEPT !.next_write = 0]
  BY <1>2 DEF MarkDirty
<1> QED
  BY <1>1, <1>3 DEF States, SameButRecord

\* The usage is recorded, and the state is to be written at once.
LEMMA RecordNow ==
  ASSUME NEW s \in States, NEW t \in Moments, NEW r, r = MarkDirty(Record(s, t), 0)
  PROVE  /\ r \in States /\ SameButRecord(s, r) /\ Covers(r.saved, s.usage)
         /\ r.noted_time = s.noted_time /\ r.next_write = 0
<1>1. PICK p : p = Record(s, t)
  OBVIOUS
<1>2. /\ p \in States /\ SameButRecord(s, p) /\ Covers(p.saved, s.usage)
      /\ p.noted_time = s.noted_time
  BY <1>1, RecordFine
<1>3. /\ r \in States /\ SameButRecord(p, r)
      /\ r.saved = p.saved /\ r.noted_time = p.noted_time
      /\ r.next_write = 0
  BY <1>1, <1>2, DirtyNow
<1> QED
  BY <1>2, <1>3 DEF SameButRecord

\* hibernate_begin
LEMMA BeginFine ==
  ASSUME NEW s, NEW t \in Moments, Fine(s, t),
         NEW new \in {"exiting", "lowbandwidth", "dormant"},
         NEW r, r = Begin(s, new, t)
  PROVE  /\ Fine(r, t) /\ Kept(s, r, t) /\ r.state = new /\ r.next_write = 0
         /\ r.end_time = IF new = "exiting" THEN s.end_time ELSE s.end
<1>1. s \in States /\ s.end \in Times /\ s.end_time \in Times /\ s.shutdown_time \in Times
      /\ s.next_write \in Times /\ Sane(s) /\ s.end \in Int
  BY Fields DEF Fine
<1>2. PICK x, e : /\ x = IF new = "exiting" THEN t + ShutdownWait ELSE s.shutdown_time
                  /\ e = IF new = "exiting" THEN s.end_time ELSE s.end
  OBVIOUS
<1>3. t + ShutdownWait \in Times
  BY Bounds DEF Times, Moments
<1>4. x \in Times /\ e \in Times
  BY <1>1, <1>2, <1>3
<1>5. PICK p : p = [s EXCEPT !.state = new, !.shutdown_time = x, !.end_time = e]
  OBVIOUS
<1>6. r = MarkDirty(Record(p, t), 0)
  BY <1>2, <1>5 DEF Begin
<1>7. /\ p \in States /\ p.usage = s.usage /\ p.end = s.end /\ p.wakeup = s.wakeup
      /\ p.state = new /\ p.end_time = e /\ p.saved = s.saved
      /\ p.noted_time = s.noted_time /\ p.next_write = s.next_write
  BY <1>1, <1>4, <1>5 DEF States
<1>8. /\ r \in States /\ SameButRecord(p, r) /\ Covers(r.saved, p.usage)
      /\ r.noted_time = p.noted_time /\ r.next_write = 0
  BY <1>6, <1>7, RecordNow
<1>9. Sane(p)
  BY <1>1, <1>7 DEF Sane
<1>10. Fine(p, t)
  BY <1>7, <1>9 DEF Fine
<1>11. p.noted_time <= t
  BY <1>10 DEF Fine
<1>12. r.next_write <= s.next_write /\ r.next_write <= t + WriteDelay
  BY <1>1, <1>8, Bounds DEF Times, Moments
<1>13. Fine(r, t)
  BY <1>8, <1>10, <1>11, <1>12, FineRecord
<1>14. Kept(s, r, t)
  BY <1>7, <1>8, <1>12 DEF Kept, SameButRecord
<1> QED
  BY <1>2, <1>7, <1>8, <1>13, <1>14 DEF SameButRecord

\* When a relay that goes dormant at t will wake up.
WakeTime(s, t) == IF t < s.wakeup THEN s.wakeup ELSE s.end

\* hibernate_go_dormant
LEMMA GoDormantFine ==
  ASSUME NEW s, NEW t \in Moments, Fine(s, t), NEW r, r = GoDormant(s, t)
  PROVE  /\ Fine(r, t) /\ Kept(s, r, t) /\ r.state = "dormant"
         /\ s.state = "dormant" => r = s
         /\ s.state # "dormant" => r.end_time = WakeTime(s, t) /\ r.end_time <= r.end
<1>1. s \in States /\ Sane(s) /\ s.end \in Int /\ s.wakeup <= s.end
      /\ s.end \in Times /\ s.wakeup \in Times
  BY Fields DEF Fine, Sane
<1>2. CASE s.state = "dormant"
  BY <1>1, <1>2 DEF GoDormant, Kept
<1>3. CASE s.state # "dormant"
  <2>1. PICK b : b = IF s.state = "lowbandwidth" THEN [s EXCEPT !.state = "dormant"]
                     ELSE Begin(s, "dormant", t)
    OBVIOUS
  <2>2. PICK w : w = WakeTime(s, t)
    OBVIOUS
  <2>3. w \in Times /\ w <= s.end
    BY <1>1, <2>2 DEF WakeTime
  <2>4. PICK p : p = [b EXCEPT !.end_time = w]
    OBVIOUS
  <2>5. r = MarkDirty(Record(p, t), 0)
    BY <1>3, <2>1, <2>2, <2>4 DEF GoDormant, WakeTime
  <2>6. /\ b \in States /\ Kept(s, b, t) /\ b.state = "dormant"
        /\ Old(b.saved, t) /\ b.noted_time <= t
        /\ b.next_write = Never \/ b.next_write <= t + WriteDelay
    <3>1. CASE s.state = "lowbandwidth"
      <4>1. b = [s EXCEPT !.state = "dormant"]
        BY <2>1, <3>1
      <4>2. /\ b \in States /\ b.usage = s.usage /\ b.end = s.end /\ b.wakeup = s.wakeup
            /\ b.saved = s.saved /\ b.next_write = s.next_write
            /\ b.noted_time = s.noted_time /\ b.state = "dormant"
        BY <1>1, <4>1 DEF States
      <4> QED
        BY <4>2 DEF Kept, Fine
    <3>2. CASE s.state # "lowbandwidth"
      <4>1. PICK new \in {"exiting", "lowbandwidth", "dormant"} : new = "dormant"
        OBVIOUS
      <4>2. b = Begin(s, new, t)
        BY <2>1, <3>2, <4>1
      <4>3. Fine(b, t) /\ Kept(s, b, t) /\ b.state = new
        BY <4>2, BeginFine
      <4> QED
        BY <4>1, <4>3 DEF Fine
    <3> QED
      BY <3>1, <3>2
  <2>7. /\ p \in States /\ p.usage = b.usage /\ p.end = b.end /\ p.wakeup = b.wakeup
        /\ p.state = "dormant" /\ p.end_time = w /\ p.saved = b.saved
        /\ p.noted_time = b.noted_time /\ p.next_write = b.next_write
    BY <2>3, <2>4, <2>6 DEF States
  <2>8. Kept(s, p, t) /\ p.usage = s.usage /\ p.end = s.end /\ p.wakeup = s.wakeup
    BY <2>6, <2>7 DEF Kept
  <2>9. Sane(p)
    BY <1>1, <2>8 DEF Sane
  <2>10. Fine(p, t)
    BY <2>6, <2>7, <2>8, <2>9 DEF Fine
  <2>11. /\ r \in States /\ SameButRecord(p, r) /\ Covers(r.saved, p.usage)
         /\ r.noted_time = p.noted_time /\ r.next_write = 0
    BY <2>5, <2>7, RecordNow
  <2>12. p.noted_time <= t /\ p.next_write \in Times
    BY <2>10, Fields DEF Fine
  <2>13. r.next_write <= p.next_write /\ r.next_write <= t + WriteDelay
    BY <2>11, <2>12, Bounds DEF Times, Moments
  <2>14. Fine(r, t)
    BY <2>10, <2>11, <2>12, <2>13, FineRecord
  <2>15. Kept(p, r, t)
    BY <2>11, <2>13 DEF Kept, SameButRecord
  <2>16. Kept(s, r, t)
    BY <1>1, <2>7, <2>8, <2>11, <2>15, KeptChain
  <2>17. r.end_time = w /\ r.end = s.end /\ r.state = "dormant"
    BY <2>7, <2>8, <2>11 DEF SameButRecord
  <2> QED
    BY <1>3, <2>2, <2>3, <2>14, <2>16, <2>17
<1> QED
  BY <1>2, <1>3

\* One part of a tick takes s to r: within the interval the usage is noted at most.
Stage(cal, s, r, t) ==
  /\ Fine(r, t) /\ Dirtied(s, r) /\ s.end <= r.end
  /\ t < s.end => Kept(s, r, t)
  /\ Fits(cal, s) => Fits(cal, r)

\* hibernate_end_time_elapsed
LEMMA EndTimeElapsedFine ==
  ASSUME NEW cal \in Cfgs, NEW s, NEW t \in Moments, Fine(s, t), NEW max \in Nat,
         NEW r, r = EndTimeElapsed(cal, s, t, max)
  PROVE  /\ Stage(cal, s, r, t) /\ t < r.end
         /\ Fits(cal, s) /\ ~(t < s.end) => r.usage.bytes = 0
         /\ \/ r.state = "live" /\ r.wakeup <= t
            \/ r.state = "dormant" /\ t < r.end_time /\ r.end_time <= r.end
<1>1. PICK p : p = Housekeeping(cal, s, t, max)
  OBVIOUS
<1>2. /\ Fine(p, t) /\ SameHibernation(s, p) /\ Dirtied(s, p)
      /\ t < p.end /\ s.end <= p.end
      /\ t < s.end => Kept(s, p, t)
      /\ Fits(cal, s) => Fits(cal, p)
      /\ Fits(cal, s) /\ ~(t < s.end) => p.usage.bytes = 0
  BY <1>1, HousekeepingFine
<1>3. /\ p \in States /\ p.wakeup \in Times /\ p.end \in Times /\ Times \subseteq Int
      /\ 0 \in Times /\ p.wakeup <= p.end /\ t \in Int /\ s \in States
      /\ p.next_write \in Times
  BY <1>2, Fields, Bounds DEF Fine, Sane, Moments
<1>4. r = IF p.wakeup <= t THEN [p EXCEPT !.state = "live", !.end_time = 0]
          ELSE GoDormant([p EXCEPT !.end_time = p.wakeup], t)
  BY <1>1 DEF EndTimeElapsed
<1>5. /\ Fine(r, t) /\ Kept(p, r, t)
      /\ \/ r.state = "live" /\ r.wakeup <= t
         \/ r.state = "dormant" /\ t < r.end_time /\ r.end_time <= r.end
  <2>1. CASE p.wakeup <= t
    <3>1. r = [p EXCEPT !.state = "live", !.end_time = 0]
      BY <1>4, <2>1
    <3>2. /\ r \in States /\ r.usage = p.usage /\ r.end = p.end /\ r.wakeup = p.wakeup
          /\ r.saved = p.saved /\ r.next_write = p.next_write
          /\ r.noted_time = p.noted_time /\ r.state = "live" /\ r.end_time = 0
      BY <1>3, <3>1 DEF States
    <3>3. Sane(r)
      BY <1>2, <3>2 DEF Fine, Sane
    <3> QED
      BY <1>2, <2>1, <3>2, <3>3 DEF Fine, Kept
  <2>2. CASE ~(p.wakeup <= t)
    <3>1. PICK q : q = [p EXCEPT !.end_time = p.wakeup]
      OBVIOUS
    <3>2. /\ q \in States /\ q.usage = p.usage /\ q.end = p.end /\ q.wakeup = p.wakeup
          /\ q.saved = p.saved /\ q.next_write = p.next_write
          /\ q.noted_time = p.noted_time /\ q.state = p.state /\ q.end_time = p.wakeup
      BY <1>3, <3>1 DEF States
    <3>3. Sane(q)
      BY <1>2, <1>3, <3>2 DEF Fine, Sane
    <3>4. Fine(q, t) /\ Kept(p, q, t)
      BY <1>2, <3>2, <3>3 DEF Fine, Kept
    <3>5. r = GoDormant(q, t)
      BY <1>4, <2>2, <3>1
    <3>6. /\ Fine(r, t) /\ Kept(q, r, t) /\ r.state = "dormant"
          /\ q.state = "dormant" => r = q
          /\ q.state # "dormant" => r.end_time = WakeTime(q, t) /\ r.end_time <= r.end
      BY <3>4, <3>5, GoDormantFine
    <3>7. r \in States
      BY <3>6 DEF Fine
    <3>8. Kept(p, r, t)
      BY <1>3, <3>2, <3>4, <3>6, <3>7, KeptChain
    <3>9. t < p.wakeup
      <4>1. p.wakeup \in Int
        BY <1>3
      <4> QED
        BY <1>3, <2>2, <4>1
    <3>10. r.end_time = p.wakeup
      BY <3>2, <3>6, <3>9 DEF WakeTime
    <3>11. r.end = p.end
      BY <3>8 DEF Kept
    <3> QED
      BY <1>3, <3>6, <3>8, <3>9, <3>10, <3>11
  <2> QED
    BY <2>1, <2>2
<1>6. r \in States /\ r.usage = p.usage /\ r.end = p.end
  BY <1>5 DEF Fine, Kept
<1>7. Dirtied(s, r)
  BY <1>2, <1>3, <1>5, <1>6, KeptDirtied, DirtiedChain
<1>8. t < s.end => Kept(s, r, t)
  BY <1>2, <1>3, <1>5, <1>6, KeptChain
<1>9. Fits(cal, s) => Fits(cal, r)
  BY <1>2, <1>6 DEF Fits
<1> QED
  BY <1>2, <1>5, <1>6, <1>7, <1>8, <1>9 DEF Stage

\* Nothing happens in this part.
LEMMA StageNone ==
  ASSUME NEW cal, NEW s, NEW t \in Moments, Fine(s, t)
  PROVE  Stage(cal, s, s, t) /\ Kept(s, s, t)
<1>1. s.end <= s.end
  BY Fields DEF Fine
<1> QED
  BY <1>1 DEF Stage, Dirtied, Kept

\* The usage is noted at most.
LEMMA StageKept ==
  ASSUME NEW cal, NEW s, NEW r, NEW t \in Moments, Fine(s, t), Fine(r, t), Kept(s, r, t)
  PROVE  Stage(cal, s, r, t)
<1>1. Dirtied(s, r)
  BY KeptDirtied DEF Fine
<1>2. r.usage = s.usage /\ r.end = s.end /\ s.end <= s.end
  BY Fields DEF Kept, Fine
<1>3. Fits(cal, s) => Fits(cal, r)
  BY <1>2 DEF Fits
<1> QED
  BY <1>1, <1>2, <1>3 DEF Stage

\* One part after the other.
LEMMA StageChain ==
  ASSUME NEW cal, NEW s, NEW r, NEW q, NEW t \in Moments, Fine(s, t),
         Stage(cal, s, r, t), Stage(cal, r, q, t)
  PROVE  Stage(cal, s, q, t)
<1>1. s \in States /\ r \in States /\ q \in States
  BY DEF Stage, Fine
<1>2. Dirtied(s, q)
  BY DirtiedChain DEF Stage
<1>3. ASSUME t < s.end PROVE Kept(s, q, t)
  <2>1. Kept(s, r, t) /\ t < r.end
    BY <1>3 DEF Stage, Kept
  <2>2. Kept(r, q, t)
    BY <2>1 DEF Stage
  <2> QED
    BY <1>1, <2>1, <2>2, KeptChain
<1>4. s.end <= q.end
  <2>1. s.end \in Int /\ r.end \in Int /\ q.end \in Int
    BY <1>1, Fields
  <2> QED
    BY <2>1 DEF Stage
<1> QED
  BY <1>2, <1>3, <1>4 DEF Stage

\* No relay in state r serves beyond the limit.
Limited(r, max) == r.usage.bytes >= max => r.state \in {"dormant", "exiting"}

\* A relay that goes to sleep in state r plans to wake up in the interval.
Punctual(r) == r.state = "dormant" => r.end_time <= r.end

\* A relay that is asleep in state r at t, after s, wakes up later than t and in the
\* interval, unless it slept through the end of the interval before.
Sleeps(s, r, t) ==
  r.state = "dormant" =>
    /\ s.state = "dormant" => t < r.end_time
    /\ \/ r.end_time <= r.end
       \/ s.state = "dormant" /\ s.end < s.end_time /\ r.end_time = s.end_time

\* consider_hibernation, a dormant relay
LEMMA ConsiderDormantFine ==
  ASSUME NEW cal \in Cfgs, NEW s, NEW t \in Moments, Fine(s, t), NEW max \in Nat,
         s.state # "exiting", NEW r, r = ConsiderDormant(cal, s, t, max)
  PROVE  /\ Stage(cal, s, r, t) /\ r.state # "exiting"
         /\ s.state = "dormant" =>
              /\ t < r.end
              /\ \/ r.state = "live" /\ r.wakeup <= t
                 \/ r.state = "dormant" /\ t < r.end_time /\ r.end_time <= r.end
         /\ s.state # "dormant" => r = s
<1>1. CASE s.state = "dormant"
  <2>1. r = EndTimeElapsed(cal, s, t, max)
    BY <1>1 DEF ConsiderDormant
  <2>2. /\ Stage(cal, s, r, t) /\ t < r.end
        /\ \/ r.state = "live" /\ r.wakeup <= t
           \/ r.state = "dormant" /\ t < r.end_time /\ r.end_time <= r.end
    BY <2>1, EndTimeElapsedFine
  <2> QED
    BY <1>1, <2>2
<1>2. CASE s.state # "dormant"
  <2>1. r = s
    BY <1>2 DEF ConsiderDormant
  <2> QED
    BY <1>2, <2>1, StageNone
<1> QED
  BY <1>1, <1>2

\* ... a live one
LEMMA ConsiderLiveFine ==
  ASSUME NEW cal, NEW s, NEW t \in Moments, Fine(s, t), NEW max \in Nat,
         s.state # "exiting", NEW r, r = ConsiderLive(s, t, max)
  PROVE  /\ Stage(cal, s, r, t) /\ Kept(s, r, t) /\ r.state # "exiting"
         /\ r.state = "live" /\ max > 1 => ~(r.usage.bytes >= max)
         /\ s.state # "live" => r = s
         /\ s.state = "live" => Punctual(r)
         /\ s.state = "live" /\ r.state = "dormant" => max # 0 /\ t < s.wakeup
<1>1. CASE s.state # "live"
  <2>1. r = s
    BY <1>1 DEF ConsiderLive
  <2> QED
    BY <1>1, <2>1, StageNone
<1>2. CASE s.state = "live" /\ SoftLimitReached(s, max)
  <2>1. PICK new \in {"exiting", "lowbandwidth", "dormant"} : new = "lowbandwidth"
    OBVIOUS
  <2>2. r = Begin(s, new, t)
    BY <1>2, <2>1 DEF ConsiderLive
  <2>3. Fine(r, t) /\ Kept(s, r, t) /\ r.state = new
    BY <2>2, BeginFine
  <2> QED
    BY <1>2, <2>1, <2>3, StageKept DEF Punctual
<1>3. CASE s.state = "live" /\ ~SoftLimitReached(s, max)
  <2>1. r = IF max # 0 /\ t < s.wakeup THEN GoDormant(s, t) ELSE s
    BY <1>3 DEF ConsiderLive
  <2>2. CASE max # 0 /\ t < s.wakeup
    <3>1. r = GoDormant(s, t)
      BY <2>1, <2>2
    <3>2. Fine(r, t) /\ Kept(s, r, t) /\ r.state = "dormant" /\ r.end_time <= r.end
      BY <1>3, <3>1, GoDormantFine
    <3> QED
      BY <1>3, <2>2, <3>2, StageKept DEF Punctual
  <2>3. CASE ~(max # 0 /\ t < s.wakeup)
    <3>1. r = s
      BY <2>1, <2>3
    <3>2. max > 1 => ~(s.usage.bytes >= max)
      <4>1. PICK soft : soft = (max * 95) \div 100
        OBVIOUS
      <4>2. soft \in Nat /\ soft <= max /\ (max > 1 => soft # 0)
        BY <4>1
      <4>3. ~(soft # 0 /\ s.usage.bytes >= soft)
        BY <1>3, <4>1 DEF SoftLimitReached
      <4>4. s.usage.bytes \in Nat
        BY Fields DEF Fine
      <4> QED
        BY <4>2, <4>3, <4>4
    <3> QED
      BY <1>3, <3>1, <3>2, StageNone DEF Punctual
  <2> QED
    BY <2>2, <2>3
<1> QED
  BY <1>1, <1>2, <1>3

\* ... and one that refuses new work.
LEMMA ConsiderLowFine ==
  ASSUME NEW cal \in Cfgs, NEW s, NEW t \in Moments, Fine(s, t), NEW max \in Nat,
         s.state # "exiting", max # 0 => Fits(cal, s),
         NEW r, r = ConsiderLow(cal, s, t, max)
  PROVE  /\ Stage(cal, s, r, t) /\ r.state # "exiting"
         /\ s.state # "lowbandwidth" => r = s
         /\ s.state = "lowbandwidth" /\ max # 0 => Limited(r, max)
         /\ s.state = "lowbandwidth" => Punctual(r)
         /\ s.state = "lowbandwidth" /\ r.state = "dormant" /\ t < s.end => t < r.end_time
<1>1. CASE s.state # "lowbandwidth"
  <2>1. r = s
    BY <1>1 DEF ConsiderLow
  <2> QED
    BY <1>1, <2>1, StageNone
<1>2. CASE s.state = "lowbandwidth" /\ max # 0 /\ HardLimitReached(s, max)
  <2>1. r = GoDormant(s, t)
    BY <1>2 DEF ConsiderLow
  <2>2. /\ Fine(r, t) /\ Kept(s, r, t) /\ r.state = "dormant"
        /\ r.end_time = WakeTime(s, t) /\ r.end_time <= r.end
    BY <1>2, <2>1, GoDormantFine
  <2>3. t < s.end => t < r.end_time
    BY <2>2 DEF WakeTime
  <2> QED
    BY <1>2, <2>2, <2>3, StageKept DEF Limited, Punctual
<1>3. CASE s.state = "lowbandwidth" /\ ~(max # 0 /\ HardLimitReached(s, max))
  <2>1. r = IF max = 0 \/ s.end_time <= t THEN EndTimeElapsed(cal, s, t, max) ELSE s
    BY <1>3 DEF ConsiderLow
  <2>2. max # 0 => ~(s.usage.bytes >= max)
    BY <1>3 DEF HardLimitReached
  <2>3. CASE max = 0 \/ s.end_time <= t
    <3>1. r = EndTimeElapsed(cal, s, t, max)
      BY <2>1, <2>3
    <3>2. /\ Stage(cal, s, r, t) /\ t < r.end
          /\ Fits(cal, s) /\ ~(t < s.end) => r.usage.bytes = 0
          /\ \/ r.state = "live" /\ r.wakeup <= t
             \/ r.state = "dormant" /\ t < r.end_time /\ r.end_time <= r.end
      BY <3>1, EndTimeElapsedFine
    <3>3. max # 0 => ~(r.usage.bytes >= max)
      BY <2>2, <3>2 DEF Kept, Stage
    <3> QED
      BY <1>3, <3>2, <3>3 DEF Limited, Punctual
  <2>4. CASE ~(max = 0 \/ s.end_time <= t)
    <3>1. r = s
      BY <2>1, <2>4
    <3> QED
      BY <1>3, <2>2, <3>1, StageNone DEF Limited, Punctual
  <2> QED
    BY <2>3, <2>4
<1> QED
  BY <1>1, <1>2, <1>3

\* consider_hibernation
LEMMA ConsiderFine ==
  ASSUME NEW cal \in Cfgs, NEW s, NEW t \in Moments, Fine(s, t), NEW max \in Nat,
         max # 0 => Fits(cal, s), NEW r, r = Consider(cal, s, t, max)
  PROVE  /\ Stage(cal, s, r, t)
         /\ max > 1 => Limited(r, max)
         /\ max # 0 => Sleeps(s, r, t)
<1>1. CASE s.state = "exiting" \/ Asleep(s, t, max)
  <2>1. r = s
    BY <1>1 DEF Consider
  <2>2. t \in Int /\ s.end_time \in Int /\ s.end \in Int
    BY Fields, Bounds DEF Fine, Moments
  <2>3. Sleeps(s, s, t)
    BY <1>1, <2>2 DEF Asleep, Sleeps
  <2>4. s.state \in {"exiting", "dormant"}
    BY <1>1 DEF Asleep
  <2> QED
    BY <2>1, <2>3, <2>4, StageNone DEF Limited
<1>2. CASE ~(s.state = "exiting" \/ Asleep(s, t, max))
  <2>1. PICK p : p = ConsiderDormant(cal, s, t, max)
    OBVIOUS
  <2>2. PICK q : q = ConsiderLive(p, t, max)
    OBVIOUS
  <2>3. r = ConsiderLow(cal, q, t, max)
    BY <1>2, <2>1, <2>2 DEF Consider
  <2>4. /\ Stage(cal, s, p, t) /\ p.state # "exiting"
        /\ s.state = "dormant" =>
             /\ t < p.end
             /\ \/ p.state = "live" /\ p.wakeup <= t
                \/ p.state = "dormant" /\ t < p.end_time /\ p.end_time <= p.end
        /\ s.state # "dormant" => p = s
    BY <1>2, <2>1, ConsiderDormantFine
  <2>5. Fine(p, t) /\ (max # 0 => Fits(cal, p))
    BY <2>4 DEF Stage
  <2>6. /\ Stage(cal, p, q, t) /\ Kept(p, q, t) /\ q.state # "exiting"
        /\ q.state = "live" /\ max > 1 => ~(q.usage.bytes >= max)
        /\ p.state # "live" => q = p
        /\ p.state = "live" => Punctual(q)
        /\ p.state = "live" /\ q.state = "dormant" => max # 0 /\ t < p.wakeup
    BY <2>2, <2>4, <2>5, ConsiderLiveFine
  <2>7. Fine(q, t) /\ (max # 0 => Fits(cal, q))
    BY <2>5, <2>6 DEF Stage
  <2>8. /\ Stage(cal, q, r, t) /\ r.state # "exiting"
        /\ q.state # "lowbandwidth" => r = q
        /\ q.state = "lowbandwidth" /\ max # 0 => Limited(r, max)
        /\ q.state = "lowbandwidth" => Punctual(r)
        /\ q.state = "lowbandwidth" /\ r.state = "dormant" /\ t < q.end => t < r.end_time
    BY <2>3, <2>6, <2>7, ConsiderLowFine
  <2>9. Stage(cal, s, r, t)
    BY <2>4, <2>5, <2>6, <2>8, StageChain
  <2>10. /\ q.state \in {"live", "lowbandwidth", "dormant"}
         /\ p.state \in {"live", "lowbandwidth", "dormant"}
    BY <2>4, <2>5, <2>6, <2>7, Fields DEF Fine
  <2>11. max > 1 => Limited(r, max)
    BY <2>6, <2>8, <2>10 DEF Limited
  <2>12. Punctual(r)
    <3>1. CASE q.state = "lowbandwidth"
      BY <2>8, <3>1
    <3>2. CASE q.state # "lowbandwidth" /\ p.state = "live"
      BY <2>6, <2>8, <3>2
    <3>3. CASE q.state # "lowbandwidth" /\ p.state # "live"
      <4>1. r = p /\ p.state = "dormant"
        BY <2>6, <2>8, <2>10, <3>3
      <4>2. p.end_time <= p.end
        BY <1>2, <2>4, <4>1
      <4> QED
        BY <4>1, <4>2 DEF Punctual
    <3> QED
      BY <3>1, <3>2, <3>3
  <2>13. ASSUME s.state = "dormant", r.state = "dormant" PROVE t < r.end_time
    <3>1. CASE p.state = "dormant"
      BY <2>4, <2>6, <2>8, <2>13, <3>1
    <3>2. CASE p.state = "live" /\ p.wakeup <= t
      <4>1. p.wakeup \in Int /\ t \in Int
        BY <2>5, Fields, Bounds DEF Fine, Moments
      <4>2. q.state # "dormant"
        BY <2>6, <3>2, <4>1
      <4>3. q.state = "lowbandwidth"
        BY <2>8, <2>10, <2>13, <4>2
      <4>4. t < q.end
        BY <2>4, <2>6, <2>13 DEF Kept
      <4> QED
        BY <2>8, <2>13, <4>3, <4>4
    <3> QED
      BY <2>4, <2>13, <3>1, <3>2
  <2> QED
    BY <2>9, <2>11, <2>12, <2>13 DEF Sleeps, Punctual
<1> QED
  BY <1>1, <1>2

\* After accounting has run, the interval is current and the usage is noted.
Settled(cal, r, t) ==
  Fits(cal, r) /\ t < r.end /\ t < r.noted_time + NoteInterval

\* What a second must end with, for a relay in state s at its start.
Outcome(s, r, t, max) ==
  /\ max > 1 => Limited(r, max)
  /\ max # 0 => Sleeps(s, r, t)

\* The bytes of a second are counted.
Count(s, n, max) ==
  IF max = 0 THEN s ELSE [s EXCEPT !.usage.bytes = @ + n, !.usage.active = @ + 1]

\* p is s but for the n bytes it has counted.
Plus(p, s, n, t, max) ==
  /\ Fine(p, t) /\ p.usage.start = s.usage.start /\ p.end = s.end
  /\ p.state = s.state /\ p.saved = s.saved /\ p.next_write = s.next_write
  /\ p.noted_time = s.noted_time /\ p.end_time = s.end_time
  /\ max # 0 => p.usage.bytes = s.usage.bytes + n

\* Counting changes the bytes and the seconds only.
LEMMA CountFine ==
  ASSUME NEW s, NEW t \in Moments, Fine(s, t), NEW n \in Nat, NEW max \in Nat,
         NEW p, p = Count(s, n, max)
  PROVE  Plus(p, s, n, t, max)
<1>1. CASE max = 0
  BY <1>1 DEF Count, Plus
<1>2. CASE max # 0
  <2>1. s \in States /\ s.usage \in Usages /\ s.usage.bytes \in Nat /\ s.usage.active \in Nat
    BY Fields DEF Fine
  <2>2. PICK u, b, a, v : /\ u = s.usage /\ b = u.bytes + n /\ a = u.active + 1
                          /\ v = [u EXCEPT !.bytes = b, !.active = a]
    OBVIOUS
  <2>3. v \in Usages /\ v.start = s.usage.start /\ v.bytes = s.usage.bytes + n
    <3>1. u \in Usages /\ b \in Nat /\ a \in Nat
      BY <2>1, <2>2
    <3>2. v \in Usages /\ v.start = u.start /\ v.bytes = b
      BY <2>2, <3>1 DEF Usages
    <3> QED
      BY <2>2, <3>2
  <2>4. p = [s EXCEPT !.usage = v]
    BY <1>2, <2>1, <2>2 DEF Count, States, Usages
  <2>5. /\ p \in States /\ p.usage = v /\ p.end = s.end /\ p.wakeup = s.wakeup
        /\ p.state = s.state /\ p.end_time = s.end_time /\ p.saved = s.saved
        /\ p.next_write = s.next_write /\ p.noted_time = s.noted_time
    BY <2>1, <2>3, <2>4 DEF States
  <2>6. Sane(p)
    BY <2>3, <2>5 DEF Fine, Sane
  <2>7. Fine(p, t)
    BY <2>3, <2>5, <2>6 DEF Fine, Old
  <2> QED
    BY <2>3, <2>5, <2>7 DEF Plus
<1> QED
  BY <1>1, <1>2

\* Accounting is looked at once more, in a state in which it is current.
LEMMA Again ==
  ASSUME NEW cal \in Cfgs, NEW s, NEW t \in Moments, Fine(s, t), NEW max \in Nat, max # 0,
         NEW r, r = Housekeeping(cal, s, t, max), NEW a, Outcome(a, s, t, max),
         Fits(cal, s)
  PROVE  Stage(cal, s, r, t) /\ Settled(cal, r, t) /\ Outcome(a, r, t, max)
<1>1. /\ Fine(r, t) /\ SameHibernation(s, r) /\ Dirtied(s, r)
      /\ Fits(cal, r) /\ t < r.end /\ s.end <= r.end
      /\ t < r.noted_time + NoteInterval
      /\ t < s.end => Kept(s, r, t)
      /\ ~(t < s.end) => r.usage.bytes = 0
  BY HousekeepingFine
<1>2. s.end \in Int /\ s.end_time \in Int /\ r.end \in Int
  BY <1>1, Fields DEF Fine
<1>3. max > 1 => Limited(r, max)
  <2>1. CASE t < s.end
    BY <1>1, <2>1 DEF Outcome, Limited, Kept, SameHibernation
  <2>2. CASE ~(t < s.end)
    BY <1>1, <2>2 DEF Limited
  <2> QED
    BY <2>1, <2>2
<1>4. Sleeps(a, r, t)
  BY <1>1, <1>2 DEF Outcome, Sleeps, SameHibernation
<1> QED
  BY <1>1, <1>3, <1>4 DEF Stage, Settled, Outcome

\* second_elapsed_callback and run_scheduled_events
LEMMA ElapseFine ==
  ASSUME NEW cal \in Cfgs, NEW s, NEW t \in Moments, Fine(s, t), NEW max \in Nat,
         max # 0 => Fits(cal, s), NEW n \in Nat,
         NEW r, r = Elapse(cal, s, n, t, max)
  PROVE  /\ Stage(cal, Count(s, n, max), r, t) /\ Outcome(s, r, t, max)
         /\ max # 0 => Settled(cal, r, t)
<1>1. PICK p : p = Count(s, n, max)
  OBVIOUS
<1>2. /\ Fine(p, t) /\ p.usage.start = s.usage.start /\ p.end = s.end
      /\ p.state = s.state /\ p.end_time = s.end_time /\ (max # 0 => Fits(cal, p))
  <2>1. Plus(p, s, n, t, max)
    BY <1>1, CountFine
  <2> QED
    BY <2>1 DEF Plus, Fits
<1>3. PICK q : q = Consider(cal, p, t, max)
  OBVIOUS
<1>4. /\ Stage(cal, p, q, t)
      /\ max > 1 => Limited(q, max)
      /\ max # 0 => Sleeps(p, q, t)
  BY <1>2, <1>3, ConsiderFine
<1>5. Outcome(s, q, t, max)
  BY <1>2, <1>4 DEF Outcome, Sleeps
<1>6. CASE max = 0
  <2>1. r = q
    BY <1>1, <1>3, <1>6 DEF Elapse, Count
  <2> QED
    BY <1>1, <1>4, <1>5, <1>6, <2>1
<1>7. CASE max # 0
  <2>1. r = Housekeeping(cal, q, t, max)
    BY <1>1, <1>3, <1>7 DEF Elapse, Count
  <2>2. Fine(q, t) /\ Fits(cal, q)
    BY <1>2, <1>4, <1>7 DEF Stage
  <2>3. Stage(cal, q, r, t) /\ Settled(cal, r, t) /\ Outcome(s, r, t, max)
    BY <1>5, <1>7, <2>1, <2>2, Again
  <2>4. Stage(cal, p, r, t)
    BY <1>2, <1>4, <2>3, StageChain
  <2> QED
    BY <1>1, <2>3, <2>4
<1> QED
  BY <1>6, <1>7

\* What a second ends with: r, in memory or written.
Ends(r, s2, d, d2, t) ==
  \/ s2 = r /\ d2 = d /\ ~(r.next_write <= t)
  \/ s2 = [r EXCEPT !.next_write = Never] /\ d2 = r.saved

\* The state e is written if it is due.
Saves(cal, e, s2, d, d2, t, max) ==
  IF e.next_write <= t THEN s2 = StateSave(cal, e, t, max) /\ d2 = s2.saved
                       ELSE s2 = e /\ d2 = d

\* The whole second: the state r that is reached is kept in memory or written.
LEMMA TickFine ==
  ASSUME NEW cal \in Cfgs, NEW s, NEW t \in Moments, Fine(s, t), NEW max \in Nat,
         max # 0 => Fits(cal, s), NEW n \in Nat,
         NEW e, e = Elapse(cal, s, n, t, max), NEW s2, NEW d, NEW d2,
         Saves(cal, e, s2, d, d2, t, max)
  PROVE  \E r : /\ Stage(cal, Count(s, n, max), r, t) /\ Outcome(s, r, t, max)
                /\ max # 0 => Settled(cal, r, t)
                /\ Ends(r, s2, d, d2, t)
<1>1. /\ Stage(cal, Count(s, n, max), e, t) /\ Outcome(s, e, t, max)
      /\ max # 0 => Settled(cal, e, t)
  BY ElapseFine
<1>2. CASE ~(e.next_write <= t)
  BY <1>1, <1>2 DEF Saves, Ends
<1>3. CASE e.next_write <= t
  <2>1. PICK r : r = IF max = 0 THEN e ELSE Housekeeping(cal, e, t, max)
    OBVIOUS
  <2>2. s2 = [r EXCEPT !.next_write = Never] /\ d2 = s2.saved
    BY <1>3, <2>1 DEF StateSave, Saves
  <2>3. Fine(e, t)
    BY <1>1 DEF Stage
  <2>4. /\ Stage(cal, e, r, t) /\ Outcome(s, r, t, max) /\ (max # 0 => Settled(cal, r, t))
    <3>1. CASE max = 0
      BY <1>1, <2>1, <2>3, <3>1, StageNone
    <3>2. CASE max # 0
      <4>1. r = Housekeeping(cal, e, t, max) /\ Fits(cal, e)
        BY <1>1, <2>1, <3>2 DEF Settled
      <4> QED
        BY <1>1, <2>3, <3>2, <4>1, Again
    <3> QED
      BY <3>1, <3>2
  <2>5. Fine(Count(s, n, max), t)
    BY CountFine DEF Plus
  <2>6. Stage(cal, Count(s, n, max), r, t)
    BY <1>1, <2>4, <2>5, StageChain
  <2>7. d2 = r.saved
    <3>1. r \in States
      BY <2>4 DEF Stage, Fine
    <3> QED
      BY <2>2, <3>1 DEF States
  <2> QED
    BY <2>2, <2>4, <2>6, <2>7 DEF Ends
<1> QED
  BY <1>2, <1>3

-----------------------------------------------------------------------------
(* The inductive invariant, stated of the state s of the process, what d is *)
(* on disk, the settings cal, the time t, the limit max and whether the     *)
(* process is up.                                                          *)

\* The state is fine, accounting is configured and its interval still running
\* while it is on, and what memory says of the state file is what is on disk
\* unless a write is due.
Held(cal, s, d, t, max, on) ==
  /\ Fine(s, t) /\ d \in Usages /\ Old(d, t)
  /\ on /\ max # 0 => Fits(cal, s) /\ t < s.end
  /\ s.next_write = Never => s.saved = d
  /\ ~on => s = Boot(d)

\* The bytes, of the b used in the interval of t, that the usage v does not know
\* of, apart from the k that crashes have lost.
Missing(cal, v, t, b, k) == b - Counted(cal, v, t) - k

\* At most what was used since the last note is not recorded.
Recorded(cal, s, t, b, k) ==
  \/ Missing(cal, s.saved, t, b, k) <= 0
  \/ /\ t < s.noted_time + NoteInterval
     /\ Missing(cal, s.saved, t, b, k) <= MaxRate * (t - s.noted_time)

\* The later a write is due, the less it leaves to lose.
Due(cal, s, d, t, b, k) ==
  s.next_write # Never /\ s.next_write > t =>
    Missing(cal, d, t, b, k) <= MaxRate * (NoteInterval + WriteDelay + t - s.next_write)

\* The ledger of the interval: in memory, in the record and on disk.
Tally(cal, s, d, t, max, on, b, k) ==
  /\ max = 0 => b = 0
  /\ on /\ max # 0 => b <= s.usage.bytes + k
  /\ on => /\ Recorded(cal, s, t, b, k) /\ Due(cal, s, d, t, b, k)
           /\ Missing(cal, d, t, b, k) <= AtRisk
  /\ ~on => Missing(cal, d, t, b, k) <= 0

Base ==
  /\ cfg \in Cfgs /\ now \in Moments /\ limit \in Limits /\ up \in BOOLEAN
  /\ used \in Nat /\ crashes \in 0 .. MaxCrashes
  /\ Held(cfg, h, disk, now, limit, up)

HInv ==
  Base /\ (Midnight => Tally(cfg, h, disk, now, limit, up, used, crashes * AtRisk))

\* AtRisk is what is used from a note to the write that follows it.
LEMMA RiskBounds ==
  /\ AtRisk \in Nat /\ MaxRate * NoteInterval \in Nat
  /\ MaxRate <= MaxRate * NoteInterval /\ MaxRate * NoteInterval <= AtRisk
  /\ AtRisk = MaxRate * (NoteInterval + WriteDelay)
<1>1. PICK r, a, w : r = MaxRate /\ a = NoteInterval /\ w = WriteDelay
  OBVIOUS
<1>2. r \in Nat \ {0} /\ a \in Nat \ {0} /\ w \in Nat
  BY <1>1, Bounds
<1>3. /\ r * a \in Nat /\ r <= r * a
      /\ r * a <= r * (a + w) /\ r * (a + w) = (a + w) * r /\ (a + w) * r \in Nat
  BY <1>2
<1> QED
  BY <1>1, <1>3 DEF AtRisk

\* What counts is a number of bytes.
LEMMA CountedNat ==
  ASSUME NEW cal, NEW v \in Usages, NEW t
  PROVE  Counted(cal, v, t) \in Nat
BY DEF Counted, Usages

\* Nothing is missing of an interval in which nothing was used.
LEMMA NewTally ==
  ASSUME NEW cal, NEW s, NEW d, NEW t \in Moments, NEW max, NEW on,
         Held(cal, s, d, t, max, on),
         NEW k \in Nat, NEW b, b = 0
  PROVE  Tally(cal, s, d, t, max, on, b, k)
<1>1. /\ s \in States /\ s.saved \in Usages /\ d \in Usages /\ s.usage.bytes \in Nat
      /\ s.next_write \in Int /\ t \in Int
      /\ s.next_write = Never \/ s.next_write <= t + WriteDelay
  BY Fields, Bounds DEF Held, Fine, Moments
<1>2. /\ Missing(cal, s.saved, t, b, k) <= 0 /\ Missing(cal, d, t, b, k) <= 0
      /\ Missing(cal, d, t, b, k) \in Int
  <2>1. PICK x, y : x = Counted(cal, s.saved, t) /\ y = Counted(cal, d, t)
    OBVIOUS
  <2>2. x \in Nat /\ y \in Nat
    BY <1>1, <2>1, CountedNat
  <2>3. b - x - k <= 0 /\ b - y - k <= 0 /\ b - y - k \in Int
    BY <2>2
  <2> QED
    BY <2>1, <2>3 DEF Missing
<1>3. Missing(cal, d, t, b, k) <= AtRisk
  BY <1>2, RiskBounds
<1>4. Due(cal, s, d, t, b, k)
  <2>1. SUFFICES ASSUME s.next_write # Never
                 PROVE  0 <= MaxRate * (NoteInterval + WriteDelay + t - s.next_write)
    <3>1. PICK x, y : /\ x = Missing(cal, d, t, b, k)
                      /\ y = MaxRate * (NoteInterval + WriteDelay + t - s.next_write)
      OBVIOUS
    <3>2. x \in Int /\ x <= 0 /\ y \in Int
      BY <1>1, <1>2, <3>1, Bounds
    <3> QED
      BY <2>1, <3>1, <3>2 DEF Due
  <2>2. PICK x, y, r : /\ y = s.next_write /\ r = MaxRate
                       /\ x = NoteInterval + WriteDelay + t - y
    OBVIOUS
  <2>3. y \in Int /\ y <= t + WriteDelay /\ t \in Int
        /\ NoteInterval \in Nat /\ WriteDelay \in Nat /\ r \in Nat
    BY <1>1, <2>1, <2>2, Bounds
  <2>4. x \in Nat
    BY <2>2, <2>3
  <2>5. r * x \in Nat
    BY <2>3, <2>4
  <2> QED
    BY <2>2, <2>5
<1>5. b <= s.usage.bytes + k
  <2>1. PICK y : y = s.usage.bytes
    OBVIOUS
  <2>2. y \in Nat
    BY <1>1, <2>1
  <2> QED
    BY <2>1, <2>2
<1> QED
  BY <1>2, <1>3, <1>4, <1>5 DEF Tally, Recorded

\* The interval that is accounted is the current one, at starting hours for
\* which the code finds the interval of every moment.
LEMMA Current ==
  ASSUME NEW cal \in Cfgs, Midnight, NEW s, NEW t \in Moments, Fine(s, t),
         Fits(cal, s), t < s.end
  PROVE  s.usage.start = PeriodContaining(cal, t)
<1>1. s.usage \in Usages /\ Old(s.usage, t)
      /\ s.usage.start = PeriodContaining(cal, s.usage.start)
      /\ s.end = PeriodAfter(cal, s.usage.start)
  BY Fields DEF Fine, Fits
<1>2. PICK u : u = s.usage
  OBVIOUS
<1>3. /\ PeriodAfter(cal, u.start) = u.start + Span(cal)
      /\ Midnight /\ t < u.start + Span(cal) => u.start = PeriodContaining(cal, t)
  BY <1>1, <1>2, OldPeriod
<1> QED
  BY <1>1, <1>2, <1>3

\* It is running as long as no other one begins.
LEMMA StillRunning ==
  ASSUME NEW cal \in Cfgs, NEW s, NEW t \in Moments, Fine(s, t),
         Fits(cal, s), s.usage.start = PeriodContaining(cal, t)
  PROVE  t < s.end
<1>1. PICK S : S = PeriodContaining(cal, t)
  OBVIOUS
<1>2. t < S + Span(cal) /\ PeriodAfter(cal, S) = S + Span(cal)
  BY <1>1, PeriodBounds
<1>3. s.end = PeriodAfter(cal, s.usage.start)
  BY DEF Fits
<1> QED
  BY <1>1, <1>2, <1>3

\* A usage of the current interval that is covered is not missing.
LEMMA CoveredCounts ==
  ASSUME NEW cal, NEW v \in Usages, NEW w \in Usages, NEW t, Covers(v, w),
         w.start = PeriodContaining(cal, t), NEW b \in Nat, NEW k \in Nat, b <= w.bytes + k
  PROVE  Missing(cal, v, t, b, k) <= 0
<1>1. Counted(cal, v, t) = v.bytes
  BY DEF Counted, Covers
<1>2. v.bytes \in Nat /\ w.bytes \in Nat /\ v.bytes >= w.bytes
  BY DEF Usages, Covers
<1> QED
  BY <1>1, <1>2 DEF Missing

\* A note keeps the ledger: what is not recorded anew is as it was, and a write
\* that comes due leaves no more to lose than it may.
LEMMA KeptDue ==
  ASSUME NEW cal \in Cfgs, Midnight, NEW s, NEW r, NEW d, NEW t \in Moments,
         Fine(s, t), Fine(r, t), d \in Usages, Fits(cal, s), t < s.end,
         Kept(s, r, t), NEW b \in Nat, NEW k \in Nat, b <= s.usage.bytes + k,
         Missing(cal, s.saved, t, b, k) <= MaxRate * NoteInterval,
         s.next_write = Never => s.saved = d, Due(cal, s, d, t, b, k)
  PROVE  /\ b <= r.usage.bytes + k
         /\ \/ Missing(cal, r.saved, t, b, k) <= 0
            \/ r.saved = s.saved /\ r.noted_time = s.noted_time
         /\ Due(cal, r, d, t, b, k)
<1>1. /\ s.usage \in Usages /\ r.saved \in Usages /\ s.saved \in Usages
      /\ s.next_write \in Int /\ r.next_write \in Int /\ t \in Int
  BY Fields, Bounds DEF Fine, Moments
<1>2. s.usage.start = PeriodContaining(cal, t)
  BY Current
<1>3. Covers(r.saved, s.usage) => Missing(cal, r.saved, t, b, k) <= 0
  BY <1>1, <1>2, CoveredCounts
<1>4. \/ Missing(cal, r.saved, t, b, k) <= 0
      \/ r.saved = s.saved /\ r.noted_time = s.noted_time
  BY <1>3 DEF Kept
<1>5. Due(cal, r, d, t, b, k)
  <2>1. SUFFICES ASSUME r.next_write # Never, r.next_write > t
                 PROVE  Missing(cal, d, t, b, k) <=
                          MaxRate * (NoteInterval + WriteDelay + t - r.next_write)
    BY DEF Due
  <2>2. CASE r.next_write = s.next_write
    BY <2>1, <2>2 DEF Due
  <2>3. CASE r.next_write # s.next_write
    <3>1. r.next_write <= s.next_write /\ r.next_write <= t + WriteDelay
      BY <2>3 DEF Kept
    <3>2. PICK m, c, x, y, p, q :
            /\ m = Missing(cal, d, t, b, k) /\ c = MaxRate /\ x = r.next_write
            /\ y = s.next_write /\ p = NoteInterval + WriteDelay + t - x
            /\ q = NoteInterval + WriteDelay + t - y
      OBVIOUS
    <3>3. /\ c \in Nat \ {0} /\ x \in Int /\ y \in Int /\ x <= y /\ x <= t + WriteDelay
          /\ NoteInterval \in Nat /\ WriteDelay \in Nat /\ t \in Int
      BY <1>1, <3>1, <3>2, Bounds
    <3>4. /\ p \in Int /\ q \in Int /\ q <= p /\ NoteInterval <= p
      BY <3>2, <3>3
    <3>5. c * q <= c * p /\ c * NoteInterval <= c * p /\ c * q \in Int /\ c * p \in Int
          /\ c * NoteInterval \in Int
      BY <3>3, <3>4, Multiples
    <3>6. m \in Int
      <4>1. PICK z : z = Counted(cal, d, t)
        OBVIOUS
      <4>2. z \in Nat
        BY <4>1, CountedNat
      <4> QED
        BY <3>2, <4>1, <4>2 DEF Missing
    <3>7. CASE s.next_write = Never
      <4>1. m <= c * NoteInterval
        BY <3>2, <3>7
      <4> QED
        BY <3>2, <3>5, <3>6, <4>1
    <3>8. CASE s.next_write # Never
      <4>1. y > t
        BY <2>1, <3>2, <3>3
      <4>2. m <= c * q
        BY <3>2, <3>8, <4>1 DEF Due
      <4> QED
        BY <3>2, <3>5, <3>6, <4>2
    <3> QED
      BY <3>7, <3>8
  <2> QED
    BY <2>2, <2>3
<1>6. r.usage = s.usage
  BY DEF Kept
<1> QED
  BY <1>4, <1>5, <1>6

\* What is recorded misses no more than is used between two notes.
LEMMA RecordedBound ==
  ASSUME NEW cal, NEW s, NEW t \in Moments, Fine(s, t), NEW b \in Nat, NEW k \in Nat,
         Recorded(cal, s, t, b, k)
  PROVE  /\ Missing(cal, s.saved, t, b, k) \in Int
         /\ Missing(cal, s.saved, t, b, k) <= MaxRate * (NoteInterval - 1)
         /\ Missing(cal, s.saved, t, b, k) <= MaxRate * (t - s.noted_time)
         /\ Missing(cal, s.saved, t, b, k) <= MaxRate * NoteInterval
<1>1. PICK m, z, c, p, i, x : /\ m = Missing(cal, s.saved, t, b, k)
                              /\ z = Counted(cal, s.saved, t)
                              /\ c = MaxRate /\ x = s.noted_time /\ p = t - x
                              /\ i = NoteInterval - 1
  OBVIOUS
<1>2. /\ c \in Nat \ {0} /\ i \in Nat /\ NoteInterval \in Nat /\ t \in Int /\ x \in Int
      /\ x <= t /\ z \in Nat
  BY <1>1, Fields, Bounds, CountedNat DEF Fine, Moments
<1>3. m \in Int /\ p \in Nat
  BY <1>1, <1>2 DEF Missing
<1>4. c * p \in Nat /\ c * i \in Nat /\ c * i <= c * NoteInterval /\ c * NoteInterval \in Nat
  BY <1>1, <1>2, <1>3, Multiples
<1>5. m <= 0 \/ (t < x + NoteInterval /\ m <= c * p)
  BY <1>1 DEF Recorded
<1>6. t < x + NoteInterval => c * p <= c * i
  <2>1. t < x + NoteInterval => p <= i
    BY <1>1, <1>2
  <2> QED
    BY <1>2, <1>3, <2>1, Multiples
<1>7. m <= c * i /\ m <= c * p /\ m <= c * NoteInterval
  BY <1>3, <1>4, <1>5, <1>6
<1> QED
  BY <1>1, <1>3, <1>7

\* A note keeps the ledger.
LEMMA KeptTally ==
  ASSUME NEW cal \in Cfgs, Midnight, NEW s, NEW r, NEW d, NEW t \in Moments, NEW max \in Nat,
         Held(cal, s, d, t, max, TRUE), Held(cal, r, d, t, max, TRUE), Kept(s, r, t),
         NEW b \in Nat, NEW k \in Nat, Tally(cal, s, d, t, max, TRUE, b, k)
  PROVE  Tally(cal, r, d, t, max, TRUE, b, k)
<1>1. CASE max = 0
  <2>1. b = 0
    BY <1>1 DEF Tally
  <2> QED
    BY <2>1, NewTally
<1>2. CASE max # 0
  <2>1. /\ Fine(s, t) /\ Fine(r, t) /\ d \in Usages /\ Fits(cal, s) /\ t < s.end
        /\ s.next_write = Never => s.saved = d
    BY <1>2 DEF Held
  <2>2. /\ b <= s.usage.bytes + k /\ Recorded(cal, s, t, b, k)
        /\ Missing(cal, d, t, b, k) <= AtRisk /\ Due(cal, s, d, t, b, k)
    BY <1>2 DEF Tally
  <2>3. Missing(cal, s.saved, t, b, k) <= MaxRate * NoteInterval
    BY <2>1, <2>2, RecordedBound
  <2>4. /\ b <= r.usage.bytes + k
        /\ \/ Missing(cal, r.saved, t, b, k) <= 0
           \/ r.saved = s.saved /\ r.noted_time = s.noted_time
        /\ Due(cal, r, d, t, b, k)
    BY <2>1, <2>2, <2>3, KeptDue
  <2>5. Recorded(cal, r, t, b, k)
    BY <2>2, <2>4 DEF Recorded
  <2> QED
    BY <1>2, <2>2, <2>4, <2>5 DEF Tally
<1> QED
  BY <1>1, <1>2

\* What is fine stays fine as time passes.
LEMMA Later ==
  ASSUME NEW t \in Moments, NEW w \in Moments, w = t + 1
  PROVE  /\ \A u \in Usages : Old(u, t) => Old(u, w)
         /\ \A s : Fine(s, t) => Fine(s, w)
<1>1. t \in Int /\ w \in Int /\ DayLen \in Int /\ WriteDelay \in Int
  BY Bounds DEF Moments
<1>2. ASSUME NEW u \in Usages, Old(u, t) PROVE Old(u, w)
  <2>1. PICK x : x = u.start
    OBVIOUS
  <2>2. x \in Int
    BY <2>1 DEF Usages, Times
  <2>3. (x <= t + DayLen => x <= w + DayLen) /\ (x <= t => x <= w)
    BY <1>1, <2>2
  <2> QED
    BY <1>2, <2>1, <2>3 DEF Old
<1>3. ASSUME NEW s, Fine(s, t) PROVE Fine(s, w)
  <2>1. PICK x, y : x = s.noted_time /\ y = s.next_write
    OBVIOUS
  <2>2. s \in States /\ x \in Int /\ y \in Int /\ s.usage \in Usages /\ s.saved \in Usages
    BY <1>3, <2>1, Fields DEF Fine
  <2>3. (x <= t => x <= w) /\ (y <= t + WriteDelay => y <= w + WriteDelay)
    BY <1>1, <2>2
  <2>4. Old(s.usage, w) /\ Old(s.saved, w)
    BY <1>2, <1>3, <2>2 DEF Fine
  <2> QED
    BY <1>3, <2>1, <2>2, <2>3, <2>4 DEF Fine
<1> QED
  BY <1>2, <1>3

\* The state is written.
LEMMA WriteFine ==
  ASSUME NEW r, NEW t, Fine(r, t), NEW q, q = [r EXCEPT !.next_write = Never]
  PROVE  /\ Fine(q, t) /\ q.usage = r.usage /\ q.end = r.end /\ q.state = r.state
         /\ q.end_time = r.end_time /\ q.saved = r.saved /\ q.noted_time = r.noted_time
         /\ q.next_write = Never
<1>1. r \in States /\ Never \in Times
  BY Fields DEF Fine
<1>2. /\ q \in States /\ q.usage = r.usage /\ q.end = r.end /\ q.state = r.state
      /\ q.end_time = r.end_time /\ q.saved = r.saved /\ q.noted_time = r.noted_time
      /\ q.next_write = Never /\ q.wakeup = r.wakeup
  BY <1>1 DEF States
<1>3. Sane(q)
  BY <1>2 DEF Fine, Sane
<1> QED
  BY <1>2, <1>3 DEF Fine

\* A second, in which n bytes are moved.
Second(cal, s, n, r, s2, d, d2, w, max) ==
  /\ Stage(cal, Count(s, n, max), r, w)
  /\ max # 0 => Settled(cal, r, w)
  /\ Ends(r, s2, d, d2, w)
  /\ Held(cal, s2, d2, w, max, TRUE) /\ Outcome(s, s2, w, max)

\* A second keeps the first part of the invariant, and ends as it must.
LEMMA TickHeld ==
  ASSUME NEW cal \in Cfgs, NEW s, NEW d, NEW t \in Moments, NEW w \in Moments, w = t + 1,
         NEW max \in Nat, Held(cal, s, d, t, max, TRUE), NEW n \in Nat,
         NEW e, e = Elapse(cal, s, n, w, max), NEW s2, NEW d2, Saves(cal, e, s2, d, d2, w, max)
  PROVE  \E r : Second(cal, s, n, r, s2, d, d2, w, max)
<1>1. /\ Fine(s, t) /\ d \in Usages /\ Old(d, t)
      /\ max # 0 => Fits(cal, s)
      /\ s.next_write = Never => s.saved = d
  BY DEF Held
<1>2. Fine(s, w) /\ Old(d, w)
  BY <1>1, Later
<1>3. PICK r : /\ Stage(cal, Count(s, n, max), r, w) /\ Outcome(s, r, w, max)
               /\ max # 0 => Settled(cal, r, w)
               /\ Ends(r, s2, d, d2, w)
  BY <1>1, <1>2, TickFine
<1>4. PICK p : p = Count(s, n, max)
  OBVIOUS
<1>5. Fine(p, w) /\ p.saved = s.saved /\ p.next_write = s.next_write
  <2>1. Plus(p, s, n, w, max)
    BY <1>2, <1>4, CountFine
  <2> QED
    BY <2>1 DEF Plus
<1>6. Fine(r, w) /\ Dirtied(p, r)
  BY <1>3, <1>4 DEF Stage
<1>7. CASE s2 = r /\ d2 = d /\ ~(r.next_write <= w)
  <2>1. r.next_write = Never => r.saved = d
    BY <1>1, <1>5, <1>6 DEF Dirtied
  <2>2. Held(cal, s2, d2, w, max, TRUE)
    BY <1>1, <1>2, <1>3, <1>6, <1>7, <2>1 DEF Held, Settled
  <2> QED
    BY <1>3, <1>7, <2>2 DEF Second
<1>8. CASE s2 = [r EXCEPT !.next_write = Never] /\ d2 = r.saved
  <2>1. /\ Fine(s2, w) /\ s2.usage = r.usage /\ s2.end = r.end /\ s2.state = r.state
        /\ s2.end_time = r.end_time /\ s2.saved = r.saved /\ s2.next_write = Never
    BY <1>6, <1>8, WriteFine
  <2>2. d2 \in Usages /\ Old(d2, w)
    BY <1>6, <1>8, Fields DEF Fine
  <2>3. Held(cal, s2, d2, w, max, TRUE)
    BY <1>3, <1>8, <2>1, <2>2 DEF Held, Settled, Fits
  <2>4. Outcome(s, s2, w, max)
    BY <1>3, <2>1 DEF Outcome, Limited, Sleeps
  <2> QED
    BY <1>3, <1>8, <2>3, <2>4 DEF Second
<1> QED
  BY <1>3, <1>7, <1>8 DEF Ends

\* A second within an interval keeps the ledger: what it uses is counted, and
\* noted and written in time.
LEMMA TickTally ==
  ASSUME NEW cal \in Cfgs, Midnight, NEW s, NEW d, NEW t \in Moments, NEW w \in Moments,
         w = t + 1, NEW max \in Nat, max # 0, Held(cal, s, d, t, max, TRUE),
         NEW n \in 0 .. MaxRate, NEW r, NEW s2, NEW d2,
         Second(cal, s, n, r, s2, d, d2, w, max),
         PeriodContaining(cal, w) = PeriodContaining(cal, t),
         NEW b \in Nat, NEW k \in Nat, Tally(cal, s, d, t, max, TRUE, b, k),
         NEW c, c = b + n
  PROVE  Tally(cal, s2, d2, w, max, TRUE, c, k)
<1>0. /\ Stage(cal, Count(s, n, max), r, w) /\ Settled(cal, r, w) /\ Ends(r, s2, d, d2, w)
      /\ Held(cal, s2, d2, w, max, TRUE)
  BY DEF Second
<1>1. /\ Fine(s, t) /\ d \in Usages /\ Fits(cal, s) /\ t < s.end
      /\ s.next_write = Never => s.saved = d
  BY DEF Held
<1>2. /\ b <= s.usage.bytes + k /\ Recorded(cal, s, t, b, k)
      /\ Missing(cal, d, t, b, k) <= AtRisk /\ Due(cal, s, d, t, b, k)
  BY DEF Tally
<1>3. /\ n \in Nat /\ c \in Nat /\ n <= MaxRate /\ MaxRate \in Nat \ {0}
      /\ NoteInterval \in Nat \ {0} /\ WriteDelay \in Nat /\ t \in Int /\ w \in Int
  BY Bounds DEF Moments
<1>4. Fine(s, w)
  BY <1>1, Later
<1>5. PICK p : p = Count(s, n, max)
  OBVIOUS
<1>6. /\ Fine(p, w) /\ p.usage.start = s.usage.start /\ p.end = s.end
      /\ p.saved = s.saved /\ p.next_write = s.next_write /\ p.noted_time = s.noted_time
      /\ p.usage.bytes = s.usage.bytes + n /\ Fits(cal, p)
  <2>1. PICK z \in Nat : z = n
    BY <1>3
  <2>2. p = Count(s, z, max)
    BY <1>5, <2>1
  <2>3. Plus(p, s, z, w, max)
    BY <1>4, <2>2, CountFine
  <2> QED
    BY <1>1, <2>1, <2>3 DEF Plus, Fits
<1>7. s.usage.start = PeriodContaining(cal, w)
  BY <1>1, Current
<1>8. w < p.end
  BY <1>1, <1>4, <1>6, <1>7, StillRunning
<1>9. Fine(r, w) /\ Kept(p, r, w) /\ Dirtied(p, r)
  BY <1>0, <1>5, <1>8 DEF Stage
<1>10. \A v \in Usages : /\ Missing(cal, v, w, c, k) = Missing(cal, v, t, b, k) + n
                         /\ Missing(cal, v, t, b, k) \in Int
  <2>1. SUFFICES ASSUME NEW v \in Usages
                 PROVE  /\ Missing(cal, v, w, c, k) = Missing(cal, v, t, b, k) + n
                        /\ Missing(cal, v, t, b, k) \in Int
    OBVIOUS
  <2>2. PICK z : z = Counted(cal, v, t)
    OBVIOUS
  <2>3. z \in Nat /\ z = Counted(cal, v, w)
    BY <2>2, CountedNat DEF Counted
  <2>4. Missing(cal, v, t, b, k) = b - z - k /\ Missing(cal, v, w, c, k) = c - z - k
    BY <2>2, <2>3 DEF Missing
  <2> QED
    BY <1>3, <2>3, <2>4
<1>11. s.saved \in Usages /\ s.noted_time \in Int /\ s.next_write \in Int
       /\ s.usage.bytes \in Nat /\ r.saved \in Usages /\ r.next_write \in Int
       /\ s.noted_time <= t
  BY <1>1, <1>9, Fields DEF Fine
<1>12. PICK m, q, y, i, j, a : /\ m = Missing(cal, s.saved, t, b, k) /\ q = MaxRate
                      /\ y = s.noted_time
                      /\ i = NoteInterval - 1 /\ j = t - y /\ a = w - y
  OBVIOUS
<1>13. /\ q \in Nat \ {0} /\ i \in Int /\ j \in Int /\ a = j + 1 /\ NoteInterval = i + 1
       /\ a \in Int /\ m \in Int
  BY <1>3, <1>10, <1>11, <1>12
<1>14. q * a = q * j + q /\ q * NoteInterval = q * i + q /\ q * j \in Int /\ q * i \in Int
  BY <1>13, Multiples
<1>15. m <= q * i /\ m <= q * j
  BY <1>1, <1>2, <1>12, RecordedBound
<1>16. m + n <= q * NoteInterval /\ m + n <= q * a
  BY <1>3, <1>12, <1>13, <1>14, <1>15
<1>17. /\ Missing(cal, p.saved, w, c, k) <= MaxRate * NoteInterval
       /\ Missing(cal, s.saved, w, c, k) <= MaxRate * (w - s.noted_time)
  BY <1>6, <1>10, <1>11, <1>12, <1>16
<1>18. c <= p.usage.bytes + k
  <2>1. PICK z : z = s.usage.bytes
    OBVIOUS
  <2>2. z \in Nat /\ b <= z + k /\ p.usage.bytes = z + n
    BY <1>2, <1>6, <1>11, <2>1
  <2> QED
    BY <1>3, <2>2
<1>19. Due(cal, p, d, w, c, k)
  <2>1. SUFFICES ASSUME s.next_write # Never, s.next_write > w
                 PROVE  Missing(cal, d, w, c, k) <=
                          MaxRate * (NoteInterval + WriteDelay + w - s.next_write)
    BY <1>6 DEF Due
  <2>2. PICK x, f, g, z : /\ x = s.next_write /\ z = Missing(cal, d, t, b, k)
                          /\ f = NoteInterval + WriteDelay + t - x
                          /\ g = NoteInterval + WriteDelay + w - x
    OBVIOUS
  <2>3. x \in Int /\ z \in Int
    BY <1>1, <1>10, <1>11, <2>2
  <2>4. f \in Int /\ g \in Int /\ g = f + 1
    BY <1>3, <2>2, <2>3
  <2>5. q * g = q * f + q /\ q * f \in Int
    BY <1>13, <2>4, Multiples
  <2>6. s.next_write > t
    BY <1>3, <1>11, <2>1
  <2>7. z <= q * f
    BY <1>2, <1>12, <2>1, <2>2, <2>6 DEF Due
  <2>8. z + n <= q * g
    BY <1>3, <1>12, <2>3, <2>5, <2>7
  <2>9. Missing(cal, d, w, c, k) = z + n
    BY <1>1, <1>10, <2>2
  <2> QED
    BY <1>12, <2>2, <2>8, <2>9
<1>20. /\ c <= r.usage.bytes + k
       /\ \/ Missing(cal, r.saved, w, c, k) <= 0
          \/ r.saved = p.saved /\ r.noted_time = p.noted_time
       /\ Due(cal, r, d, w, c, k)
  BY <1>1, <1>3, <1>6, <1>8, <1>9, <1>17, <1>18, <1>19, KeptDue
<1>21. Recorded(cal, r, w, c, k)
  BY <1>0, <1>6, <1>17, <1>20 DEF Recorded, Settled
<1>22. Missing(cal, r.saved, w, c, k) <= MaxRate * NoteInterval
  BY <1>3, <1>9, <1>21, RecordedBound
<1>23. Missing(cal, r.saved, w, c, k) <= AtRisk
  <2>1. PICK x, z : x = Missing(cal, r.saved, w, c, k) /\ z = MaxRate * NoteInterval
    OBVIOUS
  <2>2. x \in Int /\ x <= z /\ z \in Int /\ z <= AtRisk /\ AtRisk \in Int
    BY <1>3, <1>10, <1>11, <1>22, <2>1, RiskBounds
  <2> QED
    BY <2>1, <2>2
<1>24. CASE s2 = r /\ d2 = d /\ ~(r.next_write <= w)
  <2>1. Missing(cal, d, w, c, k) <= AtRisk
    <3>1. CASE r.next_write = Never
      <4>1. r.saved = d
        BY <1>0, <1>24, <3>1 DEF Held
      <4> QED
        BY <1>23, <4>1
    <3>2. CASE r.next_write # Never
      <4>1. PICK x, f, g, z : /\ x = r.next_write /\ z = Missing(cal, d, w, c, k)
                              /\ f = NoteInterval + WriteDelay
                              /\ g = NoteInterval + WriteDelay + w - x
        OBVIOUS
      <4>2. x \in Int /\ x > w /\ z \in Int
        <5>1. /\ Missing(cal, d, w, c, k) = Missing(cal, d, t, b, k) + n
              /\ Missing(cal, d, t, b, k) \in Int
          BY <1>1, <1>10
        <5> QED
          BY <1>3, <1>11, <1>24, <4>1, <5>1
      <4>3. f \in Int /\ g \in Int /\ g <= f
        BY <1>3, <4>1, <4>2
      <4>4. q * g <= q * f /\ q * g \in Int /\ q * f \in Int
        BY <1>13, <4>3, Multiples
      <4>5. z <= q * g
        BY <1>12, <1>20, <3>2, <4>1, <4>2 DEF Due
      <4>6. AtRisk = q * f
        BY <1>12, <4>1, RiskBounds
      <4> QED
        BY <4>1, <4>2, <4>4, <4>5, <4>6
    <3> QED
      BY <3>1, <3>2
  <2> QED
    BY <1>20, <1>21, <1>24, <2>1 DEF Tally
<1>25. CASE s2 = [r EXCEPT !.next_write = Never] /\ d2 = r.saved
  <2>1. /\ s2.usage = r.usage /\ s2.saved = r.saved /\ s2.noted_time = r.noted_time
        /\ s2.next_write = Never
    BY <1>9, <1>25, WriteFine
  <2>2. Recorded(cal, s2, w, c, k)
    BY <1>21, <2>1 DEF Recorded
  <2>3. Due(cal, s2, d2, w, c, k)
    BY <2>1 DEF Due
  <2> QED
    BY <1>20, <1>23, <1>25, <2>1, <2>2, <2>3 DEF Tally
<1> QED
  BY <1>0, <1>24, <1>25 DEF Ends

\* A process that has just started knows what is on disk.
LEMMA BootFine ==
  ASSUME NEW d \in Usages, NEW t \in Moments, Old(d, t), NEW s, s = Boot(d)
  PROVE  /\ Fine(s, t) /\ s.saved = d /\ s.next_write = Never /\ Known(s) = d
         /\ s.state = "live"
<1>1. /\ 0 \in Times /\ Never \in Times /\ t \in Nat /\ DayLen \in Nat /\ MaxRate \in Nat
      /\ Never \in Nat
  BY Bounds DEF Times, Moments
<1>2. PICK f : f = Fresh
  OBVIOUS
<1>3. f \in Usages /\ f.start = 0
  BY <1>1, <1>2 DEF Fresh, Usages
<1>4. /\ s.usage = f /\ s.end = 0 /\ s.wakeup = 0 /\ s.state = "live" /\ s.noted_time = 0
      /\ s.saved = d /\ s.next_write = Never
  BY <1>2 DEF Boot
<1>5. s \in States
  BY <1>1, <1>2, <1>3 DEF Boot, States
<1>6. Old(f, t)
  BY <1>1, <1>3 DEF Old
<1>7. Sane(s)
  BY <1>3, <1>4 DEF Sane
<1> QED
  BY <1>1, <1>3, <1>4, <1>5, <1>6, <1>7 DEF Fine, Known

\* A process that starts in s goes on with what is on disk.
Starts(cal, s, d, t, max) ==
  /\ Held(cal, s, d, t, max, TRUE) /\ s.saved = d /\ s.next_write = Never
  /\ s.state = "live"
  /\ max # 0 => s.usage.bytes >= Counted(cal, d, t)

\* or_state_load and options_act
LEMMA BootedHeld ==
  ASSUME NEW cal \in Cfgs, NEW d \in Usages, NEW t \in Moments, Old(d, t),
         NEW max \in Nat, NEW s, s = Booted(cal, d, t, max)
  PROVE  Starts(cal, s, d, t, max)
<1>1. PICK p : p = Boot(d)
  OBVIOUS
<1>2. /\ Fine(p, t) /\ p.saved = d /\ p.next_write = Never /\ Known(p) = d
      /\ p.state = "live"
  BY <1>1, BootFine
<1>3. CASE max = 0
  BY <1>1, <1>2, <1>3 DEF Booted, Held, Starts
<1>4. CASE max # 0
  <2>1. s = Configure(cal, p, t, max)
    BY <1>1, <1>4 DEF Booted
  <2>2. /\ Fine(s, t) /\ SameButInterval(p, s) /\ Fits(cal, s) /\ t < s.end
        /\ s.usage.bytes >= Counted(cal, Known(p), t)
    BY <1>2, <2>1, ConfigureFine
  <2> QED
    BY <1>2, <2>2 DEF Held, SameButInterval, Starts
<1> QED
  BY <1>3, <1>4

\* What is on disk is enough for the ledger of a process that starts.
LEMMA BootedTally ==
  ASSUME NEW cal, NEW s, NEW d, NEW t \in Moments, NEW max \in Nat,
         Starts(cal, s, d, t, max),
         NEW b \in Nat, NEW k \in Nat, max = 0 => b = 0, Missing(cal, d, t, b, k) <= 0
  PROVE  Tally(cal, s, d, t, max, TRUE, b, k)
<1>1. /\ s.usage.bytes \in Nat /\ Counted(cal, d, t) \in Nat
      /\ s.saved = d /\ s.next_write = Never
      /\ max # 0 => s.usage.bytes >= Counted(cal, d, t)
  BY Fields, CountedNat DEF Held, Fine, Starts
<1>2. PICK x, y, m : x = s.usage.bytes /\ y = Counted(cal, d, t) /\ m = Missing(cal, d, t, b, k)
  OBVIOUS
<1>3. x \in Nat /\ y \in Nat /\ m = b - y - k /\ m <= 0 /\ (max # 0 => x >= y)
  BY <1>1, <1>2 DEF Missing
<1>4. (max # 0 => b <= x + k) /\ m <= AtRisk
  BY <1>3, RiskBounds
<1> QED
  BY <1>1, <1>2, <1>3, <1>4 DEF Tally, Recorded, Due

\* accounting_record_bandwidth_usage, as a note
LEMMA RecordKept ==
  ASSUME NEW s, NEW t \in Moments, Fine(s, t), NEW r, r = Record(s, t)
  PROVE  /\ Fine(r, t) /\ Kept(s, r, t) /\ Covers(r.saved, s.usage)
         /\ r.next_write # Never
<1>1. s \in States /\ s.noted_time <= t
  BY DEF Fine
<1>2. /\ r \in States /\ SameButRecord(s, r) /\ Covers(r.saved, s.usage)
      /\ r.noted_time = s.noted_time
      /\ r.next_write <= s.next_write /\ r.next_write <= t + WriteDelay
  BY <1>1, RecordFine
<1>3. Fine(r, t)
  BY <1>1, <1>2, FineRecord
<1>4. Kept(s, r, t)
  BY <1>2 DEF Kept, SameButRecord
<1>5. r.next_write # Never
  <2>1. t + WriteDelay < Never /\ t \in Int /\ WriteDelay \in Int /\ Never \in Int
    BY Bounds DEF Moments
  <2> QED
    BY <1>2, <2>1
<1> QED
  BY <1>2, <1>3, <1>4, <1>5

\* SIGHUP, with accounting on: the usage is recorded.
LEMMA RecordedHeld ==
  ASSUME NEW cal \in Cfgs, NEW s, NEW d, NEW t \in Moments, NEW max \in Nat,
         Held(cal, s, d, t, max, TRUE),
         NEW r, r = IF max = 0 THEN s ELSE Record(s, t)
  PROVE  /\ Held(cal, r, d, t, max, TRUE) /\ Kept(s, r, t)
         /\ max # 0 => Covers(r.saved, r.usage)
<1>1. Fine(s, t)
  BY DEF Held
<1>2. CASE max = 0
  BY <1>1, <1>2, StageNone
<1>3. CASE max # 0
  <2>1. r = Record(s, t)
    BY <1>3
  <2>2. /\ Fine(r, t) /\ Kept(s, r, t) /\ Covers(r.saved, s.usage)
        /\ r.next_write # Never
    BY <1>1, <2>1, RecordKept
  <2>3. r.usage = s.usage /\ r.end = s.end
    BY <2>2 DEF Kept
  <2> QED
    BY <2>2, <2>3 DEF Held, Fits
<1> QED
  BY <1>2, <1>3

\* q is r with the options read again, AccountingStart being cal and AccountingMax new.
Rereads(cal, q, r, d, t, new) ==
  /\ Held(cal, q, d, t, new, TRUE) /\ q.saved = r.saved /\ q.next_write = r.next_write
  /\ q.noted_time = r.noted_time
  /\ new # 0 /\ r.usage.start # 0 /\ r.usage.start = PeriodContaining(cal, t) =>
       q.usage = r.usage

\* SIGHUP: then the options are read again.
LEMMA HupHeld ==
  ASSUME NEW old, NEW cal \in Cfgs, NEW r, NEW d, NEW t \in Moments, NEW max \in Nat,
         NEW new \in Nat, Held(old, r, d, t, max, TRUE),
         NEW q, q = IF new = 0 THEN r ELSE Configure(cal, r, t, new)
  PROVE  Rereads(cal, q, r, d, t, new)
<1>1. /\ Fine(r, t) /\ d \in Usages /\ Old(d, t) /\ (r.next_write = Never => r.saved = d)
  BY DEF Held
<1>2. CASE new = 0
  BY <1>1, <1>2 DEF Held, Rereads
<1>3. CASE new # 0
  <2>1. q = Configure(cal, r, t, new)
    BY <1>3
  <2>2. /\ Fine(q, t) /\ SameButInterval(r, q) /\ Fits(cal, q) /\ t < q.end
        /\ r.usage.start # 0 /\ r.usage.start = PeriodContaining(cal, t) => q.usage = r.usage
    BY <1>1, <2>1, ConfigureFine
  <2> QED
    BY <1>1, <2>2 DEF Held, SameButInterval, Rereads
<1> QED
  BY <1>2, <1>3

\* Settings that agree on the current interval agree on what is missing of it.
LEMMA SameInterval ==
  ASSUME NEW old, NEW cal, NEW t, PeriodContaining(cal, t) = PeriodContaining(old, t)
  PROVE  \A v, b, k : Missing(cal, v, t, b, k) = Missing(old, v, t, b, k)
BY DEF Missing, Counted

\* The ledger does not depend on which limit accounting is turned on with, nor on
\* the settings as long as they agree on the current interval.
LEMMA HupTally ==
  ASSUME NEW old \in Cfgs, NEW cal \in Cfgs, Midnight, NEW r, NEW q, NEW d,
         NEW t \in Moments, NEW max \in Nat, NEW new \in Nat,
         NEW b \in Nat, NEW k \in Nat, Held(old, r, d, t, max, TRUE),
         Rereads(cal, q, r, d, t, new), Tally(old, r, d, t, max, TRUE, b, k),
         NEW b2, NEW k2 \in Nat,
         \/ b2 = 0
         \/ /\ b2 = b /\ k2 = k /\ new # 0
            /\ PeriodContaining(cal, t) = PeriodContaining(old, t)
  PROVE  Tally(cal, q, d, t, new, TRUE, b2, k2)
<1>1. CASE b2 = 0
  BY <1>1, NewTally DEF Rereads
<1>2. CASE b2 # 0
  <2>1. /\ b2 = b /\ k2 = k /\ new # 0 /\ max # 0
        /\ PeriodContaining(cal, t) = PeriodContaining(old, t)
    BY <1>2 DEF Tally
  <2>2. Fine(r, t) /\ Fits(old, r) /\ t < r.end
    BY <2>1 DEF Held
  <2>3. r.usage.start = PeriodContaining(old, t) /\ r.usage.start # 0
    BY <2>2, Current DEF Fits
  <2>4. /\ q.usage = r.usage /\ q.saved = r.saved /\ q.next_write = r.next_write
        /\ q.noted_time = r.noted_time
    BY <2>1, <2>3 DEF Rereads
  <2>5. \A v : Missing(cal, v, t, b, k) = Missing(old, v, t, b, k)
    BY <2>1, SameInterval
  <2>6. /\ b <= r.usage.bytes + k /\ Recorded(old, r, t, b, k)
        /\ Missing(old, d, t, b, k) <= AtRisk /\ Due(old, r, d, t, b, k)
    BY <2>1 DEF Tally
  <2>7. Recorded(cal, q, t, b, k)
    BY <2>4, <2>5, <2>6 DEF Recorded
  <2>8. Due(cal, q, d, t, b, k)
    BY <2>4, <2>5, <2>6 DEF Due
  <2> QED
    BY <2>1, <2>4, <2>5, <2>6, <2>7, <2>8 DEF Tally
<1> QED
  BY <1>1, <1>2

\* tor_cleanup: what the state file says in the end.
LEMMA ExitHeld ==
  ASSUME NEW cal \in Cfgs, NEW s, NEW d, NEW t \in Moments, NEW max \in Nat,
         Held(cal, s, d, t, max, TRUE),
         NEW e, e = StateSave(cal, IF max = 0 THEN s ELSE Record(s, t), t, max).saved
  PROVE  /\ e \in Usages /\ Old(e, t)
         /\ max # 0 => Covers(e, s.usage)
<1>1. Fine(s, t) /\ (max # 0 => t < s.end)
  BY DEF Held
<1>2. PICK r : r = IF max = 0 THEN s ELSE Record(s, t)
  OBVIOUS
<1>3. PICK q : q = IF max = 0 THEN r ELSE Housekeeping(cal, r, t, max)
  OBVIOUS
<1>4. e = [q EXCEPT !.next_write = Never].saved
  BY <1>2, <1>3 DEF StateSave
<1>5. /\ Fine(q, t) /\ (max # 0 => Covers(q.saved, s.usage))
  <2>1. CASE max = 0
    BY <1>1, <1>2, <1>3, <2>1
  <2>2. CASE max # 0
    <3>1. r = Record(s, t) /\ q = Housekeeping(cal, r, t, max)
      BY <1>2, <1>3, <2>2
    <3>2. Fine(r, t) /\ Kept(s, r, t) /\ Covers(r.saved, s.usage)
      BY <1>1, <3>1, RecordKept
    <3>3. t < r.end /\ r.usage = s.usage
      BY <1>1, <2>2, <3>2 DEF Kept
    <3>4. Fine(q, t) /\ Kept(r, q, t)
      BY <3>1, <3>2, <3>3, HousekeepingFine
    <3> QED
      BY <3>2, <3>3, <3>4 DEF Kept
  <2> QED
    BY <2>1, <2>2
<1>6. PICK p : p = [q EXCEPT !.next_write = Never]
  OBVIOUS
<1>7. p.saved = q.saved
  BY <1>5, <1>6, WriteFine
<1>8. e = q.saved
  BY <1>4, <1>6, <1>7
<1>9. e \in Usages /\ Old(e, t)
  BY <1>5, <1>8, Fields DEF Fine
<1> QED
  BY <1>5, <1>8, <1>9

\* A process that is down.
LEMMA DownHeld ==
  ASSUME NEW cal, NEW d \in Usages, NEW t \in Moments, Old(d, t), NEW max,
         NEW s, s = Boot(d)
  PROVE  Held(cal, s, d, t, max, FALSE)
<1>1. Fine(s, t) /\ s.saved = d
  BY BootFine
<1> QED
  BY <1>1 DEF Held

-----------------------------------------------------------------------------
(* Every step keeps the invariant.                                         *)

\* What a step must establish.
Keeps(cal, s, d, t, max, on, b, c) ==
  /\ cal \in Cfgs /\ t \in Moments /\ max \in Limits /\ on \in BOOLEAN
  /\ b \in Nat /\ c \in 0 .. MaxCrashes
  /\ Held(cal, s, d, t, max, on)
  /\ Midnight => Tally(cal, s, d, t, max, on, b, c * AtRisk)

\* It is enough to establish it of the next values of the variables.
LEMMA Keep ==
  ASSUME Keeps(cfg', h', disk', now', limit', up', used', crashes')
  PROVE  HInv'
<1>1. /\ Held(cfg, h, disk, now, limit, up)' <=> Held(cfg', h', disk', now', limit', up')
      /\ Midnight' <=> Midnight
      /\ Tally(cfg, h, disk, now, limit, up, used, crashes * AtRisk)' <=>
           Tally(cfg', h', disk', now', limit', up', used', crashes' * AtRisk)
  BY DEF Held, Fine, Sane, Fits, Old, Tally, Recorded, Due, Missing, Counted, Midnight,
         AtRisk, PeriodContaining, PeriodAfter, Edge
<1> QED
  BY <1>1 DEF HInv, Base, Keeps, Moments

\* What crashes have lost is a number of bytes.
LEMMA LostNat ==
  ASSUME NEW c \in 0 .. MaxCrashes
  PROVE  c * AtRisk \in Nat /\ (c + 1) * AtRisk = c * AtRisk + AtRisk
<1>1. c \in Nat /\ AtRisk \in Nat
  BY Bounds, RiskBounds
<1> QED
  BY <1>1

\* The first state.
LEMMA InitHolds == Init => HInv
<1>1. SUFFICES ASSUME Init PROVE HInv
  OBVIOUS
<1>2. /\ now = StartTime /\ cfg \in Cfgs /\ limit \in Limits /\ up = TRUE /\ disk = Fresh
      /\ h = Booted(cfg, Fresh, StartTime, limit) /\ used = 0 /\ crashes = 0
  BY <1>1 DEF Init
<1>3. PICK d, t, cal : d = Fresh /\ t = StartTime /\ cal = cfg /\ cal \in Cfgs
  BY <1>2
<1>4. t \in Moments /\ limit \in Nat /\ 0 \in 0 .. MaxCrashes /\ t \in Nat
  BY <1>2, <1>3, Bounds DEF Moments
<1>5. d \in Usages /\ d.start = 0
  BY <1>3, Bounds DEF Fresh, Usages, Times
<1>6. Old(d, t)
  BY <1>4, <1>5, Bounds DEF Old
<1>7. PICK s, max : s = h /\ max = limit /\ max \in Nat
  BY <1>4
<1>8. Held(cal, s, d, t, max, TRUE)
  <2>1. s = Booted(cal, d, t, max)
    BY <1>2, <1>3, <1>7
  <2>2. Starts(cal, s, d, t, max)
    BY <1>3, <1>4, <1>5, <1>6, <1>7, <2>1, BootedHeld
  <2> QED
    BY <2>2 DEF Starts
<1>9. PICK k \in Nat : k = crashes * AtRisk
  BY <1>2, <1>4, LostNat
<1>10. Tally(cal, s, d, t, max, TRUE, used, k)
  BY <1>2, <1>4, <1>8, NewTally
<1> QED
  BY <1>2, <1>3, <1>4, <1>7, <1>8, <1>9, <1>10 DEF HInv, Base

\* The invariant, with names for the values of the variables.
LEMMA InvParts ==
  ASSUME HInv
  PROVE  /\ cfg \in Cfgs /\ now \in Moments /\ limit \in Limits /\ limit \in Nat
         /\ up \in BOOLEAN /\ used \in Nat /\ crashes \in 0 .. MaxCrashes
         /\ Held(cfg, h, disk, now, limit, up) /\ disk \in Usages /\ Old(disk, now)
         /\ Midnight => Tally(cfg, h, disk, now, limit, up, used, crashes * AtRisk)
         /\ crashes * AtRisk \in Nat
BY Bounds, LostNat DEF HInv, Base, Held

\* second_elapsed_callback
LEMMA TickKeeps ==
  ASSUME HInv, Tick
  PROVE  HInv' /\ Outcome(h, h', now', limit)
<1>1. /\ up = TRUE /\ now < MaxTime /\ now' = now + 1 /\ cfg' = cfg /\ limit' = limit
      /\ up' = up
      /\ crashes' = IF Turn THEN 0 ELSE crashes
  BY InvParts DEF Tick
<1>2. PICK n \in 0 .. MaxRate :
        /\ \E s \in {Elapse(cfg, h, n, now', limit)} :
             IF s.next_write <= now'
             THEN h' = StateSave(cfg, s, now', limit) /\ disk' = h'.saved
             ELSE h' = s /\ UNCHANGED disk
        /\ used' = IF Turn \/ limit = 0 THEN 0 ELSE used + n
  BY DEF Tick
<1>3. PICK cal, s, d, t, max, b, c, k :
        /\ cal = cfg /\ cal \in Cfgs
        /\ s = h /\ d = disk /\ t = now /\ max = limit /\ b = used /\ c = crashes
        /\ k = c * AtRisk /\ t \in Moments /\ max \in Nat /\ b \in Nat
        /\ c \in 0 .. MaxCrashes /\ k \in Nat
  BY InvParts
<1>4. PICK w, s2, d2, b2, c2 : /\ w = now' /\ s2 = h' /\ d2 = disk' /\ b2 = used'
                               /\ c2 = crashes'
  OBVIOUS
<1>5. w = t + 1 /\ w \in Moments /\ n \in Nat
  BY <1>1, <1>3, <1>4, Bounds DEF Moments
<1>6. Held(cal, s, d, t, max, TRUE) /\ (Midnight => Tally(cal, s, d, t, max, TRUE, b, k))
  BY <1>1, <1>3, InvParts
<1>7. PICK e : e = Elapse(cal, s, n, w, max)
  OBVIOUS
<1>8. Saves(cal, e, s2, d, d2, w, max)
  BY <1>2, <1>3, <1>4, <1>7 DEF Saves
<1>9. PICK r : Second(cal, s, n, r, s2, d, d2, w, max)
  <2>1. /\ cal \in Cfgs /\ t \in Moments /\ w \in Moments /\ w = t + 1 /\ max \in Nat
        /\ Held(cal, s, d, t, max, TRUE) /\ n \in Nat /\ e = Elapse(cal, s, n, w, max)
        /\ Saves(cal, e, s2, d, d2, w, max)
    BY <1>3, <1>5, <1>6, <1>7, <1>8, InvParts
  <2> QED
    BY <2>1, TickHeld
<1>10. Held(cal, s2, d2, w, max, TRUE) /\ Outcome(s, s2, w, max)
  BY <1>9 DEF Second
<1>11. PICK k2 \in Nat : /\ k2 = c2 * AtRisk /\ c2 \in 0 .. MaxCrashes
                         /\ ~Turn => k2 = k
  <2>1. c2 \in 0 .. MaxCrashes /\ (~Turn => c2 = c)
    BY <1>1, <1>3, <1>4, Bounds
  <2>2. c2 * AtRisk \in Nat
    BY <2>1, LostNat
  <2> QED
    BY <1>3, <2>1, <2>2
<1>12. b2 \in Nat
  BY <1>2, <1>3, <1>4, <1>5
<1>13. ASSUME Midnight PROVE Tally(cal, s2, d2, w, max, TRUE, b2, k2)
  <2>1. CASE Turn \/ limit = 0
    <3>1. b2 = 0
      BY <1>2, <1>4, <2>1
    <3> QED
      BY <1>5, <1>10, <3>1, NewTally
  <2>2. CASE ~Turn /\ limit # 0
    <3>1. b2 = b + n /\ max # 0 /\ k2 = k
      BY <1>2, <1>3, <1>4, <1>11, <2>2
    <3>2. PeriodContaining(cal, w) = PeriodContaining(cal, t)
      BY <1>1, <1>3, <1>4, <2>2 DEF Turn
    <3>3. /\ cal \in Cfgs /\ t \in Moments /\ w \in Moments /\ w = t + 1 /\ max \in Nat
          /\ max # 0 /\ b \in Nat /\ k \in Nat /\ b2 = b + n
          /\ Held(cal, s, d, t, max, TRUE) /\ Second(cal, s, n, r, s2, d, d2, w, max)
          /\ Tally(cal, s, d, t, max, TRUE, b, k)
      BY <1>3, <1>5, <1>6, <1>9, <1>13, <3>1, InvParts
    <3>4. Tally(cal, s2, d2, w, max, TRUE, b2, k)
      BY <1>13, <3>2, <3>3, TickTally
    <3> QED
      BY <3>1, <3>4
  <2> QED
    BY <2>1, <2>2
<1>14. Keeps(cfg', h', disk', now', limit', up', used', crashes')
  BY <1>1, <1>3, <1>4, <1>5, <1>10, <1>11, <1>12, <1>13, InvParts DEF Keeps
<1> QED
  BY <1>1, <1>3, <1>4, <1>10, <1>14, Keep

\* SIGTERM, and the end of the shutdown period
LEMMA TerminateKeeps ==
  ASSUME HInv, Terminate
  PROVE  HInv'
<1>1. /\ up = TRUE /\ up' = FALSE /\ now' = now /\ cfg' = cfg /\ limit' = limit
      /\ used' = used /\ crashes' = crashes /\ h' = Boot(disk')
      /\ disk' = StateSave(cfg, IF limit = 0 THEN h ELSE Record(h, now), now, limit).saved
  BY InvParts DEF Terminate, Exit
<1>2. PICK cal, s, d, t, max, b, k, s2, e :
        /\ cal = cfg /\ cal \in Cfgs
        /\ s = h /\ d = disk /\ t = now /\ max = limit /\ b = used /\ k = crashes * AtRisk
        /\ s2 = h' /\ e = disk' /\ t \in Moments /\ max \in Nat /\ b \in Nat /\ k \in Nat
  BY InvParts
<1>3. /\ cal \in Cfgs /\ Held(cal, s, d, t, max, TRUE)
      /\ Midnight => Tally(cal, s, d, t, max, TRUE, b, k)
      /\ e = StateSave(cal, IF max = 0 THEN s ELSE Record(s, t), t, max).saved
  BY <1>1, <1>2, InvParts
<1>4. e \in Usages /\ Old(e, t) /\ (max # 0 => Covers(e, s.usage))
  BY <1>2, <1>3, ExitHeld
<1>5. Held(cal, s2, e, t, max, FALSE)
  BY <1>1, <1>2, <1>3, <1>4, DownHeld
<1>6. ASSUME Midnight PROVE Tally(cal, s2, e, t, max, FALSE, b, k)
  <2>1. CASE max = 0
    <3>1. b = 0
      BY <1>3, <1>6, <2>1 DEF Tally
    <3> QED
      BY <1>2, <1>5, <3>1, NewTally
  <2>2. CASE max # 0
    <3>1. Fine(s, t) /\ Fits(cal, s) /\ t < s.end /\ b <= s.usage.bytes + k
      BY <1>3, <1>6, <2>2 DEF Held, Tally
    <3>2. s.usage.start = PeriodContaining(cal, t)
      BY <1>2, <1>3, <1>6, <3>1, Current
    <3>3. s.usage \in Usages
      BY <3>1, Fields DEF Fine
    <3>4. Missing(cal, e, t, b, k) <= 0
      BY <1>2, <1>4, <2>2, <3>1, <3>2, <3>3, CoveredCounts
    <3> QED
      BY <2>2, <3>4 DEF Tally
  <2> QED
    BY <2>1, <2>2
<1>7. Keeps(cfg', h', disk', now', limit', up', used', crashes')
  BY <1>1, <1>2, <1>5, <1>6, InvParts DEF Keeps
<1> QED
  BY <1>1, <1>3, <1>7, Keep

\* SIGINT
LEMMA InterruptKeeps ==
  ASSUME HInv, Interrupt
  PROVE  HInv'
<1>1. /\ up = TRUE /\ up' = up /\ now' = now /\ cfg' = cfg /\ limit' = limit
      /\ used' = used /\ crashes' = crashes /\ disk' = disk
      /\ h' = Begin(h, "exiting", now)
  BY InvParts DEF Interrupt
<1>2. PICK cal, s, d, t, max, b, k, r, new :
        /\ cal = cfg /\ cal \in Cfgs
        /\ s = h /\ d = disk /\ t = now /\ max = limit /\ b = used /\ k = crashes * AtRisk
        /\ r = h' /\ new = "exiting" /\ t \in Moments /\ max \in Nat /\ b \in Nat /\ k \in Nat
  BY InvParts
<1>3. /\ cal \in Cfgs /\ Held(cal, s, d, t, max, TRUE)
      /\ Midnight => Tally(cal, s, d, t, max, TRUE, b, k)
      /\ r = Begin(s, new, t) /\ new \in {"exiting", "lowbandwidth", "dormant"}
  BY <1>1, <1>2, InvParts
<1>4. Fine(s, t)
  BY <1>3 DEF Held
<1>5. Fine(r, t) /\ Kept(s, r, t) /\ r.next_write = 0
  BY <1>2, <1>3, <1>4, BeginFine
<1>6. Never # 0
  BY <1>2, Bounds DEF Moments
<1>7. Held(cal, r, d, t, max, TRUE)
  BY <1>3, <1>5, <1>6 DEF Held, Kept, Fits
<1>8. Midnight => Tally(cal, r, d, t, max, TRUE, b, k)
  BY <1>2, <1>3, <1>5, <1>7, KeptTally
<1>9. Keeps(cfg', h', disk', now', limit', up', used', crashes')
  BY <1>1, <1>2, <1>7, <1>8, InvParts DEF Keeps
<1> QED
  BY <1>1, <1>3, <1>9, Keep

\* SIGHUP
LEMMA HupKeeps ==
  ASSUME HInv, Hup
  PROVE  HInv'
<1>1. /\ up = TRUE /\ up' = up /\ now' = now /\ disk' = disk
      /\ cfg' \in Cfgs /\ limit' \in Limits
      /\ used' = (IF Turn \/ limit' = 0 THEN 0 ELSE used)
      /\ crashes' = (IF Turn THEN 0 ELSE crashes)
  BY InvParts DEF Hup, ReadOptions
<1>2. PICK r : r = IF limit = 0 THEN h ELSE Record(h, now)
  OBVIOUS
<1>3. h' = IF limit' = 0 THEN r ELSE Configure(cfg', r, now, limit')
  BY <1>2 DEF Hup
<1>4. PICK old, s, d, t, max, b, k :
        /\ old = cfg /\ s = h /\ d = disk /\ t = now /\ max = limit /\ b = used
        /\ k = crashes * AtRisk
        /\ old \in Cfgs /\ t \in Moments /\ max \in Nat /\ b \in Nat /\ k \in Nat
  BY InvParts
<1>5. PICK cal, q, new, b2, c2 :
        /\ cal = cfg' /\ q = h' /\ new = limit' /\ b2 = used' /\ c2 = crashes'
        /\ cal \in Cfgs /\ new \in Nat /\ new \in Limits
  BY <1>1, Bounds
<1>6. /\ Held(old, s, d, t, max, TRUE)
      /\ Midnight => Tally(old, s, d, t, max, TRUE, b, k)
      /\ r = IF max = 0 THEN s ELSE Record(s, t)
      /\ q = IF new = 0 THEN r ELSE Configure(cal, r, t, new)
  BY <1>1, <1>2, <1>3, <1>4, <1>5, InvParts
<1>7. Held(old, r, d, t, max, TRUE) /\ Kept(s, r, t)
  BY <1>4, <1>6, RecordedHeld
<1>8. Rereads(cal, q, r, d, t, new)
  BY <1>4, <1>5, <1>6, <1>7, HupHeld
<1>9. /\ b2 \in Nat /\ c2 \in 0 .. MaxCrashes
      /\ \/ b2 = 0
         \/ /\ b2 = b /\ c2 * AtRisk = k /\ new # 0
            /\ PeriodContaining(cal, t) = PeriodContaining(old, t)
  <2>1. 0 \in 0 .. MaxCrashes /\ crashes \in 0 .. MaxCrashes
    BY Bounds, InvParts
  <2>2. ~Turn => PeriodContaining(cal, t) = PeriodContaining(old, t)
    BY <1>1, <1>4, <1>5 DEF Turn
  <2> QED
    BY <1>1, <1>4, <1>5, <2>1, <2>2
<1>10. PICK k2 \in Nat : k2 = c2 * AtRisk
  BY <1>9, LostNat
<1>11. ASSUME Midnight PROVE Tally(cal, q, d, t, new, TRUE, b2, k2)
  <2>1. Tally(old, r, d, t, max, TRUE, b, k)
    BY <1>4, <1>6, <1>7, <1>11, KeptTally
  <2>2. \/ b2 = 0
        \/ /\ b2 = b /\ k2 = k /\ new # 0
           /\ PeriodContaining(cal, t) = PeriodContaining(old, t)
    BY <1>9, <1>10
  <2> QED
    BY <1>4, <1>5, <1>7, <1>8, <1>10, <1>11, <2>1, <2>2, HupTally
<1>12. Keeps(cal, q, d, t, new, TRUE, b2, c2)
  BY <1>4, <1>5, <1>8, <1>9, <1>10, <1>11 DEF Keeps, Rereads
<1>13. Keeps(cfg', h', disk', now', limit', up', used', crashes')
  BY <1>1, <1>4, <1>5, <1>12
<1> QED
  BY <1>13, Keep

\* SIGHUP with the old AccountingStart leaves the plan of a relay that sleeps alone.
LEMMA HupSleeps ==
  ASSUME HInv, Hup, cfg' = cfg, limit # 0, limit' # 0
  PROVE  h'.state = h.state /\ h'.end_time = h.end_time /\ h'.end = h.end
<1>1. PICK cal, s, d, t, new, q, r :
        /\ cal = cfg /\ s = h /\ d = disk /\ t = now /\ new = limit' /\ q = h'
        /\ r = Record(s, t) /\ cal \in Cfgs /\ t \in Moments /\ new \in Nat
  BY InvParts, Bounds DEF Hup, ReadOptions
<1>2. q = Configure(cal, r, t, new)
  BY <1>1 DEF Hup
<1>3. Fine(s, t) /\ Fits(cal, s) /\ t < s.end
  BY <1>1, InvParts DEF Held, Hup
<1>4. /\ Fine(r, t) /\ Kept(s, r, t) /\ SameButRecord(s, r)
  BY <1>1, <1>3, RecordKept, RecordFine DEF Fine
<1>5. Fits(cal, r) /\ t < r.end /\ r.end = s.end
  BY <1>3, <1>4 DEF Fits, SameButRecord
<1>6. SameButInterval(r, q) /\ Fits(cal, q) /\ q.usage = r.usage
  BY <1>1, <1>2, <1>4, <1>5, ConfigureFine
<1>7. q.end = r.end
  BY <1>5, <1>6 DEF Fits
<1> QED
  BY <1>1, <1>4, <1>5, <1>6, <1>7 DEF SameButRecord, SameButInterval

\* A crash
LEMMA CrashKeeps ==
  ASSUME HInv, Crash
  PROVE  HInv'
<1>1. /\ up = TRUE /\ up' = FALSE /\ now' = now /\ cfg' = cfg /\ limit' = limit
      /\ used' = used /\ disk' = disk /\ h' = Boot(disk)
      /\ crashes < MaxCrashes /\ crashes' = crashes + 1
  BY InvParts DEF Crash
<1>2. PICK cal, d, t, max, b, k, s2, c, k2 :
        /\ cal = cfg /\ cal \in Cfgs
        /\ d = disk /\ t = now /\ max = limit /\ b = used /\ k = crashes * AtRisk
        /\ s2 = h' /\ t \in Moments /\ max \in Nat /\ b \in Nat /\ k \in Nat
        /\ c = crashes' /\ k2 = c * AtRisk
  BY InvParts
<1>3. c \in 0 .. MaxCrashes /\ k2 = k + AtRisk /\ AtRisk \in Nat
  BY <1>1, <1>2, InvParts, LostNat, RiskBounds, Bounds
<1>4. d \in Usages /\ Old(d, t)
  BY <1>2, InvParts
<1>5. Held(cal, s2, d, t, max, FALSE)
  BY <1>1, <1>2, <1>4, DownHeld
<1>6. ASSUME Midnight PROVE Tally(cal, s2, d, t, max, FALSE, b, k2)
  <2>1. Missing(cal, d, t, b, k) <= AtRisk /\ (max = 0 => b = 0)
    BY <1>1, <1>2, <1>6, InvParts DEF Tally
  <2>2. PICK x : x = Counted(cal, d, t)
    OBVIOUS
  <2>3. x \in Nat
    BY <1>4, <2>2, CountedNat
  <2>4. b - x - k <= AtRisk
    BY <2>1, <2>2 DEF Missing
  <2>5. b - x - k2 <= 0
    <3>1. PICK a : a = AtRisk
      OBVIOUS
    <3>2. /\ a \in Nat /\ b \in Nat /\ x \in Nat /\ k \in Nat /\ k2 = k + a
          /\ b - x - k <= a
      BY <1>2, <1>3, <2>3, <2>4, <3>1
    <3> QED
      BY <3>2
  <2>6. Missing(cal, d, t, b, k2) <= 0
    BY <2>2, <2>5 DEF Missing
  <2> QED
    BY <2>1, <2>6 DEF Tally
<1>7. Keeps(cfg', h', disk', now', limit', up', used', crashes')
  BY <1>1, <1>2, <1>3, <1>5, <1>6, InvParts DEF Keeps
<1> QED
  BY <1>1, <1>4, <1>7, Keep

\* Time passes while the relay is down.
LEMMA TickDownKeeps ==
  ASSUME HInv, TickDown
  PROVE  HInv'
<1>1. /\ up = FALSE /\ up' = FALSE /\ now < MaxTime /\ now' = now + 1 /\ cfg' = cfg
      /\ limit' = limit /\ h' = h /\ disk' = disk
      /\ used' = IF Turn THEN 0 ELSE used
      /\ crashes' = IF Turn THEN 0 ELSE crashes
  BY InvParts DEF TickDown
<1>2. PICK cal, s, d, t, max, b, c, k, w, b2, c2 :
        /\ cal = cfg /\ cal \in Cfgs
        /\ s = h /\ d = disk /\ t = now /\ max = limit /\ b = used /\ c = crashes
        /\ k = c * AtRisk /\ t \in Moments /\ max \in Nat /\ b \in Nat /\ k \in Nat
        /\ w = now' /\ b2 = used' /\ c2 = crashes' /\ c \in 0 .. MaxCrashes
  BY InvParts
<1>3. w = t + 1 /\ w \in Moments
  BY <1>1, <1>2, Bounds DEF Moments
<1>4. /\ cal \in Cfgs /\ d \in Usages /\ Old(d, t) /\ Held(cal, s, d, t, max, FALSE)
      /\ Midnight => Tally(cal, s, d, t, max, FALSE, b, k)
  BY <1>1, <1>2, InvParts
<1>5. Old(d, w) /\ s = Boot(d)
  BY <1>2, <1>3, <1>4, Later DEF Held
<1>6. Held(cal, s, d, w, max, FALSE)
  BY <1>3, <1>4, <1>5, DownHeld
<1>7. PICK k2 : /\ k2 = c2 * AtRisk /\ k2 \in Nat /\ c2 \in 0 .. MaxCrashes
                /\ ~Turn => k2 = k
  <2>1. c2 \in 0 .. MaxCrashes /\ (~Turn => c2 = c)
    BY <1>1, <1>2, Bounds
  <2>2. c2 * AtRisk \in Nat
    BY <2>1, LostNat
  <2> QED
    BY <1>2, <2>1, <2>2
<1>8. ASSUME Midnight PROVE Tally(cal, s, d, w, max, FALSE, b2, k2)
  <2>1. CASE Turn
    <3>1. b2 = 0
      BY <1>1, <1>2, <2>1
    <3> QED
      BY <1>3, <1>6, <1>7, <3>1, NewTally
  <2>2. CASE ~Turn
    <3>1. b2 = b /\ k2 = k
      BY <1>1, <1>2, <1>7, <2>2
    <3>2. PeriodContaining(cal, w) = PeriodContaining(cal, t)
      BY <1>1, <1>2, <2>2 DEF Turn
    <3>3. Counted(cal, d, w) = Counted(cal, d, t)
      BY <3>2 DEF Counted
    <3>4. Tally(cal, s, d, t, max, FALSE, b, k)
      BY <1>4, <1>8
    <3> QED
      BY <3>1, <3>3, <3>4 DEF Tally, Missing
  <2> QED
    BY <2>1, <2>2
<1>9. b2 \in Nat
  BY <1>1, <1>2
<1>10. Keeps(cfg', h', disk', now', limit', up', used', crashes')
  BY <1>1, <1>2, <1>3, <1>6, <1>7, <1>8, <1>9, InvParts DEF Keeps
<1> QED
  BY <1>1, <1>4, <1>10, Keep

\* A restart, perhaps with other options
LEMMA RestartKeeps ==
  ASSUME HInv, Restart
  PROVE  HInv' /\ h'.state = "live"
<1>1. /\ up = FALSE /\ up' = TRUE /\ now' = now /\ disk' = disk
      /\ cfg' \in Cfgs /\ limit' \in Limits
      /\ used' = (IF Turn \/ limit' = 0 THEN 0 ELSE used)
      /\ crashes' = (IF Turn THEN 0 ELSE crashes)
      /\ h' = Booted(cfg', disk, now, limit')
  BY InvParts DEF Restart, ReadOptions
<1>2. PICK old, s, d, t, b, k, max :
        /\ old = cfg /\ s = h /\ d = disk /\ t = now /\ b = used /\ max = limit
        /\ k = crashes * AtRisk /\ old \in Cfgs /\ t \in Moments /\ b \in Nat /\ k \in Nat
  BY InvParts
<1>3. PICK cal, q, new, b2, c2 :
        /\ cal = cfg' /\ q = h' /\ new = limit' /\ b2 = used' /\ c2 = crashes'
        /\ cal \in Cfgs /\ new \in Nat /\ new \in Limits
  BY <1>1, Bounds
<1>4. /\ d \in Usages /\ Old(d, t) /\ q = Booted(cal, d, t, new)
      /\ Midnight => Missing(old, d, t, b, k) <= 0
  BY <1>1, <1>2, <1>3, InvParts DEF Tally
<1>5. Starts(cal, q, d, t, new)
  BY <1>2, <1>3, <1>4, BootedHeld
<1>6. /\ b2 \in Nat /\ c2 \in 0 .. MaxCrashes
      /\ \/ b2 = 0
         \/ /\ b2 = b /\ c2 * AtRisk = k /\ new # 0
            /\ PeriodContaining(cal, t) = PeriodContaining(old, t)
  <2>1. 0 \in 0 .. MaxCrashes /\ crashes \in 0 .. MaxCrashes
    BY Bounds, InvParts
  <2>2. ~Turn => PeriodContaining(cal, t) = PeriodContaining(old, t)
    BY <1>1, <1>2, <1>3 DEF Turn
  <2> QED
    BY <1>1, <1>2, <1>3, <2>1, <2>2
<1>7. PICK k2 \in Nat : k2 = c2 * AtRisk
  BY <1>6, LostNat
<1>8. ASSUME Midnight PROVE Tally(cal, q, d, t, new, TRUE, b2, k2)
  <2>1. CASE b2 = 0
    BY <1>2, <1>5, <1>7, <2>1, NewTally DEF Starts
  <2>2. CASE b2 # 0
    <3>1. /\ b2 = b /\ k2 = k /\ new # 0
          /\ PeriodContaining(cal, t) = PeriodContaining(old, t)
      BY <1>6, <1>7, <2>2
    <3>2. Missing(cal, d, t, b2, k2) <= 0
      BY <1>4, <1>8, <3>1, SameInterval
    <3> QED
      BY <1>2, <1>3, <1>5, <1>6, <1>7, <3>1, <3>2, BootedTally
  <2> QED
    BY <2>1, <2>2
<1>9. Keeps(cal, q, d, t, new, TRUE, b2, c2)
  BY <1>2, <1>3, <1>5, <1>6, <1>7, <1>8 DEF Keeps, Starts
<1>10. Keeps(cfg', h', disk', now', limit', up', used', crashes')
  BY <1>1, <1>2, <1>3, <1>9
<1> QED
  BY <1>3, <1>5, <1>10, Keep DEF Starts

\* Nothing happens.
LEMMA StutterKeeps ==
  ASSUME HInv, UNCHANGED vars
  PROVE  HInv'
<1>1. /\ h' = h /\ disk' = disk /\ now' = now /\ cfg' = cfg /\ limit' = limit /\ up' = up
      /\ used' = used /\ crashes' = crashes
  BY DEF vars
<1>2. Keeps(cfg', h', disk', now', limit', up', used', crashes')
  BY <1>1, InvParts DEF Keeps
<1> QED
  BY <1>1, <1>2, Keep

\* Every step keeps the invariant, and a second ends as it must.
LEMMA StepKeeps == HInv /\ [Next]_vars => HInv'
BY TickKeeps, TerminateKeeps, InterruptKeeps, HupKeeps, CrashKeeps, TickDownKeeps,
   RestartKeeps, StutterKeeps DEF Next

-----------------------------------------------------------------------------
(* The theorems.                                                           *)

\* The invariant of accounting holds always: the accounting and hibernation state
\* of the process, what its memory says of the state file and what is on disk
\* agree at every moment, whatever seconds, signals, crashes and restarts
\* (hibernate.c, with or_state_save of config.c) come in whatever order.
THEOREM HInvHolds == Spec => []HInv
<1>1. Init => HInv
  BY InitHolds
<1>2. HInv /\ [Next]_vars => HInv'
  BY StepKeeps
<1> QED
  BY <1>1, <1>2, PTL DEF Spec

\* Every variable of the accounting code keeps its type; in particular no time it
\* computes (the edges of an interval, the time to wake up, the end of
\* hibernation) passes TIME_MAX, and the estimated rate is never above
\* BandwidthRate.
THEOREM TypeCorrect == Spec => []TypeOK
<1>1. HInv => TypeOK
  BY DEF HInv, Base, Held, Fine, TypeOK, States, Usages, Times, Moments
<1> QED
  BY <1>1, HInvHolds, PTL

\* The interval that is accounted is the one the relay is in: no restart, signal
\* or crash, no change of AccountingStart and no way of reaching the end of an
\* interval leaves the relay in an old one.  (For monthly AccountingStarts at
\* midnight, and any daily and weekly ones: on the first day of a month, before
\* another starting hour, the code takes the coming interval for the current one.)
THEOREM IntervalCurrent ==
  ASSUME Midnight
  PROVE  Spec => []InInterval
<1>1. HInv => InInterval
  <2>1. SUFFICES ASSUME HInv, up, limit # 0
                 PROVE  h.usage.start = PeriodContaining(cfg, now)
    BY DEF InInterval
  <2>2. PICK cal, s, t : cal = cfg /\ s = h /\ t = now /\ t \in Moments /\ cal \in Cfgs
    BY <2>1, InvParts
  <2>3. Fine(s, t) /\ Fits(cal, s) /\ t < s.end
    BY <2>1, <2>2, InvParts DEF Held
  <2>4. s.usage.start = PeriodContaining(cal, t)
    BY <2>1, <2>2, <2>3, Current
  <2> QED
    BY <2>2, <2>4
<1> QED
  BY <1>1, HInvHolds, PTL

\* What was really used in an interval is what has been counted, but for AtRisk
\* bytes for each crash, for any rate, any interval between notes and any delay of
\* writes (accounting_record_bandwidth_usage, time_to_record_bandwidth_usage,
\* or_state_save and configure_accounting together).
THEOREM UsageKept ==
  ASSUME Midnight
  PROVE  Spec => []UsageRemembered
<1>1. HInv => UsageRemembered
  BY DEF HInv, Tally, UsageRemembered
<1> QED
  BY <1>1, HInvHolds, PTL

\* No second ends with the limit reached and the relay still serving, for any
\* AccountingMax but 1, whose soft limit (95%) is 0, which the code takes for none.
THEOREM LimitHolds ==
  ASSUME 1 \notin Limits
  PROVE  Spec => LimitStops
<1>1. HInv /\ [Next]_vars =>
        [Tick /\ limit # 0 /\ h'.usage.bytes >= limit =>
           h'.state \in {"dormant", "exiting"}]_vars
  <2>1. SUFFICES ASSUME HInv, Tick, limit # 0, h'.usage.bytes >= limit
                 PROVE  h'.state \in {"dormant", "exiting"}
    OBVIOUS
  <2>2. limit \in Nat /\ limit # 1
    BY <2>1, InvParts
  <2>3. limit > 1
    BY <2>1, <2>2
  <2>4. Outcome(h, h', now', limit)
    BY <2>1, TickKeeps
  <2> QED
    BY <2>1, <2>3, <2>4 DEF Outcome, Limited
<1> QED
  BY <1>1, HInvHolds, PTL DEF Spec, LimitStops

\* A relay asleep over a second wakes up later than that second, and no relay plans
\* to sleep past the end of the interval (hibernate_end_time_elapsed,
\* hibernate_go_dormant, hibernate_begin), for every set of AccountingStarts and
\* AccountingMaxes and every change of the two, except that after a change of
\* AccountingStart (options_act) the relay sleeps on until the moment it had planned.
THEOREM WakesUp == Spec => WakesInTime
<1>1. HInv /\ [Next]_vars =>
        [limit # 0 /\ limit' # 0 /\ up' /\ h'.state = "dormant" =>
           /\ Tick /\ h.state = "dormant" => now' < h'.end_time
           /\ \/ h'.end_time <= h'.end
              \/ cfg' # cfg
              \/ /\ h.state = "dormant" /\ h.end < h.end_time
                 /\ h'.end_time = h.end_time]_vars
  <2>1. SUFFICES ASSUME HInv, Next, limit # 0, limit' # 0, up', h'.state = "dormant"
                 PROVE  /\ Tick /\ h.state = "dormant" => now' < h'.end_time
                        /\ \/ h'.end_time <= h'.end
                           \/ cfg' # cfg
                           \/ /\ h.state = "dormant" /\ h.end < h.end_time
                              /\ h'.end_time = h.end_time
    OBVIOUS
  <2>2. Tick => Sleeps(h, h', now')
    BY <2>1, TickKeeps DEF Outcome
  <2>3. CASE Tick
    BY <2>1, <2>2, <2>3 DEF Sleeps
  <2>4. CASE Hup /\ cfg' = cfg
    <3>1. h.state = "dormant" /\ h'.end_time = h.end_time /\ h'.end = h.end
      BY <2>1, <2>4, HupSleeps
    <3>2. h.end_time \in Int /\ h.end \in Int
      BY <2>1, InvParts, Fields DEF Held, Fine
    <3>3. Tick => now' < h'.end_time
      BY <2>1, <2>2, <3>1 DEF Sleeps
    <3> QED
      BY <3>1, <3>2, <3>3
  <2>5. CASE Hup /\ cfg' # cfg
    BY <2>1, <2>2, <2>5 DEF Sleeps
  <2>6. CASE Restart
    BY <2>1, <2>6, RestartKeeps
  <2>7. CASE Terminate \/ Crash \/ TickDown
    BY <2>1, <2>7 DEF Terminate, Exit, Crash, TickDown
  <2>8. CASE Interrupt
    <3>1. PICK s, t, r, new : /\ s = h /\ t = now /\ r = h' /\ new = "exiting"
                              /\ Fine(s, t) /\ t \in Moments /\ r = Begin(s, new, t)
                              /\ new \in {"exiting", "lowbandwidth", "dormant"}
      BY <2>1, <2>8, InvParts DEF Held, Interrupt
    <3>2. r.state = new
      BY <3>1, BeginFine
    <3> QED
      BY <2>1, <3>1, <3>2
  <2> QED
    BY <2>1, <2>3, <2>4, <2>5, <2>6, <2>7, <2>8 DEF Next
<1> QED
  BY <1>1, HInvHolds, PTL DEF Spec, WakesInTime
=============================================================================
