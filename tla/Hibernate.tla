----------------------------- MODULE Hibernate -----------------------------
(***************************************************************************)
(* Bandwidth accounting and hibernation of a relay (hibernate.c), with the *)
(* part of the state file that remembers the usage (config.c), the second  *)
(* timer that drives it (main.c), signals, crashes and restarts.           *)
(*                                                                         *)
(* One tick is one run of second_elapsed_callback.  The calendar is scaled *)
(* down: days of DayLen ticks, weeks and months of WeekLen and MonthLen    *)
(* days.  Bytes read and written are counted in the same way; one counter  *)
(* stands for the larger of the two.  A minute is one tick.                *)
(***************************************************************************)
EXTENDS Integers

CONSTANTS
  DayLen, WeekLen, MonthLen,
  Cfgs,              \* values of AccountingStart: [unit, day, hour]
  Limits,            \* values of AccountingMax; 0 turns accounting off
  MaxRate,           \* bytes per tick
  NoteInterval, NoteBytes, WriteDelay,   \* when usage is noted and written
  RoundTo,           \* ROUND_UP's unit
  MinActive,         \* ticks of activity needed for an estimate
  Digest(_),         \* the relay's point in the interval that starts at a time
  ShutdownWait,      \* ShutdownWaitLength
  Never,             \* TIME_MAX
  StartTime, MaxTime, MaxCrashes          \* bounds of the runs

ASSUME HibernateAssumption ==
  /\ {DayLen, WeekLen, MonthLen, MaxRate, NoteInterval, NoteBytes,
      RoundTo, MinActive} \subseteq Nat \ {0}
  /\ {WriteDelay, ShutdownWait, MaxTime, StartTime, MaxCrashes, Never} \subseteq Nat
  /\ StartTime <= MaxTime
  /\ Never > MaxTime + WriteDelay + ShutdownWait + DayLen * (MonthLen + WeekLen)
  /\ \A t \in 0 .. Never : Digest(t) \in Nat
  /\ Limits \subseteq Nat
  /\ \A c \in Cfgs : /\ c.unit \in {"day", "week", "month"}
                     /\ c.day \in 1 .. MonthLen /\ c.hour \in 0 .. DayLen - 1
  /\ StartTime > DayLen * (MonthLen + WeekLen) * 2

VARIABLES
  now, cfg, limit,
  up,                \* is the process running?
  h,                 \* its accounting and hibernation state, see TypeOK
  disk,              \* the accounting fields of the state file
  used, crashes      \* history: bytes moved, and crashes, in this interval

vars == <<now, cfg, limit, up, h, disk, used, crashes>>

Fresh == [start |-> 0, bytes |-> 0, active |-> 0, expected |-> 0]

TypeOK ==
  LET Time == 0 .. Never
      Usage == [start : Time, bytes : Nat, active : Nat, expected : 0 .. MaxRate]
  IN /\ now \in StartTime .. MaxTime /\ cfg \in Cfgs /\ limit \in Limits
     /\ up \in BOOLEAN
     /\ h \in [usage : Usage, end : Time, wakeup : Time,
               state : {"live", "exiting", "lowbandwidth", "dormant"},
               end_time : Time, shutdown_time : Time,
               noted_time : Time, noted_bytes : Nat,
               saved : Usage, next_write : Time]      \* or_state_t
     /\ disk \in Usage /\ used \in Nat /\ crashes \in 0 .. MaxCrashes

-----------------------------------------------------------------------------
(* Accounting intervals.                                                   *)

\* edge_of_accounting_period_containing.  On the first day of a monthly period,
\* before the starting hour, the code takes the period that is about to start.
Edge(c, t, get_end) ==
  LET day == t \div DayLen
      before == (t % DayLen) < c.hour
      mday == (day % MonthLen) + 1
      wday == day % WeekLen
      delta == (WeekLen + wday - (c.day % WeekLen)) % WeekLen
      first == CASE c.unit = "month" ->
                      day - mday + c.day
                        - (IF mday < c.day \/ (mday < c.day /\ before)
                           THEN MonthLen ELSE 0)
                 [] c.unit = "week" ->
                      day - (IF delta = 0 /\ before THEN WeekLen ELSE delta)
                 [] c.unit = "day" -> IF before THEN day - 1 ELSE day
      length == CASE c.unit = "month" -> MonthLen
                  [] c.unit = "week" -> WeekLen
                  [] c.unit = "day" -> 1
  IN (first + (IF get_end THEN length ELSE 0)) * DayLen + c.hour

PeriodContaining(c, t) == Edge(c, t, FALSE)
PeriodAfter(c, t) == Edge(c, t, TRUE)

\* mutant: the estimate is not held to BandwidthRate
ExpectedUncapped(u) == IF u.active < MinActive THEN 0 ELSE u.bytes \div u.active

\* update_expected_bandwidth
Expected(u) ==
  LET e == u.bytes \div u.active
  IN IF u.active < MinActive THEN 0 ELSE IF e > MaxRate THEN MaxRate ELSE e

\* reset_accounting
Reset(c, s, t) ==
  LET start == PeriodContaining(c, t)
  IN [s EXCEPT !.usage = [Fresh EXCEPT !.start = start,
                                       !.expected = Expected(s.usage)],
               !.end = PeriodAfter(c, start)]

\* accounting_set_wakeup_time for AccountingMax = max
SetWakeup(s, max) ==
  LET consider == (s.end - s.usage.start) - (max \div s.usage.expected)
  IN [s EXCEPT !.wakeup =
        s.usage.start + (IF s.usage.expected = 0 THEN 0
                         ELSE IF consider <= 0 THEN 0 ELSE Digest(s.usage.start) % consider)]

\* The interval goes on; or it is over, or the settings do not know it
\* ("Mismatched accounting interval"), and a new one begins.
InPeriod(c, s, t) ==
  LET start == s.usage.start
  IN IF /\ start # 0 /\ PeriodAfter(c, start) > t
        /\ start = PeriodContaining(c, start)
     THEN [s EXCEPT !.end = PeriodAfter(c, start)]
     ELSE Reset(c, s, t)

\* mutant: what the state file says is not read
ConfigureForgets(c, s, t, max) == SetWakeup(InPeriod(c, s, t), max)

\* configure_accounting: what the state file says is used if its interval is
\* still running.
Configure(c, s, t, max) ==
  LET r == IF s.usage.start = 0 THEN [s EXCEPT !.usage = s.saved] ELSE s
  IN SetWakeup(InPeriod(c, r, t), max)

-----------------------------------------------------------------------------
(* The state file.                                                         *)

RoundUp(x) == ((x + RoundTo - 1) \div RoundTo) * RoundTo

Sooner(a, b) == IF a < b THEN a ELSE b

\* or_state_mark_dirty
MarkDirty(s, t) == [s EXCEPT !.next_write = Sooner(@, t)]

\* accounting_record_bandwidth_usage
Record(s, t) ==
  MarkDirty([s EXCEPT !.saved = [s.usage EXCEPT !.bytes = RoundUp(@)]],
            t + WriteDelay)

\* time_to_record_bandwidth_usage
TimeToRecord(s, t) ==
  \/ s.noted_time + NoteInterval <= t
  \/ s.noted_bytes + NoteBytes <= s.usage.bytes
  \/ s.end # 0 /\ s.end <= t

Note(s, t) ==
  IF TimeToRecord(s, t)
  THEN Record([s EXCEPT !.noted_time = t, !.noted_bytes = s.usage.bytes], t)
  ELSE s

\* mutant: the interval is over one second late
HousekeepingLate(c, s, t, max) ==
  Note(IF t > s.end THEN Configure(c, s, t, max) ELSE s, t)

\* accounting_run_housekeeping
Housekeeping(c, s, t, max) ==
  Note(IF t >= s.end THEN Configure(c, s, t, max) ELSE s, t)

-----------------------------------------------------------------------------
(* Hibernation.                                                            *)

HardLimitReached(s, max) == max # 0 /\ s.usage.bytes >= max

SoftLimitReached(s, max) ==
  LET soft == (max * 95) \div 100 IN soft # 0 /\ s.usage.bytes >= soft

\* hibernate_begin: listeners close, and the state is written soon.
Begin(s, new, t) ==
  MarkDirty(Record([s EXCEPT
      !.state = new,
      !.shutdown_time = IF new = "exiting" THEN t + ShutdownWait ELSE @,
      !.end_time = IF new = "exiting" THEN @ ELSE s.end], t), 0)

\* mutant: the relay sleeps until the end of the interval in any case
GoDormantTooLong(s, t) ==
  IF s.state = "dormant" THEN s
  ELSE LET b == IF s.state = "lowbandwidth" THEN [s EXCEPT !.state = "dormant"]
                ELSE Begin(s, "dormant", t)
       IN MarkDirty(Record([b EXCEPT !.end_time = s.end + DayLen], t), 0)

\* hibernate_go_dormant: all connections close.
GoDormant(s, t) ==
  IF s.state = "dormant" THEN s
  ELSE LET b == IF s.state = "lowbandwidth" THEN [s EXCEPT !.state = "dormant"]
                ELSE Begin(s, "dormant", t)
       IN MarkDirty(Record([b EXCEPT !.end_time =
                              IF t < s.wakeup THEN s.wakeup ELSE s.end], t), 0)

\* hibernate_end_time_elapsed
EndTimeElapsed(c, s, t, max) ==
  LET Wake(r) == IF r.wakeup <= t THEN [r EXCEPT !.state = "live", !.end_time = 0]
                 ELSE GoDormant([r EXCEPT !.end_time = r.wakeup], t)
  IN Wake(Housekeeping(c, s, t, max))

\* consider_hibernation's three parts, for a relay that is not exiting.
ConsiderDormant(c, s, t, max) ==
  IF s.state = "dormant" THEN EndTimeElapsed(c, s, t, max) ELSE s

ConsiderLive(s, t, max) ==
  CASE s.state # "live" -> s
    [] s.state = "live" /\ SoftLimitReached(s, max) -> Begin(s, "lowbandwidth", t)
    [] s.state = "live" /\ ~ SoftLimitReached(s, max) ->
         IF max # 0 /\ t < s.wakeup THEN GoDormant(s, t) ELSE s

ConsiderLow(c, s, t, max) ==
  IF s.state # "lowbandwidth" THEN s
  ELSE IF max # 0 /\ HardLimitReached(s, max) THEN GoDormant(s, t)
  ELSE IF max = 0 \/ s.end_time <= t THEN EndTimeElapsed(c, s, t, max)
  ELSE s

Asleep(s, t, max) == s.state = "dormant" /\ s.end_time > t /\ max # 0

\* mutant: the limits are not looked at again in the second the soft one passes
ConsiderOnce(c, s, t, max) ==
  IF s.state = "exiting" \/ Asleep(s, t, max) THEN s
  ELSE ConsiderLive(ConsiderDormant(c, s, t, max), t, max)

\* consider_hibernation
Consider(c, s, t, max) ==
  IF s.state = "exiting" \/ Asleep(s, t, max) THEN s
  ELSE ConsiderLow(c, ConsiderLive(ConsiderDormant(c, s, t, max), t, max), t, max)

-----------------------------------------------------------------------------
(* The process.                                                            *)

Boot(saved) ==
  [usage |-> Fresh, end |-> 0, wakeup |-> 0, state |-> "live",
   end_time |-> 0, shutdown_time |-> 0, noted_time |-> 0, noted_bytes |-> 0,
   saved |-> saved, next_write |-> Never]

\* or_state_load, and options_act with accounting on or off.
Booted(c, saved, t, max) ==
  IF max = 0 THEN Boot(saved) ELSE Configure(c, Boot(saved), t, max)

Init ==
  /\ now = StartTime /\ cfg \in Cfgs /\ limit \in Limits
  /\ up = TRUE
  /\ disk = Fresh
  /\ h = Booted(cfg, Fresh, StartTime, limit)
  /\ used = 0 /\ crashes = 0

\* History: in a new interval nothing has been used.  It begins when the time of
\* its start comes, or with a new AccountingStart.
Turn == PeriodContaining(cfg', now') # PeriodContaining(cfg, now)

\* second_elapsed_callback and run_scheduled_events, after n bytes were moved:
\* count them, consider hibernation, and do the housekeeping.
Elapse(c, s, n, t, max) ==
  LET counted == [s EXCEPT !.usage.bytes = @ + n, !.usage.active = @ + 1]
  IN IF max = 0 THEN Consider(c, s, t, max)
     ELSE Housekeeping(c, Consider(c, counted, t, max), t, max)

\* or_state_save, when the state is due; accounting is looked at once more.
StateSave(c, s, t, max) ==
  [(IF max = 0 THEN s ELSE Housekeeping(c, s, t, max)) EXCEPT !.next_write = Never]

Tick ==
  /\ up /\ now < MaxTime
  /\ now' = now + 1
  /\ UNCHANGED <<cfg, limit, up>>
  /\ \E n \in 0 .. MaxRate :
       /\ ~ (h.state = "exiting" /\ h.shutdown_time <= now')
       /\ \E s \in {Elapse(cfg, h, n, now', limit)} :
            IF s.next_write <= now'
            THEN h' = StateSave(cfg, s, now', limit) /\ disk' = h'.saved
            ELSE h' = s /\ UNCHANGED disk
       /\ used' = IF Turn \/ limit = 0 THEN 0 ELSE used + n
  /\ crashes' = IF Turn THEN 0 ELSE crashes

\* tor_cleanup: usage is recorded and the state written at once.
Exit ==
  /\ up' = FALSE
  /\ disk' = StateSave(cfg, IF limit = 0 THEN h ELSE Record(h, now), now, limit).saved
  /\ h' = Boot(disk')
  /\ UNCHANGED <<now, cfg, limit, used, crashes>>

\* SIGTERM, a second SIGINT, or the end of the shutdown period.
Terminate == up /\ Exit

\* SIGINT at a running relay.
Interrupt ==
  /\ up /\ h.state = "live"
  /\ h' = Begin(h, "exiting", now)
  /\ UNCHANGED <<now, cfg, limit, up, disk, used, crashes>>

\* The options are read: AccountingMax and AccountingStart may have been changed.
ReadOptions ==
  /\ cfg' \in Cfgs /\ limit' \in Limits
  /\ used' = IF Turn \/ limit' = 0 THEN 0 ELSE used
  /\ crashes' = IF Turn THEN 0 ELSE crashes

\* SIGHUP: usage is recorded, then options_act configures accounting again, even
\* when nothing has changed.
Hup ==
  LET r == IF limit = 0 THEN h ELSE Record(h, now)
  IN /\ up
     /\ UNCHANGED <<now, up, disk>>
     /\ ReadOptions
     /\ h' = IF limit' = 0 THEN r ELSE Configure(cfg', r, now, limit')

\* The machine goes down without warning.
Crash ==
  /\ up /\ crashes < MaxCrashes
  /\ up' = FALSE
  /\ crashes' = crashes + 1
  /\ h' = Boot(disk)
  /\ UNCHANGED <<now, cfg, limit, disk, used>>

\* Time passes while the relay is down.
TickDown ==
  /\ ~ up /\ now < MaxTime
  /\ now' = now + 1
  /\ UNCHANGED <<cfg, limit, up, h, disk>>
  /\ used' = IF Turn THEN 0 ELSE used
  /\ crashes' = IF Turn THEN 0 ELSE crashes

\* The relay starts again.
Restart ==
  /\ ~ up
  /\ up' = TRUE
  /\ UNCHANGED <<now, disk>>
  /\ ReadOptions
  /\ h' = Booted(cfg', disk, now, limit')

Next == Tick \/ Terminate \/ Interrupt \/ Hup \/ Crash \/ TickDown \/ Restart

Spec == Init /\ [][Next]_vars

-----------------------------------------------------------------------------
\* The traffic a crash can make the relay forget.
AtRisk == (NoteInterval + WriteDelay) * MaxRate

\* What was really used in an interval is what has been counted, but for the
\* traffic of the last minutes before each crash: neither restarts, nor signals,
\* nor the turn of an interval lose more.  (For a relay that did not turn
\* accounting off in the interval; a new AccountingStart begins a new one.)
UsageRemembered ==
  up /\ limit # 0 => used <= h.usage.bytes + crashes * AtRisk

\* No second ends with the limit reached and the relay still serving, however
\* the soft limit, the hard limit, the end of the interval, a changed limit or
\* interval and a restart meet.
LimitStops ==
  [][Tick /\ limit # 0 /\ h'.usage.bytes >= limit =>
       h'.state \in {"dormant", "exiting"}]_vars

\* A relay asleep wakes up in time: it never stays dormant past the moment it
\* planned to wake up, and never plans to sleep past the end of the interval.
\* Only a new AccountingStart can leave it asleep beyond the end of the interval
\* it is in then (hibernate_end_time is not looked at again), and only until
\* the moment that had been planned.
WakesInTime ==
  [][limit # 0 /\ limit' # 0 /\ up' /\ h'.state = "dormant" =>
       /\ Tick /\ h.state = "dormant" => now' < h'.end_time
       /\ \/ h'.end_time <= h'.end
          \/ cfg' # cfg
          \/ /\ h.state = "dormant" /\ h.end < h.end_time
             /\ h'.end_time = h.end_time]_vars

\* The interval that is accounted is the one the relay is in, also after the
\* interval has been changed.
InInterval ==
  up /\ limit # 0 => h.usage.start = PeriodContaining(cfg, now)
=============================================================================
