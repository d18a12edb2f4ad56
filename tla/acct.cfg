SPECIFICATION Spec
CONSTANTS
  DayLen = 4
  WeekLen = 2
  MonthLen = 3
  Cfgs <- MCCfgs
  Limits = {0, 4}
  MaxRate = 2
  NoteInterval = 2
  NoteBytes = 3
  WriteDelay = 1
  RoundTo = 3
  MinActive = 2
  Digest <- MCDigest
  ShutdownWait = 1
  Never = 999
  StartTime = 48
  MaxTime = 58
  MaxCrashes = 1
INVARIANT TypeOK
INVARIANT UsageRemembered
INVARIANT InInterval
PROPERTY LimitStops
PROPERTY WakesInTime
CHECK_DEADLOCK FALSE
