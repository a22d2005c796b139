\* The process stops: after a crash or the exit no step is left.
CHECK_DEADLOCK FALSE
SPECIFICATION BusSpec
CONSTANTS
  t1 = t1
  t2 = t2
  t3 = t3
  t4 = t4
  t5 = t5
  Tasks = {t1, t2, t3, t4, t5}
  Job <- MCJob
  NotifyOn = {"connection", "scan"}
  CanBusy = FALSE
  Cooldown = 2
  Time = {2, 4}
  NoKey = NoKey
  Main = Main
INVARIANT
  AllRecordedAtExit
