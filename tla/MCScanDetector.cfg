\* A run ends when the clock or the number of SYNs reaches its bound.
CHECK_DEADLOCK FALSE
SPECIFICATION IdsSpec
CONSTANTS
  Sources = {s1, s2}
  Ports = {p1, p2}
  Window = 2
  PortThreshold = 2
  SynThreshold = 3
  Lag = 1
  MaxSyns = 5
  MaxTime = 6
  MaxLate = 3
  Time <- MCTime
SYMMETRY Symmetry
INVARIANTS
  TypeOK
  NoFalseAlarm
  NoMissedScan
  WindowExact
  AlertsHandedOver
PROPERTY
  AlertsRateLimited
