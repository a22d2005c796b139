--------------------------- MODULE MCScanDetector ---------------------------
(* Two sources, two ports, a window of 2 ticks and thresholds of 2 ports   *)
(* and 3 SYNs; the clock runs from 2 to MaxTime, so that a deque can go    *)
(* stale and fill again.  The sniffer and its process may start, fail and  *)
(* end between any two SYNs; an embedded or abandoned sniffer sees three    *)
(* (MaxLate), enough for an alert of each kind.                            *)
EXTENDS IdsProcess, TLC

CONSTANT MaxTime

MCTime == 2..MaxTime

Symmetry == Permutations(Sources) \cup Permutations(Ports)
=============================================================================
