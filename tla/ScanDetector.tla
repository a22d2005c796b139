---------------------------- MODULE ScanDetector ----------------------------
(* ScanDetector (src/app/ids/rules.py), the sliding windows of the IDS.    *)
(* The sniffer calls process for every SYN, from its one thread, so a call *)
(* is one action; but a call reads time.time() up to five times, and the   *)
(* readings r[1] <= ... <= r[5] need not be equal.                         *)
EXTENDS Integers, Sequences, FiniteSets, Functions

CONSTANTS Sources, Ports,
          Window,          \* SCAN_WINDOW_SECONDS
          PortThreshold,   \* SCAN_PORT_THRESHOLD
          SynThreshold,    \* SYN_FLOOD_THRESHOLD
          Time,            \* readings of the clock
          Lag,             \* bound: longest time one call takes
          MaxSyns          \* bound: SYNs in all

ASSUME ScanDetectorAssumption ==
  /\ Window \in Nat \ {0} /\ Lag \in Nat
  /\ Time \subseteq {t \in Nat : t >= Window}
  /\ PortThreshold \in Nat \ {0} /\ SynThreshold \in Nat \ {0}

VARIABLES clock,
          ports,      \* ports[s]: deque of <<time, port>>
          syns,       \* syns[s]: deque of <<time>>
          alerted,    \* alerted[<<kind, s>>]: time of the last alert, or 0
          seen,       \* history: every SYN, as <<time, port, source>>
          raised,     \* history: the times of the alerts of each kind and source
          last        \* history: the last call: source, readings, alerts

vars == <<clock, ports, syns, alerted, seen, raised, last>>

AlertKeys == {"sweep", "flood"} \X Sources
Readings == {r \in [1..5 -> Time] : /\ \A i \in 1..4 : r[i] <= r[i + 1]
                                    /\ r[5] - r[1] <= Lag}
NoCall == [source |-> "none", at |-> <<>>, alerts |-> {}]

TypeOK ==
  /\ clock \in Time
  /\ ports \in [Sources -> Seq(Time \X Ports)]
  /\ syns \in [Sources -> Seq(Time \X {0})]
  /\ alerted \in [AlertKeys -> Time \cup {0}]
  /\ seen \in Seq(Time \X Ports \X Sources)
  /\ raised \in [AlertKeys -> Seq(Time)]

Init ==
  /\ clock \in Time
  /\ ports = [s \in Sources |-> <<>>]
  /\ syns = [s \in Sources |-> <<>>]
  /\ alerted = [k \in AlertKeys |-> 0]
  /\ seen = <<>>
  /\ raised = [k \in AlertKeys |-> <<>>]
  /\ last = NoCall

FreshLonger(dq, now) ==   \* Mutant: the window is one tick too long.
  {i \in 1..Len(dq) : dq[i][1] >= now - Window - 1}
FreshStrict(dq, now) ==   \* Mutant: an entry on the edge of the window is dropped.
  {i \in 1..Len(dq) : dq[i][1] > now - Window}

Fresh(dq, now) == {i \in 1..Len(dq) : dq[i][1] >= now - Window}

\* _prune_ports and _prune_times: popleft up to the first fresh entry.
Prune(dq, now) ==
  IF Fresh(dq, now) = {} THEN <<>>
  ELSE SubSeq(dq, CHOOSE i \in Fresh(dq, now) : \A j \in Fresh(dq, now) : i <= j,
              Len(dq))

DistinctPorts(dq) == Cardinality({dq[i][2] : i \in 1..Len(dq)})

\* process up to the thresholds: prune by a later reading, append at r[1].
Record(s, p, r) ==
  /\ ports' = [ports EXCEPT ![s] = Append(Prune(@, r[2]), <<r[1], p>>)]
  /\ syns' = [syns EXCEPT ![s] = Append(Prune(@, r[3]), <<r[1], 0>>)]
  /\ seen' = Append(seen, <<r[1], p, s>>)

OkStrict(kind, s, now) == now - alerted[<<kind, s>>] > Window   \* Mutant: > for >=.

\* _ok: at most one alert of a kind for a source in a window.
Ok(kind, s, now) == now - alerted[<<kind, s>>] >= Window

Alerts(s, r) ==
  {k \in {"sweep", "flood"} :
     IF k = "sweep" THEN DistinctPorts(ports'[s]) >= PortThreshold /\ Ok(k, s, r[4])
                    ELSE Len(syns'[s]) >= SynThreshold /\ Ok(k, s, r[5])}

\* The reading _ok makes for an alert of key k.
ReadAt(k, r) == IF k[1] = "sweep" THEN r[4] ELSE r[5]
Raised(s, r) == Alerts(s, r) \X {s}

RaiseDeadline(s, r) ==   \* Mutant: the table holds the end of the suppression.
  /\ alerted' = [k \in AlertKeys |-> IF k \in Raised(s, r) THEN ReadAt(k, r) + Window
                                     ELSE alerted[k]]
  /\ UNCHANGED <<raised, last>>

RaiseForgetful(s, r) ==   \* Mutant: the time of the alert is not noted.
  /\ raised' = [k \in AlertKeys |-> IF k \in Raised(s, r) THEN Append(raised[k], ReadAt(k, r))
                                    ELSE raised[k]]
  /\ UNCHANGED <<alerted, last>>

\* _ok notes the time of an alert, process returns it.
Raise(s, r) ==
  /\ alerted' = [k \in AlertKeys |-> IF k \in Raised(s, r) THEN ReadAt(k, r) ELSE alerted[k]]
  /\ raised' = [k \in AlertKeys |-> IF k \in Raised(s, r) THEN Append(raised[k], ReadAt(k, r))
                                    ELSE raised[k]]
  /\ last' = [source |-> s, at |-> r, alerts |-> Alerts(s, r)]

Process(s, p) == \E r \in Readings :
  /\ r[1] >= clock /\ Len(seen) < MaxSyns
  /\ clock' = r[5]
  /\ Record(s, p, r)
  /\ Raise(s, r)

Next == \E s \in Sources, p \in Ports : Process(s, p)

Spec == Init /\ [][Next]_vars
-----------------------------------------------------------------------------
Called == last # NoCall
Recent(now) == {i \in 1..Len(seen) : seen[i][3] = last.source /\ seen[i][1] >= now - Window}
RecentPorts(now) == {seen[i][2] : i \in Recent(now)}

RaisedWithin(kind, now) ==
  \E i \in 1..Len(raised[<<kind, last.source>>]) :
    now - raised[<<kind, last.source>>][i] < Window

(* A port-scan alert is justified: the source touched PortThreshold ports  *)
(* within one window of the pruning; a SYN-flood alert counts SynThreshold *)
(* SYNs.  No stale entry survives in a deque and no other source's SYN     *)
(* counts.                                                                 *)
NoFalseAlarm ==
  Called =>
    /\ "sweep" \in last.alerts => Cardinality(RecentPorts(last.at[2])) >= PortThreshold
    /\ "flood" \in last.alerts => Cardinality(Recent(last.at[3])) >= SynThreshold

(* A scan is not missed: when the last call leaves a threshold reached, an *)
(* alert of that kind was raised by this call or less than Window before.  *)
NoMissedScan ==
  Called =>
    /\ Cardinality(RecentPorts(last.at[2])) >= PortThreshold
         => RaisedWithin("sweep", last.at[4])
    /\ Cardinality(Recent(last.at[3])) >= SynThreshold
         => RaisedWithin("flood", last.at[5])

(* Neither deque forgets a SYN that its window still covers nor keeps one  *)
(* beyond it: after a call a deque is exactly the recent part of the       *)
(* history, although popleft only looks at the oldest entry.               *)
WindowExact ==
  Called =>
    LET s == last.source IN
    /\ Len(ports[s]) = Cardinality(Recent(last.at[2]))
    /\ {ports[s][i][2] : i \in 1..Len(ports[s])} = RecentPorts(last.at[2])
    /\ Len(syns[s]) = Cardinality(Recent(last.at[3]))

RL == INSTANCE RateLimit WITH Keys <- AlertKeys, granted <- raised

(* Alerts of one kind about one source are at least Window apart.          *)
AlertsRateLimited == RL!Spec
=============================================================================
