------------------------- MODULE ScanDetectorProofs -------------------------
(* Proofs about ScanDetector for every set of sources and ports, every     *)
(* window, every threshold and every clock that does not run backwards,    *)
(* and about the IdsProcess around it.                                     *)
EXTENDS IdsProcess, SequenceLemmas, FiniteSetTheorems

\* Pruning drops a prefix and changes nothing else.
LEMMA PruneSeq ==
  ASSUME NEW S, NEW dq \in Seq(S), NEW now
  PROVE  Prune(dq, now) \in Seq(S)
<1>1. CASE Fresh(dq, now) = {} BY <1>1 DEF Prune
<1>2. CASE Fresh(dq, now) # {}
  <2> DEFINE F == Fresh(dq, now)
             c == CHOOSE i \in F : \A j \in F : i <= j
  <2>1. F \in SUBSET Nat /\ F \subseteq 1..Len(dq) BY DEF Fresh
  <2>2. \E i \in F : \A j \in F : i <= j BY <1>2, <2>1, LeastElement
  <2>3. c \in F BY <2>2
  <2>4. c \in 1..Len(dq) BY <2>1, <2>3
  <2>5. Prune(dq, now) = SubSeq(dq, c, Len(dq)) BY <1>2 DEF Prune
  <2> HIDE DEF c
  <2>6. SubSeq(dq, c, Len(dq)) \in Seq(S)
    <3>1. Len(dq) \in Nat OBVIOUS
    <3>2. c \in 1..(Len(dq) + 1) /\ Len(dq) \in (c - 1)..Len(dq) BY <2>4, <3>1
    <3>3. QED BY <3>2, SubSeqProperties
  <2>7. QED BY <2>5, <2>6
<1>3. QED BY <1>1, <1>2

\* The readings of one call are times.
LEMMA ReadingsAreTimes ==
  ASSUME NEW r \in Readings, NEW i \in 1..5
  PROVE  r[i] \in Time /\ r[i] \in Nat
<1>1. r \in [1..5 -> Time] BY DEF Readings
<1>2. r[i] \in Time BY <1>1
<1>3. QED BY <1>2, ScanDetectorAssumption

\* The alerts of a call concern its source, each with a reading of its own.
LEMMA RaisedKeys ==
  ASSUME NEW s \in Sources, NEW r \in Readings
  PROVE  /\ Raised(s, r) \subseteq AlertKeys
         /\ \A k \in Raised(s, r) : ReadAt(k, r) \in Time /\ Ok(k[1], s, ReadAt(k, r))
         /\ \A k \in Raised(s, r) : k = <<k[1], s>>
<1>1. Alerts(s, r) \subseteq {"sweep", "flood"} BY DEF Alerts
<1>2. ASSUME NEW k \in Raised(s, r)
      PROVE  k[1] \in Alerts(s, r) /\ k = <<k[1], s>>
  BY <1>2 DEF Raised
<1>3. ASSUME NEW k \in Raised(s, r) PROVE Ok(k[1], s, ReadAt(k, r))
  BY <1>1, <1>2 DEF Alerts, ReadAt
<1>4. \A k : ReadAt(k, r) \in Time BY ReadingsAreTimes DEF ReadAt
<1>5. Raised(s, r) \subseteq AlertKeys BY <1>1 DEF Raised, AlertKeys
<1>6. QED BY <1>2, <1>3, <1>4, <1>5
-----------------------------------------------------------------------------
\* Every variable keeps its type: what pruning leaves is again a deque, and
\* the table holds readings of the clock.
THEOREM TypeCorrect == Spec => []TypeOK
<1>1. Init => TypeOK BY DEF Init, TypeOK
<1>2. TypeOK /\ [Next]_vars => TypeOK'
  <2> SUFFICES ASSUME TypeOK, [Next]_vars PROVE TypeOK'
    OBVIOUS
  <2>1. CASE UNCHANGED vars BY <2>1 DEF vars, TypeOK
  <2>2. ASSUME NEW s \in Sources, NEW p \in Ports, Process(s, p) PROVE TypeOK'
    <3>1. PICK r \in Readings :
            /\ clock' = r[5] /\ Record(s, p, r) /\ Raise(s, r)
      BY <2>2 DEF Process
    <3>2. clock' \in Time BY <3>1, ReadingsAreTimes
    <3>3. ports' \in [Sources -> Seq(Time \X Ports)]
      <4>1. ports[s] \in Seq(Time \X Ports) BY DEF TypeOK
      <4>2. Prune(ports[s], r[2]) \in Seq(Time \X Ports) BY <4>1, PruneSeq
      <4>3. <<r[1], p>> \in Time \X Ports BY ReadingsAreTimes
      <4>4. Append(Prune(ports[s], r[2]), <<r[1], p>>) \in Seq(Time \X Ports)
        BY <4>2, <4>3, AppendProperties
      <4>5. QED BY <3>1, <4>4 DEF Record, TypeOK
    <3>4. syns' \in [Sources -> Seq(Time \X {0})]
      <4>1. syns[s] \in Seq(Time \X {0}) BY DEF TypeOK
      <4>2. Prune(syns[s], r[3]) \in Seq(Time \X {0}) BY <4>1, PruneSeq
      <4>3. <<r[1], 0>> \in Time \X {0} BY ReadingsAreTimes
      <4>4. Append(Prune(syns[s], r[3]), <<r[1], 0>>) \in Seq(Time \X {0})
        BY <4>2, <4>3, AppendProperties
      <4>5. QED BY <3>1, <4>4 DEF Record, TypeOK
    <3>5. seen' \in Seq(Time \X Ports \X Sources)
      <4>1. <<r[1], p, s>> \in Time \X Ports \X Sources BY ReadingsAreTimes
      <4>2. QED BY <3>1, <4>1, AppendProperties DEF Record, TypeOK
    <3>6. alerted' \in [AlertKeys -> Time \cup {0}]
      BY <3>1, RaisedKeys DEF Raise, TypeOK
    <3>7. raised' \in [AlertKeys -> Seq(Time)]
      <4>1. \A k \in Raised(s, r) : Append(raised[k], ReadAt(k, r)) \in Seq(Time)
        BY RaisedKeys, AppendProperties DEF TypeOK
      <4>2. QED BY <3>1, <4>1, RaisedKeys DEF Raise, TypeOK
    <3>8. QED BY <3>2, <3>3, <3>4, <3>5, <3>6, <3>7 DEF TypeOK
  <2>3. QED BY <2>1, <2>2 DEF Next
<1>3. QED BY <1>1, <1>2, PTL DEF Spec
-----------------------------------------------------------------------------
\* The table is the end of the history of alerts.
TableIsLastAlert ==
  \A k \in AlertKeys :
    alerted[k] = IF raised[k] = <<>> THEN 0 ELSE raised[k][Len(raised[k])]

\* What appending to a history does: the old times stay, t is the last.
LEMMA AppendTime ==
  ASSUME NEW g \in Seq(Time), NEW t \in Time
  PROVE  /\ Append(g, t) # <<>>
         /\ Len(g) \in Nat
         /\ Len(Append(g, t)) = Len(g) + 1
         /\ \A i \in 1..Len(g) : Append(g, t)[i] = g[i] /\ g[i] \in Time
         /\ Append(g, t)[Len(g) + 1] = t
BY AppendProperties, ElementOfSeq

LEMMA TableCorrect == Spec => []TableIsLastAlert
<1>1. Init => TableIsLastAlert BY DEF Init, TableIsLastAlert
<1>2. TypeOK /\ TableIsLastAlert /\ [Next]_vars => TableIsLastAlert'
  <2> SUFFICES ASSUME TypeOK, TableIsLastAlert, [Next]_vars, NEW k \in AlertKeys
               PROVE  alerted'[k] = IF raised'[k] = <<>> THEN 0
                                    ELSE raised'[k][Len(raised'[k])]
    BY DEF TableIsLastAlert
  <2>1. CASE UNCHANGED vars BY <2>1 DEF vars, TableIsLastAlert
  <2>2. ASSUME NEW s \in Sources, NEW r \in Readings, Raise(s, r)
        PROVE  alerted'[k] = IF raised'[k] = <<>> THEN 0
                             ELSE raised'[k][Len(raised'[k])]
    <3>1. CASE k \notin Raised(s, r)
      <4>1. alerted'[k] = alerted[k] /\ raised'[k] = raised[k]
        BY <2>2, <3>1 DEF Raise
      <4>2. QED BY <4>1 DEF TableIsLastAlert
    <3>2. CASE k \in Raised(s, r)
      <4>1. /\ alerted'[k] = ReadAt(k, r)
            /\ raised'[k] = Append(raised[k], ReadAt(k, r))
        BY <2>2, <3>2 DEF Raise
      <4>2. raised[k] \in Seq(Time) /\ ReadAt(k, r) \in Time
        BY <3>2, RaisedKeys DEF TypeOK
      <4>3. raised'[k] # <<>> /\ raised'[k][Len(raised'[k])] = ReadAt(k, r)
        BY <4>1, <4>2, AppendTime
      <4>4. QED BY <4>1, <4>3
    <3>3. QED BY <3>1, <3>2
  <2>3. QED BY <2>1, <2>2 DEF Next, Process
<1>3. QED BY <1>1, <1>2, TypeCorrect, PTL DEF Spec

\* The inductive strengthening of RL!Spaced.
SpacedInv == TypeOK /\ TableIsLastAlert /\ RL!Spaced

\* _ok compares with the last alert only; the earlier ones lie Window before.
LEMMA TableDecides ==
  ASSUME SpacedInv, NEW k \in AlertKeys, NEW now \in Nat, now - alerted[k] >= Window
  PROVE  RL!Free(k, now)
<1> DEFINE g == raised[k]
<1>1. g \in Seq(Time) /\ Len(g) \in Nat /\ Window \in Nat
  BY ScanDetectorAssumption DEF SpacedInv, TypeOK
<1>2. \A i \in 1..Len(g) : g[i] \in Nat
  BY <1>1, ScanDetectorAssumption, ElementOfSeq
<1>3. SUFFICES ASSUME NEW i \in 1..Len(g) PROVE now - g[i] >= Window
  BY DEF RL!Free
<1>4. g # <<>> /\ Len(g) \in 1..Len(g) BY <1>1, <1>3
<1>5. now - g[Len(g)] >= Window BY <1>4 DEF SpacedInv, TableIsLastAlert
<1>6. CASE i = Len(g) BY <1>5, <1>6
<1>7. CASE i # Len(g)
  <2>1. i < Len(g) BY <1>1, <1>3, <1>7
  <2>2. g[Len(g)] - g[i] >= Window
    BY <2>1, <1>3, <1>4 DEF SpacedInv, RL!Spaced
  <2>3. QED BY <2>2, <1>1, <1>2, <1>3, <1>4, <1>5
<1>8. QED BY <1>6, <1>7

\* One call grants both kinds of alert at most, each at its own reading.
LEMMA StepRefines ==
  ASSUME SpacedInv, [Next]_vars
  PROVE  [RL!Next]_raised
<1>1. CASE UNCHANGED vars BY <1>1 DEF vars
<1>2. ASSUME NEW s \in Sources, NEW r \in Readings, Raise(s, r)
      PROVE  RL!Next
  <2> DEFINE K == Raised(s, r)
             at == [k \in K |-> ReadAt(k, r)]
  <2>1. K \in SUBSET AlertKeys /\ at \in [K -> Time] BY RaisedKeys
  <2>2. ASSUME NEW k \in K PROVE RL!Free(k, at[k])
    <3>1. k \in AlertKeys /\ k = <<k[1], s>> BY RaisedKeys
    <3>2. ReadAt(k, r) \in Nat BY ReadingsAreTimes DEF ReadAt
    <3>3. ReadAt(k, r) - alerted[<<k[1], s>>] >= Window BY RaisedKeys DEF Ok
    <3>4. ReadAt(k, r) - alerted[k] >= Window BY <3>1, <3>3
    <3>5. QED BY <3>1, <3>2, <3>4, TableDecides
  <2>3. raised' = [k \in AlertKeys |-> IF k \in K THEN Append(raised[k], at[k])
                                                  ELSE raised[k]]
    BY <1>2 DEF Raise
  <2> HIDE DEF K, at
  <2>4. QED BY <2>1, <2>2, <2>3 DEF RL!Next
<1>3. QED BY <1>1, <1>2 DEF Next, Process

\* A step of the rate limiter keeps the distances.
LEMMA StepSpaced ==
  ASSUME SpacedInv, [RL!Next]_raised
  PROVE  RL!Spaced'
<1> SUFFICES ASSUME NEW k \in AlertKeys,
                    NEW i \in 1..Len(raised'[k]), NEW j \in 1..Len(raised'[k]),
                    i < j
             PROVE  raised'[k][j] - raised'[k][i] >= Window
  BY DEF RL!Spaced
<1>1. CASE raised'[k] = raised[k] BY <1>1 DEF SpacedInv, RL!Spaced
<1>2. ASSUME NEW t \in Time, RL!Free(k, t), raised'[k] = Append(raised[k], t)
      PROVE  raised'[k][j] - raised'[k][i] >= Window
  <2> DEFINE g == raised[k]
  <2>1. g \in Seq(Time) BY DEF SpacedInv, TypeOK
  <2>2. /\ Len(g) \in Nat
        /\ Len(raised'[k]) = Len(g) + 1
        /\ \A n \in 1..Len(g) : raised'[k][n] = g[n]
        /\ raised'[k][Len(g) + 1] = t
    BY <1>2, <2>1, AppendTime
  <2>3. i \in 1..Len(g) BY <2>2
  <2>4. CASE j = Len(g) + 1
    <3>1. raised'[k][j] - raised'[k][i] = t - g[i] BY <2>2, <2>3, <2>4
    <3>2. QED BY <3>1, <1>2, <2>3 DEF RL!Free
  <2>5. CASE j # Len(g) + 1
    <3>1. j \in 1..Len(g) BY <2>2, <2>5
    <3>2. QED BY <3>1, <2>2, <2>3 DEF SpacedInv, RL!Spaced
  <2>6. QED BY <2>4, <2>5
<1>3. QED BY <1>1, <1>2 DEF RL!Next

\* Alerts of one kind about one source are Window apart, however long a
\* call takes between its readings of the clock.
THEOREM AlertsSpaced == Spec => []RL!Spaced
<1>1. Init => RL!Spaced
  <2> SUFFICES ASSUME Init, NEW k \in AlertKeys PROVE Len(raised[k]) = 0
    BY DEF RL!Spaced
  <2>1. QED BY DEF Init
<1>2. TypeOK /\ TableIsLastAlert /\ RL!Spaced /\ [Next]_vars => RL!Spaced'
  BY StepRefines, StepSpaced DEF SpacedInv
<1>3. QED BY <1>1, <1>2, TypeCorrect, TableCorrect, PTL DEF Spec

\* The suppression of IDS alerts implements the abstract rate limiter.
THEOREM AlertsRefineRateLimit == Spec => AlertsRateLimited
<1>1. Init => RL!Init BY DEF Init, RL!Init
<1>2. TypeOK /\ TableIsLastAlert /\ RL!Spaced /\ [Next]_vars => [RL!Next]_raised
  BY StepRefines DEF SpacedInv
<1>3. QED BY <1>1, <1>2, AlertsSpaced, TypeCorrect, TableCorrect, PTL
          DEF Spec, RL!Spec, AlertsRateLimited
-----------------------------------------------------------------------------
(* The deques are the recent part of the history.  Entry i of a deque of   *)
(* source s stands for SYN f[i] of the history sn; f grows with i, and the *)
(* SYNs of s that have no entry are older than the window.                 *)
OfSource(sn, s) == {j \in 1..Len(sn) : sn[j][3] = s}
Within(sn, s, t) == {j \in OfSource(sn, s) : sn[j][1] >= t}

Entry(kind, syn) == IF kind = "sweep" THEN <<syn[1], syn[2]>> ELSE <<syn[1], 0>>

Mirrors(dq, kind, sn, s, f) ==
  /\ f \in [1..Len(dq) -> OfSource(sn, s)]
  /\ \A i \in 1..Len(dq) : dq[i] = Entry(kind, sn[f[i]])
  /\ \A i, j \in 1..Len(dq) : i < j => f[i] < f[j]

\* The deque has an entry for every SYN since t, and maybe for older ones.
Holds(dq, kind, sn, s, t) ==
  \E f : /\ Mirrors(dq, kind, sn, s, f)
         /\ \A j \in Within(sn, s, t) : \E i \in 1..Len(dq) : f[i] = j

\* It has no others.
Exact(dq, kind, sn, s, t) ==
  \E f : /\ Mirrors(dq, kind, sn, s, f)
         /\ \A j \in Within(sn, s, t) : \E i \in 1..Len(dq) : f[i] = j
         /\ \A i \in 1..Len(dq) : f[i] \in Within(sn, s, t)

Syns == Time \X Ports \X Sources
Sorted(sn) == \A i, j \in 1..Len(sn) : i <= j => sn[i][1] <= sn[j][1]

\* popleft removes what comes before the first fresh entry.
LEMMA PruneSplit ==
  ASSUME NEW S, NEW dq \in Seq(S), NEW now
  PROVE  \E c \in 1..Len(dq) + 1 :
           /\ Len(Prune(dq, now)) = Len(dq) - c + 1
           /\ \A i \in 1..Len(Prune(dq, now)) : Prune(dq, now)[i] = dq[c + i - 1]
           /\ \A i \in Fresh(dq, now) : c <= i
           /\ c <= Len(dq) => c \in Fresh(dq, now)
<1>1. Len(dq) \in Nat OBVIOUS
<1>2. CASE Fresh(dq, now) = {}
  <2>1. Prune(dq, now) = <<>> BY <1>2 DEF Prune
  <2>2. Len(dq) + 1 \in 1..Len(dq) + 1 /\ Len(dq) - (Len(dq) + 1) + 1 = 0 BY <1>1
  <2>3. QED BY <1>1, <1>2, <2>1, <2>2
<1>3. CASE Fresh(dq, now) # {}
  <2> DEFINE F == Fresh(dq, now)
             c == CHOOSE i \in F : \A j \in F : i <= j
  <2>1. F \in SUBSET Nat /\ F \subseteq 1..Len(dq) BY DEF Fresh
  <2>2. \E i \in F : \A j \in F : i <= j BY <1>3, <2>1, LeastElement
  <2>3. c \in F /\ \A j \in F : c <= j BY <2>2
  <2>4. Prune(dq, now) = SubSeq(dq, c, Len(dq)) BY <1>3 DEF Prune
  <2> HIDE DEF c
  <2>5. c \in 1..Len(dq) BY <2>1, <2>3
  <2>6. /\ Len(SubSeq(dq, c, Len(dq))) = Len(dq) - c + 1
        /\ \A i \in 1..Len(dq) - c + 1 : SubSeq(dq, c, Len(dq))[i] = dq[c + i - 1]
    <3>1. c \in 1..Len(dq) + 1 /\ Len(dq) \in (c - 1)..Len(dq) BY <1>1, <2>5
    <3>2. QED BY <3>1, <2>5, <1>1, SubSeqProperties
  <2>7. c \in 1..Len(dq) + 1 BY <1>1, <2>5
  <2>8. QED BY <2>3, <2>4, <2>6, <2>7
<1>4. QED BY <1>2, <1>3

\* Pruning a deque of a history in order leaves the SYNs of the window.
LEMMA PruneExact ==
  ASSUME NEW S, NEW dq \in Seq(S), NEW kind, NEW sn \in Seq(Syns), Sorted(sn), NEW s,
         NEW t \in Int, NEW now \in Nat, t <= now - Window, Holds(dq, kind, sn, s, t)
  PROVE  Exact(Prune(dq, now), kind, sn, s, now - Window)
<1> DEFINE q == Prune(dq, now)
<1>1. PICK f : /\ Mirrors(dq, kind, sn, s, f)
               /\ \A j \in Within(sn, s, t) : \E i \in 1..Len(dq) : f[i] = j
  BY DEF Holds
<1>2. PICK c \in 1..Len(dq) + 1 :
        /\ Len(q) = Len(dq) - c + 1
        /\ \A i \in 1..Len(q) : q[i] = dq[c + i - 1]
        /\ \A i \in Fresh(dq, now) : c <= i
        /\ c <= Len(dq) => c \in Fresh(dq, now)
  BY PruneSplit
<1> HIDE DEF q
<1>3. Len(dq) \in Nat /\ Len(sn) \in Nat /\ Len(q) \in Nat
      /\ \A i \in 1..Len(q) : c + i - 1 \in 1..Len(dq)
  <2>1. Len(dq) \in Nat /\ Len(sn) \in Nat OBVIOUS
  <2>2. QED BY <1>2, <2>1
<1>4. \A j \in 1..Len(sn) : sn[j][1] \in Nat
  <2> SUFFICES ASSUME NEW j \in 1..Len(sn) PROVE sn[j][1] \in Nat
    OBVIOUS
  <2>1. sn[j] \in Syns BY ElementOfSeq
  <2>2. QED BY <2>1, ScanDetectorAssumption DEF Syns
<1>5. \A i \in 1..Len(dq) : /\ f[i] \in OfSource(sn, s) /\ f[i] \in 1..Len(sn)
                            /\ dq[i] = Entry(kind, sn[f[i]]) /\ dq[i][1] = sn[f[i]][1]
  BY <1>1 DEF Mirrors, OfSource, Entry
<1> DEFINE g == [i \in 1..Len(q) |-> f[c + i - 1]]
<1>6. Mirrors(q, kind, sn, s, g)
  <2>1. g \in [1..Len(q) -> OfSource(sn, s)] BY <1>3, <1>5
  <2>2. \A i \in 1..Len(q) : q[i] = Entry(kind, sn[g[i]]) BY <1>2, <1>3, <1>5
  <2>3. ASSUME NEW i \in 1..Len(q), NEW j \in 1..Len(q), i < j PROVE g[i] < g[j]
    <3>1. c + i - 1 < c + j - 1 BY <1>2, <2>3
    <3>2. QED BY <1>1, <1>3, <3>1 DEF Mirrors
  <2>4. QED BY <2>1, <2>2, <2>3 DEF Mirrors
<1>7. ASSUME NEW j \in Within(sn, s, now - Window) PROVE \E i \in 1..Len(q) : g[i] = j
  <2>1. j \in OfSource(sn, s) /\ j \in 1..Len(sn) /\ sn[j][1] >= now - Window
    BY DEF Within, OfSource
  <2>2. j \in Within(sn, s, t)
    BY <1>4, <2>1, ScanDetectorAssumption DEF Within
  <2>3. PICK k \in 1..Len(dq) : f[k] = j BY <1>1, <2>2
  <2>4. k \in Fresh(dq, now) BY <1>5, <2>1, <2>3 DEF Fresh
  <2>5. k - c + 1 \in 1..Len(q) /\ c + (k - c + 1) - 1 = k BY <1>2, <1>3, <2>4
  <2>6. QED BY <2>3, <2>5
<1>8. ASSUME NEW i \in 1..Len(q) PROVE g[i] \in Within(sn, s, now - Window)
  <2>1. c \in 1..Len(dq) /\ c \in Fresh(dq, now) /\ c + i - 1 \in 1..Len(dq)
    BY <1>2, <1>3
  <2>2. dq[c][1] >= now - Window BY <2>1 DEF Fresh
  <2>3. f[c] <= f[c + i - 1]
    <3>1. c = c + i - 1 \/ c < c + i - 1 BY <2>1
    <3>2. f[c] \in Nat /\ f[c + i - 1] \in Nat BY <1>5, <2>1
    <3>3. c < c + i - 1 => f[c] < f[c + i - 1] BY <1>1, <2>1 DEF Mirrors
    <3>4. QED BY <3>1, <3>2, <3>3
  <2>4. sn[f[c]][1] <= sn[f[c + i - 1]][1] BY <1>5, <2>1, <2>3 DEF Sorted
  <2>5. sn[f[c + i - 1]][1] >= now - Window
    <3>1. sn[f[c]][1] \in Nat /\ sn[f[c + i - 1]][1] \in Nat BY <1>4, <1>5, <2>1
    <3>2. sn[f[c]][1] >= now - Window BY <1>5, <2>1, <2>2
    <3>3. now - Window \in Int BY ScanDetectorAssumption
    <3>4. QED BY <2>4, <3>1, <3>2, <3>3
  <2>6. QED BY <1>5, <2>1, <2>5 DEF Within
<1> HIDE DEF g
<1>9. QED BY <1>6, <1>7, <1>8 DEF Exact, q

\* One more SYN of s, and one more entry.
Longer(f, n, j) == [i \in 1..n + 1 |-> IF i = n + 1 THEN j ELSE f[i]]

LEMMA AppendEntry ==
  ASSUME NEW S, NEW dq \in Seq(S), NEW kind, NEW sn \in Seq(Syns), NEW s,
         NEW syn \in Syns, syn[3] = s, Entry(kind, syn) \in S, NEW t
  PROVE  /\ Holds(dq, kind, sn, s, t)
              => Holds(Append(dq, Entry(kind, syn)), kind, Append(sn, syn), s, t)
         /\ Exact(dq, kind, sn, s, t) /\ syn[1] >= t
              => Exact(Append(dq, Entry(kind, syn)), kind, Append(sn, syn), s, t)
<1> DEFINE q == Append(dq, Entry(kind, syn))
           h == Append(sn, syn)
           n == Len(dq)
           m == Len(sn)
           g(f) == Longer(f, n, m + 1)
<1>1. ASSUME NEW f, Mirrors(dq, kind, sn, s, f),
             \A j \in Within(sn, s, t) : \E i \in 1..Len(dq) : f[i] = j
      PROVE  /\ Mirrors(q, kind, h, s, g(f))
             /\ \A j \in Within(h, s, t) : \E i \in 1..Len(q) : g(f)[i] = j
             /\ (\A i \in 1..Len(dq) : f[i] \in Within(sn, s, t)) /\ syn[1] >= t
                  => \A i \in 1..Len(q) : g(f)[i] \in Within(h, s, t)
  <2>1. /\ n \in Nat /\ Len(q) = n + 1 /\ q[n + 1] = Entry(kind, syn)
        /\ \A i \in 1..n : q[i] = dq[i]
    BY AppendProperties
  <2>2. /\ m \in Nat /\ Len(h) = m + 1 /\ h[m + 1] = syn
        /\ \A j \in 1..m : h[j] = sn[j]
    BY AppendProperties
  <2> HIDE DEF q, h, n, m
  <2>3. /\ g(f)[n + 1] = m + 1 /\ \A i \in 1..n : g(f)[i] = f[i] /\ i \in 1..n + 1 /\ i # n + 1
        /\ g(f) \in [1..n + 1 -> {m + 1} \cup {f[i] : i \in 1..n}]
    BY <2>1 DEF Longer, n, m
  <2>4. \A i \in 1..n : /\ f[i] \in OfSource(sn, s) /\ f[i] \in 1..m
                        /\ dq[i] = Entry(kind, sn[f[i]])
    BY <1>1 DEF Mirrors, OfSource, n, m
  <2>5. OfSource(h, s) = OfSource(sn, s) \cup {m + 1} BY <2>2 DEF OfSource, m
  <2>6. Mirrors(q, kind, h, s, g(f))
    <3>1. g(f) \in [1..Len(q) -> OfSource(h, s)] BY <2>1, <2>3, <2>4, <2>5
    <3>2. ASSUME NEW i \in 1..Len(q) PROVE q[i] = Entry(kind, h[g(f)[i]])
      <4>1. CASE i = n + 1 BY <2>1, <2>2, <2>3, <4>1
      <4>2. CASE i # n + 1
        <5>1. i \in 1..n BY <2>1, <4>2
        <5>2. QED BY <2>1, <2>2, <2>3, <2>4, <5>1
      <4>3. QED BY <4>1, <4>2
    <3>3. ASSUME NEW i \in 1..Len(q), NEW j \in 1..Len(q), i < j PROVE g(f)[i] < g(f)[j]
      <4>1. i \in 1..n BY <2>1, <3>3
      <4>2. CASE j = n + 1
        <5>1. g(f)[i] \in 1..m /\ g(f)[j] = m + 1 BY <2>3, <2>4, <4>1, <4>2
        <5>2. QED BY <2>2, <5>1
      <4>3. CASE j # n + 1
        <5>1. j \in 1..n BY <2>1, <4>3
        <5>2. f[i] < f[j] BY <1>1, <3>3, <4>1, <5>1 DEF Mirrors, n
        <5>3. QED BY <2>3, <4>1, <5>1, <5>2
      <4>4. QED BY <4>2, <4>3
    <3>4. QED BY <3>1, <3>2, <3>3 DEF Mirrors
  <2>7. ASSUME NEW j \in Within(h, s, t) PROVE \E i \in 1..Len(q) : g(f)[i] = j
    <3>1. CASE j = m + 1
      <4>1. n + 1 \in 1..Len(q) BY <2>1
      <4>2. QED BY <2>3, <3>1, <4>1
    <3>2. CASE j # m + 1
      <4>1. j \in OfSource(sn, s) /\ h[j][1] >= t BY <2>5, <3>2 DEF Within
      <4>2. j \in 1..m BY <4>1 DEF OfSource, m
      <4>3. j \in Within(sn, s, t) BY <2>2, <4>1, <4>2 DEF Within
      <4>4. PICK i \in 1..n : f[i] = j BY <1>1, <4>3 DEF n
      <4>5. i \in 1..Len(q) BY <2>1
      <4>6. QED BY <2>3, <4>4, <4>5
    <3>3. QED BY <3>1, <3>2
  <2>8. ASSUME \A i \in 1..n : f[i] \in Within(sn, s, t), syn[1] >= t, NEW i \in 1..Len(q)
        PROVE  g(f)[i] \in Within(h, s, t)
    <3>1. CASE i = n + 1 BY <2>2, <2>3, <2>5, <2>8, <3>1 DEF Within
    <3>2. CASE i # n + 1
      <4>1. i \in 1..n BY <2>1, <3>2
      <4>2. f[i] \in Within(sn, s, t) /\ f[i] \in 1..m BY <2>4, <2>8, <4>1
      <4>3. f[i] \in Within(h, s, t) BY <2>2, <2>5, <4>2 DEF Within
      <4>4. QED BY <2>3, <4>1, <4>3
    <3>3. QED BY <3>1, <3>2
  <2>9. QED BY <2>6, <2>7, <2>8 DEF n, m
<1> HIDE DEF q, h, g
<1>2. Holds(dq, kind, sn, s, t) => Holds(q, kind, h, s, t) BY <1>1 DEF Holds
<1>3. Exact(dq, kind, sn, s, t) /\ syn[1] >= t => Exact(q, kind, h, s, t)
  BY <1>1 DEF Exact
<1>4. QED BY <1>2, <1>3 DEF q, h

\* A SYN of another source, and the passing of time, need no entry.
LEMMA HoldsOn ==
  ASSUME NEW dq, NEW kind, NEW sn \in Seq(Syns), NEW s, NEW t \in Int, NEW u \in Int,
         t <= u, Holds(dq, kind, sn, s, t)
  PROVE  /\ Holds(dq, kind, sn, s, u)
         /\ \A syn \in Syns : syn[3] # s => Holds(dq, kind, Append(sn, syn), s, u)
<1>1. PICK f : /\ Mirrors(dq, kind, sn, s, f)
               /\ \A j \in Within(sn, s, t) : \E i \in 1..Len(dq) : f[i] = j
  BY DEF Holds
<1>2. ASSUME NEW j \in Within(sn, s, u) PROVE j \in Within(sn, s, t)
  <2>1. j \in 1..Len(sn) /\ sn[j][1] >= u BY DEF Within, OfSource
  <2>2. sn[j] \in Syns BY <2>1, ElementOfSeq
  <2>3. sn[j][1] \in Nat BY <2>2, ScanDetectorAssumption DEF Syns
  <2>4. sn[j][1] >= t BY <2>1, <2>3
  <2>5. QED BY <2>4 DEF Within
<1>3. Holds(dq, kind, sn, s, u) BY <1>1, <1>2 DEF Holds
<1>4. ASSUME NEW syn \in Syns, syn[3] # s PROVE Holds(dq, kind, Append(sn, syn), s, u)
  <2> DEFINE h == Append(sn, syn)
  <2>1. /\ Len(sn) \in Nat /\ Len(h) = Len(sn) + 1 /\ h[Len(sn) + 1] = syn
        /\ \A j \in 1..Len(sn) : h[j] = sn[j]
    BY AppendProperties
  <2> HIDE DEF h
  <2>2. OfSource(h, s) = OfSource(sn, s) BY <1>4, <2>1 DEF OfSource
  <2>3. \A j \in OfSource(sn, s) : h[j] = sn[j] BY <2>1 DEF OfSource
  <2>4. Within(h, s, u) = Within(sn, s, u) BY <2>2, <2>3 DEF Within
  <2>5. Mirrors(dq, kind, h, s, f) BY <1>1, <2>2, <2>3 DEF Mirrors
  <2>6. QED BY <1>1, <1>2, <2>4, <2>5 DEF Holds, h
<1>5. QED BY <1>3, <1>4

LEMMA ExactHolds ==
  ASSUME NEW dq, NEW kind, NEW sn, NEW s, NEW t, Exact(dq, kind, sn, s, t)
  PROVE  Holds(dq, kind, sn, s, t)
BY DEF Exact, Holds

\* As many entries as there are SYNs in the window.
LEMMA ExactSize ==
  ASSUME NEW S, NEW dq \in Seq(S), NEW kind, NEW sn, NEW s, NEW t, Exact(dq, kind, sn, s, t)
  PROVE  Cardinality(Within(sn, s, t)) = Len(dq)
<1> DEFINE W == Within(sn, s, t)
<1>1. PICK f : /\ Mirrors(dq, kind, sn, s, f)
               /\ \A j \in W : \E i \in 1..Len(dq) : f[i] = j
               /\ \A i \in 1..Len(dq) : f[i] \in W
  BY DEF Exact
<1>2. Len(dq) \in Nat OBVIOUS
<1>3. \A i \in 1..Len(dq) : f[i] \in 1..Len(sn) /\ dq[i] = Entry(kind, sn[f[i]])
  BY <1>1 DEF Mirrors, OfSource
<1> HIDE DEF W
<1>4. f \in [1..Len(dq) -> W] BY <1>1 DEF Mirrors
<1>5. ASSUME NEW i \in 1..Len(dq), NEW j \in 1..Len(dq), f[i] = f[j] PROVE i = j
  <2>1. f[i] \in Int /\ f[j] \in Int BY <1>3
  <2>2. ~(i < j) /\ ~(j < i) BY <1>1, <1>5, <2>1 DEF Mirrors
  <2>3. QED BY <1>2, <2>2
<1>6. f \in Bijection(1..Len(dq), W)
  BY <1>1, <1>4, <1>5 DEF Bijection, Injection, Surjection, IsInjective
<1>7. ExistsBijection(1..Len(dq), W) BY <1>6 DEF ExistsBijection
<1>8. Cardinality(W) = Len(dq) BY <1>2, <1>7, FS_CountingElements
<1>9. QED BY <1>8 DEF W

\* And the same ports.
LEMMA ExactPorts ==
  ASSUME NEW dq, NEW sn, NEW s, NEW t, Exact(dq, "sweep", sn, s, t)
  PROVE  \A x : (\E i \in 1..Len(dq) : dq[i][2] = x) <=> (\E j \in Within(sn, s, t) : sn[j][2] = x)
<1>1. PICK f : /\ Mirrors(dq, "sweep", sn, s, f)
               /\ \A j \in Within(sn, s, t) : \E i \in 1..Len(dq) : f[i] = j
               /\ \A i \in 1..Len(dq) : f[i] \in Within(sn, s, t)
  BY DEF Exact
<1>2. \A i \in 1..Len(dq) : dq[i][2] = sn[f[i]][2] BY <1>1 DEF Mirrors, Entry
<1>3. QED BY <1>1, <1>2

\* The history is in order and the clock at its end.
InOrder == Sorted(seen) /\ \A j \in 1..Len(seen) : seen[j][1] <= clock

Deques == \A s \in Sources : /\ Holds(ports[s], "sweep", seen, s, clock - Window)
                             /\ Holds(syns[s], "flood", seen, s, clock - Window)

\* What the last call left, and what it reported.
LastExact ==
  Called => /\ last.source \in Sources
            /\ Exact(ports[last.source], "sweep", seen, last.source, last.at[2] - Window)
            /\ Exact(syns[last.source], "flood", seen, last.source, last.at[3] - Window)

LastTold ==
  Called =>
    /\ "sweep" \in last.alerts => DistinctPorts(ports[last.source]) >= PortThreshold
    /\ "flood" \in last.alerts => Len(syns[last.source]) >= SynThreshold
    /\ DistinctPorts(ports[last.source]) >= PortThreshold => RaisedWithin("sweep", last.at[4])
    /\ Len(syns[last.source]) >= SynThreshold => RaisedWithin("flood", last.at[5])

\* The readings of a call come one after the other.
LEMMA ReadingsOrdered ==
  ASSUME NEW r \in Readings
  PROVE  /\ r[1] <= r[2] /\ r[2] <= r[3] /\ r[3] <= r[4] /\ r[4] <= r[5]
         /\ r[5] - r[1] <= Lag
         /\ \A i \in 1..5 : r[i] \in Nat
<1>1. \A i \in 1..5 : r[i] \in Nat BY ReadingsAreTimes
<1>2. (\A i \in 1..4 : r[i] <= r[i + 1]) /\ r[5] - r[1] <= Lag BY DEF Readings
<1>3. QED BY <1>1, <1>2

LEMMA RecordExact ==
  ASSUME TypeOK, InOrder, Deques, NEW s \in Sources, NEW p \in Ports, NEW r \in Readings,
         r[1] >= clock, clock' = r[5], Record(s, p, r)
  PROVE  /\ InOrder' /\ Deques'
         /\ Lag <= Window => /\ Exact(ports'[s], "sweep", seen', s, r[2] - Window)
                             /\ Exact(syns'[s], "flood", seen', s, r[3] - Window)
<1>1. /\ r[1] <= r[2] /\ r[2] <= r[3] /\ r[3] <= r[4] /\ r[4] <= r[5]
      /\ r[5] - r[1] <= Lag
      /\ r[1] \in Nat /\ r[2] \in Nat /\ r[3] \in Nat /\ r[4] \in Nat /\ r[5] \in Nat
  BY ReadingsOrdered
<1>2. clock \in Nat /\ Window \in Nat /\ Lag \in Nat BY ScanDetectorAssumption DEF TypeOK
<1>3. PICK syn \in Syns : syn = <<r[1], p, s>>
  <2>1. r[1] \in Time BY ReadingsAreTimes
  <2>2. <<r[1], p, s>> \in Syns BY <2>1 DEF Syns
  <2>3. QED BY <2>2
<1>4. seen \in Seq(Syns) /\ seen' = Append(seen, syn) /\ Sorted(seen)
  BY <1>3 DEF TypeOK, Record, InOrder, Syns
<1>5. /\ ports[s] \in Seq(Time \X Ports) /\ syns[s] \in Seq(Time \X {0})
      /\ Entry("sweep", syn) = <<r[1], p>> /\ Entry("sweep", syn) \in Time \X Ports
      /\ Entry("flood", syn) = <<r[1], 0>> /\ Entry("flood", syn) \in Time \X {0}
      /\ syn[3] = s /\ syn[1] = r[1]
  BY <1>3, ReadingsAreTimes DEF TypeOK, Entry
<1>6. /\ ports'[s] = Append(Prune(ports[s], r[2]), Entry("sweep", syn))
      /\ syns'[s] = Append(Prune(syns[s], r[3]), Entry("flood", syn))
      /\ \A x \in Sources \ {s} : ports'[x] = ports[x] /\ syns'[x] = syns[x]
  BY <1>5 DEF Record, TypeOK
<1>7. InOrder'
  <2>1. /\ Len(seen) \in Nat /\ Len(seen') = Len(seen) + 1 /\ seen'[Len(seen) + 1] = syn
        /\ \A j \in 1..Len(seen) : seen'[j] = seen[j]
    BY <1>4, AppendProperties
  <2>2. \A j \in 1..Len(seen) : seen[j][1] \in Nat /\ seen[j][1] <= clock
    <3> SUFFICES ASSUME NEW j \in 1..Len(seen)
                 PROVE  seen[j][1] \in Nat /\ seen[j][1] <= clock
      OBVIOUS
    <3>1. seen[j] \in Syns BY <1>4, ElementOfSeq
    <3>2. QED BY <3>1, ScanDetectorAssumption DEF InOrder, Syns
  <2>3. \A j \in 1..Len(seen') : seen'[j][1] \in Nat /\ seen'[j][1] <= r[1]
    <3> SUFFICES ASSUME NEW j \in 1..Len(seen')
                 PROVE  seen'[j][1] \in Nat /\ seen'[j][1] <= r[1]
      OBVIOUS
    <3>1. CASE j \in 1..Len(seen)
      <4>1. seen'[j][1] = seen[j][1] BY <2>1, <3>1
      <4>2. seen[j][1] \in Nat /\ seen[j][1] <= clock BY <2>2, <3>1
      <4>3. clock <= r[1] BY <1>1, <1>2
      <4>4. QED BY <1>1, <1>2, <4>1, <4>2, <4>3
    <3>2. CASE j = Len(seen) + 1 BY <1>1, <1>5, <2>1, <3>2
    <3>3. QED BY <2>1, <3>1, <3>2
  <2>4. ASSUME NEW i \in 1..Len(seen'), NEW j \in 1..Len(seen'), i <= j
        PROVE  seen'[i][1] <= seen'[j][1]
    <3>1. CASE j = Len(seen) + 1
      <4>1. seen'[j][1] = r[1] BY <1>5, <2>1, <3>1
      <4>2. QED BY <2>3, <4>1
    <3>2. CASE j # Len(seen) + 1
      <4>1. i \in 1..Len(seen) /\ j \in 1..Len(seen) BY <2>1, <2>4, <3>2
      <4>2. seen[i][1] <= seen[j][1] BY <1>4, <2>4, <4>1 DEF Sorted
      <4>3. QED BY <2>1, <4>1, <4>2
    <3>3. QED BY <3>1, <3>2
  <2>5. Sorted(seen') BY <2>4 DEF Sorted
  <2>6. \A j \in 1..Len(seen') : seen'[j][1] <= clock' BY <1>1, <2>3
  <2>7. QED BY <2>5, <2>6 DEF InOrder
<1>8. clock - Window \in Int /\ clock - Window <= r[2] - Window
      /\ clock - Window <= r[3] - Window
  BY <1>1, <1>2
<1>9. Exact(Prune(ports[s], r[2]), "sweep", seen, s, r[2] - Window)
  BY <1>1, <1>4, <1>5, <1>8, PruneExact DEF Deques
<1>10. Exact(Prune(syns[s], r[3]), "flood", seen, s, r[3] - Window)
  BY <1>1, <1>4, <1>5, <1>8, PruneExact DEF Deques
<1>11. Prune(ports[s], r[2]) \in Seq(Time \X Ports) /\ Prune(syns[s], r[3]) \in Seq(Time \X {0})
  BY <1>5, PruneSeq
<1>12. /\ Holds(ports'[s], "sweep", seen', s, r[2] - Window)
       /\ Lag <= Window => Exact(ports'[s], "sweep", seen', s, r[2] - Window)
  <2>1. Holds(Prune(ports[s], r[2]), "sweep", seen, s, r[2] - Window) BY <1>9, ExactHolds
  <2>2. Lag <= Window => syn[1] >= r[2] - Window
    <3>1. syn[1] = r[1] BY <1>5
    <3>2. Lag <= Window => r[1] >= r[2] - Window BY <1>1, <1>2
    <3>3. QED BY <3>1, <3>2
  <2> DEFINE q == Prune(ports[s], r[2])
             t == r[2] - Window
  <2>3. q \in Seq(Time \X Ports) /\ Entry("sweep", syn) \in Time \X Ports /\ seen \in Seq(Syns)
    BY <1>4, <1>5, <1>11
  <2>4. ports'[s] = Append(q, Entry("sweep", syn)) /\ Holds(q, "sweep", seen, s, t)
        /\ Exact(q, "sweep", seen, s, t) /\ (Lag <= Window => syn[1] >= t)
    BY <1>6, <1>9, <2>1, <2>2
  <2> HIDE DEF q, t
  <2>5. /\ Holds(q, "sweep", seen, s, t)
             => Holds(Append(q, Entry("sweep", syn)), "sweep", Append(seen, syn), s, t)
        /\ Exact(q, "sweep", seen, s, t) /\ syn[1] >= t
             => Exact(Append(q, Entry("sweep", syn)), "sweep", Append(seen, syn), s, t)
    BY <1>5, <2>3, AppendEntry
  <2>6. QED BY <1>4, <2>4, <2>5 DEF t
<1>13. /\ Holds(syns'[s], "flood", seen', s, r[3] - Window)
       /\ Lag <= Window => Exact(syns'[s], "flood", seen', s, r[3] - Window)
  <2>1. Holds(Prune(syns[s], r[3]), "flood", seen, s, r[3] - Window) BY <1>10, ExactHolds
  <2>2. Lag <= Window => syn[1] >= r[3] - Window
    <3>1. syn[1] = r[1] BY <1>5
    <3>2. Lag <= Window => r[1] >= r[3] - Window BY <1>1, <1>2
    <3>3. QED BY <3>1, <3>2
  <2> DEFINE q == Prune(syns[s], r[3])
             t == r[3] - Window
  <2>3. q \in Seq(Time \X {0}) /\ Entry("flood", syn) \in Time \X {0} /\ seen \in Seq(Syns)
    BY <1>4, <1>5, <1>11
  <2>4. syns'[s] = Append(q, Entry("flood", syn)) /\ Holds(q, "flood", seen, s, t)
        /\ Exact(q, "flood", seen, s, t) /\ (Lag <= Window => syn[1] >= t)
    BY <1>6, <1>10, <2>1, <2>2
  <2> HIDE DEF q, t
  <2>5. /\ Holds(q, "flood", seen, s, t)
             => Holds(Append(q, Entry("flood", syn)), "flood", Append(seen, syn), s, t)
        /\ Exact(q, "flood", seen, s, t) /\ syn[1] >= t
             => Exact(Append(q, Entry("flood", syn)), "flood", Append(seen, syn), s, t)
    BY <1>5, <2>3, AppendEntry
  <2>6. QED BY <1>4, <2>4, <2>5 DEF t
<1>14. Deques'
  <2> SUFFICES ASSUME NEW x \in Sources
               PROVE  /\ Holds(ports'[x], "sweep", seen', x, clock' - Window)
                      /\ Holds(syns'[x], "flood", seen', x, clock' - Window)
    BY DEF Deques
  <2>1. seen' \in Seq(Syns) BY <1>3, <1>4, AppendProperties
  <2>2. /\ clock' - Window \in Int /\ r[2] - Window \in Int /\ r[3] - Window \in Int
        /\ clock - Window <= clock' - Window
        /\ r[2] - Window <= clock' - Window /\ r[3] - Window <= clock' - Window
    BY <1>1, <1>2
  <2>3. CASE x = s BY <1>12, <1>13, <2>1, <2>2, <2>3, HoldsOn
  <2>4. CASE x # s
    <3>1. /\ Holds(ports[x], "sweep", seen, x, clock - Window)
          /\ Holds(syns[x], "flood", seen, x, clock - Window)
      BY DEF Deques
    <3>2. /\ Holds(ports[x], "sweep", seen', x, clock' - Window)
          /\ Holds(syns[x], "flood", seen', x, clock' - Window)
      BY <1>4, <1>5, <1>8, <2>2, <2>4, <3>1, HoldsOn
    <3>3. QED BY <1>6, <2>4, <3>2
  <2>5. QED BY <2>3, <2>4
<1>15. QED BY <1>7, <1>12, <1>13, <1>14

\* A call that finds a threshold reached raises, or has raised, an alert.
LEMMA RaisedInTime ==
  ASSUME TypeOK, TableIsLastAlert, NEW s \in Sources, NEW r \in Readings, Raise(s, r),
         NEW kind \in {"sweep", "flood"}, NEW now, now = ReadAt(<<kind, s>>, r),
         Ok(kind, s, now) => kind \in Alerts(s, r)
  PROVE  \E i \in 1..Len(raised'[<<kind, s>>]) : now - raised'[<<kind, s>>][i] < Window
<1> DEFINE k == <<kind, s>>
           g == raised[k]
<1>1. k \in AlertKeys /\ g \in Seq(Time) /\ Len(g) \in Nat BY DEF TypeOK, AlertKeys
<1>2. now \in Time /\ now \in Nat /\ now >= Window /\ Window \in Nat \ {0}
  BY ReadingsAreTimes, ScanDetectorAssumption DEF ReadAt
<1>3. CASE Ok(kind, s, now)
  <2>1. k \in Raised(s, r) BY <1>3 DEF Raised
  <2>2. raised'[k] = Append(g, now) BY <1>1, <2>1 DEF Raise
  <2>3. Len(raised'[k]) = Len(g) + 1 /\ raised'[k][Len(g) + 1] = now
    BY <1>1, <1>2, <2>2, AppendTime
  <2>4. Len(g) + 1 \in 1..Len(raised'[k]) BY <1>1, <2>3
  <2>5. now - now < Window BY <1>2
  <2>6. QED BY <2>3, <2>4, <2>5
<1>4. CASE ~Ok(kind, s, now)
  <2>1. k \notin Raised(s, r) BY <1>4, RaisedKeys DEF ReadAt
  <2>2. raised'[k] = g BY <1>1, <2>1 DEF Raise
  <2>3. now - alerted[k] < Window /\ alerted[k] # 0
    <3>1. ~(now - alerted[k] >= Window) BY <1>4 DEF Ok
    <3>2. alerted[k] \in Time \cup {0}
      <4> HIDE DEF k
      <4>1. QED BY <1>1 DEF TypeOK
    <3>3. alerted[k] \in Nat
      <4> DEFINE a == alerted[k]
      <4>1. a \in Time \cup {0} BY <3>2
      <4> HIDE DEF a
      <4>2. a \in Nat BY <4>1, ScanDetectorAssumption
      <4>3. QED BY <4>2 DEF a
    <3>4. QED BY <1>2, <3>1, <3>3
  <2>4. g # <<>> /\ alerted[k] = g[Len(g)] BY <1>1, <2>3 DEF TableIsLastAlert
  <2>5. Len(g) \in 1..Len(g) BY <1>1, <2>4
  <2>6. QED BY <2>2, <2>3, <2>4, <2>5
<1>5. QED BY <1>3, <1>4

\* What a call leaves: the deques of its source are exact and its alerts told.
LEMMA CallExact ==
  ASSUME TypeOK, TableIsLastAlert, InOrder, Deques,
         NEW s \in Sources, NEW p \in Ports, NEW r \in Readings,
         r[1] >= clock, clock' = r[5], Record(s, p, r), Raise(s, r)
  PROVE  (Lag <= Window => LastExact') /\ LastTold'
<1>1. last'.source = s /\ last'.at = r /\ last'.alerts = Alerts(s, r) BY DEF Raise
<1>2. Lag <= Window => LastExact'
  <2>1. Lag <= Window => /\ Exact(ports'[s], "sweep", seen', s, r[2] - Window)
                         /\ Exact(syns'[s], "flood", seen', s, r[3] - Window)
    BY RecordExact
  <2>2. QED BY <1>1, <2>1 DEF LastExact
<1>3. ("sweep" \in Alerts(s, r) => DistinctPorts(ports'[s]) >= PortThreshold)
      /\ ("flood" \in Alerts(s, r) => Len(syns'[s]) >= SynThreshold)
  BY DEF Alerts
<1>4. ASSUME DistinctPorts(ports'[s]) >= PortThreshold
      PROVE  \E i \in 1..Len(raised'[<<"sweep", s>>]) : r[4] - raised'[<<"sweep", s>>][i] < Window
  <2>1. Ok("sweep", s, r[4]) => "sweep" \in Alerts(s, r) BY <1>4 DEF Alerts
  <2>2. r[4] = ReadAt(<<"sweep", s>>, r) BY DEF ReadAt
  <2>3. QED BY <2>1, <2>2, RaisedInTime
<1>5. ASSUME Len(syns'[s]) >= SynThreshold
      PROVE  \E i \in 1..Len(raised'[<<"flood", s>>]) : r[5] - raised'[<<"flood", s>>][i] < Window
  <2>1. Ok("flood", s, r[5]) => "flood" \in Alerts(s, r) BY <1>5 DEF Alerts
  <2>2. r[5] = ReadAt(<<"flood", s>>, r) BY DEF ReadAt
  <2>3. QED BY <2>1, <2>2, RaisedInTime
<1>6. LastTold' BY <1>1, <1>3, <1>4, <1>5 DEF LastTold, RaisedWithin, DistinctPorts
<1>7. QED BY <1>2, <1>6

LEMMA DequesAlways == Spec => [](InOrder /\ Deques /\ LastTold)
<1>1. Init => InOrder /\ Deques /\ LastTold
  <2> SUFFICES ASSUME Init PROVE InOrder /\ Deques /\ LastTold
    OBVIOUS
  <2>1. seen = <<>> /\ ~Called BY DEF Init, Called
  <2>2. InOrder BY <2>1 DEF InOrder, Sorted
  <2>3. ASSUME NEW s \in Sources, NEW kind, NEW t PROVE Holds(<<>>, kind, seen, s, t)
    <3>1. Mirrors(<<>>, kind, seen, s, <<>>) BY DEF Mirrors
    <3>2. Within(seen, s, t) = {} BY <2>1 DEF Within, OfSource
    <3>3. QED BY <3>1, <3>2 DEF Holds
  <2>4. Deques BY <2>3 DEF Deques, Init
  <2>5. QED BY <2>1, <2>2, <2>4 DEF LastTold
<1>2. TypeOK /\ TableIsLastAlert /\ InOrder /\ Deques /\ LastTold /\ [Next]_vars
        => (InOrder /\ Deques /\ LastTold)'
  <2> SUFFICES ASSUME TypeOK, TableIsLastAlert, InOrder, Deques, LastTold, [Next]_vars
               PROVE  InOrder' /\ Deques' /\ LastTold'
    OBVIOUS
  <2>1. CASE UNCHANGED vars
    BY <2>1 DEF vars, InOrder, Deques, LastTold, Called, RaisedWithin
  <2>2. ASSUME NEW s \in Sources, NEW p \in Ports, Process(s, p)
        PROVE  InOrder' /\ Deques' /\ LastTold'
    BY <2>2, RecordExact, CallExact DEF Process
  <2>3. QED BY <2>1, <2>2 DEF Next
<1>3. QED BY <1>1, <1>2, TypeCorrect, TableCorrect, PTL DEF Spec

LEMMA ExactAlways == ASSUME Lag <= Window PROVE Spec => []LastExact
<1>1. Init => LastExact BY DEF Init, LastExact, Called
<1>2. TypeOK /\ TableIsLastAlert /\ InOrder /\ Deques /\ LastExact /\ [Next]_vars => LastExact'
  <2> SUFFICES ASSUME TypeOK, TableIsLastAlert, InOrder, Deques, LastExact, [Next]_vars
               PROVE  LastExact'
    OBVIOUS
  <2>1. CASE UNCHANGED vars BY <2>1 DEF vars, LastExact, Called
  <2>2. ASSUME NEW s \in Sources, NEW p \in Ports, Process(s, p) PROVE LastExact'
    BY <2>2, CallExact DEF Process
  <2>3. QED BY <2>1, <2>2 DEF Next
<1>3. QED BY <1>1, <1>2, DequesAlways, TypeCorrect, TableCorrect, PTL DEF Spec

\* The deques of the last source have the sizes the history gives.
LEMMA WindowSizes ==
  ASSUME TypeOK, LastExact, Called
  PROVE  LET s == last.source IN
         /\ Len(ports[s]) = Cardinality(Recent(last.at[2]))
         /\ {ports[s][i][2] : i \in 1..Len(ports[s])} = RecentPorts(last.at[2])
         /\ Len(syns[s]) = Cardinality(Recent(last.at[3]))
<1> DEFINE s == last.source
<1>1. s \in Sources /\ ports[s] \in Seq(Time \X Ports) /\ syns[s] \in Seq(Time \X {0})
  BY DEF LastExact, TypeOK
<1>2. \A now : Recent(now) = Within(seen, s, now - Window) BY DEF Recent, Within, OfSource
<1>3. /\ Exact(ports[s], "sweep", seen, s, last.at[2] - Window)
      /\ Exact(syns[s], "flood", seen, s, last.at[3] - Window)
  BY DEF LastExact
<1> HIDE DEF s
<1>4. /\ Cardinality(Within(seen, s, last.at[2] - Window)) = Len(ports[s])
      /\ {ports[s][i][2] : i \in 1..Len(ports[s])}
           = {seen[j][2] : j \in Within(seen, s, last.at[2] - Window)}
  <2>1. ports[s] \in Seq(Time \X Ports) BY <1>1
  <2> DEFINE q == ports[s]
             u == last.at[2] - Window
  <2>2. q \in Seq(Time \X Ports) /\ Exact(q, "sweep", seen, s, u) BY <1>3, <2>1
  <2> HIDE DEF q, u
  <2>3. Cardinality(Within(seen, s, u)) = Len(q) BY <2>2, ExactSize
  <2>4. {q[i][2] : i \in 1..Len(q)} = {seen[j][2] : j \in Within(seen, s, u)}
    <3>1. \A x : (\E i \in 1..Len(q) : q[i][2] = x)
                   <=> (\E j \in Within(seen, s, u) : seen[j][2] = x)
      BY <2>2, ExactPorts
    <3>2. QED BY <3>1
  <2>5. QED BY <2>3, <2>4 DEF q, u
<1>5. Cardinality(Within(seen, s, last.at[3] - Window)) = Len(syns[s])
  BY <1>1, <1>3, ExactSize
<1>6. QED BY <1>2, <1>4, <1>5 DEF RecentPorts, s

\* A call that takes no longer than a window leaves in the deques of its
\* source the SYNs of the window, all of them and no others.
THEOREM WindowsExact == ASSUME Lag <= Window PROVE Spec => []WindowExact
<1>1. TypeOK /\ LastExact => WindowExact BY WindowSizes DEF WindowExact
<1>2. QED BY <1>1, TypeCorrect, ExactAlways, PTL

\* An alert of process is justified by the SYNs of one window.
THEOREM AlertsJustified == ASSUME Lag <= Window PROVE Spec => []NoFalseAlarm
<1>1. TypeOK /\ LastExact /\ LastTold => NoFalseAlarm
  BY WindowSizes DEF NoFalseAlarm, LastTold, DistinctPorts
<1>2. QED BY <1>1, TypeCorrect, ExactAlways, DequesAlways, PTL

\* A threshold that is reached raises an alert, unless one was raised less
\* than a window before.
THEOREM ScansDetected == ASSUME Lag <= Window PROVE Spec => []NoMissedScan
<1>1. TypeOK /\ LastExact /\ LastTold => NoMissedScan
  BY WindowSizes DEF NoMissedScan, LastTold, DistinctPorts
<1>2. QED BY <1>1, TypeCorrect, ExactAlways, DequesAlways, PTL
-----------------------------------------------------------------------------
\* The IDS process uses its detector as the detector is specified: what is
\* proved of ScanDetector holds of the IDS, whatever its threads do.
THEOREM IdsUsesDetector == IdsSpec => Spec
<1>1. IdsInit => Init BY DEF IdsInit
<1>2. [IdsNext]_<<vars, idsVars>> => [Next]_vars
  BY DEF IdsNext, StartSniffer, SnifferOpens, StopSniffer, LeaveSniffer, CloseDatabase,
         CloseLoop, ProcessEnds, OnPacket, Next
<1>3. QED BY <1>1, <1>2, PTL DEF IdsSpec, Spec

\* What the detector promises holds in the sniffer's process too, embedded or
\* its own, while the loop closes and the thread stops or refuses to.
THEOREM IdsDetects ==
  ASSUME Lag <= Window
  PROVE  IdsSpec => [](WindowExact /\ NoFalseAlarm /\ NoMissedScan) /\ AlertsRateLimited
<1>1. /\ Spec => []WindowExact /\ []NoFalseAlarm /\ []NoMissedScan
      /\ Spec => AlertsRateLimited
  BY WindowsExact, AlertsJustified, ScansDetected, AlertsRefineRateLimit, PTL
<1>2. QED BY <1>1, IdsUsesDetector, PTL

\* How often a key is in a list.
LEMMA TimesAppend ==
  ASSUME NEW list \in Seq(AlertKeys), NEW x \in AlertKeys, NEW k
  PROVE  /\ Times(list, k) \in Nat
         /\ Times(Append(list, x), k) = Times(list, k) + (IF x = k THEN 1 ELSE 0)
<1> DEFINE n == Len(list)
           I == {i \in DOMAIN list : list[i] = k}
           h == Append(list, x)
           J == {i \in DOMAIN h : h[i] = k}
<1>1. n \in Nat /\ DOMAIN list = 1..n OBVIOUS
<1>2. /\ h \in Seq(AlertKeys) /\ DOMAIN h = 1..n + 1 /\ h[n + 1] = x
      /\ \A i \in 1..n : h[i] = list[i]
  BY <1>1, AppendProperties
<1>3. IsFiniteSet(I) /\ Cardinality(I) \in Nat
  <2>1. IsFiniteSet(1..n) BY <1>1, FS_Interval
  <2>2. I \subseteq 1..n BY <1>1
  <2>3. QED BY <2>1, <2>2, FS_Subset, FS_CardinalityType
<1> HIDE DEF h, n
<1>4. ASSUME x = k PROVE J = I \cup {n + 1} BY <1>1, <1>2, <1>4
<1>5. ASSUME x # k PROVE J = I BY <1>1, <1>2, <1>5
<1>6. n + 1 \notin I BY <1>1
<1> HIDE DEF I, J
<1>7. Cardinality(J) = Cardinality(I) + (IF x = k THEN 1 ELSE 0)
  <2>1. CASE x = k
    <3>1. Cardinality(I \cup {n + 1}) = Cardinality(I) + 1 BY <1>3, <1>6, FS_AddElement
    <3>2. QED BY <2>1, <3>1, <1>4
  <2>2. CASE x # k BY <2>2, <1>3, <1>5
  <2>3. QED BY <2>1, <2>2
<1>8. QED BY <1>3, <1>7 DEF Times, h, I, J

\* What process returns is handed over once each, and nothing else.
LEMMA AlertListTimes ==
  ASSUME NEW list \in Seq(AlertKeys), NEW s \in Sources, NEW alerts,
         NEW k \in AlertKeys
  PROVE  /\ list \o AlertList(s, alerts) \in Seq(AlertKeys)
         /\ Times(list \o AlertList(s, alerts), k)
              = Times(list, k) + (IF k \in alerts \X {s} THEN 1 ELSE 0)
<1> DEFINE a == <<"sweep", s>>
           b == <<"flood", s>>
<1>1. a \in AlertKeys /\ b \in AlertKeys /\ a # b BY DEF AlertKeys
<1>2. k \in alerts \X {s} <=> (k = a /\ "sweep" \in alerts) \/ (k = b /\ "flood" \in alerts)
  <2>1. PICK e \in {"sweep", "flood"}, x \in Sources : k = <<e, x>> BY DEF AlertKeys
  <2>2. k \in alerts \X {s} <=> e \in alerts /\ x = s BY <2>1
  <2>3. (k = a <=> e = "sweep" /\ x = s) /\ (k = b <=> e = "flood" /\ x = s) BY <2>1
  <2> HIDE DEF a, b
  <2>4. QED BY <2>1, <2>2, <2>3
<1> HIDE DEF a, b
<1>3. /\ Append(list, a) \in Seq(AlertKeys) /\ Append(list, b) \in Seq(AlertKeys)
      /\ Append(Append(list, a), b) \in Seq(AlertKeys)
  BY <1>1, AppendProperties
<1>4. Times(list, k) \in Nat BY <1>1, TimesAppend
<1>5. /\ Times(Append(list, a), k) = Times(list, k) + (IF a = k THEN 1 ELSE 0)
      /\ Times(Append(list, b), k) = Times(list, k) + (IF b = k THEN 1 ELSE 0)
      /\ Times(Append(Append(list, a), b), k)
           = Times(Append(list, a), k) + (IF b = k THEN 1 ELSE 0)
  BY <1>1, <1>3, TimesAppend
<1>6. list \o AlertList(s, alerts)
        = IF "sweep" \in alerts
          THEN IF "flood" \in alerts THEN Append(Append(list, a), b) ELSE Append(list, a)
          ELSE IF "flood" \in alerts THEN Append(list, b) ELSE list
  <2>1. /\ <<a>> \in Seq(AlertKeys) /\ <<b>> \in Seq(AlertKeys) BY <1>1
  <2>2. list \o <<a>> = Append(list, a) /\ list \o <<b>> = Append(list, b)
    BY <1>1, AppendIsConcat
  <2>3. list \o (<<a>> \o <<b>>) = Append(Append(list, a), b)
    <3>1. list \o (<<a>> \o <<b>>) = (list \o <<a>>) \o <<b>>
      BY <2>1, ConcatAssociative
    <3>2. Append(list, a) \o <<b>> = Append(Append(list, a), b)
      BY <1>1, <1>3, AppendIsConcat
    <3>3. QED BY <2>2, <3>1, <3>2
  <2>4. /\ <<>> \o <<>> = <<>> /\ list \o <<>> = list
        /\ <<a>> \o <<>> = <<a>> /\ <<>> \o <<b>> = <<b>>
    <3>1. <<>> \in Seq(AlertKeys) BY <1>1
    <3>2. QED BY <2>1, <3>1, ConcatEmptySeq
  <2>5. AlertList(s, alerts) = (IF "sweep" \in alerts THEN <<a>> ELSE <<>>)
                               \o (IF "flood" \in alerts THEN <<b>> ELSE <<>>)
    BY DEF AlertList, a, b
  <2>6. CASE "sweep" \in alerts /\ "flood" \in alerts BY <2>3, <2>5, <2>6
  <2>7. CASE "sweep" \in alerts /\ "flood" \notin alerts
    <3>1. AlertList(s, alerts) = <<a>> BY <2>4, <2>5, <2>7
    <3>2. QED BY <2>2, <2>7, <3>1
  <2>8. CASE "sweep" \notin alerts /\ "flood" \in alerts
    <3>1. AlertList(s, alerts) = <<b>> BY <2>4, <2>5, <2>8
    <3>2. QED BY <2>2, <2>8, <3>1
  <2>9. CASE "sweep" \notin alerts /\ "flood" \notin alerts
    <3>1. AlertList(s, alerts) = <<>> BY <2>4, <2>5, <2>9
    <3>2. QED BY <2>4, <2>9, <3>1
  <2>10. QED BY <2>6, <2>7, <2>8, <2>9
<1> DEFINE L == list \o AlertList(s, alerts)
<1>7. CASE "sweep" \in alerts /\ "flood" \in alerts
  <2>1. L = Append(Append(list, a), b) BY <1>6, <1>7
  <2>2. k \in alerts \X {s} <=> k = a \/ k = b BY <1>2, <1>7
  <2>3. QED BY <1>1, <1>3, <1>4, <1>5, <2>1, <2>2
<1>8. CASE "sweep" \in alerts /\ "flood" \notin alerts
  <2>1. L = Append(list, a) BY <1>6, <1>8
  <2>2. k \in alerts \X {s} <=> k = a BY <1>2, <1>8
  <2>3. QED BY <1>3, <1>4, <1>5, <2>1, <2>2
<1>9. CASE "sweep" \notin alerts /\ "flood" \in alerts
  <2>1. L = Append(list, b) BY <1>6, <1>9
  <2>2. k \in alerts \X {s} <=> k = b BY <1>2, <1>9
  <2>3. QED BY <1>3, <1>4, <1>5, <2>1, <2>2
<1>10. CASE "sweep" \notin alerts /\ "flood" \notin alerts
  <2>1. L = list BY <1>6, <1>10
  <2>2. ~(k \in alerts \X {s}) BY <1>2, <1>10
  <2>3. QED BY <1>4, <2>1, <2>2
<1>11. QED BY <1>7, <1>8, <1>9, <1>10

\* The inductive strengthening of AlertsHandedOver: where the process and
\* its threads may stand.
HandedInv ==
  /\ handed \in Seq(AlertKeys) /\ missed \in Seq(AlertKeys)
  /\ \A k \in AlertKeys : Times(handed, k) + Times(missed, k) = Len(raised[k])
  /\ mode \in {"own", "embedded"}
  /\ mode = "own" /\ proc \in {"stopped", "closed"} => sniffer = "over"
  /\ proc = "raised" => refused
  /\ proc = "closed" => ~db
  /\ proc = "gone" => sniffer = "over" /\ ~db
  /\ ~loop => proc \in {"closed", "raised", "gone"}
  /\ missed # <<>> => mode = "embedded" \/ refused

\* A packet adds to one list what the detector adds to its history.
LEMMA PacketHanded ==
  ASSUME TypeOK, HandedInv, NEW s \in Sources, NEW p \in Ports, OnPacket(s, p)
  PROVE  HandedInv'
<1> DEFINE new == AlertList(s, last'.alerts)
<1>1. PICK r \in Readings : Raise(s, r) BY DEF OnPacket, Process
<1>2. last'.alerts = Alerts(s, r) BY <1>1 DEF Raise
<1>3. \A k \in AlertKeys : Len(raised'[k]) = Len(raised[k]) + (IF k \in Raised(s, r) THEN 1 ELSE 0)
                           /\ Len(raised[k]) \in Nat
  <2> SUFFICES ASSUME NEW k \in AlertKeys
               PROVE  /\ Len(raised'[k]) = Len(raised[k]) + (IF k \in Raised(s, r) THEN 1 ELSE 0)
                      /\ Len(raised[k]) \in Nat
    OBVIOUS
  <2>1. raised[k] \in Seq(Time) /\ Len(raised[k]) \in Nat BY DEF TypeOK
  <2>2. CASE k \in Raised(s, r)
    <3>1. raised'[k] = Append(raised[k], ReadAt(k, r)) /\ ReadAt(k, r) \in Time
      BY <1>1, <2>2, RaisedKeys DEF Raise
    <3>2. QED BY <2>1, <2>2, <3>1, AppendTime
  <2>3. CASE k \notin Raised(s, r) BY <1>1, <2>1, <2>3 DEF Raise
  <2>4. QED BY <2>2, <2>3
<1>4. ASSUME NEW list \in Seq(AlertKeys)
      PROVE  /\ list \o new \in Seq(AlertKeys)
             /\ \A k \in AlertKeys : Times(list \o new, k)
                  = Times(list, k) + (IF k \in Raised(s, r) THEN 1 ELSE 0)
  <2>1. <<"sweep", s>> \in AlertKeys BY DEF AlertKeys
  <2>2. \A k \in AlertKeys : /\ list \o new \in Seq(AlertKeys)
                             /\ Times(list \o new, k)
                                  = Times(list, k) + (IF k \in Raised(s, r) THEN 1 ELSE 0)
    BY <1>2, AlertListTimes DEF Raised
  <2>3. QED BY <2>1, <2>2
<1> HIDE DEF new
<1>5. \A k \in AlertKeys : Times(handed, k) \in Nat /\ Times(missed, k) \in Nat
  BY TimesAppend DEF HandedInv
<1>6. CASE loop
  <2>1. handed' = handed \o new /\ missed' = missed BY <1>6 DEF OnPacket, new
  <2>2. handed' \in Seq(AlertKeys)
        /\ \A k \in AlertKeys : Times(handed', k)
             = Times(handed, k) + (IF k \in Raised(s, r) THEN 1 ELSE 0)
    BY <1>4, <2>1 DEF HandedInv
  <2>3. ASSUME NEW k \in AlertKeys
        PROVE  Times(handed', k) + Times(missed', k) = Len(raised'[k])
    <3>1. Times(handed, k) + Times(missed, k) = Len(raised[k]) BY DEF HandedInv
    <3>2. /\ Times(handed, k) \in Nat /\ Times(missed, k) \in Nat
          /\ Len(raised'[k]) = Len(raised[k]) + (IF k \in Raised(s, r) THEN 1 ELSE 0)
      BY <1>3, <1>5
    <3>3. Times(missed', k) = Times(missed, k) BY <2>1
    <3>4. Times(handed', k) = Times(handed, k) + (IF k \in Raised(s, r) THEN 1 ELSE 0)
      BY <2>2
    <3>5. CASE k \in Raised(s, r) BY <3>1, <3>2, <3>3, <3>4, <3>5
    <3>6. CASE k \notin Raised(s, r) BY <3>1, <3>2, <3>3, <3>4, <3>6
    <3>7. QED BY <3>5, <3>6
  <2>4. QED BY <2>1, <2>2, <2>3 DEF HandedInv, OnPacket
<1>7. CASE ~loop
  <2>1. missed' = missed \o new /\ handed' = handed BY <1>7 DEF OnPacket, new
  <2>2. missed' \in Seq(AlertKeys)
        /\ \A k \in AlertKeys : Times(missed', k)
             = Times(missed, k) + (IF k \in Raised(s, r) THEN 1 ELSE 0)
    BY <1>4, <2>1 DEF HandedInv
  <2>3. ASSUME NEW k \in AlertKeys
        PROVE  Times(handed', k) + Times(missed', k) = Len(raised'[k])
    <3>1. Times(handed, k) + Times(missed, k) = Len(raised[k]) BY DEF HandedInv
    <3>2. /\ Times(handed, k) \in Nat /\ Times(missed, k) \in Nat
          /\ Len(raised'[k]) = Len(raised[k]) + (IF k \in Raised(s, r) THEN 1 ELSE 0)
      BY <1>3, <1>5
    <3>3. Times(handed', k) = Times(handed, k) BY <2>1
    <3>4. Times(missed', k) = Times(missed, k) + (IF k \in Raised(s, r) THEN 1 ELSE 0)
      BY <2>2
    <3>5. CASE k \in Raised(s, r) BY <3>1, <3>2, <3>3, <3>4, <3>5
    <3>6. CASE k \notin Raised(s, r) BY <3>1, <3>2, <3>3, <3>4, <3>6
    <3>7. QED BY <3>5, <3>6
  <2>4. mode = "embedded" \/ refused BY <1>7 DEF HandedInv, OnPacket
  <2>5. QED BY <2>1, <2>2, <2>3, <2>4 DEF HandedInv, OnPacket
<1>8. QED BY <1>6, <1>7

\* Every alert the detector notes is handed to the loop or lost to a loop
\* closed under a sniffer that was not stopped, and only a refused stop
\* leaves the database open.
THEOREM EveryAlertHandedOver == IdsSpec => []AlertsHandedOver
<1>1. IdsInit => HandedInv
  <2> SUFFICES ASSUME IdsInit PROVE HandedInv
    OBVIOUS
  <2>1. \A k : Times(<<>>, k) = 0
    <3>1. \A k : {i \in DOMAIN <<>> : <<>>[i] = k} = {} OBVIOUS
    <3>2. QED BY <3>1, FS_EmptySet DEF Times
  <2>2. \A k \in AlertKeys : Times(handed, k) + Times(missed, k) = Len(raised[k])
    BY <2>1 DEF IdsInit, Init
  <2>3. QED BY <2>2 DEF IdsInit, HandedInv
<1>2. TypeOK /\ HandedInv /\ [IdsNext]_<<vars, idsVars>> => HandedInv'
  <2> SUFFICES ASSUME TypeOK, HandedInv, [IdsNext]_<<vars, idsVars>> PROVE HandedInv'
    OBVIOUS
  <2>1. CASE UNCHANGED <<vars, idsVars>> BY <2>1 DEF vars, idsVars, HandedInv
  <2>2. CASE StartSniffer BY <2>2 DEF StartSniffer, vars, HandedInv
  <2>3. CASE SnifferOpens BY <2>3 DEF SnifferOpens, vars, HandedInv
  <2>4. CASE StopSniffer BY <2>4 DEF StopSniffer, vars, HandedInv
  <2>5. CASE LeaveSniffer BY <2>5 DEF LeaveSniffer, vars, HandedInv
  <2>6. CASE CloseDatabase BY <2>6 DEF CloseDatabase, vars, HandedInv
  <2>7. CASE CloseLoop BY <2>7 DEF CloseLoop, vars, HandedInv
  <2>8. CASE ProcessEnds BY <2>8 DEF ProcessEnds, vars, HandedInv
  <2>9. ASSUME NEW s \in Sources, NEW p \in Ports, OnPacket(s, p) PROVE HandedInv'
    BY <2>9, PacketHanded
  <2>10. QED BY <2>1, <2>2, <2>3, <2>4, <2>5, <2>6, <2>7, <2>8, <2>9 DEF IdsNext
<1>3. HandedInv => AlertsHandedOver BY DEF HandedInv, AlertsHandedOver
<1>4. QED BY <1>1, <1>2, <1>3, IdsUsesDetector, TypeCorrect, PTL DEF IdsSpec
=============================================================================
