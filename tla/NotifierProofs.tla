--------------------------- MODULE NotifierProofs ---------------------------
(* Proofs about Notifier for every set of callers and keys, every cooldown *)
(* and every clock, one that is set back included.                         *)
EXTENDS Notifier, SequenceTheorems, TLAPS

\* What appending to a history does: the old times stay, t is the last.
LEMMA AppendTime ==
  ASSUME NEW g \in Seq(Time), NEW t \in Time
  PROVE  /\ Append(g, t) \in Seq(Time)
         /\ Append(g, t) # <<>>
         /\ Len(g) \in Nat
         /\ Len(Append(g, t)) = Len(g) + 1
         /\ \A i \in 1..Len(g) : Append(g, t)[i] = g[i] /\ g[i] \in Time
         /\ Append(g, t)[Len(g) + 1] = t
BY AppendProperties, ElementOfSeq

\* Only StartPost touches the table and the history.
LEMMA StepSplit ==
  ASSUME [NotifierNext]_notifierVars
  PROVE  \/ UNCHANGED <<lastSent, granted>>
         \/ \E c \in Callers, k \in Keys \cup {NoKey} : StartPost(c, k)
<1>1. CASE UNCHANGED notifierVars BY <1>1 DEF notifierVars
<1>2. CASE \E c \in Callers, k \in Keys \cup {NoKey} : Send(c, k)
  BY <1>2 DEF Send, Refuse, Suppress
<1>3. CASE \E c \in Callers : PostReturns(c) BY <1>3 DEF PostReturns
<1>4. CASE \E c \in Callers : Return(c) BY <1>4 DEF Return
<1>5. CASE \E on \in BOOLEAN : ConfigureNotifier(on) BY <1>5 DEF ConfigureNotifier
<1>6. CASE BeginClose BY <1>6 DEF BeginClose
<1>7. CASE EndClose BY <1>7 DEF EndClose
<1>8. CASE SetClock BY <1>8 DEF SetClock
<1>9. QED BY <1>1, <1>2, <1>3, <1>4, <1>5, <1>6, <1>7, <1>8 DEF NotifierNext

\* Every variable keeps its type: in particular the table only ever holds
\* readings of the clock, never a deadline, and every call ends in a verdict.
THEOREM TypeCorrect == NotifierSpec => []NotifierTypeOK
<1>1. NotifierInit => NotifierTypeOK
  <2> SUFFICES ASSUME NotifierInit PROVE NotifierTypeOK
    OBVIOUS
  <2>1. NotCalling \in [state : {"idle", "posting"} \cup Verdicts, key : Keys \cup {NoKey}]
    BY DEF NotCalling
  <2>2. call \in [Callers -> [state : {"idle", "posting"} \cup Verdicts,
                              key : Keys \cup {NoKey}]]
    BY <2>1 DEF NotifierInit
  <2>3. granted \in [Keys -> Seq(Time)] BY DEF NotifierInit
  <2>4. QED BY <2>2, <2>3 DEF NotifierInit, NotifierTypeOK
<1>2. NotifierTypeOK /\ [NotifierNext]_notifierVars => NotifierTypeOK'
  <2> SUFFICES ASSUME NotifierTypeOK, [NotifierNext]_notifierVars PROVE NotifierTypeOK'
    OBVIOUS
  <2> USE DEF NotifierTypeOK
  <2>1. CASE UNCHANGED notifierVars BY <2>1 DEF notifierVars
  <2>2. ASSUME NEW c \in Callers, NEW k \in Keys \cup {NoKey}, Send(c, k)
        PROVE  NotifierTypeOK'
    <3>1. CASE Refuse(c, k) BY <3>1 DEF Refuse, Verdicts
    <3>2. CASE Suppress(c, k) BY <3>2 DEF Suppress, Verdicts
    <3>3. CASE StartPost(c, k)
      <4>1. lastSent' \in [Keys -> Time \cup {0}] BY <3>3 DEF StartPost
      <4>2. granted' \in [Keys -> Seq(Time)]
        <5>1. CASE Limited(k)
          <6>1. k \in Keys BY <5>1 DEF Limited
          <6>2. Append(granted[k], clock) \in Seq(Time)
            BY <6>1, AppendTime
          <6>3. QED BY <3>3, <5>1, <6>2 DEF StartPost
        <5>2. CASE ~Limited(k) BY <3>3, <5>2 DEF StartPost
        <5>3. QED BY <5>1, <5>2
      <4>3. QED BY <3>3, <4>1, <4>2 DEF StartPost
    <3>4. QED BY <2>2, <3>1, <3>2, <3>3 DEF Send
  <2>3. ASSUME NEW c \in Callers, PostReturns(c) PROVE NotifierTypeOK'
    BY <2>3 DEF PostReturns, Verdicts
  <2>4. ASSUME NEW c \in Callers, Return(c) PROVE NotifierTypeOK'
    BY <2>4 DEF Return, NotCalling
  <2>5. ASSUME NEW on \in BOOLEAN, ConfigureNotifier(on) PROVE NotifierTypeOK'
    BY <2>5 DEF ConfigureNotifier
  <2>6. CASE BeginClose BY <2>6 DEF BeginClose
  <2>7. CASE EndClose BY <2>7 DEF EndClose
  <2>8. CASE SetClock BY <2>8 DEF SetClock
  <2>9. QED BY <2>1, <2>2, <2>3, <2>4, <2>5, <2>6, <2>7, <2>8 DEF NotifierNext
<1>3. QED BY <1>1, <1>2, PTL DEF NotifierSpec

\* The table is the end of the history: a step changes both or neither.
THEOREM TableCorrect == NotifierSpec => []TableIsLastGrant
<1>1. NotifierInit => TableIsLastGrant
  BY DEF NotifierInit, TableIsLastGrant
<1>2. NotifierTypeOK /\ TableIsLastGrant /\ [NotifierNext]_notifierVars => TableIsLastGrant'
  <2> SUFFICES ASSUME NotifierTypeOK, TableIsLastGrant, [NotifierNext]_notifierVars
               PROVE  TableIsLastGrant'
    OBVIOUS
  <2>1. CASE UNCHANGED <<lastSent, granted>>
    BY <2>1 DEF TableIsLastGrant
  <2>2. ASSUME NEW c \in Callers, NEW k \in Keys \cup {NoKey}, StartPost(c, k)
        PROVE  TableIsLastGrant'
    <3>1. CASE ~Limited(k) BY <2>2, <3>1 DEF StartPost, TableIsLastGrant
    <3>2. CASE Limited(k)
      <4>1. k \in Keys BY <3>2 DEF Limited
      <4>2. lastSent'[k] = clock BY <2>2, <3>2, <4>1 DEF StartPost, NotifierTypeOK
      <4>3. granted'[k] = Append(granted[k], clock)
        BY <2>2, <3>2, <4>1 DEF StartPost, NotifierTypeOK
      <4>4. granted'[k] # <<>> /\ granted'[k][Len(granted'[k])] = clock
        BY <4>1, <4>3, AppendTime DEF NotifierTypeOK
      <4>5. \A x \in Keys \ {k} :
              lastSent'[x] = lastSent[x] /\ granted'[x] = granted[x]
        BY <2>2, <3>2 DEF StartPost, NotifierTypeOK
      <4>6. QED BY <4>2, <4>4, <4>5 DEF TableIsLastGrant
    <3>3. QED BY <3>1, <3>2
  <2>3. QED BY <2>1, <2>2, StepSplit
<1>3. QED BY <1>1, <1>2, TypeCorrect, PTL DEF NotifierSpec

\* The inductive strengthening of CooldownKept.
SpacedInv == NotifierTypeOK /\ TableIsLastGrant /\ RL!Spaced

\* Comparing with the last grant is enough: the earlier ones lie Cooldown
\* before it, so a key that is free for the table is free for the history.
LEMMA TableDecides ==
  ASSUME SpacedInv, NEW k \in Keys, ~TooSoon(k)
  PROVE  RL!Free(k, clock)
<1> DEFINE g == granted[k]
<1>1. g \in Seq(Time) /\ Len(g) \in Nat /\ clock \in Nat /\ Cooldown \in Nat
  BY NotifierAssumption DEF SpacedInv, NotifierTypeOK
<1>2. \A i \in 1..Len(g) : g[i] \in Nat
  BY <1>1, NotifierAssumption, ElementOfSeq
<1>3. SUFFICES ASSUME NEW i \in 1..Len(g) PROVE clock - g[i] >= Cooldown
  BY DEF RL!Free
<1>4. g # <<>> /\ Len(g) \in 1..Len(g) BY <1>1, <1>3
<1>5. lastSent[k] = g[Len(g)] BY <1>4 DEF SpacedInv, TableIsLastGrant
<1>6. clock - g[Len(g)] >= Cooldown BY <1>1, <1>2, <1>4, <1>5 DEF TooSoon
<1>7. CASE i = Len(g) BY <1>6, <1>7
<1>8. CASE i # Len(g)
  <2>1. i < Len(g) BY <1>1, <1>3, <1>8
  <2>2. g[Len(g)] - g[i] >= Cooldown
    BY <2>1, <1>3, <1>4 DEF SpacedInv, RL!Spaced
  <2>3. QED BY <2>2, <1>1, <1>2, <1>3, <1>4, <1>6
<1>9. QED BY <1>7, <1>8

\* Every step is a grant the rate limiter allows, or leaves the history.
LEMMA StepRefines ==
  ASSUME SpacedInv, [NotifierNext]_notifierVars
  PROVE  [RL!Next]_granted
<1>1. CASE UNCHANGED <<lastSent, granted>> BY <1>1
<1>2. ASSUME NEW c \in Callers, NEW k \in Keys \cup {NoKey}, StartPost(c, k)
      PROVE  [RL!Next]_granted
  <2>1. CASE ~Limited(k) BY <1>2, <2>1 DEF StartPost
  <2>2. CASE Limited(k)
    <3>1. k \in Keys /\ ~TooSoon(k) BY <1>2, <2>2 DEF Limited, StartPost
    <3>2. RL!Free(k, clock) BY <3>1, TableDecides
    <3> DEFINE at == [x \in {k} |-> clock]
    <3>3. at \in [{k} -> Time] BY DEF SpacedInv, NotifierTypeOK
    <3>4. granted' = [x \in Keys |-> IF x \in {k} THEN Append(granted[x], at[x])
                                                  ELSE granted[x]]
      BY <1>2, <2>2, <3>1 DEF StartPost, SpacedInv, NotifierTypeOK
    <3>5. \A x \in {k} : RL!Free(x, at[x]) BY <3>2
    <3>6. {k} \in SUBSET Keys BY <3>1
    <3> HIDE DEF at
    <3>7. RL!Next BY <3>3, <3>4, <3>5, <3>6 DEF RL!Next
    <3>8. QED BY <3>7
  <2>3. QED BY <2>1, <2>2
<1>3. QED BY <1>1, <1>2, StepSplit

\* Two messages of one key never start less than Cooldown apart.
THEOREM CooldownCorrect == NotifierSpec => []CooldownKept
<1>1. NotifierInit => RL!Spaced
  <2> SUFFICES ASSUME NotifierInit, NEW k \in Keys PROVE Len(granted[k]) = 0
    BY DEF RL!Spaced
  <2>1. QED BY DEF NotifierInit
<1>2. SpacedInv /\ [NotifierNext]_notifierVars => RL!Spaced'
  <2> SUFFICES ASSUME SpacedInv, [NotifierNext]_notifierVars,
                      NEW k \in Keys,
                      NEW i \in 1..Len(granted'[k]), NEW j \in 1..Len(granted'[k]),
                      i < j
               PROVE  granted'[k][j] - granted'[k][i] >= Cooldown
    BY DEF RL!Spaced
  <2>1. CASE UNCHANGED granted BY <2>1 DEF SpacedInv, RL!Spaced
  <2>2. CASE RL!Next
    <3>1. PICK K \in SUBSET Keys : \E at \in [K -> Time] :
             /\ \A x \in K : RL!Free(x, at[x])
             /\ granted' = [x \in Keys |-> IF x \in K THEN Append(granted[x], at[x])
                                                      ELSE granted[x]]
      BY <2>2 DEF RL!Next
    <3>2. CASE k \notin K
      <4>1. granted'[k] = granted[k] BY <3>1, <3>2
      <4>2. QED BY <4>1 DEF SpacedInv, RL!Spaced
    <3>3. CASE k \in K
      <4>1. PICK t \in Time : RL!Free(k, t) /\ granted'[k] = Append(granted[k], t)
        BY <3>1, <3>3
      <4> DEFINE g == granted[k]
      <4>2. g \in Seq(Time) BY DEF SpacedInv, NotifierTypeOK
      <4>3. /\ Len(g) \in Nat
            /\ Len(granted'[k]) = Len(g) + 1
            /\ \A n \in 1..Len(g) : granted'[k][n] = g[n]
            /\ granted'[k][Len(g) + 1] = t
        BY <4>1, <4>2, AppendTime
      <4>4. i \in 1..Len(g) BY <4>3
      <4>5. CASE j = Len(g) + 1
        <5>1. granted'[k][j] - granted'[k][i] = t - g[i]
          BY <4>3, <4>4, <4>5
        <5>2. QED BY <5>1, <4>1, <4>4 DEF RL!Free
      <4>6. CASE j # Len(g) + 1
        <5>1. j \in 1..Len(g) BY <4>3, <4>6
        <5>2. QED BY <5>1, <4>3, <4>4 DEF SpacedInv, RL!Spaced
      <4>7. QED BY <4>5, <4>6
    <3>4. QED BY <3>2, <3>3
  <2>3. QED BY <2>1, <2>2, StepRefines
<1>3. NotifierSpec => []RL!Spaced
  <2>1. NotifierTypeOK /\ TableIsLastGrant /\ RL!Spaced /\ [NotifierNext]_notifierVars => RL!Spaced'
    BY <1>2 DEF SpacedInv
  <2>2. QED BY <1>1, <2>1, TypeCorrect, TableCorrect, PTL DEF NotifierSpec
<1>4. QED BY <1>3 DEF CooldownKept

\* The notifier implements the abstract rate limiter, with the history of
\* grants as the refinement mapping.
THEOREM RateLimitRefined == NotifierSpec => ImplementsRateLimit
<1>1. NotifierInit => RL!Init BY DEF NotifierInit, RL!Init
<1>2. NotifierTypeOK /\ TableIsLastGrant /\ RL!Spaced /\ [NotifierNext]_notifierVars
        => [RL!Next]_granted
  BY StepRefines DEF SpacedInv
<1>3. NotifierSpec => []RL!Spaced BY CooldownCorrect DEF CooldownKept
<1>4. QED BY <1>1, <1>2, <1>3, TypeCorrect, TableCorrect, PTL
          DEF NotifierSpec, RL!Spec, ImplementsRateLimit

\* A send is suppressed only while a grant of its key is fresher than
\* Cooldown: the table entry it compares with is in the history.
THEOREM SuppressionCorrect == NotifierSpec => SilencedForCause
<1>1. ASSUME NotifierTypeOK, TableIsLastGrant, [NotifierNext]_notifierVars, NEW c \in Callers,
             call'[c].state = "suppressed", call[c].state # "suppressed"
      PROVE  \E i \in 1..Len(granted[call'[c].key]) :
               clock - granted[call'[c].key][i] < Cooldown
  <2>1. PICK k \in Keys \cup {NoKey} : Suppress(c, k)
    <3>1. ASSUME NEW d \in Callers, NEW k \in Keys \cup {NoKey}, Send(d, k)
          PROVE  Suppress(c, k)
      BY <1>1, <3>1 DEF Send, Refuse, Suppress, StartPost, NotifierTypeOK
    <3>2. ~\E d \in Callers : PostReturns(d) BY <1>1 DEF PostReturns, NotifierTypeOK
    <3>3. ~\E d \in Callers : Return(d) BY <1>1 DEF Return, NotCalling, NotifierTypeOK
    <3>4. ~UNCHANGED call BY <1>1
    <3>5. QED BY <1>1, <3>1, <3>2, <3>3, <3>4
          DEF NotifierNext, notifierVars, ConfigureNotifier, BeginClose, EndClose, SetClock
  <2>2. k \in Keys /\ TooSoon(k) BY <2>1 DEF Suppress, Limited
  <2>3. call'[c].key = k BY <1>1, <2>1 DEF Suppress, NotifierTypeOK
  <2>4. granted[k] # <<>>
    <3>1. clock >= Cooldown /\ clock \in Nat /\ Cooldown \in Nat
      BY <1>1, NotifierAssumption DEF NotifierTypeOK
    <3>2. lastSent[k] # 0 BY <2>2, <3>1 DEF TooSoon
    <3>3. QED BY <1>1, <2>2, <3>2 DEF TableIsLastGrant
  <2>5. Len(granted[k]) \in 1..Len(granted[k])
    <3>1. granted[k] \in Seq(Time) BY <1>1, <2>2 DEF NotifierTypeOK
    <3>2. QED BY <2>4, <3>1
  <2>6. clock - granted[k][Len(granted[k])] < Cooldown
    BY <1>1, <2>2, <2>4 DEF TooSoon, TableIsLastGrant
  <2>7. QED BY <2>3, <2>5, <2>6
<1> DEFINE Cause == \A c \in Callers :
      call'[c].state = "suppressed" /\ call[c].state # "suppressed" =>
        LET g == granted[call'[c].key]
        IN  \E i \in 1..Len(g) : clock - g[i] < Cooldown
<1>2. NotifierTypeOK /\ TableIsLastGrant /\ [NotifierNext]_notifierVars => [Cause]_notifierVars
  BY <1>1
<1>3. QED BY <1>2, TypeCorrect, TableCorrect, PTL DEF NotifierSpec, SilencedForCause
=============================================================================
