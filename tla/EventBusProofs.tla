--------------------------- MODULE EventBusProofs ---------------------------
(* Proofs about EventBus for every set of tasks and every mix of jobs,     *)
(* with a busy database, a shutdown and a crash at any moment: its types,  *)
(* which messages it starts and silences, and that what a coroutine is     *)
(* told is true on disk, whatever the others do meanwhile.                 *)
EXTENDS EventBus, SequenceLemmas

\* A task that is not muted has one of the dedupe keys.
LEMMA KeyOfTask ==
  ASSUME NEW t \in Tasks, ~Muted(t)
  PROVE  KeyOf(t) \in Keys
BY DEF Muted, Keys

\* What a step of a coroutine does to the notifier.
LEMMA BusSteps ==
  ASSUME NEW t \in Tasks
  PROVE  /\ Notify(t) => [N!NotifierNext]_notifierVars
         /\ PostReturns(t) => [N!NotifierNext]_notifierVars
         /\ Dispatch(t) \/ CreatePosted(t) \/ CallDatabase(t) \/ Finish(t)
              => UNCHANGED notifierVars
<1>1. ASSUME Notify(t) PROVE [N!NotifierNext]_notifierVars
  <2>1. CASE UNCHANGED notifierVars BY <2>1
  <2>2. CASE ~Muted(t) /\ N!Send(t, KeyOf(t))
    BY <2>2, KeyOfTask DEF N!NotifierNext
  <2>3. QED BY <1>1, <2>1, <2>2 DEF Notify
<1>2. ASSUME PostReturns(t) PROVE [N!NotifierNext]_notifierVars
  BY <1>2 DEF PostReturns, N!NotifierNext
<1>3. Dispatch(t) \/ CreatePosted(t) \/ CallDatabase(t) \/ Finish(t)
        => UNCHANGED notifierVars
  BY DEF Dispatch, CreatePosted, CallDatabase, Finish
<1>4. QED BY <1>1, <1>2, <1>3

\* A behaviour of the bus is one of the notifier: what is proved of the
\* notifier alone holds in the bus.
LEMMA BusStepsNotifier == Spec => N!NotifierSpec
<1>1. Init => N!NotifierInit BY DEF Init
<1>2. [Next]_vars => [N!NotifierNext]_notifierVars
  <2> SUFFICES ASSUME [Next]_vars PROVE [N!NotifierNext]_notifierVars
    OBVIOUS
  <2>1. CASE UNCHANGED vars BY <2>1 DEF vars
  <2>2. CASE \E t \in Tasks : Dispatch(t) \/ PostReturns(t) BY <2>2, BusSteps
  <2>3. CASE LoopStep BY <2>3, BusSteps DEF LoopStep, DatabaseClosed
  <2>4. CASE SqlStep
    BY <2>4 DEF SqlStep, Insert, InsertBusy, Commit, ReadId, AfterClose,
                CloseConnection, Answer
  <2>5. CASE BeginShutdown \/ Crash BY <2>5 DEF BeginShutdown, Crash, Abandon
  <2>6. CASE ShutdownStep
    <3>1. CASE StopAllDone BY <3>1 DEF StopAllDone, N!NotifierNext
    <3>2. CASE NotifierClosed BY <3>2 DEF NotifierClosed, N!NotifierNext
    <3>3. CASE Exit BY <3>3 DEF Exit, Abandon
    <3>4. QED BY <2>6, <3>1, <3>2, <3>3 DEF ShutdownStep
  <2>7. CASE Environment BY <2>7 DEF Environment, N!NotifierNext
  <2>8. QED BY <2>1, <2>2, <2>3, <2>4, <2>5, <2>6, <2>7 DEF Next
<1>3. [Next]_vars => [N!NotifierNext]_(N!notifierVars)
  BY <1>2 DEF notifierVars, N!notifierVars
<1>4. QED BY <1>1, <1>3, PTL DEF Spec, N!NotifierSpec

\* The notifier of NotifierProofs is the one of the bus.
NP == INSTANCE NotifierProofs WITH Callers <- Tasks

LEMMA NotifierFits == NP!NotifierAssumption
BY BusNotifierAssumption DEF NP!NotifierAssumption

LEMMA SameNotifier == N!NotifierSpec <=> NP!NotifierSpec
<1>1. N!NotifierInit <=> NP!NotifierInit BY DEF N!NotifierInit, NP!NotifierInit, N!NotCalling, NP!NotCalling
<1>2. [N!NotifierNext]_(N!notifierVars) <=> [NP!NotifierNext]_(NP!notifierVars)
  BY DEF N!notifierVars, NP!notifierVars, N!NotifierNext, NP!NotifierNext, N!NotCalling, NP!NotCalling,
         N!Verdicts, NP!Verdicts, N!Limited, NP!Limited, N!TooSoon, NP!TooSoon,
         N!Send, NP!Send, N!Refuse, NP!Refuse, N!Suppress, NP!Suppress,
         N!StartPost, NP!StartPost, N!PostReturns, NP!PostReturns,
         N!Return, NP!Return, N!ConfigureNotifier, NP!ConfigureNotifier, N!SetClock, NP!SetClock,
         N!BeginClose, NP!BeginClose, N!EndClose, NP!EndClose
<1>3. QED BY <1>1, <1>2, PTL DEF N!NotifierSpec, NP!NotifierSpec

\* The invariant of the notifier holds in the bus.
LEMMA NotifierSound == Spec => []NP!SpacedInv
<1>1. NP!NotifierSpec => []NP!NotifierTypeOK BY NotifierFits, NP!TypeCorrect
<1>2. NP!NotifierSpec => []NP!TableIsLastGrant BY NotifierFits, NP!TableCorrect
<1>3. NP!NotifierSpec => []NP!CooldownKept BY NotifierFits, NP!CooldownCorrect
<1>4. NP!NotifierTypeOK /\ NP!TableIsLastGrant /\ NP!CooldownKept => NP!SpacedInv
  BY DEF NP!SpacedInv, NP!CooldownKept
<1>5. QED BY <1>1, <1>2, <1>3, <1>4, SameNotifier, BusStepsNotifier, PTL

\* Two messages of one dedupe key never start less than the cooldown apart,
\* whichever coroutines and threads of the bus send them, through busy
\* databases, failed POSTs, clock changes, shutdown and crashes.
THEOREM BusCooldownKept == Spec => []N!CooldownKept
<1>1. N!CooldownKept <=> NP!CooldownKept
  BY DEF N!CooldownKept, NP!CooldownKept, N!RL!Spaced, NP!RL!Spaced
<1>2. NP!NotifierSpec => []NP!CooldownKept BY NotifierFits, NP!CooldownCorrect
<1>3. QED BY <1>1, <1>2, SameNotifier, BusStepsNotifier, PTL

\* The bus silences no message without cause: a coroutine is suppressed only
\* while a message of its key was started less than a cooldown ago.
THEOREM BusSilencedForCause == Spec => N!SilencedForCause
<1> DEFINE A == \A c \in Tasks :
                  call'[c].state = "suppressed" /\ call[c].state # "suppressed" =>
                    LET g == granted[call'[c].key]
                    IN  \E i \in 1..Len(g) : clock - g[i] < Cooldown
<1>1. NP!NotifierSpec => NP!SilencedForCause BY NotifierFits, NP!SuppressionCorrect
<1>2. NP!SilencedForCause <=> [][A]_(NP!notifierVars) BY DEF NP!SilencedForCause
<1>3. N!SilencedForCause <=> [][A]_(N!notifierVars) BY DEF N!SilencedForCause
<1>4. [A]_(NP!notifierVars) <=> [A]_(N!notifierVars)
  BY DEF N!notifierVars, NP!notifierVars
<1> HIDE DEF A
<1>5. QED
  BY <1>1, <1>2, <1>3, <1>4, SameNotifier, BusStepsNotifier, PTL

\* The bus as a whole - loop, threads, database and shutdown - implements the
\* rate limiter: every step grants keys that are free, or none.
THEOREM BusRateLimited == Spec => N!ImplementsRateLimit
<1>1. NP!NotifierSpec => NP!ImplementsRateLimit BY NotifierFits, NP!RateLimitRefined
<1>2. N!RL!Init <=> NP!RL!Init BY DEF N!RL!Init, NP!RL!Init
<1>3. [N!RL!Next]_granted <=> [NP!RL!Next]_granted
  BY DEF N!RL!Next, NP!RL!Next, N!RL!Free, NP!RL!Free
<1>4. N!RL!Spec <=> NP!RL!Spec BY <1>2, <1>3, PTL DEF N!RL!Spec, NP!RL!Spec
<1>5. QED
  BY <1>1, <1>4, SameNotifier, BusStepsNotifier, PTL
  DEF N!ImplementsRateLimit, NP!ImplementsRateLimit
-----------------------------------------------------------------------------
Callbacks == Tasks \cup {Main}
Calls == (Tasks \X SqlOps) \cup {<<Main, "close">>}

\* Head and tail of one of the two queues.
LEMMA HeadTail ==
  ASSUME NEW S, NEW q \in Seq(S), q # <<>>
  PROVE  Head(q) \in S /\ Tail(q) \in Seq(S)
BY HeadTailProperties

\* What the loop and the database thread take out and put in.
LEMMA TurnTypes ==
  ASSUME TypeOK, NEW t \in Tasks, Turn(t)
  PROVE  Tail(ready) \in Seq(Callbacks) /\ Append(Tail(ready), t) \in Seq(Callbacks)
BY HeadTail, AppendProperties DEF TypeOK, Turn, Callbacks

LEMMA AnswerTypes ==
  ASSUME TypeOK, NEW r \in {"ok", "error"}, sqlq # <<>>, Answer(r)
  PROVE  /\ reply' \in [Tasks -> {"none", "ok", "error"}]
         /\ ready' \in Seq(Callbacks)
         /\ sqlq' \in Seq(Calls)
<1>1. Head(sqlq) \in Calls /\ Tail(sqlq) \in Seq(Calls)
  BY HeadTail DEF TypeOK, Calls
<1>2. Head(sqlq)[1] \in Callbacks BY <1>1 DEF Calls, Callbacks
<1>3. ready' \in Seq(Callbacks)
  BY <1>2, AppendProperties DEF Answer, TypeOK, Callbacks
<1>4. QED BY <1>1, <1>3 DEF Answer, TypeOK

\* A call other than close is a task's.
LEMMA TaskCall ==
  ASSUME TypeOK, NEW op \in SqlOps, Running(op)
  PROVE  sqlq # <<>> /\ Head(sqlq)[1] \in Tasks /\ Head(sqlq)[2] = op
<1>1. Head(sqlq) \in Calls BY HeadTail DEF Running, TypeOK, Calls
<1>2. QED BY <1>1 DEF Running, Calls, SqlOps

LEMMA NextOpType ==
  ASSUME NEW t \in Tasks
  PROVE  NextOp(t) \in SqlOps \cup {"none"}
BY DEF NextOp, SqlOps

LEMMA LearntType ==
  ASSUME TypeOK, NEW t \in Tasks
  PROVE  Learnt(t) \in [Tasks -> {"pending", "recorded", "failed"}]
BY DEF Learnt, TypeOK

LEMMA TaskTyped ==
  ASSUME TypeOK, clock \in Time, NEW t \in Tasks,
         Dispatch(t) \/ CreatePosted(t) \/ CallDatabase(t) \/ Notify(t)
           \/ PostReturns(t) \/ Finish(t)
  PROVE  TypeOK'
<1>1. CASE Dispatch(t)
  <2>1. Append(ready, t) \in Seq(Callbacks) /\ Append(order, t) \in Seq(Tasks)
    BY AppendProperties DEF TypeOK, Callbacks
  <2>2. QED BY <1>1, <2>1 DEF Dispatch, Enter, TypeOK, Final, Callbacks
<1>2. CASE CreatePosted(t)
  BY <1>2, TurnTypes DEF CreatePosted, TypeOK, Callbacks
<1>3. CASE CallDatabase(t)
  <2>1. NextOp(t) \in SqlOps BY <1>3, NextOpType DEF CallDatabase
  <2>2. Append(sqlq, <<t, NextOp(t)>>) \in Seq(Calls)
    BY <2>1, AppendProperties DEF TypeOK, Calls
  <2>3. Tail(ready) \in Seq(Callbacks) BY <1>3, TurnTypes DEF CallDatabase
  <2>4. QED BY <1>3, <2>1, <2>2, <2>3, LearntType
          DEF CallDatabase, TypeOK, Callbacks, Calls
<1>4. CASE Notify(t)
  <2>1. Tail(ready) \in Seq(Callbacks) BY <1>4, TurnTypes DEF Notify
  <2>2. pc' \in [Tasks -> {"idle", "posted", "created", "post"} \cup SqlOps \cup Final]
    BY <1>4 DEF Notify, Posts, TypeOK, Final
  <2>3. told' \in [Tasks -> Time \cup {0}] BY <1>4 DEF Notify, Posts, TypeOK
  <2>4. QED BY <1>4, <2>1, <2>2, <2>3, LearntType DEF Notify, TypeOK, Callbacks
<1>5. CASE PostReturns(t)
  <2>1. Append(ready, t) \in Seq(Callbacks) BY AppendProperties DEF TypeOK, Callbacks
  <2>2. QED BY <1>5, <2>1 DEF PostReturns, TypeOK, Callbacks
<1>6. CASE Finish(t)
  BY <1>6, TurnTypes DEF Finish, TypeOK, Final, Callbacks
<1>7. QED BY <1>1, <1>2, <1>3, <1>4, <1>5, <1>6

LEMMA SqlTyped ==
  ASSUME TypeOK, SqlStep
  PROVE  TypeOK'
<1>1. CASE Insert
  <2>1. sqlq # <<>> /\ Head(sqlq)[1] \in Tasks BY <1>1, TaskCall DEF Insert, SqlOps
  <2>2. Append(tx, Head(sqlq)[1]) \in Seq(Tasks) BY <2>1, AppendProperties DEF TypeOK
  <2>3. Answer("ok") BY <1>1 DEF Insert
  <2>4. QED BY <1>1, <2>1, <2>2, <2>3, AnswerTypes
          DEF Insert, Answer, TypeOK, Callbacks, Calls
<1>2. CASE InsertBusy
  <2>1. sqlq # <<>> /\ Answer("error") BY <1>2 DEF InsertBusy, Running
  <2>2. QED BY <1>2, <2>1, AnswerTypes DEF InsertBusy, Answer, TypeOK, Callbacks, Calls
<1>3. CASE Commit
  <2>1. sqlq # <<>> /\ Answer("ok") BY <1>3 DEF Commit, Running
  <2>2. rows \o tx \in Seq(Tasks) BY ConcatProperties DEF TypeOK
  <2>3. QED BY <1>3, <2>1, <2>2, AnswerTypes DEF Commit, Answer, TypeOK, Callbacks, Calls
<1>4. CASE ReadId
  <2>1. sqlq # <<>> /\ Answer("ok") BY <1>4 DEF ReadId, Query, Running
  <2>2. QED BY <1>4, <2>1, AnswerTypes DEF ReadId, Answer, TypeOK, Callbacks, Calls
<1>5. CASE AfterClose
  <2>1. sqlq # <<>> /\ Answer("error") BY <1>5 DEF AfterClose
  <2>2. QED BY <1>5, <2>1, AnswerTypes DEF AfterClose, Answer, TypeOK, Callbacks, Calls
<1>6. CASE CloseConnection
  <2>1. Tail(sqlq) \in Seq(Calls) BY <1>6, HeadTail DEF CloseConnection, Running, TypeOK, Calls
  <2>2. Append(ready, Main) \in Seq(Callbacks) BY AppendProperties DEF TypeOK, Callbacks
  <2>3. QED BY <1>6, <2>1, <2>2 DEF CloseConnection, TypeOK, Callbacks, Calls
<1>7. QED BY <1>1, <1>2, <1>3, <1>4, <1>5, <1>6 DEF SqlStep

LEMMA AbandonTyped ==
  ASSUME TypeOK, NEW end \in Gone, Abandon(end)
  PROVE  TypeOK'
<1>1. pc' \in [Tasks -> {"idle", "posted", "created", "post"} \cup SqlOps \cup Final]
  BY DEF Abandon, Fate, TypeOK, Final
<1>2. QED BY <1>1 DEF Abandon, TypeOK, Gone

LEMMA ShutdownTyped ==
  ASSUME TypeOK, BeginShutdown \/ StopAllDone \/ NotifierClosed \/ DatabaseClosed
  PROVE  TypeOK'
<1>1. CASE BeginShutdown BY <1>1 DEF BeginShutdown, TypeOK
<1>2. Append(sqlq, <<Main, "close">>) \in Seq(Calls)
  BY AppendProperties DEF TypeOK, Calls
<1>3. CASE StopAllDone BY <1>2, <1>3 DEF StopAllDone, CloseDatabase, TypeOK, Calls
<1>4. CASE NotifierClosed BY <1>2, <1>4 DEF NotifierClosed, CloseDatabase, TypeOK, Calls
<1>5. CASE DatabaseClosed
  BY <1>5, HeadTail DEF DatabaseClosed, Turn, TypeOK
<1>6. QED BY <1>1, <1>3, <1>4, <1>5

\* Every variable keeps its type: only tasks have inserts in the transaction
\* and in the tables, whatever is cancelled, refused or lost.
THEOREM TypeCorrect == Spec => []TypeOK
<1>1. Init => TypeOK BY DEF Init, TypeOK
<1>2. TypeOK /\ clock \in Time /\ [Next]_vars => TypeOK'
  <2> SUFFICES ASSUME TypeOK, clock \in Time, [Next]_vars PROVE TypeOK'
    OBVIOUS
  <2>1. CASE UNCHANGED vars BY <2>1 DEF vars, busVars, TypeOK
  <2>2. CASE \E t \in Tasks : Dispatch(t) \/ PostReturns(t) BY <2>2, TaskTyped
  <2>3. CASE LoopStep BY <2>3, TaskTyped, ShutdownTyped DEF LoopStep
  <2>4. CASE SqlStep BY <2>4, SqlTyped
  <2>5. CASE BeginShutdown BY <2>5, ShutdownTyped
  <2>6. CASE ShutdownStep
    BY <2>6, ShutdownTyped, AbandonTyped DEF ShutdownStep, Exit, Gone
  <2>7. CASE Crash BY <2>7, AbandonTyped DEF Crash, Gone
  <2>8. CASE Environment BY <2>8 DEF Environment, busVars, TypeOK
  <2>9. QED BY <2>1, <2>2, <2>3, <2>4, <2>5, <2>6, <2>7, <2>8 DEF Next
<1>3. NP!SpacedInv => clock \in Time BY DEF NP!SpacedInv, NP!NotifierTypeOK
<1>4. QED BY <1>1, <1>2, <1>3, NotifierSound, PTL DEF Spec

-----------------------------------------------------------------------------
(* Safety of the bus over its database.                                    *)

Written(t) == In(tx, t) \/ In(rows, t)

\* A coroutine waits in one place at most: for its turn in the loop, for the
\* database thread, or for Telegram.
Token(t) ==
  /\ Unique(ready, t)
  /\ \A op \in SqlOps :
       /\ Unique(sqlq, <<t, op>>)
       /\ In(sqlq, <<t, op>>) => pc[t] = op /\ ~In(ready, t)
  /\ In(ready, t) => pc[t] \in {"posted", "created", "post"} \cup SqlOps
  /\ In(ready, t) /\ pc[t] \in SqlOps => reply[t] # "none"
  /\ In(ready, t) /\ pc[t] = "post" => call[t].state # "posting"

\* From its insert to its commit the row of t is in the transaction or, by
\* another's commit, already in the tables; after it, in the tables.
Durable(t) ==
  /\ outcome[t] = "recorded" => In(rows, t)
  /\ In(ready, t) /\ pc[t] = "commit" /\ reply[t] = "ok" => In(rows, t)
  /\ In(sqlq, <<t, "commit">>) /\ conn = "open" => Written(t)
  /\ In(ready, t) /\ pc[t] = "insert" /\ reply[t] = "ok" /\ conn = "open" => Written(t)

\* What is in the transaction belongs to a coroutine that will commit.
Owned(t) ==
  In(tx, t) => \/ pc[t] = "insert" /\ In(ready, t) /\ reply[t] = "ok"
               \/ pc[t] = "commit" /\ In(sqlq, <<t, "commit">>)

\* There is no row before the insert and one row after it.
Once(t) ==
  /\ pc[t] \in {"idle", "posted", "created"} \/ In(sqlq, <<t, "insert">>) => ~Written(t)
  /\ Unique(rows \o tx, t)

\* Past its commit, and once it calls send, a coroutine knows its outcome.
Informed(t) ==
  /\ pc[t] \in {"select", "fetch"} => outcome[t] = "recorded"
  /\ call[t].state # "idle" => outcome[t] \in {"failed", "recorded"}

Sound(t) == Token(t) /\ Durable(t) /\ Owned(t) /\ Once(t) /\ Informed(t)

\* The connection is closed before run() learns that it is, and a closed
\* connection has no transaction.
Closed ==
  /\ conn = "closed" => tx = <<>>
  /\ main = "closed" \/ In(ready, Main) => conn = "closed"

CallTyped == call \in [Tasks -> [state : {"idle", "posting"} \cup N!Verdicts,
                                 key : Keys \cup {NoKey}]]

SafeInv == TypeOK /\ CallTyped /\ Closed /\ \A t \in Tasks : Sound(t)
-----------------------------------------------------------------------------
\* What a step of somebody else leaves of u: its place and what it knows.
Frame(u) ==
  /\ pc'[u] = pc[u] /\ reply'[u] = reply[u]
  /\ outcome'[u] = outcome[u] /\ call'[u] = call[u]
  /\ In(ready', u) <=> In(ready, u)
  /\ Unique(ready', u)
  /\ \A op \in SqlOps : /\ In(sqlq', <<u, op>>) <=> In(sqlq, <<u, op>>)
                        /\ Unique(sqlq', <<u, op>>)

\* What every step but its own insert leaves of the row of u.
Store(u) ==
  /\ In(rows, u) => In(rows', u)
  /\ conn' = "open" => conn = "open"
  /\ conn' = "open" /\ Written(u) => In(tx', u) \/ In(rows', u)
  /\ In(tx', u) => In(tx, u)
  /\ In(tx', u) \/ In(rows', u) => Written(u)
  /\ Unique(rows' \o tx', u)

LEMMA FrameSound ==
  ASSUME NEW u \in Tasks, Sound(u), Frame(u), Store(u)
  PROVE  Sound(u)'
<1>1. "commit" \in SqlOps /\ "insert" \in SqlOps BY DEF SqlOps
<1>2. Token(u)' BY DEF Sound, Token, Frame
<1>3. Durable(u)' BY <1>1 DEF Sound, Durable, Frame, Store, Written
<1>4. Owned(u)' BY <1>1 DEF Sound, Owned, Frame, Store
<1>5. Once(u)' BY <1>1 DEF Sound, Once, Frame, Store, Written
<1>6. Informed(u)' BY DEF Sound, Informed, Frame
<1>7. QED BY <1>2, <1>3, <1>4, <1>5, <1>6 DEF Sound

\* The ways a step treats the rows.
LEMMA StoreKept ==
  ASSUME NEW u \in Tasks, Sound(u), UNCHANGED <<rows, tx, conn>>
  PROVE  Store(u)
BY DEF Sound, Once, Store, Written

LEMMA StoreCommitted ==
  ASSUME TypeOK, NEW u \in Tasks, Sound(u),
         rows' = rows \o tx, tx' = <<>>, conn' = conn
  PROVE  Store(u)
<1>1. rows \in Seq(Tasks) /\ tx \in Seq(Tasks) BY DEF TypeOK
<1>2. In(rows', u) <=> In(rows, u) \/ In(tx, u) BY <1>1, InConcat
<1>3. ~In(tx', u) BY DEF In
<1>4. rows' \o tx' = rows \o tx BY <1>1, ConcatProperties, ConcatEmptySeq
<1>5. QED BY <1>2, <1>3, <1>4 DEF Sound, Once, Store, Written

LEMMA StoreClosed ==
  ASSUME TypeOK, NEW u \in Tasks, Sound(u),
         rows' = rows, tx' = <<>>, conn' = "closed"
  PROVE  Store(u)
<1>1. rows \in Seq(Tasks) /\ tx \in Seq(Tasks) BY DEF TypeOK
<1>2. ~In(tx', u) BY DEF In
<1>3. rows' \o tx' = rows BY <1>1, ConcatEmptySeq
<1>4. Unique(rows, u) BY <1>1, UniquePart DEF Sound, Once
<1>5. QED BY <1>2, <1>3, <1>4 DEF Store, Written

LEMMA StoreInserted ==
  ASSUME TypeOK, NEW u \in Tasks, Sound(u), NEW t \in Tasks \ {u},
         tx' = Append(tx, t), UNCHANGED <<rows, conn>>
  PROVE  Store(u)
<1>1. rows \in Seq(Tasks) /\ tx \in Seq(Tasks) /\ rows \o tx \in Seq(Tasks)
  BY ConcatProperties DEF TypeOK
<1>2. In(tx', u) <=> In(tx, u) BY <1>1, PushOther
<1>3. rows' \o tx' = Append(rows \o tx, t) BY <1>1
<1>4. Unique(rows' \o tx', u) BY <1>1, <1>3, PushOther DEF Sound, Once
<1>5. QED BY <1>2, <1>4 DEF Store, Written

\* Another callback that comes or goes leaves u where it is.
LEMMA ReadyOther ==
  ASSUME TypeOK, NEW u \in Tasks, Unique(ready, u), NEW t \in Callbacks, t # u
  PROVE  /\ In(Append(ready, t), u) <=> In(ready, u)
         /\ Unique(Append(ready, t), u)
         /\ ready # <<>> /\ Head(ready) = t =>
              /\ In(Tail(ready), u) <=> In(ready, u)
              /\ Unique(Tail(ready), u)
              /\ In(Append(Tail(ready), t), u) <=> In(ready, u)
              /\ Unique(Append(Tail(ready), t), u)
<1>1. ready \in Seq(Callbacks) BY DEF TypeOK, Callbacks
<1>2. In(Append(ready, t), u) <=> In(ready, u) BY <1>1, PushOther
<1>3. Unique(Append(ready, t), u) BY <1>1, PushOther
<1>4. ASSUME ready # <<>>, Head(ready) = t
      PROVE  /\ In(Tail(ready), u) <=> In(ready, u)
             /\ Unique(Tail(ready), u)
             /\ In(Append(Tail(ready), t), u) <=> In(ready, u)
             /\ Unique(Append(Tail(ready), t), u)
  <2>1. Tail(ready) \in Seq(Callbacks) BY <1>1, <1>4, HeadTail
  <2>2. In(Tail(ready), u) <=> In(ready, u) BY <1>1, <1>4, PopOther
  <2>3. Unique(Tail(ready), u) BY <1>1, <1>4, PopOther
  <2>4. In(Append(Tail(ready), t), u) <=> In(Tail(ready), u) BY <2>1, PushOther
  <2>5. Unique(Append(Tail(ready), t), u) BY <2>1, <2>3, PushOther
  <2>6. QED BY <2>2, <2>3, <2>4, <2>5
<1>5. QED BY <1>2, <1>3, <1>4

\* So does another call.
LEMMA SqlOther ==
  ASSUME TypeOK, NEW x, Unique(sqlq, x)
  PROVE  /\ \A c \in Calls \ {x} : /\ In(Append(sqlq, c), x) <=> In(sqlq, x)
                                   /\ Unique(Append(sqlq, c), x)
         /\ sqlq # <<>> /\ Head(sqlq) # x => /\ In(Tail(sqlq), x) <=> In(sqlq, x)
                                             /\ Unique(Tail(sqlq), x)
<1>1. sqlq \in Seq(Calls) BY DEF TypeOK, Calls
<1>2. ASSUME NEW c \in Calls \ {x}
      PROVE  /\ In(Append(sqlq, c), x) <=> In(sqlq, x)
             /\ Unique(Append(sqlq, c), x)
  BY <1>1, PushOther
<1>3. ASSUME sqlq # <<>>, Head(sqlq) # x
      PROVE  /\ In(Tail(sqlq), x) <=> In(sqlq, x)
             /\ Unique(Tail(sqlq), x)
  BY <1>1, <1>3, PopOther
<1>4. QED BY <1>2, <1>3
-----------------------------------------------------------------------------
\* A step of t leaves every other coroutine u where it is.
LEMMA OthersFramed ==
  ASSUME SafeInv, NEW t \in Tasks, NEW u \in Tasks, u # t,
         Dispatch(t) \/ CreatePosted(t) \/ CallDatabase(t) \/ Notify(t)
           \/ PostReturns(t) \/ Finish(t)
  PROVE  Sound(u)'
<1>1. /\ TypeOK /\ CallTyped /\ Sound(u)
      /\ Unique(ready, u) /\ \A op \in SqlOps : Unique(sqlq, <<u, op>>)
  BY DEF SafeInv, Sound, Token
<1>2. /\ In(Append(ready, t), u) <=> In(ready, u)
      /\ Unique(Append(ready, t), u)
      /\ Turn(t) =>
           /\ In(Tail(ready), u) <=> In(ready, u)
           /\ Unique(Tail(ready), u)
           /\ In(Append(Tail(ready), t), u) <=> In(ready, u)
           /\ Unique(Append(Tail(ready), t), u)
  BY <1>1, ReadyOther DEF Callbacks, Turn
<1>3. UNCHANGED <<rows, tx, conn, reply>>
  BY DEF Dispatch, CreatePosted, CallDatabase, Notify, PostReturns, Finish
<1>4. Store(u) BY <1>1, <1>3, StoreKept
<1>5. pc'[u] = pc[u]
  BY <1>1 DEF Dispatch, CreatePosted, CallDatabase, Notify, Posts, PostReturns, Finish, TypeOK
<1>6. outcome'[u] = outcome[u]
  BY <1>1 DEF Dispatch, CreatePosted, CallDatabase, Notify, PostReturns, Finish, TypeOK,
              Learnt
<1>7. call'[u] = call[u]
  <2>1. CASE Dispatch(t) \/ CreatePosted(t) \/ CallDatabase(t) \/ Finish(t)
    BY <2>1 DEF Dispatch, CreatePosted, CallDatabase, Finish, notifierVars
  <2>2. CASE Notify(t)
    BY <1>1, <2>2 DEF Notify, notifierVars, N!Send, N!Refuse, N!Suppress, N!StartPost,
                      CallTyped
  <2>3. CASE PostReturns(t)
    BY <1>1, <2>3 DEF PostReturns, N!PostReturns, CallTyped
  <2>4. QED BY <2>1, <2>2, <2>3
<1>8. (In(ready', u) <=> In(ready, u)) /\ Unique(ready', u)
  <2>1. CASE Dispatch(t) BY <1>1, <1>2, <2>1 DEF Dispatch
  <2>2. CASE CreatePosted(t) BY <1>2, <2>2 DEF CreatePosted
  <2>3. CASE CallDatabase(t) BY <1>2, <2>3 DEF CallDatabase
  <2>4. CASE Notify(t) BY <1>2, <2>4 DEF Notify
  <2>5. CASE PostReturns(t) BY <1>2, <2>5 DEF PostReturns
  <2>6. CASE Finish(t) BY <1>2, <2>6 DEF Finish
  <2>7. QED BY <2>1, <2>2, <2>3, <2>4, <2>5, <2>6
<1>9. ASSUME NEW op \in SqlOps
      PROVE  (In(sqlq', <<u, op>>) <=> In(sqlq, <<u, op>>)) /\ Unique(sqlq', <<u, op>>)
  <2>1. CASE CallDatabase(t)
    <3>1. NextOp(t) \in SqlOps BY <2>1, NextOpType DEF CallDatabase
    <3>2. <<t, NextOp(t)>> \in Calls \ {<<u, op>>} BY <3>1 DEF Calls
    <3>3. sqlq' = Append(sqlq, <<t, NextOp(t)>>) BY <2>1 DEF CallDatabase
    <3>4. QED BY <1>1, <3>2, <3>3, SqlOther
  <2>2. CASE ~CallDatabase(t)
    <3>1. sqlq' = sqlq
      BY <2>2 DEF Dispatch, CreatePosted, Notify, PostReturns, Finish
    <3>2. QED BY <1>1, <3>1
  <2>3. QED BY <2>1, <2>2
<1>10. Frame(u) BY <1>3, <1>5, <1>6, <1>7, <1>8, <1>9 DEF Frame
<1>11. QED BY <1>1, <1>4, <1>10, FrameSound

\* Where t is when its turn comes, or before it is dispatched.
LEMMA AtTurn ==
  ASSUME SafeInv, NEW t \in Tasks, Turn(t)
  PROVE  /\ In(ready, t) /\ ~In(Tail(ready), t)
         /\ Unique(Tail(ready), t)
         /\ \A op \in SqlOps : ~In(sqlq, <<t, op>>)
         /\ In(Append(Tail(ready), t), t) /\ Unique(Append(Tail(ready), t), t)
<1>1. ready \in Seq(Callbacks) /\ ready # <<>> /\ Head(ready) = t /\ Unique(ready, t)
  BY DEF SafeInv, TypeOK, Callbacks, Turn, Sound, Token
<1>2. In(ready, t) /\ ~In(Tail(ready), t) /\ Unique(Tail(ready), t)
  BY <1>1, PopSelf
<1>3. \A op \in SqlOps : ~In(sqlq, <<t, op>>) BY <1>2 DEF SafeInv, Sound, Token
<1>4. Tail(ready) \in Seq(Callbacks) /\ t \in Callbacks
  BY <1>1, HeadTail DEF Callbacks
<1>5. In(Append(Tail(ready), t), t) /\ Unique(Append(Tail(ready), t), t)
  BY <1>2, <1>4, PushSelf
<1>6. QED BY <1>2, <1>3, <1>5

LEMMA DispatchSound ==
  ASSUME SafeInv, NEW t \in Tasks, Dispatch(t)
  PROVE  Sound(t)'
<1>1. TypeOK /\ Sound(t) /\ pc[t] = "idle" /\ pc'[t] \in {"created", "posted", "dropped"}
  BY DEF SafeInv, Dispatch, Enter, TypeOK
<1>2. UNCHANGED <<reply, sqlq, conn, tx, rows, outcome, call>>
  BY DEF Dispatch, notifierVars
<1>3. ~In(ready, t) /\ \A op \in SqlOps : ~In(sqlq, <<t, op>>)
  BY <1>1 DEF Sound, Token, SqlOps
<1>4. Unique(ready', t) /\ (In(ready', t) => pc'[t] \in {"created", "posted"})
  <2>1. ready \in Seq(Callbacks) /\ t \in Callbacks BY <1>1 DEF TypeOK, Callbacks
  <2>2. CASE Enter(t) = "dropped"
    BY <1>1, <1>3, <2>2 DEF Dispatch, Sound, Token
  <2>3. CASE Enter(t) # "dropped"
    <3>1. ready' = Append(ready, t) BY <2>3 DEF Dispatch
    <3>2. pc'[t] = Enter(t) BY <1>1 DEF Dispatch, TypeOK
    <3>3. QED BY <1>1, <1>3, <2>1, <2>3, <3>1, <3>2, PushSelf
  <2>4. QED BY <2>2, <2>3
<1>5. ~Written(t) BY <1>1 DEF Sound, Once
<1>6. Token(t)' BY <1>1, <1>2, <1>3, <1>4 DEF Token, Sound, SqlOps
<1>7. Durable(t)' BY <1>1, <1>2, <1>3, <1>4 DEF Durable, Sound, SqlOps
<1>8. Owned(t)' BY <1>2, <1>5 DEF Owned, Written
<1>9. Once(t)' BY <1>1, <1>2, <1>5 DEF Once, Sound, Written
<1>10. Informed(t)' BY <1>1, <1>2 DEF Informed, Sound
<1>11. QED BY <1>6, <1>7, <1>8, <1>9, <1>10 DEF Sound

LEMMA CreatePostedSound ==
  ASSUME SafeInv, NEW t \in Tasks, CreatePosted(t)
  PROVE  Sound(t)'
<1>1. TypeOK /\ Sound(t) /\ pc[t] = "posted" /\ pc'[t] = "created" /\ Turn(t)
  BY DEF SafeInv, CreatePosted, TypeOK
<1>2. /\ UNCHANGED <<reply, sqlq, conn, tx, rows, outcome, call>>
      /\ ready' = Append(Tail(ready), t)
  BY DEF CreatePosted, notifierVars
<1>3. /\ In(ready, t) /\ \A op \in SqlOps : ~In(sqlq, <<t, op>>)
      /\ In(ready', t) /\ Unique(ready', t)
  BY <1>1, <1>2, AtTurn
<1>4. ~Written(t) BY <1>1 DEF Sound, Once
<1>5. Token(t)' BY <1>1, <1>2, <1>3 DEF Token, Sound, SqlOps
<1>6. Durable(t)' BY <1>1, <1>2, <1>3 DEF Durable, Sound, SqlOps
<1>7. Owned(t)' BY <1>2, <1>4 DEF Owned, Written
<1>8. Once(t)' BY <1>1, <1>2, <1>4 DEF Once, Sound, Written
<1>9. Informed(t)' BY <1>1, <1>2 DEF Informed, Sound
<1>10. QED BY <1>5, <1>6, <1>7, <1>8, <1>9 DEF Sound

LEMMA CallDatabaseSound ==
  ASSUME SafeInv, NEW t \in Tasks, CallDatabase(t)
  PROVE  Sound(t)'
<1> DEFINE op == NextOp(t)
<1>1. /\ TypeOK /\ Sound(t) /\ Turn(t) /\ ~Raises(t)
      /\ op \in SqlOps /\ pc'[t] = op
  BY NextOpType DEF SafeInv, CallDatabase, TypeOK
<1>2. /\ UNCHANGED <<reply, conn, tx, rows, call>>
      /\ ready' = Tail(ready) /\ sqlq' = Append(sqlq, <<t, op>>)
      /\ outcome' = Learnt(t)
  BY DEF CallDatabase, notifierVars
<1>3. /\ In(ready, t) /\ ~In(ready', t) /\ Unique(ready', t)
      /\ \A o \in SqlOps : ~In(sqlq, <<t, o>>)
  BY <1>1, <1>2, AtTurn
<1>4. /\ In(sqlq', <<t, op>>) /\ Unique(sqlq', <<t, op>>)
      /\ \A o \in SqlOps \ {op} : ~In(sqlq', <<t, o>>) /\ Unique(sqlq', <<t, o>>)
  <2>1. sqlq \in Seq(Calls) /\ <<t, op>> \in Calls BY <1>1 DEF TypeOK, Calls
  <2>2. In(sqlq', <<t, op>>) /\ Unique(sqlq', <<t, op>>)
    BY <1>1, <1>2, <1>3, <2>1, PushSelf
  <2>3. ASSUME NEW o \in SqlOps \ {op}
        PROVE  ~In(sqlq', <<t, o>>) /\ Unique(sqlq', <<t, o>>)
    BY <1>2, <1>3, <2>1, PushOther, AbsentUnique
  <2>4. QED BY <2>2, <2>3
<1>5. pc[t] \in SqlOps => reply[t] = "ok"
  BY <1>1, <1>3 DEF Sound, Token, Raises, TypeOK
<1>6. \/ op = "insert" /\ pc[t] = "created" /\ outcome'[t] = outcome[t]
      \/ op = "commit" /\ pc[t] = "insert" /\ outcome'[t] = outcome[t]
      \/ op = "select" /\ pc[t] = "commit" /\ outcome'[t] = "recorded"
      \/ op = "fetch" /\ pc[t] = "select" /\ outcome'[t] = outcome[t]
  <2>1. \/ op = "insert" /\ pc[t] = "created"
        \/ op = "commit" /\ pc[t] = "insert"
        \/ op = "select" /\ pc[t] = "commit"
        \/ op = "fetch" /\ pc[t] = "select"
    BY <1>1 DEF NextOp, SqlOps
  <2>2. pc[t] # "commit" => outcome'[t] = outcome[t]
    BY <1>1, <1>2 DEF Learnt, TypeOK
  <2>3. pc[t] = "commit" => outcome'[t] = "recorded"
    BY <1>1, <1>2, <1>5 DEF Learnt, TypeOK, SqlOps
  <2>4. QED BY <2>1, <2>2, <2>3
<1> HIDE DEF op
<1>7. Token(t)' BY <1>1, <1>2, <1>3, <1>4 DEF Token
<1>8. Durable(t)'
  <2>1. outcome'[t] = "recorded" => In(rows', t)
    BY <1>2, <1>3, <1>5, <1>6 DEF Sound, Durable, SqlOps, SafeInv
  <2>2. In(sqlq', <<t, "commit">>) /\ conn' = "open" => Written(t)'
    <3>1. SUFFICES ASSUME In(sqlq', <<t, "commit">>), conn' = "open" PROVE Written(t)'
      OBVIOUS
    <3>2. op = "commit" BY <1>4, <3>1 DEF SqlOps
    <3>3. pc[t] = "insert" /\ reply[t] = "ok" BY <1>5, <1>6, <3>2 DEF SqlOps
    <3>4. Written(t) BY <1>1, <1>2, <1>3, <3>1, <3>3 DEF Sound, Durable
    <3>5. QED BY <1>2, <3>4 DEF Written
  <2>3. QED BY <1>3, <2>1, <2>2 DEF Durable
<1>9. Owned(t)' BY <1>1, <1>2, <1>3, <1>4, <1>6 DEF Owned, Sound, SqlOps
<1>10. Once(t)'
  <2>1. op = "insert" => ~Written(t) BY <1>1, <1>6 DEF Sound, Once
  <2>2. In(sqlq', <<t, "insert">>) => op = "insert" BY <1>4 DEF SqlOps
  <2>3. pc'[t] \notin {"idle", "posted", "created"} BY <1>1 DEF SqlOps
  <2>4. QED BY <1>1, <1>2, <2>1, <2>2, <2>3 DEF Once, Sound, Written
<1>11. Informed(t)'
  <2>1. pc[t] = "select" => outcome[t] = "recorded" BY <1>1 DEF Sound, Informed
  <2>2. pc'[t] \in {"select", "fetch"} => outcome'[t] = "recorded"
    BY <1>1, <1>6, <2>1
  <2>3. QED BY <1>1, <1>2, <1>6, <2>2 DEF Informed, Sound
<1>12. QED BY <1>7, <1>8, <1>9, <1>10, <1>11 DEF Sound

LEMMA NotifySound ==
  ASSUME SafeInv, NEW t \in Tasks, Notify(t)
  PROVE  Sound(t)'
<1>1. /\ TypeOK /\ Sound(t) /\ Closed /\ CallTyped /\ Turn(t)
      /\ pc[t] \in {"created"} \cup SqlOps
      /\ Raises(t) \/ NextOp(t) = "none"
  BY DEF SafeInv, Notify
<1>2. /\ UNCHANGED <<reply, sqlq, conn, tx, rows>>
      /\ ready' = Tail(ready) /\ outcome' = Learnt(t)
  BY DEF Notify
<1>3. pc'[t] \in {"done", "post"} BY <1>1 DEF Notify, Posts, TypeOK
<1>4. /\ In(ready, t) /\ ~In(ready', t) /\ Unique(ready', t)
      /\ \A o \in SqlOps : ~In(sqlq, <<t, o>>)
  BY <1>1, <1>2, AtTurn
<1>5. outcome'[t] = IF pc[t] = "commit" /\ reply[t] = "ok" THEN "recorded"
                    ELSE IF Raises(t) /\ outcome[t] = "pending" THEN "failed"
                    ELSE outcome[t]
  BY <1>1, <1>2 DEF Learnt, TypeOK
<1>6. outcome'[t] \in {"failed", "recorded"}
  <2>1. CASE Raises(t) BY <1>1, <1>5, <2>1 DEF TypeOK
  <2>2. CASE ~Raises(t)
    <3>1. pc[t] \in {"commit", "fetch"} BY <1>1, <2>2 DEF NextOp, SqlOps
    <3>2. CASE pc[t] = "commit"
      <4>1. reply[t] = "ok"
        BY <1>1, <1>4, <2>2, <3>2 DEF Sound, Token, Raises, TypeOK, SqlOps
      <4>2. QED BY <1>5, <3>2, <4>1
    <3>3. CASE pc[t] = "fetch" BY <1>1, <1>5, <2>2, <3>3 DEF Sound, Informed
    <3>4. QED BY <3>1, <3>2, <3>3
  <2>3. QED BY <2>1, <2>2
<1>7. ~In(tx, t)
  <2>1. SUFFICES ASSUME In(tx, t) PROVE FALSE
    OBVIOUS
  <2>2. pc[t] = "insert" /\ reply[t] = "ok"
    BY <1>1, <1>4, <2>1 DEF Sound, Owned, SqlOps
  <2>3. NextOp(t) = "commit" BY <2>2 DEF NextOp
  <2>4. main = "closed" BY <1>1, <2>2, <2>3 DEF Raises
  <2>5. tx = <<>> BY <1>1, <2>4 DEF Closed
  <2>6. QED BY <2>1, <2>5 DEF In
<1>8. Token(t)' BY <1>2, <1>3, <1>4, AbsentUnique DEF Token
<1>9. Durable(t)'
  <2>1. outcome'[t] = "recorded" => In(rows, t)
    <3>1. CASE pc[t] = "commit" /\ reply[t] = "ok" BY <1>1, <1>4, <3>1 DEF Sound, Durable
    <3>2. CASE ~(pc[t] = "commit" /\ reply[t] = "ok") BY <1>1, <1>5, <3>2 DEF Sound, Durable
    <3>3. QED BY <3>1, <3>2
  <2>2. QED BY <1>2, <1>4, <2>1 DEF Durable, SqlOps
<1>10. Owned(t)' BY <1>2, <1>7 DEF Owned
<1>11. Once(t)' BY <1>1, <1>2, <1>3, <1>4 DEF Once, Sound, SqlOps
<1>12. Informed(t)' BY <1>3, <1>6 DEF Informed
<1>13. QED BY <1>8, <1>9, <1>10, <1>11, <1>12 DEF Sound

LEMMA PostReturnsSound ==
  ASSUME SafeInv, NEW t \in Tasks, PostReturns(t)
  PROVE  Sound(t)'
<1>1. /\ TypeOK /\ Sound(t) /\ CallTyped /\ pc[t] = "post"
      /\ call[t].state = "posting"
  BY DEF SafeInv, PostReturns, N!PostReturns
<1>2. /\ UNCHANGED <<pc, reply, sqlq, conn, tx, rows, outcome>>
      /\ ready' = Append(ready, t)
  BY DEF PostReturns
<1>3. call'[t].state \in {"sent", "failed"}
  BY <1>1 DEF PostReturns, N!PostReturns, CallTyped
<1>4. ~In(ready, t) /\ \A op \in SqlOps : ~In(sqlq, <<t, op>>)
  BY <1>1 DEF Sound, Token, SqlOps
<1>5. In(ready', t) /\ Unique(ready', t)
  <2>1. ready \in Seq(Callbacks) /\ t \in Callbacks BY <1>1 DEF TypeOK, Callbacks
  <2>2. QED BY <1>2, <1>4, <2>1, PushSelf
<1>6. Token(t)' BY <1>1, <1>2, <1>3, <1>4, <1>5, AbsentUnique DEF Token, SqlOps
<1>7. Durable(t)' BY <1>1, <1>2, <1>4 DEF Durable, Sound, SqlOps
<1>8. Owned(t)' BY <1>1, <1>2 DEF Owned, Sound
<1>9. Once(t)' BY <1>1, <1>2, <1>4 DEF Once, Sound, Written, SqlOps
<1>10. Informed(t)' BY <1>1, <1>2 DEF Informed, Sound
<1>11. QED BY <1>6, <1>7, <1>8, <1>9, <1>10 DEF Sound

LEMMA FinishSound ==
  ASSUME SafeInv, NEW t \in Tasks, Finish(t)
  PROVE  Sound(t)'
<1>1. TypeOK /\ Sound(t) /\ Turn(t) /\ pc[t] = "post" /\ pc'[t] = "done"
  BY DEF SafeInv, Finish, TypeOK
<1>2. /\ UNCHANGED <<reply, sqlq, conn, tx, rows, outcome, call>>
      /\ ready' = Tail(ready)
  BY DEF Finish, notifierVars
<1>3. /\ In(ready, t) /\ ~In(ready', t) /\ Unique(ready', t)
      /\ \A o \in SqlOps : ~In(sqlq, <<t, o>>)
  BY <1>1, <1>2, AtTurn
<1>4. Token(t)' BY <1>1, <1>2, <1>3, AbsentUnique DEF Token
<1>5. Durable(t)' BY <1>1, <1>2, <1>3 DEF Durable, Sound, SqlOps
<1>6. Owned(t)' BY <1>1, <1>2 DEF Owned, Sound
<1>7. Once(t)' BY <1>1, <1>2, <1>3 DEF Once, Sound, SqlOps
<1>8. Informed(t)' BY <1>1, <1>2 DEF Informed, Sound
<1>9. QED BY <1>4, <1>5, <1>6, <1>7, <1>8 DEF Sound
-----------------------------------------------------------------------------
\* The database thread answers one call: the others are where they were.
LEMMA AnswerOthers ==
  ASSUME SafeInv, NEW r \in {"ok", "error"}, sqlq # <<>>, Answer(r),
         NEW u \in Tasks, u # Head(sqlq)[1]
  PROVE  Frame(u)
<1> DEFINE t == Head(sqlq)[1]
<1>1. /\ TypeOK /\ Unique(ready, u)
      /\ \A op \in SqlOps : Unique(sqlq, <<u, op>>)
  BY DEF SafeInv, Sound, Token
<1>2. t \in Callbacks
  <2>1. Head(sqlq) \in Calls BY <1>1, HeadTail DEF TypeOK, Calls
  <2>2. QED BY <2>1 DEF Calls, Callbacks
<1>3. (In(ready', u) <=> In(ready, u)) /\ Unique(ready', u)
  BY <1>1, <1>2, ReadyOther DEF Answer
<1>4. ASSUME NEW op \in SqlOps
      PROVE  (In(sqlq', <<u, op>>) <=> In(sqlq, <<u, op>>)) /\ Unique(sqlq', <<u, op>>)
  <2>1. Head(sqlq) # <<u, op>> OBVIOUS
  <2>2. sqlq' = Tail(sqlq) BY DEF Answer
  <2>3. QED BY <1>1, <2>1, <2>2, SqlOther
<1>5. UNCHANGED <<pc, outcome, call>> BY DEF Answer, notifierVars
<1>6. reply'[u] = reply[u] BY <1>1 DEF Answer, TypeOK
<1>7. QED BY <1>3, <1>4, <1>5, <1>6 DEF Frame

\* The coroutine whose call was answered has its turn before it, and only that.
LEMMA AnswerSelf ==
  ASSUME SafeInv, NEW r \in {"ok", "error"}, sqlq # <<>>, Answer(r),
         NEW u \in Tasks, u = Head(sqlq)[1]
  PROVE  /\ pc[u] = Head(sqlq)[2] /\ pc[u] \in SqlOps
         /\ In(sqlq, <<u, pc[u]>>) /\ ~In(ready, u)
         /\ In(ready', u) /\ reply'[u] = r
         /\ \A op \in SqlOps : ~In(sqlq', <<u, op>>)
         /\ UNCHANGED <<pc, outcome, call>>
         /\ Token(u)' /\ Informed(u)'
<1>1. TypeOK /\ Sound(u) /\ sqlq \in Seq(Calls) /\ Head(sqlq) \in Calls
  BY HeadTail DEF SafeInv, TypeOK, Calls
<1>2. PICK o \in SqlOps : Head(sqlq) = <<u, o>>
  BY <1>1, EventBusAssumption DEF Calls
<1>3. In(sqlq, <<u, o>>) /\ ~In(Tail(sqlq), <<u, o>>)
  <2>1. Unique(sqlq, Head(sqlq)) BY <1>1, <1>2 DEF Sound, Token
  <2>2. QED BY <1>1, <1>2, <2>1, PopSelf
<1>4. pc[u] = o /\ ~In(ready, u) BY <1>1, <1>3 DEF Sound, Token
<1>5. sqlq' = Tail(sqlq) /\ ready' = Append(ready, u) /\ UNCHANGED <<pc, outcome, call>>
  BY DEF Answer, notifierVars
<1>6. ASSUME NEW op \in SqlOps PROVE ~In(sqlq', <<u, op>>)
  <2>1. CASE op = o BY <1>3, <1>5, <2>1
  <2>2. CASE op # o
    <3>1. ~In(sqlq, <<u, op>>) BY <1>1, <1>4, <2>2 DEF Sound, Token
    <3>2. QED BY <1>1, <1>5, <3>1, PopIn
  <2>3. QED BY <2>1, <2>2
<1>7. In(ready', u) /\ Unique(ready', u)
  <2>1. ready \in Seq(Callbacks) /\ u \in Callbacks BY <1>1 DEF TypeOK, Callbacks
  <2>2. QED BY <1>4, <1>5, <2>1, PushSelf
<1>8. reply'[u] = r BY <1>1 DEF Answer, TypeOK
<1>9. Token(u)'
  <2>1. r # "none" OBVIOUS
  <2>2. pc'[u] \in SqlOps /\ pc'[u] # "post" BY <1>4, <1>5 DEF SqlOps
  <2>3. QED BY <1>6, <1>7, <1>8, <2>1, <2>2, AbsentUnique DEF Token
<1>10. Informed(u)' BY <1>1, <1>5 DEF Sound, Informed
<1>11. QED BY <1>2, <1>3, <1>4, <1>5, <1>6, <1>7, <1>8, <1>9, <1>10

\* Every answer but that of an insert leaves nothing of it in the transaction.
LEMMA AnswerSound ==
  ASSUME SafeInv, NEW r \in {"ok", "error"}, sqlq # <<>>, Answer(r),
         \A x \in Tasks : Store(x),
         NEW u \in Tasks,
         u = Head(sqlq)[1] =>
           /\ ~In(tx', u)
           /\ pc[u] = "commit" /\ r = "ok" => In(rows', u)
           /\ pc[u] = "insert" => r = "error"
  PROVE  Sound(u)'
<1>1. CASE u # Head(sqlq)[1]
  BY <1>1, AnswerOthers, FrameSound DEF SafeInv
<1>2. CASE u = Head(sqlq)[1]
  <2>1. /\ pc[u] \in SqlOps /\ In(sqlq, <<u, pc[u]>>) /\ ~In(ready, u)
        /\ In(ready', u) /\ reply'[u] = r
        /\ \A op \in SqlOps : ~In(sqlq', <<u, op>>)
        /\ UNCHANGED <<pc, outcome, call>>
        /\ Token(u)' /\ Informed(u)'
    BY <1>2, AnswerSelf
  <2>2. Sound(u) /\ Store(u) BY DEF SafeInv
  <2>3. Durable(u)' BY <1>2, <2>1, <2>2 DEF Durable, Sound, Store, SqlOps
  <2>4. Owned(u)' BY <1>2 DEF Owned
  <2>5. Once(u)' BY <2>1, <2>2 DEF Once, Store, SqlOps
  <2>6. QED BY <2>1, <2>3, <2>4, <2>5 DEF Sound
<1>3. QED BY <1>1, <1>2

LEMMA InsertSound ==
  ASSUME SafeInv, Insert, NEW u \in Tasks
  PROVE  Sound(u)'
<1> DEFINE t == Head(sqlq)[1]
<1>1. /\ TypeOK /\ sqlq # <<>> /\ Answer("ok") /\ t \in Tasks
      /\ Head(sqlq)[2] = "insert"
      /\ tx' = Append(tx, t) /\ rows' = rows /\ conn' = conn
  BY TaskCall DEF SafeInv, Insert, SqlOps, Answer, Running
<1>2. CASE u # t
  <2>1. Sound(u) BY DEF SafeInv
  <2>2. Store(u) BY <1>1, <1>2, <2>1, StoreInserted
  <2>3. Frame(u) BY <1>1, <1>2, AnswerOthers
  <2>4. QED BY <2>1, <2>2, <2>3, FrameSound
<1>3. CASE u = t
  <2>1. /\ pc[u] = "insert" /\ In(sqlq, <<u, pc[u]>>)
        /\ In(ready', u) /\ reply'[u] = "ok"
        /\ \A op \in SqlOps : ~In(sqlq', <<u, op>>)
        /\ UNCHANGED <<pc, outcome, call>>
        /\ Token(u)' /\ Informed(u)'
    BY <1>1, <1>3, AnswerSelf
  <2>2. Sound(u) BY DEF SafeInv
  <2>3. ~In(tx, u) /\ ~In(rows, u) BY <2>1, <2>2 DEF Sound, Once, Written
  <2>4. rows \in Seq(Tasks) /\ tx \in Seq(Tasks) /\ rows \o tx \in Seq(Tasks)
    BY <1>1, ConcatProperties DEF TypeOK
  <2>5. In(tx', u) BY <1>1, <1>3, <2>3, <2>4, PushSelf
  <2>6. Unique(rows' \o tx', u)
    <3>1. rows' \o tx' = Append(rows \o tx, u) BY <1>1, <1>3, <2>4
    <3>2. ~In(rows \o tx, u) BY <2>3, <2>4, InConcat
    <3>3. QED BY <2>4, <3>1, <3>2, PushSelf
  <2>7. Durable(u)' BY <1>1, <2>1, <2>2, <2>5 DEF Durable, Sound, Written, SqlOps
  <2>8. Owned(u)' BY <2>1 DEF Owned
  <2>9. Once(u)' BY <2>1, <2>6 DEF Once, SqlOps
  <2>10. QED BY <2>1, <2>7, <2>8, <2>9 DEF Sound
<1>4. QED BY <1>2, <1>3

\* The answered coroutine of a call that is no insert, or one that failed.
LEMMA NotOwned ==
  ASSUME SafeInv, NEW r \in {"ok", "error"}, sqlq # <<>>, Answer(r),
         NEW u \in Tasks, u = Head(sqlq)[1], pc[u] # "commit"
  PROVE  ~In(tx, u)
<1>1. ~In(ready, u) BY AnswerSelf
<1>2. QED BY <1>1 DEF SafeInv, Sound, Owned

LEMMA SqlSound ==
  ASSUME SafeInv, SqlStep, NEW u \in Tasks
  PROVE  Sound(u)'
<1>1. TypeOK /\ \A x \in Tasks : Sound(x) BY DEF SafeInv
<1>2. CASE Insert BY <1>2, InsertSound
<1>3. CASE InsertBusy
  <2>1. /\ sqlq # <<>> /\ Answer("error") /\ Head(sqlq)[2] = "insert"
        /\ UNCHANGED <<rows, tx, conn>>
    BY <1>3 DEF InsertBusy, Running, Answer
  <2>2. \A x \in Tasks : Store(x) BY <1>1, <2>1, StoreKept
  <2>3. u = Head(sqlq)[1] => pc[u] = "insert" /\ ~In(tx', u)
    BY <2>1, AnswerSelf, NotOwned
  <2>4. QED BY <2>1, <2>2, <2>3, AnswerSound
<1>4. CASE Commit
  <2>1. /\ sqlq # <<>> /\ Answer("ok") /\ Head(sqlq)[2] = "commit" /\ conn = "open"
        /\ rows' = rows \o tx /\ tx' = <<>> /\ conn' = conn
    BY <1>4 DEF Commit, Running, Answer
  <2>2. \A x \in Tasks : Store(x) BY <1>1, <2>1, StoreCommitted
  <2>3. u = Head(sqlq)[1] => pc[u] = "commit" /\ In(rows', u)
    <3>1. SUFFICES ASSUME u = Head(sqlq)[1] PROVE pc[u] = "commit" /\ In(rows', u)
      OBVIOUS
    <3>2. pc[u] = "commit" /\ In(sqlq, <<u, "commit">>) BY <2>1, <3>1, AnswerSelf
    <3>3. Written(u) BY <1>1, <2>1, <3>2 DEF Sound, Durable
    <3>4. rows \in Seq(Tasks) /\ tx \in Seq(Tasks) BY <1>1 DEF TypeOK
    <3>5. QED BY <2>1, <3>2, <3>3, <3>4, InConcat DEF Written
  <2>4. ~In(tx', u) BY <2>1 DEF In
  <2>5. QED BY <2>1, <2>2, <2>3, <2>4, AnswerSound
<1>5. CASE ReadId
  <2>1. /\ sqlq # <<>> /\ Answer("ok") /\ Head(sqlq)[2] \in {"select", "fetch"}
        /\ UNCHANGED <<rows, tx, conn>>
    BY <1>5 DEF ReadId, Query, Running, Answer
  <2>2. \A x \in Tasks : Store(x) BY <1>1, <2>1, StoreKept
  <2>3. u = Head(sqlq)[1] => pc[u] \in {"select", "fetch"} /\ ~In(tx', u)
    BY <2>1, AnswerSelf, NotOwned
  <2>4. QED BY <2>1, <2>2, <2>3, AnswerSound
<1>6. CASE AfterClose
  <2>1. /\ sqlq # <<>> /\ Answer("error") /\ conn = "closed"
        /\ UNCHANGED <<rows, tx, conn>>
    BY <1>6 DEF AfterClose, Answer
  <2>2. \A x \in Tasks : Store(x) BY <1>1, <2>1, StoreKept
  <2>3. ~In(tx', u) BY <2>1 DEF SafeInv, Closed, In
  <2>4. QED BY <2>1, <2>2, <2>3, AnswerSound
<1>7. CASE CloseConnection
  <2>1. Head(sqlq) = <<Main, "close">> /\ sqlq # <<>>
    <3>1. sqlq \in Seq(Calls) /\ sqlq # <<>> /\ Head(sqlq)[2] = "close"
      BY <1>1, <1>7 DEF CloseConnection, Running, TypeOK, Calls
    <3>2. Head(sqlq) \in Calls BY <3>1, HeadTail
    <3>3. QED BY <3>1, <3>2 DEF Calls, SqlOps
  <2>2. /\ UNCHANGED <<pc, reply, rows, outcome, call>>
        /\ ready' = Append(ready, Main) /\ sqlq' = Tail(sqlq)
        /\ conn' = "closed" /\ tx' = <<>>
    BY <1>7 DEF CloseConnection, notifierVars
  <2>3. Unique(ready, u) /\ \A op \in SqlOps : Unique(sqlq, <<u, op>>)
    BY <1>1 DEF Sound, Token
  <2>4. Main # u /\ Main \in Callbacks BY EventBusAssumption DEF Callbacks
  <2>5. (In(ready', u) <=> In(ready, u)) /\ Unique(ready', u)
    BY <1>1, <2>2, <2>3, <2>4, ReadyOther
  <2>6. ASSUME NEW op \in SqlOps
        PROVE  (In(sqlq', <<u, op>>) <=> In(sqlq, <<u, op>>)) /\ Unique(sqlq', <<u, op>>)
    <3>1. Head(sqlq) # <<u, op>> BY <2>1, <2>4
    <3>2. QED BY <1>1, <2>1, <2>2, <2>3, <3>1, SqlOther
  <2>7. Frame(u) BY <2>2, <2>5, <2>6 DEF Frame
  <2>8. Store(u) BY <1>1, <2>2, StoreClosed
  <2>9. QED BY <1>1, <2>7, <2>8, FrameSound
<1>8. QED BY <1>2, <1>3, <1>4, <1>5, <1>6, <1>7 DEF SqlStep
-----------------------------------------------------------------------------
\* Steps of run(), of the clock and of the dashboard, and the end.
LEMMA RunSound ==
  ASSUME SafeInv, NEW u \in Tasks,
         BeginShutdown \/ StopAllDone \/ NotifierClosed \/ DatabaseClosed \/ Environment
  PROVE  Sound(u)'
<1>1. /\ TypeOK /\ Sound(u)
      /\ Unique(ready, u) /\ \A op \in SqlOps : Unique(sqlq, <<u, op>>)
  BY DEF SafeInv, Sound, Token
<1>2. Main # u /\ Main \in Callbacks BY EventBusAssumption DEF Callbacks
<1>3. UNCHANGED <<pc, reply, conn, tx, rows, outcome>>
  BY DEF BeginShutdown, StopAllDone, NotifierClosed, DatabaseClosed, Environment, busVars
<1>4. call' = call
  BY DEF BeginShutdown, StopAllDone, NotifierClosed, DatabaseClosed, Environment,
         notifierVars, N!BeginClose, N!EndClose, N!SetClock, N!ConfigureNotifier
<1>5. (In(ready', u) <=> In(ready, u)) /\ Unique(ready', u)
  <2>1. CASE DatabaseClosed
    BY <1>1, <1>2, <2>1, ReadyOther DEF DatabaseClosed, Turn
  <2>2. CASE ~DatabaseClosed
    <3>1. ready' = ready
      BY <2>2 DEF BeginShutdown, StopAllDone, NotifierClosed, Environment, busVars
    <3>2. QED BY <1>1, <3>1
  <2>3. QED BY <2>1, <2>2
<1>6. ASSUME NEW op \in SqlOps
      PROVE  (In(sqlq', <<u, op>>) <=> In(sqlq, <<u, op>>)) /\ Unique(sqlq', <<u, op>>)
  <2>1. CASE sqlq' = sqlq BY <1>1, <2>1
  <2>2. CASE sqlq' = Append(sqlq, <<Main, "close">>)
    <3>1. <<Main, "close">> \in Calls \ {<<u, op>>} BY <1>2 DEF Calls
    <3>2. QED BY <1>1, <2>2, <3>1, SqlOther
  <2>3. QED BY <2>1, <2>2
    DEF BeginShutdown, StopAllDone, NotifierClosed, DatabaseClosed, Environment, busVars,
        CloseDatabase
<1>7. Frame(u) BY <1>3, <1>4, <1>5, <1>6 DEF Frame
<1>8. Store(u) BY <1>1, <1>3, StoreKept
<1>9. QED BY <1>1, <1>7, <1>8, FrameSound

LEMMA AbandonSound ==
  ASSUME SafeInv, NEW end \in Gone, Abandon(end), NEW u \in Tasks
  PROVE  Sound(u)'
<1>1. TypeOK /\ Sound(u) BY DEF SafeInv
<1>2. /\ ready' = <<>> /\ sqlq' = <<>> /\ tx' = <<>> /\ conn' = "closed"
      /\ UNCHANGED <<rows, outcome, call>>
  BY DEF Abandon, notifierVars
<1>3. pc'[u] \in Final \cup {"idle"} /\ (pc'[u] = "idle" => pc[u] = "idle")
  BY <1>1 DEF Abandon, Fate, Final, TypeOK
<1>4. \A x : ~In(ready', x) /\ ~In(sqlq', x) /\ ~In(tx', x) BY <1>2 DEF In
<1>5. Store(u) BY <1>1, <1>2, StoreClosed
<1>6. Token(u)' BY <1>4, AbsentUnique DEF Token
<1>7. Durable(u)' BY <1>1, <1>2, <1>4 DEF Durable, Sound
<1>8. Owned(u)' BY <1>4 DEF Owned
<1>9. Once(u)' BY <1>1, <1>3, <1>4, <1>5 DEF Once, Sound, Store, Written, Final
<1>10. Informed(u)' BY <1>1, <1>2, <1>3 DEF Informed, Sound, Final
<1>11. QED BY <1>6, <1>7, <1>8, <1>9, <1>10 DEF Sound

LEMMA TaskSound ==
  ASSUME SafeInv, NEW t \in Tasks, NEW u \in Tasks,
         Dispatch(t) \/ CreatePosted(t) \/ CallDatabase(t) \/ Notify(t)
           \/ PostReturns(t) \/ Finish(t)
  PROVE  Sound(u)'
<1>1. CASE u # t BY <1>1, OthersFramed
<1>2. CASE u = t
  BY <1>2, DispatchSound, CreatePostedSound, CallDatabaseSound, NotifySound,
     PostReturnsSound, FinishSound
<1>3. QED BY <1>1, <1>2

\* A closed connection stays closed, and nobody tells run() too early.
LEMMA ClosedKept ==
  ASSUME TypeOK, Closed, [Next]_vars
  PROVE  Closed'
<1>1. ready \in Seq(Callbacks) /\ Main \in Callbacks BY DEF TypeOK, Callbacks
<1>2. /\ conn = "closed" => tx = <<>>
      /\ main = "closed" => conn = "closed"
      /\ In(ready, Main) => conn = "closed"
  BY DEF Closed
<1>3. ASSUME NEW t \in Tasks
      PROVE  /\ In(Append(ready, t), Main) => In(ready, Main)
             /\ ready # <<>> /\ In(Tail(ready), Main) => In(ready, Main)
             /\ ready # <<>> /\ In(Append(Tail(ready), t), Main) => In(ready, Main)
  <2>1. t \in Callbacks /\ t # Main BY EventBusAssumption DEF Callbacks
  <2>2. In(Append(ready, t), Main) => In(ready, Main) BY <1>1, <2>1, PushOther
  <2>3. ready # <<>> /\ In(Tail(ready), Main) => In(ready, Main) BY <1>1, PopIn
  <2>4. ASSUME ready # <<>>, In(Append(Tail(ready), t), Main) PROVE In(ready, Main)
    <3>1. Tail(ready) \in Seq(Callbacks) BY <1>1, <2>4, HeadTail
    <3>2. In(Tail(ready), Main) BY <2>1, <2>4, <3>1, PushOther
    <3>3. QED BY <2>3, <2>4, <3>2
  <2>5. QED BY <2>2, <2>3, <2>4
<1>4. CASE UNCHANGED vars BY <1>2, <1>4 DEF vars, busVars, Closed
<1>5. ASSUME NEW t \in Tasks,
             Dispatch(t) \/ CreatePosted(t) \/ CallDatabase(t) \/ Notify(t)
               \/ PostReturns(t) \/ Finish(t)
      PROVE  Closed'
  <2>1. UNCHANGED <<conn, tx, main>>
    BY <1>5 DEF Dispatch, CreatePosted, CallDatabase, Notify, PostReturns, Finish
  <2>2. In(ready', Main) => In(ready, Main)
    BY <1>3, <1>5
       DEF Dispatch, CreatePosted, CallDatabase, Notify, PostReturns, Finish, Turn
  <2>3. QED BY <1>2, <2>1, <2>2 DEF Closed
<1>6. CASE SqlStep
  <2>1. CASE CloseConnection BY <2>1 DEF CloseConnection, Closed
  <2>2. CASE AfterClose BY <1>2, <2>2 DEF AfterClose, Answer, Closed
  <2>3. CASE Insert \/ InsertBusy \/ Commit \/ ReadId
    <3>1. /\ conn = "open" /\ conn' = conn /\ main' = main
          /\ ready' = Append(ready, Head(sqlq)[1])
      BY <2>3 DEF Insert, InsertBusy, Commit, ReadId, Query, Running, Answer
    <3>2. Head(sqlq)[1] \in Tasks
      BY <2>3, TaskCall DEF Insert, InsertBusy, Commit, ReadId, Query, SqlOps
    <3>3. In(ready', Main) => In(ready, Main) BY <1>3, <3>1, <3>2
    <3>4. QED BY <1>2, <3>1, <3>3 DEF Closed
  <2>4. QED BY <1>6, <2>1, <2>2, <2>3 DEF SqlStep
<1>7. CASE BeginShutdown \/ StopAllDone \/ NotifierClosed
  BY <1>2, <1>7 DEF BeginShutdown, StopAllDone, NotifierClosed, CloseDatabase, Closed
<1>8. CASE DatabaseClosed
  <2>1. ready # <<>> /\ Head(ready) = Main BY <1>8 DEF DatabaseClosed, Turn
  <2>2. In(ready, Main)
    <3>1. Len(ready) \in Nat \ {0} /\ Head(ready) = ready[1] BY <1>1, <2>1, HeadTailProperties
    <3>2. QED BY <2>1, <3>1 DEF In
  <2>3. QED BY <1>2, <1>8, <2>2 DEF DatabaseClosed, Closed
<1>9. CASE Exit \/ Crash BY <1>9 DEF Exit, Crash, Abandon, Closed, In
<1>10. CASE Environment BY <1>2, <1>10 DEF Environment, busVars, Closed
<1>11. QED BY <1>4, <1>5, <1>6, <1>7, <1>8, <1>9, <1>10 DEF Next, LoopStep, ShutdownStep

\* Only send and the end of a POST change what a caller waits for.
LEMMA CallKept ==
  ASSUME CallTyped, [Next]_vars
  PROVE  CallTyped'
<1>1. CASE call' = call BY <1>1 DEF CallTyped
<1>2. ASSUME NEW t \in Tasks, Notify(t) PROVE CallTyped'
  <2>1. CASE UNCHANGED notifierVars BY <1>1, <2>1 DEF notifierVars
  <2>2. CASE ~Muted(t) /\ N!Send(t, KeyOf(t))
    <3>1. KeyOf(t) \in Keys BY <2>2, KeyOfTask
    <3>2. QED BY <2>2, <3>1
      DEF N!Send, N!Refuse, N!Suppress, N!StartPost, N!Verdicts, CallTyped
  <2>3. QED BY <1>2, <2>1, <2>2 DEF Notify
<1>3. ASSUME NEW t \in Tasks, PostReturns(t) PROVE CallTyped'
  BY <1>3 DEF PostReturns, N!PostReturns, N!Verdicts, CallTyped
<1>4. CASE ~\E t \in Tasks : Notify(t) \/ PostReturns(t)
  <2>1. call' = call
    BY <1>4 DEF Next, LoopStep, SqlStep, ShutdownStep, vars, notifierVars, Dispatch,
                CreatePosted, CallDatabase, Finish, DatabaseClosed, Insert, InsertBusy,
                Commit, ReadId, AfterClose, CloseConnection, Answer, BeginShutdown,
                StopAllDone, NotifierClosed, Exit, Crash, Abandon, Environment,
                N!BeginClose, N!EndClose, N!SetClock, N!ConfigureNotifier
  <2>2. QED BY <1>1, <2>1
<1>5. QED BY <1>2, <1>3, <1>4

LEMMA SafeStart == Init => CallTyped /\ Closed /\ \A t \in Tasks : Sound(t)
<1> SUFFICES ASSUME Init PROVE CallTyped /\ Closed /\ \A t \in Tasks : Sound(t)
  OBVIOUS
<1>1. \A x : ~In(ready, x) /\ ~In(sqlq, x) /\ ~In(tx, x) /\ ~In(rows, x)
  BY DEF Init, In
<1>2. \A x : Unique(rows \o tx, x) BY DEF Init, Unique
<1>3. CallTyped /\ \A t \in Tasks : call[t].state = "idle"
  BY DEF Init, N!NotifierInit, N!NotCalling, CallTyped
<1>4. Closed BY <1>1 DEF Init, Closed
<1>5. ASSUME NEW t \in Tasks PROVE Sound(t)
  <2>1. pc[t] = "idle" /\ outcome[t] = "pending" BY DEF Init
  <2>2. QED BY <1>1, <1>2, <1>3, <2>1, AbsentUnique
    DEF Sound, Token, Durable, Owned, Once, Informed, Written
<1>6. QED BY <1>3, <1>4, <1>5

\* The strengthening is inductive.
LEMMA SafeAlways == Spec => []SafeInv
<1>1. ASSUME SafeInv, [Next]_vars, NEW u \in Tasks PROVE Sound(u)'
  <2>1. CASE UNCHANGED vars
    <3>1. Sound(u) BY <1>1 DEF SafeInv
    <3>2. QED BY <2>1, <3>1
      DEF vars, busVars, notifierVars, Sound, Token, Durable, Owned, Once, Informed, Written
  <2>2. CASE \E t \in Tasks : Dispatch(t) \/ PostReturns(t) BY <1>1, <2>2, TaskSound
  <2>3. CASE LoopStep BY <1>1, <2>3, TaskSound, RunSound DEF LoopStep
  <2>4. CASE SqlStep BY <1>1, <2>4, SqlSound
  <2>5. CASE BeginShutdown \/ Environment BY <1>1, <2>5, RunSound
  <2>6. CASE ShutdownStep
    BY <1>1, <2>6, RunSound, AbandonSound DEF ShutdownStep, Exit, Gone
  <2>7. CASE Crash BY <1>1, <2>7, AbandonSound DEF Crash, Gone
  <2>8. QED BY <1>1, <2>1, <2>2, <2>3, <2>4, <2>5, <2>6, <2>7 DEF Next
<1> DEFINE Rest == CallTyped /\ Closed /\ \A t \in Tasks : Sound(t)
<1>2. TypeOK /\ Rest /\ [Next]_vars => Rest'
  <2> SUFFICES ASSUME TypeOK, Rest, [Next]_vars PROVE Rest'
    OBVIOUS
  <2>1. SafeInv BY DEF SafeInv
  <2>2. \A u \in Tasks : Sound(u)' BY <1>1, <2>1
  <2>3. QED BY <2>2, ClosedKept, CallKept
<1>3. Init => Rest BY SafeStart
<1>4. TypeOK /\ Rest => SafeInv BY DEF SafeInv
<1> HIDE DEF Rest
<1>5. QED BY <1>2, <1>3, <1>4, TypeCorrect, PTL DEF Spec
-----------------------------------------------------------------------------
(* The messages and what silences them.  The history of the notifier is    *)
(* kept by key, told by interaction: ToldInv ties the two together.        *)
Keyed(t) == Job[t].kind # "session"

LEMMA KeysAlike ==
  ASSUME NEW t \in Tasks, NEW u \in Tasks, Keyed(t)
  PROVE  /\ Alike(t, u) => Keyed(u) /\ KeyOf(t) = KeyOf(u)
         /\ Keyed(u) /\ KeyOf(t) = KeyOf(u) => Alike(t, u)
<1>1. Job[t].kind \in Kinds /\ Job[u].kind \in Kinds BY EventBusAssumption
<1>2. QED BY <1>1 DEF Keyed, KeyOf, Alike, Kinds

\* An interaction with a message has used its send, and its message is one
\* of those of its key.
Placed(t) ==
  told[t] # 0 =>
    /\ Keyed(t) /\ call[t].state # "idle"
    /\ Cooldown > 0 => \E i \in 1..Len(granted[KeyOf(t)]) : granted[KeyOf(t)][i] = told[t]

\* The grant at of key k is the message of an interaction.
Sender(k, at) == \E t \in Tasks : Keyed(t) /\ KeyOf(t) = k /\ told[t] = at

ToldInv ==
  /\ \A t \in Tasks : Placed(t)
  /\ Cooldown > 0 =>
       \A k \in Keys : \A i \in 1..Len(granted[k]) : Sender(k, granted[k][i])
  /\ AlikeSpaced

\* t starts its POST.
Starts(t) ==
  /\ ~Muted(t) /\ call[t].state = "idle"
  /\ N!StartPost(t, KeyOf(t))
  /\ told' = [told EXCEPT ![t] = clock]

\* t is told that a message of its key was sent just now.
Silenced(t) == ~Muted(t) /\ call[t].state = "idle" /\ N!Suppress(t, KeyOf(t))

Quiet ==
  /\ UNCHANGED <<told, granted>>
  /\ \A t \in Tasks : /\ call[t].state # "idle" => call'[t].state # "idle"
                      /\ call'[t].state = "suppressed" =>
                           call[t].state = "suppressed" \/ Silenced(t)

LEMMA MessageSteps ==
  ASSUME TypeOK, CallTyped, [Next]_vars
  PROVE  Quiet \/ \E t \in Tasks : Starts(t)
<1>1. CASE UNCHANGED <<told, granted, call>> BY <1>1 DEF Quiet
<1>2. ASSUME NEW t \in Tasks, Notify(t) PROVE Quiet \/ Starts(t)
  <2>1. CASE UNCHANGED <<told, notifierVars>> BY <2>1 DEF notifierVars, Quiet
  <2>2. CASE ~Muted(t) /\ N!Send(t, KeyOf(t)) /\ Posts(t)
    <3>1. call[t].state = "idle" BY <2>2 DEF N!Send
    <3>2. CASE N!Refuse(t, KeyOf(t))
      BY <2>2, <3>1, <3>2 DEF N!Refuse, Posts, Quiet, CallTyped
    <3>3. CASE N!Suppress(t, KeyOf(t))
      BY <2>2, <3>1, <3>3 DEF N!Suppress, Posts, Quiet, Silenced, CallTyped
    <3>4. CASE N!StartPost(t, KeyOf(t))
      BY <2>2, <3>1, <3>4 DEF N!StartPost, Posts, Starts, CallTyped
    <3>5. QED BY <2>2, <3>2, <3>3, <3>4 DEF N!Send
  <2>3. QED BY <1>2, <2>1, <2>2 DEF Notify
<1>3. ASSUME NEW t \in Tasks, PostReturns(t) PROVE Quiet
  BY <1>3 DEF PostReturns, N!PostReturns, Quiet, CallTyped
<1>4. CASE ~\E t \in Tasks : Notify(t) \/ PostReturns(t)
  <2>1. UNCHANGED <<told, granted, call>>
    BY <1>4 DEF Next, LoopStep, SqlStep, ShutdownStep, vars, notifierVars, Dispatch,
                CreatePosted, CallDatabase, Finish, DatabaseClosed, Insert, InsertBusy,
                Commit, ReadId, AfterClose, CloseConnection, Answer, BeginShutdown,
                StopAllDone, NotifierClosed, Exit, Crash, Abandon, Environment, busVars,
                N!BeginClose, N!EndClose, N!SetClock, N!ConfigureNotifier
  <2>2. QED BY <1>1, <2>1
<1>5. QED BY <1>2, <1>3, <1>4

\* A key that is free for the table is a cooldown past all its grants.
LEMMA GrantFree ==
  ASSUME NP!SpacedInv, NEW t \in Tasks, Starts(t), Cooldown > 0
  PROVE  /\ KeyOf(t) \in Keys
         /\ granted' = [granted EXCEPT ![KeyOf(t)] = Append(@, clock)]
         /\ \A i \in 1..Len(granted[KeyOf(t)]) : clock - granted[KeyOf(t)][i] >= Cooldown
<1> DEFINE k == KeyOf(t)
<1>1. k \in Keys /\ k # NoKey BY KeyOfTask, BusNotifierAssumption DEF Starts
<1>2. N!Limited(k) BY <1>1 DEF N!Limited
<1>3. ~NP!TooSoon(k) BY <1>2 DEF Starts, N!StartPost, N!TooSoon, NP!TooSoon
<1>4. NP!RL!Free(k, clock) BY <1>1, <1>3, NotifierFits, NP!TableDecides
<1>5. QED BY <1>1, <1>2, <1>4 DEF Starts, N!StartPost, NP!RL!Free

LEMMA StartKeepsTold ==
  ASSUME TypeOK, CallTyped, NP!SpacedInv, ToldInv, NEW t \in Tasks, Starts(t)
  PROVE  ToldInv'
<1> DEFINE k == KeyOf(t)
           g == granted[k]
<1>1. /\ clock \in Time /\ Time \subseteq Nat /\ Cooldown \in Nat
      /\ granted \in [Keys -> Seq(Time)]
  BY BusNotifierAssumption DEF NP!SpacedInv, NP!NotifierTypeOK
<1>2. /\ told \in [Tasks -> Time \cup {0}]
      /\ told' = [told EXCEPT ![t] = clock]
      /\ Keyed(t) /\ told[t] = 0
  BY DEF TypeOK, Starts, Muted, Keyed, ToldInv, Placed
<1>3. /\ call'[t].state = "posting"
      /\ \A u \in Tasks \ {t} : call'[u] = call[u]
  BY DEF Starts, N!StartPost, CallTyped
<1>4. CASE Cooldown = 0
  <2>1. \A u \in Tasks : Placed(u)'
    BY <1>2, <1>3, <1>4 DEF ToldInv, Placed, Keyed
  <2>2. \A u \in Tasks : told'[u] \in Nat
    <3>1. told' \in [Tasks -> Time \cup {0}] BY <1>1, <1>2
    <3>2. \A u \in Tasks : told'[u] \in Time \cup {0} BY <3>1
    <3>3. \A c \in Time \cup {0} : c \in Nat BY BusNotifierAssumption
    <3> HIDE DEF k, g
    <3>4. QED BY <3>2, <3>3
  <2>3. AlikeSpaced' BY <1>4, <2>2 DEF AlikeSpaced
  <2>4. QED BY <1>4, <2>1, <2>3 DEF ToldInv
<1>5. CASE Cooldown > 0
  <2>1. /\ k \in Keys
        /\ granted' = [granted EXCEPT ![k] = Append(g, clock)]
        /\ \A i \in 1..Len(g) : clock - g[i] >= Cooldown
    BY <1>5, GrantFree
  <2>2. /\ g \in Seq(Time) /\ Len(g) \in Nat
        /\ Len(Append(g, clock)) = Len(g) + 1
        /\ Append(g, clock)[Len(g) + 1] = clock
        /\ \A i \in 1..Len(g) : Append(g, clock)[i] = g[i]
    BY <1>1, <2>1, AppendProperties
  <2>3. granted'[k] = Append(g, clock) /\ \A l \in Keys \ {k} : granted'[l] = granted[l]
    BY <1>1, <2>1
  <2>4. ASSUME NEW u \in Tasks PROVE Placed(u)'
    <3>1. CASE u = t
      <4>1. Len(g) + 1 \in 1..Len(granted'[k]) /\ granted'[k][Len(g) + 1] = told'[t]
        BY <1>2, <2>2, <2>3
      <4>2. QED BY <1>2, <1>3, <3>1, <4>1 DEF Placed, Keyed
    <3>2. CASE u # t
      <4>1. SUFFICES ASSUME told[u] # 0
                     PROVE  \E i \in 1..Len(granted'[KeyOf(u)]) : granted'[KeyOf(u)][i] = told[u]
        BY <1>2, <1>3, <3>2 DEF ToldInv, Placed, Keyed
      <4>2. PICK i \in 1..Len(granted[KeyOf(u)]) : granted[KeyOf(u)][i] = told[u]
        BY <1>5, <4>1 DEF ToldInv, Placed
      <4>3. Keyed(u) /\ KeyOf(u) \in Keys BY <4>1 DEF ToldInv, Placed, Keyed, Keys
      <4>4. CASE KeyOf(u) = k BY <2>2, <2>3, <4>2, <4>4
      <4>5. CASE KeyOf(u) # k BY <2>3, <4>2, <4>3, <4>5
      <4>6. QED BY <4>4, <4>5
    <3>3. QED BY <3>1, <3>2
  <2>5. ASSUME NEW l \in Keys, NEW i \in 1..Len(granted'[l])
        PROVE  Sender(l, granted[l][i])'
    <3>1. CASE l = k /\ i = Len(g) + 1
      BY <1>2, <2>2, <2>3, <3>1 DEF Sender, Keyed
    <3>2. CASE ~(l = k /\ i = Len(g) + 1)
      <4>1. i \in 1..Len(granted[l]) /\ granted'[l][i] = granted[l][i]
        BY <2>2, <2>3, <3>2
      <4>2. PICK u \in Tasks : Keyed(u) /\ KeyOf(u) = l /\ told[u] = granted[l][i]
        BY <1>5, <4>1 DEF ToldInv, Sender
      <4>3. granted[l][i] \in Time BY <1>1, <4>1, ElementOfSeq
      <4>4. u # t BY <1>2, <1>5, <4>2, <4>3, BusNotifierAssumption
      <4>5. told'[u] = granted'[l][i] BY <1>2, <4>1, <4>2, <4>4
      <4>6. QED BY <4>2, <4>5 DEF Sender, Keyed
    <3>3. QED BY <3>1, <3>2
  <2>6. ASSUME NEW u \in Tasks, u # t, Alike(t, u), told[u] # 0
        PROVE  clock - told[u] >= Cooldown
    <3>1. KeyOf(u) = k BY <1>2, <2>6, KeysAlike
    <3>2. PICK i \in 1..Len(g) : g[i] = told[u]
      BY <1>5, <2>6, <3>1 DEF ToldInv, Placed
    <3>3. QED BY <2>1, <3>2
  <2>7. AlikeSpaced'
    <3> SUFFICES ASSUME NEW a \in Tasks, NEW b \in Tasks, a # b, Alike(a, b),
                        told'[a] # 0, told'[b] # 0
                 PROVE  told'[a] - told'[b] >= Cooldown \/ told'[b] - told'[a] >= Cooldown
      BY DEF AlikeSpaced, Alike
    <3>1. CASE a = t BY <1>2, <2>6, <3>1
    <3>2. CASE b = t
      <4>1. Alike(t, a) BY <3>2 DEF Alike
      <4>2. QED BY <1>2, <2>6, <3>2, <4>1
    <3>3. CASE a # t /\ b # t BY <1>2, <3>3 DEF ToldInv, AlikeSpaced
    <3>4. QED BY <3>1, <3>2, <3>3
  <2>8. QED BY <2>4, <2>5, <2>7 DEF ToldInv
<1>6. QED BY <1>1, <1>4, <1>5

LEMMA ToldAlways == Spec => []ToldInv
<1>1. Init => ToldInv
  BY BusNotifierAssumption
  DEF Init, N!NotifierInit, ToldInv, Placed, AlikeSpaced
<1>2. ASSUME SafeInv, NP!SpacedInv, ToldInv, [Next]_vars PROVE ToldInv'
  <2>1. TypeOK /\ CallTyped BY <1>2 DEF SafeInv
  <2>2. CASE Quiet
    <3>1. \A u \in Tasks : Placed(u)' BY <1>2, <2>2 DEF Quiet, ToldInv, Placed, Keyed
    <3>2. QED BY <1>2, <2>2, <3>1
      DEF Quiet, ToldInv, Sender, Keyed, AlikeSpaced
  <2>3. QED BY <1>2, <2>1, <2>2, MessageSteps, StartKeepsTold
<1>3. QED BY <1>1, <1>2, SafeAlways, NotifierSound, PTL DEF Spec

\* Messages about alike interactions start a cooldown apart, for every set of
\* coroutines and every mix of jobs.
THEOREM AlikeMessagesSpaced == Spec => []AlikeSpaced
<1>1. ToldInv => AlikeSpaced BY DEF ToldInv
<1>2. QED BY <1>1, ToldAlways, PTL

\* An interaction is silenced only by one alike, less than a cooldown ago.
THEOREM OnlyAlikeSilences == Spec => SilencedByAlike
<1> DEFINE Justified(t) ==
      call'[t].state = "suppressed" /\ call[t].state # "suppressed" =>
        \E u \in Tasks \ {t} : Alike(t, u) /\ told[u] # 0 /\ clock - told[u] < Cooldown
<1>1. ASSUME SafeInv, NP!SpacedInv, ToldInv, [Next]_vars, NEW t \in Tasks,
             call'[t].state = "suppressed", call[t].state # "suppressed"
      PROVE  \E u \in Tasks \ {t} : Alike(t, u) /\ told[u] # 0 /\ clock - told[u] < Cooldown
  <2> DEFINE k == KeyOf(t)
             g == granted[k]
  <2>1. TypeOK /\ CallTyped BY <1>1 DEF SafeInv
  <2>2. Silenced(t)
    <3>1. ASSUME NEW s \in Tasks, Starts(s) PROVE FALSE
      BY <1>1, <2>1, <3>1 DEF Starts, N!StartPost, CallTyped
    <3>2. QED BY <1>1, <2>1, <3>1, MessageSteps DEF Quiet
  <2>3. k \in Keys /\ Keyed(t) BY <2>2, KeyOfTask DEF Silenced, Muted, Keyed
  <2>4. Cooldown > 0 /\ clock - lastSent[k] < Cooldown
    BY <2>2 DEF Silenced, N!Suppress, N!Limited, N!TooSoon
  <2>5. clock \in Time /\ granted \in [Keys -> Seq(Time)]
    BY <1>1 DEF NP!SpacedInv, NP!NotifierTypeOK
  <2>6. clock \in Nat /\ clock >= Cooldown /\ Cooldown \in Nat
    BY <2>5, BusNotifierAssumption
  <2>7. lastSent[k] = IF g = <<>> THEN 0 ELSE g[Len(g)]
    BY <1>1, <2>3 DEF NP!SpacedInv, NP!TableIsLastGrant
  <2>8. g # <<>> BY <2>4, <2>6, <2>7
  <2>9. g \in Seq(Time) /\ Len(g) \in 1..Len(g) BY <2>3, <2>5, <2>8
  <2>10. PICK u \in Tasks : Keyed(u) /\ KeyOf(u) = k /\ told[u] = g[Len(g)]
    BY <1>1, <2>3, <2>4, <2>9 DEF ToldInv, Sender
  <2>11. told[u] # 0 BY <2>4, <2>9, <2>10, ElementOfSeq, BusNotifierAssumption
  <2>12. u # t BY <1>1, <2>2, <2>11 DEF ToldInv, Placed, Silenced
  <2>13. Alike(t, u) BY <2>3, <2>10, KeysAlike
  <2>14. QED BY <2>4, <2>7, <2>8, <2>10, <2>11, <2>12, <2>13
<1>2. SafeInv /\ NP!SpacedInv /\ ToldInv /\ [Next]_vars
        => [\A t \in Tasks : Justified(t)]_vars
  BY <1>1
<1>3. QED BY <1>2, SafeAlways, NotifierSound, ToldAlways, PTL DEF Spec, SilencedByAlike
-----------------------------------------------------------------------------
LEMMA InRange ==
  ASSUME NEW S, NEW q \in Seq(S), NEW x
  PROVE  x \in Range(q) <=> In(q, x)
BY RangeEquality DEF In

\* What a coroutine was told is recorded is on disk, for any number of
\* coroutines in one transaction, with a busy database, a close or a crash.
THEOREM RecordedDurable == Spec => []RecordedIsDurable
<1>1. SafeInv => RecordedIsDurable
  <2> SUFFICES ASSUME SafeInv, NEW t \in Tasks, outcome[t] = "recorded"
               PROVE  t \in Range(rows)
    BY DEF RecordedIsDurable
  <2>1. In(rows, t) BY DEF SafeInv, Sound, Durable
  <2>2. QED BY <2>1, InRange DEF SafeInv, TypeOK
<1>2. QED BY <1>1, SafeAlways, PTL

\* No insert waits in the shared transaction for somebody to commit it.
THEOREM NoOrphan == Spec => []NoOrphanInsert
<1>1. SafeInv => NoOrphanInsert
  <2> SUFFICES ASSUME SafeInv, NEW t \in Range(tx) PROVE pc[t] \in {"insert", "commit"}
    BY DEF NoOrphanInsert
  <2>1. tx \in Seq(Tasks) BY DEF SafeInv, TypeOK
  <2>2. t \in Tasks /\ In(tx, t) BY <2>1, RangeOfSeq, InRange
  <2>3. QED BY <2>2 DEF SafeInv, Sound, Owned
<1>2. QED BY <1>1, SafeAlways, PTL

\* A message is sent about what is on disk or known to have failed.
THEOREM RecordedBeforeNotified == Spec => []RecordBeforeNotify
<1>1. SafeInv => RecordBeforeNotify
  <2> SUFFICES ASSUME SafeInv, NEW t \in Tasks, call[t].state # "idle",
                      outcome[t] # "failed"
               PROVE  outcome[t] = "recorded" /\ t \in Range(rows)
    BY DEF RecordBeforeNotify
  <2>1. outcome[t] = "recorded" BY DEF SafeInv, Sound, Informed
  <2>2. In(rows, t) BY <2>1 DEF SafeInv, Sound, Durable
  <2>3. QED BY <2>1, <2>2, InRange DEF SafeInv, TypeOK
<1>2. QED BY <1>1, SafeAlways, PTL
-----------------------------------------------------------------------------
(* Rows of one context are committed in the order of their dispatch: the   *)
(* coroutine dispatched first is first in the loop, in the queue of the    *)
(* database thread and in the transaction.                                 *)
Entering == {"posted", "created"}

\* Its insert has still to run.
Pending(t) == pc[t] \in Entering \/ In(sqlq, <<t, "insert">>)

Known(t) ==
  /\ pc[t] = "idle" <=> ~In(order, t)
  /\ pc[t] \in Entering => In(ready, t)
  /\ pc[t] = "posted" => Job[t].from = "thread"

\* u, dispatched after t from the same context, does not get past it.
Behind(t, u) ==
  /\ pc[t] = "posted" => pc[u] \in {"posted"} \cup Final
  /\ pc[t] = "created" => pc[u] \in Entering \cup Final
  /\ pc[t] \in Entering /\ pc[t] = pc[u] => Ahead(ready, t, u)
  /\ Ahead(sqlq, <<t, "insert">>, <<u, "insert">>)
  /\ Pending(t) => ~Written(u)
  /\ Ahead(rows \o tx, t, u)

Follows(t, u) == t # u /\ Job[t].from = Job[u].from /\ Before(order, t, u)

LineInv == /\ SafeInv
           /\ \A t \in Tasks : Known(t)
           /\ \A t, u \in Tasks : Follows(t, u) => Behind(t, u)

\* The two queues keep their order.
LEMMA ReadyAhead ==
  ASSUME TypeOK, NEW t \in Tasks, NEW u \in Tasks, t # u, Ahead(ready, t, u),
         NEW e \in Callbacks, e # t
  PROVE  /\ Ahead(Append(ready, e), t, u)
         /\ ready # <<>> => /\ Ahead(Tail(ready), t, u)
                            /\ Ahead(Append(Tail(ready), e), t, u)
<1>1. ready \in Seq(Callbacks) BY DEF TypeOK, Callbacks
<1>2. Ahead(Append(ready, e), t, u) BY <1>1, AheadPush
<1>3. ASSUME ready # <<>>
      PROVE  Ahead(Tail(ready), t, u) /\ Ahead(Append(Tail(ready), e), t, u)
  <2>1. Tail(ready) \in Seq(Callbacks) BY <1>1, <1>3, HeadTail
  <2>2. Ahead(Tail(ready), t, u) BY <1>1, <1>3, AheadPop
  <2>3. QED BY <2>1, <2>2, AheadPush
<1>4. QED BY <1>2, <1>3

LEMMA SqlAhead ==
  ASSUME TypeOK, NEW t \in Tasks, NEW u \in Tasks, t # u,
         Ahead(sqlq, <<t, "insert">>, <<u, "insert">>)
  PROVE  /\ \A c \in Calls \ {<<t, "insert">>} :
              Ahead(Append(sqlq, c), <<t, "insert">>, <<u, "insert">>)
         /\ sqlq # <<>> => Ahead(Tail(sqlq), <<t, "insert">>, <<u, "insert">>)
<1>1. sqlq \in Seq(Calls) /\ <<t, "insert">> # <<u, "insert">> BY DEF TypeOK, Calls
<1>2. ASSUME NEW c \in Calls \ {<<t, "insert">>}
      PROVE  Ahead(Append(sqlq, c), <<t, "insert">>, <<u, "insert">>)
  BY <1>1, AheadPush
<1>3. ASSUME sqlq # <<>> PROVE Ahead(Tail(sqlq), <<t, "insert">>, <<u, "insert">>)
  BY <1>1, <1>3, AheadPop
<1>4. QED BY <1>2, <1>3

\* A commit writes the transaction behind the rows, a close forgets it.
LEMMA StoreAhead ==
  ASSUME TypeOK, NEW t \in Tasks, NEW u \in Tasks, Ahead(rows \o tx, t, u),
         \/ rows' = rows /\ tx' = tx
         \/ rows' = rows \o tx /\ tx' = <<>>
         \/ rows' = rows /\ tx' = <<>>
  PROVE  Ahead(rows' \o tx', t, u) /\ (Written(u)' => Written(u))
<1>1. rows \in Seq(Tasks) /\ tx \in Seq(Tasks) /\ rows \o tx \in Seq(Tasks)
  BY ConcatProperties DEF TypeOK
<1>2. CASE rows' = rows /\ tx' = tx BY <1>2 DEF Written
<1>3. CASE rows' = rows \o tx /\ tx' = <<>>
  <2>1. rows' \o tx' = rows \o tx BY <1>1, <1>3, ConcatEmptySeq
  <2>2. In(rows', u) <=> In(rows, u) \/ In(tx, u) BY <1>1, <1>3, InConcat
  <2>3. ~In(tx', u) BY <1>3 DEF In
  <2>4. QED BY <2>1, <2>2, <2>3 DEF Written
<1>4. CASE rows' = rows /\ tx' = <<>>
  <2>1. rows' \o tx' = rows BY <1>1, <1>4, ConcatEmptySeq
  <2>2. Ahead(rows, t, u) BY <1>1, AheadPart
  <2>3. ~In(tx', u) BY <1>4 DEF In
  <2>4. QED BY <1>4, <2>1, <2>2, <2>3 DEF Written
<1>5. QED BY <1>2, <1>3, <1>4

\* While t has not reached the database, u is never first in the loop but to
\* become a task behind it.
LEMMA NotFirst ==
  ASSUME LineInv, NEW t \in Tasks, NEW u \in Tasks, Follows(t, u), Turn(u),
         pc[t] \in Entering
  PROVE  pc[t] = "created" /\ pc[u] = "posted"
<1>1. ready \in Seq(Callbacks) /\ ready # <<>> /\ Head(ready) = u
  BY DEF LineInv, SafeInv, TypeOK, Callbacks, Turn
<1>2. In(ready, t) /\ Behind(t, u) BY DEF LineInv, Known
<1>3. In(ready, u) BY <1>1, HeadIn
<1>4. pc[u] \notin Final BY <1>3 DEF LineInv, SafeInv, Sound, Token, Final, SqlOps
<1>5. pc[t] # pc[u] BY <1>1, <1>2, AheadHead DEF Behind
<1>6. QED BY <1>2, <1>4, <1>5 DEF Behind, Entering

LEMMA CreatePostedBehind ==
  ASSUME LineInv, NEW a \in Tasks, CreatePosted(a),
         NEW t \in Tasks, NEW u \in Tasks, Follows(t, u)
  PROVE  Behind(t, u)'
<1>1. TypeOK /\ SafeInv /\ Behind(t, u) /\ t # u BY DEF LineInv, SafeInv, Follows
<1>2. /\ pc[a] = "posted" /\ pc'[a] = "created" /\ \A b \in Tasks \ {a} : pc'[b] = pc[b]
      /\ Turn(a) /\ ready # <<>> /\ ready' = Append(Tail(ready), a)
      /\ UNCHANGED <<sqlq, rows, tx>>
  BY <1>1 DEF CreatePosted, Turn, TypeOK
<1>3. Pending(t)' => Pending(t) BY <1>2 DEF Pending, Entering
<1>4. Ahead(rows' \o tx', t, u) /\ (Written(u)' => Written(u))
  BY <1>1, <1>2, StoreAhead DEF Behind
<1>5. CASE a = t
  BY <1>1, <1>2, <1>3, <1>4, <1>5 DEF Behind, Entering, Final
<1>6. CASE a = u
  <2>1. pc[t] \in Entering => pc[t] = "created" BY <1>2, <1>6, NotFirst
  <2>2. Ahead(ready', t, u)
    <3>1. ready \in Seq(Callbacks) /\ u \in Callbacks BY <1>1 DEF TypeOK, Callbacks
    <3>2. Tail(ready) \in Seq(Callbacks) BY <1>2, <3>1, HeadTail
    <3>3. ~In(Tail(ready), u) BY <1>1, <1>2, <1>6, AtTurn
    <3>4. Ahead(Tail(ready), t, u) BY <3>3, AheadAbsent
    <3>5. QED BY <1>1, <1>2, <1>6, <3>1, <3>2, <3>4, AheadPush
  <2>3. pc'[t] = pc[t] /\ pc'[u] = "created" BY <1>1, <1>2, <1>6
  <2>4. QED BY <1>1, <1>2, <1>3, <1>4, <2>1, <2>2, <2>3 DEF Behind, Entering, Final
<1>7. CASE a # t /\ a # u
  <2>1. Ahead(ready, t, u) => Ahead(ready', t, u)
    BY <1>1, <1>2, <1>7, ReadyAhead DEF Callbacks
  <2>2. pc'[t] = pc[t] /\ pc'[u] = pc[u] BY <1>2, <1>7
  <2>3. QED BY <1>1, <1>2, <1>3, <1>4, <2>1, <2>2 DEF Behind
<1>8. QED BY <1>5, <1>6, <1>7

LEMMA CallDatabaseBehind ==
  ASSUME LineInv, NEW a \in Tasks, CallDatabase(a),
         NEW t \in Tasks, NEW u \in Tasks, Follows(t, u)
  PROVE  Behind(t, u)'
<1> DEFINE op == NextOp(a)
           ti == <<t, "insert">>
           ui == <<u, "insert">>
<1>1. TypeOK /\ SafeInv /\ Behind(t, u) /\ t # u BY DEF LineInv, SafeInv, Follows
<1>2. /\ pc[a] \in {"created"} \cup SqlOps /\ Turn(a) /\ ready # <<>>
      /\ op \in SqlOps /\ (op = "insert" => pc[a] = "created")
  BY NextOpType DEF CallDatabase, NextOp, SqlOps, Turn
<1>3. /\ pc'[a] = op /\ \A b \in Tasks \ {a} : pc'[b] = pc[b]
      /\ ready' = Tail(ready) /\ sqlq' = Append(sqlq, <<a, op>>)
      /\ UNCHANGED <<rows, tx>>
  BY <1>1 DEF CallDatabase, TypeOK
<1> HIDE DEF op
<1>4. Ahead(rows' \o tx', t, u) /\ (Written(u)' => Written(u))
  BY <1>1, <1>3, StoreAhead DEF Behind
<1>5. sqlq \in Seq(Calls) /\ <<a, op>> \in Calls /\ pc'[a] \notin Entering
  BY <1>1, <1>2, <1>3 DEF TypeOK, Calls, SqlOps, Entering
<1>6. Ahead(ready, t, u) => Ahead(ready', t, u)
  BY <1>1, <1>2, <1>3, AheadPop DEF TypeOK
<1>7. CASE a = t /\ op = "insert"
  <2>1. pc[t] = "created" BY <1>2, <1>7
  <2>2. pc[u] # "insert" BY <1>1, <2>1 DEF Behind, Entering, Final
  <2>3. ~In(sqlq, ui) BY <1>1, <2>2 DEF SafeInv, Sound, Token, SqlOps
  <2>4. ~In(sqlq', ui)
    <3>1. ui # <<a, op>> BY <1>1, <1>7
    <3>2. QED BY <1>3, <1>5, <2>3, <3>1, PushOther
  <2>5. Ahead(sqlq', ti, ui) BY <2>4, AheadAbsent
  <2>6. ~Written(u)' BY <1>1, <1>4, <2>1 DEF Behind, Pending, Entering
  <2>7. QED BY <1>4, <1>5, <1>7, <2>5, <2>6 DEF Behind, Entering
<1>8. CASE a # t \/ op # "insert"
  <2>1. ti # <<a, op>> BY <1>8
  <2>2. Ahead(sqlq', ti, ui) BY <1>1, <1>3, <1>5, <2>1, SqlAhead DEF Behind
  <2>3. In(sqlq', ti) <=> In(sqlq, ti) BY <1>3, <1>5, <2>1, PushOther
  <2>4. CASE a = t
    <3>1. Pending(t)' => Pending(t) BY <1>5, <2>3, <2>4 DEF Pending
    <3>2. QED BY <1>1, <1>4, <1>5, <2>2, <2>4, <3>1 DEF Behind, Entering
  <2>5. CASE a # t
    <3>1. pc'[t] = pc[t] BY <1>3, <2>5
    <3>2. Pending(t)' => Pending(t) BY <2>3, <3>1 DEF Pending
    <3>3. pc[t] \in Entering => pc'[u] = pc[u]
      <4>1. a = u => pc[t] \notin Entering
        BY <1>2, NotFirst DEF SqlOps
      <4>2. QED BY <1>3, <4>1
    <3>4. QED BY <1>1, <1>4, <1>6, <2>2, <3>1, <3>2, <3>3 DEF Behind, Entering
  <2>6. QED BY <2>4, <2>5
<1>9. QED BY <1>7, <1>8

\* The steps after the last database call.
LEMMA NotifyBehind ==
  ASSUME LineInv, NEW a \in Tasks, Notify(a) \/ Finish(a) \/ PostReturns(a),
         NEW t \in Tasks, NEW u \in Tasks, Follows(t, u)
  PROVE  Behind(t, u)'
<1>1. TypeOK /\ SafeInv /\ Behind(t, u) /\ t # u BY DEF LineInv, SafeInv, Follows
<1>2. UNCHANGED <<sqlq, rows, tx>> /\ \A b \in Tasks \ {a} : pc'[b] = pc[b]
  BY <1>1 DEF Notify, Posts, Finish, PostReturns, TypeOK
<1>3. Ahead(rows' \o tx', t, u) /\ (Written(u)' => Written(u))
  BY <1>1, <1>2, StoreAhead DEF Behind
<1>4. CASE Notify(a) \/ Finish(a)
  <2>1. /\ pc'[a] \notin Entering /\ pc[a] # "posted" /\ Turn(a) /\ ready # <<>>
        /\ ready' = Tail(ready)
    BY <1>1, <1>4 DEF Notify, Posts, Finish, Turn, TypeOK, Entering, SqlOps
  <2>2. Ahead(ready, t, u) => Ahead(ready', t, u)
    BY <1>1, <2>1, AheadPop DEF TypeOK
  <2>3. Pending(t)' => Pending(t) BY <1>2, <2>1 DEF Pending
  <2>4. pc'[t] \in Entering => pc'[t] = pc[t] /\ pc'[u] = pc[u]
    <3>1. a = u => pc[t] \notin Entering BY <2>1, NotFirst
    <3>2. QED BY <1>2, <2>1, <3>1
  <2>5. QED BY <1>1, <1>2, <1>3, <2>2, <2>3, <2>4 DEF Behind, Entering
<1>5. CASE PostReturns(a)
  <2>1. pc[a] = "post" /\ pc' = pc /\ ready' = Append(ready, a) BY <1>5 DEF PostReturns
  <2>2. Pending(t)' => Pending(t) BY <1>2, <2>1 DEF Pending
  <2>3. pc[t] \in Entering /\ Ahead(ready, t, u) => Ahead(ready', t, u)
    BY <1>1, <2>1, ReadyAhead DEF Entering, Callbacks
  <2>4. QED BY <1>1, <1>2, <1>3, <2>1, <2>2, <2>3 DEF Behind, Entering
<1>6. QED BY <1>4, <1>5

\* The thread takes the first call: an insert is entered where it stands.
LEMMA InsertBehind ==
  ASSUME LineInv, Insert, NEW t \in Tasks, NEW u \in Tasks, Follows(t, u)
  PROVE  /\ Ahead(rows' \o tx', t, u)
         /\ Pending(t) /\ Head(sqlq) # <<t, "insert">> => ~Written(u)'
<1>1. TypeOK /\ SafeInv /\ Behind(t, u) /\ t # u BY DEF LineInv, SafeInv, Follows
<1>2. PICK a \in Tasks : sqlq # <<>> /\ Head(sqlq) = <<a, "insert">>
  <2>1. Running("insert") BY DEF Insert
  <2>2. sqlq # <<>> /\ Head(sqlq)[1] \in Tasks /\ Head(sqlq)[2] = "insert"
    BY <1>1, <2>1, TaskCall DEF SqlOps
  <2>3. Head(sqlq) \in Calls BY <1>1, <2>2, HeadTail DEF TypeOK, Calls
  <2>4. Head(sqlq) = <<Head(sqlq)[1], Head(sqlq)[2]>> BY <2>3 DEF Calls
  <2>5. QED BY <2>2, <2>4
<1>3. sqlq \in Seq(Calls) /\ In(sqlq, <<a, "insert">>)
  BY <1>1, <1>2, HeadIn DEF TypeOK, Calls
<1>4. rows' = rows /\ tx' = Append(tx, a) BY <1>2 DEF Insert
<1>5. rows \in Seq(Tasks) /\ tx \in Seq(Tasks) /\ rows \o tx \in Seq(Tasks)
  BY <1>1, ConcatProperties DEF TypeOK
<1>6. rows' \o tx' = Append(rows \o tx, a) BY <1>4, <1>5
<1>7. a = t => ~In(rows \o tx, u)
  BY <1>1, <1>3, <1>5, InConcat DEF Behind, Pending, Written
<1>8. Ahead(rows' \o tx', t, u) BY <1>1, <1>5, <1>6, <1>7, AheadPush DEF Behind
<1>9. a = u => ~Pending(t)
  <2> SUFFICES ASSUME a = u, Pending(t) PROVE FALSE
    OBVIOUS
  <2>1. pc[u] = "insert" BY <1>1, <1>3 DEF SafeInv, Sound, Token, SqlOps
  <2>2. In(sqlq, <<t, "insert">>)
    BY <1>1, <2>1 DEF Behind, Pending, Entering, Final
  <2>3. Ahead(sqlq, <<t, "insert">>, Head(sqlq)) BY <1>1, <1>2 DEF Behind
  <2>4. QED BY <1>2, <1>3, <2>2, <2>3, AheadHead
<1>10. a # u => (Written(u)' => Written(u)) BY <1>4, <1>5, PushOther DEF Written
<1>11. QED BY <1>1, <1>8, <1>9, <1>10 DEF Behind

LEMMA SqlBehind ==
  ASSUME LineInv, SqlStep, NEW t \in Tasks, NEW u \in Tasks, Follows(t, u)
  PROVE  Behind(t, u)'
<1>1. TypeOK /\ SafeInv /\ Behind(t, u) /\ t # u BY DEF LineInv, SafeInv, Follows
<1>2. sqlq # <<>> /\ pc' = pc /\ sqlq' = Tail(sqlq)
  BY DEF SqlStep, Insert, InsertBusy, Commit, ReadId, AfterClose, CloseConnection, Query,
         Running, Answer
<1>3. sqlq \in Seq(Calls) BY <1>1 DEF TypeOK, Calls
<1>4. Ahead(sqlq', <<t, "insert">>, <<u, "insert">>) BY <1>1, <1>2, SqlAhead DEF Behind
<1>5. PICK e \in Callbacks : ready' = Append(ready, e) /\ (pc[t] \in Entering => e # t)
  <2>1. CASE CloseConnection
    BY <2>1, EventBusAssumption DEF CloseConnection, Callbacks
  <2>2. CASE ~CloseConnection
    <3>1. ready' = Append(ready, Head(sqlq)[1])
      BY <2>2 DEF SqlStep, Insert, InsertBusy, Commit, ReadId, AfterClose, Answer
    <3>2. Head(sqlq) \in Calls /\ In(sqlq, Head(sqlq)) BY <1>2, <1>3, HeadTail, HeadIn
    <3>3. Head(sqlq)[1] \in Callbacks BY <3>2 DEF Calls, Callbacks
    <3>4. ASSUME Head(sqlq)[1] = t PROVE pc[t] \notin Entering
      <4>1. PICK op \in SqlOps : Head(sqlq) = <<t, op>>
        BY <3>2, <3>4, EventBusAssumption DEF Calls
      <4>2. pc[t] = op BY <1>1, <3>2, <4>1 DEF SafeInv, Sound, Token
      <4>3. QED BY <4>2 DEF SqlOps, Entering
    <3>5. QED BY <3>1, <3>3, <3>4
  <2>3. QED BY <2>1, <2>2
<1>6. pc[t] \in Entering /\ Ahead(ready, t, u) => Ahead(ready', t, u)
  BY <1>1, <1>5, ReadyAhead
<1>7. In(sqlq', <<t, "insert">>) => In(sqlq, <<t, "insert">>) BY <1>2, <1>3, PopIn
<1>8. Pending(t)' => Pending(t) BY <1>2, <1>7 DEF Pending
<1>9. Ahead(rows' \o tx', t, u) /\ (Pending(t)' => ~Written(u)')
  <2>1. CASE Insert
    <3>1. Head(sqlq) = <<t, "insert">> => ~Pending(t)'
      <4> SUFFICES ASSUME Head(sqlq) = <<t, "insert">> PROVE ~Pending(t)'
        OBVIOUS
      <4>1. In(sqlq, <<t, "insert">>) BY <1>2, <1>3, HeadIn
      <4>2. pc[t] = "insert" /\ Unique(sqlq, Head(sqlq))
        BY <1>1, <4>1 DEF SafeInv, Sound, Token, SqlOps
      <4>3. ~In(sqlq', <<t, "insert">>) BY <1>2, <1>3, <4>2, PopSelf
      <4>4. QED BY <1>2, <4>2, <4>3 DEF Pending, Entering
    <3>2. QED BY <1>8, <2>1, <3>1, InsertBehind
  <2>2. CASE ~Insert
    <3>1. \/ rows' = rows /\ tx' = tx
          \/ rows' = rows \o tx /\ tx' = <<>>
          \/ rows' = rows /\ tx' = <<>>
      BY <2>2 DEF SqlStep, InsertBusy, Commit, ReadId, AfterClose, CloseConnection
    <3>2. Ahead(rows' \o tx', t, u) /\ (Written(u)' => Written(u))
      BY <1>1, <3>1, StoreAhead DEF Behind
    <3>3. QED BY <1>1, <1>8, <3>2 DEF Behind
  <2>3. QED BY <2>1, <2>2
<1>10. QED BY <1>1, <1>2, <1>4, <1>6, <1>9 DEF Behind

\* run() queues its close behind the calls, and takes its own turn.
LEMMA RunBehind ==
  ASSUME LineInv, NEW t \in Tasks, NEW u \in Tasks, Follows(t, u),
         BeginShutdown \/ StopAllDone \/ NotifierClosed \/ DatabaseClosed \/ Environment
  PROVE  Behind(t, u)'
<1>1. TypeOK /\ SafeInv /\ Behind(t, u) /\ t # u BY DEF LineInv, SafeInv, Follows
<1>2. UNCHANGED <<pc, rows, tx>>
  BY DEF BeginShutdown, StopAllDone, NotifierClosed, DatabaseClosed, Environment, busVars
<1>3. ready' = ready \/ (ready # <<>> /\ ready' = Tail(ready))
  BY DEF BeginShutdown, StopAllDone, NotifierClosed, DatabaseClosed, Environment, busVars,
         Turn
<1>4. Ahead(ready, t, u) => Ahead(ready', t, u) BY <1>1, <1>3, AheadPop DEF TypeOK
<1>5. sqlq' = sqlq \/ sqlq' = Append(sqlq, <<Main, "close">>)
  BY DEF BeginShutdown, StopAllDone, NotifierClosed, DatabaseClosed, Environment, busVars,
         CloseDatabase
<1>6. sqlq \in Seq(Calls) /\ <<Main, "close">> \in Calls \ {<<t, "insert">>}
  BY <1>1, EventBusAssumption DEF TypeOK, Calls
<1>7. Ahead(sqlq', <<t, "insert">>, <<u, "insert">>)
  BY <1>1, <1>5, <1>6, SqlAhead DEF Behind
<1>8. In(sqlq', <<t, "insert">>) <=> In(sqlq, <<t, "insert">>)
  <2>1. CASE sqlq' = sqlq BY <2>1
  <2>2. CASE sqlq' = Append(sqlq, <<Main, "close">>)
    <3>1. <<Main, "close">> # <<t, "insert">> /\ <<Main, "close">> \in Calls BY <1>6
    <3>2. QED BY <1>6, <2>2, <3>1, PushOther
  <2>3. QED BY <1>5, <2>1, <2>2
<1>9. (Pending(t)' <=> Pending(t)) /\ (Written(u)' <=> Written(u))
  BY <1>2, <1>8 DEF Pending, Written
<1>10. Ahead(rows' \o tx', t, u) BY <1>1, <1>2 DEF Behind
<1>11. QED BY <1>1, <1>2, <1>4, <1>7, <1>9, <1>10 DEF Behind

LEMMA AbandonBehind ==
  ASSUME LineInv, NEW end \in Gone, Abandon(end),
         NEW t \in Tasks, NEW u \in Tasks, Follows(t, u)
  PROVE  Behind(t, u)'
<1>1. TypeOK /\ Behind(t, u) BY DEF LineInv, SafeInv
<1>2. sqlq' = <<>> /\ rows' = rows /\ tx' = <<>> BY DEF Abandon
<1>3. pc'[t] \notin Entering BY DEF Abandon, Fate, Final, Entering
<1>4. Ahead(rows' \o tx', t, u) BY <1>1, <1>2, StoreAhead DEF Behind
<1>5. ~In(sqlq', <<t, "insert">>) BY <1>2 DEF In
<1>6. QED BY <1>3, <1>4, <1>5, AheadAbsent DEF Behind, Pending, Entering

\* Who is dispatched gets behind all of its context.
LEMMA DispatchBehind ==
  ASSUME LineInv, NEW a \in Tasks, Dispatch(a),
         NEW t \in Tasks, NEW u \in Tasks, Follows(t, u)'
  PROVE  Behind(t, u)'
<1>1. TypeOK /\ SafeInv /\ Known(a) /\ Known(t) /\ Known(u) /\ t # u
      /\ Job[t].from = Job[u].from
  BY DEF LineInv, SafeInv, Follows
<1>2. /\ pc[a] = "idle" /\ pc'[a] = Enter(a) /\ \A b \in Tasks \ {a} : pc'[b] = pc[b]
      /\ ready' = (IF Enter(a) = "dropped" THEN ready ELSE Append(ready, a))
      /\ order' = Append(order, a) /\ UNCHANGED <<sqlq, rows, tx>>
  BY <1>1 DEF Dispatch, TypeOK
<1>3. order \in Seq(Tasks) /\ Len(order) \in Nat /\ Len(order') = Len(order) + 1
      /\ order'[Len(order) + 1] = a /\ \A i \in 1..Len(order) : order'[i] = order[i]
  BY <1>1, <1>2, AppendProperties DEF TypeOK
<1>4. ~In(order, a) BY <1>1, <1>2 DEF Known
<1>5. t # a /\ In(order, t) /\ (u # a => Follows(t, u))
  <2>1. PICK i \in 1..Len(order'), j \in 1..Len(order') :
          i < j /\ order'[i] = t /\ order'[j] = u
    BY DEF Follows, Before
  <2>2. i \in 1..Len(order) /\ order[i] = t BY <1>3, <2>1
  <2>3. t # a /\ In(order, t) BY <1>4, <2>2 DEF In
  <2>4. ASSUME u # a PROVE Follows(t, u)
    <3>1. j \in 1..Len(order) /\ order[j] = u BY <1>3, <2>1, <2>4
    <3>2. QED BY <1>1, <2>1, <2>2, <3>1 DEF Follows, Before
  <2>5. QED BY <2>3, <2>4
<1>6. pc'[t] = pc[t] BY <1>2, <1>5
<1>7. CASE u # a
  <2>1. Behind(t, u) /\ pc'[u] = pc[u] BY <1>2, <1>5, <1>7 DEF LineInv
  <2>2. Ahead(ready, t, u) => Ahead(ready', t, u)
    BY <1>1, <1>2, <1>5, ReadyAhead DEF Callbacks
  <2>3. QED BY <1>2, <1>6, <2>1, <2>2 DEF Behind, Pending, Written
<1>8. CASE u = a
  <2>1. ~In(ready, u) /\ ~In(sqlq, <<u, "insert">>) /\ ~Written(u)
    BY <1>1, <1>2, <1>8 DEF SafeInv, Sound, Token, Once, SqlOps
  <2>2. Ahead(ready', t, u)
    <3>1. Ahead(ready, t, u) BY <2>1, AheadAbsent
    <3>2. QED BY <1>1, <1>2, <1>5, <3>1, ReadyAhead DEF Callbacks
  <2>3. Ahead(sqlq', <<t, "insert">>, <<u, "insert">>) BY <1>2, <2>1, AheadAbsent
  <2>4. Ahead(rows' \o tx', t, u)
    <3>1. ~In(rows \o tx, u) BY <1>1, <2>1, InConcat DEF TypeOK, Written
    <3>2. QED BY <1>2, <3>1, AheadAbsent
  <2>5. pc'[t] = "posted" => pc'[u] \in {"posted"} \cup Final
    BY <1>1, <1>2, <1>6, <1>8 DEF Enter, Known, Final
  <2>6. pc'[u] \in Entering \cup Final BY <1>2, <1>8 DEF Enter, Entering, Final
  <2>7. ~Written(u)' BY <1>2, <2>1 DEF Written
  <2>8. QED BY <2>2, <2>3, <2>4, <2>5, <2>6, <2>7 DEF Behind
<1>9. QED BY <1>7, <1>8

\* Who has been dispatched, and where it enters.
LEMMA KnownKept ==
  ASSUME LineInv, [Next]_vars, NEW u \in Tasks
  PROVE  Known(u)'
<1>1. TypeOK /\ SafeInv /\ Known(u) BY DEF LineInv, SafeInv
<1>2. ready \in Seq(Callbacks) BY <1>1 DEF TypeOK, Callbacks
<1>3. Unique(ready, u) BY <1>1 DEF SafeInv, Sound, Token
<1>4. CASE UNCHANGED vars BY <1>1, <1>4 DEF vars, busVars, Known
<1>5. ASSUME NEW a \in Tasks, Dispatch(a) PROVE Known(u)'
  <2>1. /\ pc[a] = "idle" /\ pc'[a] = Enter(a) /\ \A b \in Tasks \ {a} : pc'[b] = pc[b]
        /\ ready' = (IF Enter(a) = "dropped" THEN ready ELSE Append(ready, a))
        /\ order' = Append(order, a) /\ order \in Seq(Tasks)
    BY <1>1, <1>5 DEF Dispatch, TypeOK
  <2>2. CASE u = a
    <3>1. ~In(order, a) /\ ~In(ready, a)
      BY <1>1, <2>1, <2>2 DEF Known, SafeInv, Sound, Token, SqlOps
    <3>2. In(order', a) BY <2>1, <3>1, PushSelf
    <3>3. Enter(a) \in {"created", "posted", "dropped"}
          /\ (Enter(a) = "posted" => Job[a].from = "thread")
      BY EventBusAssumption DEF Enter
    <3>4. pc'[u] \in Entering => In(ready', u)
      <4>1. Enter(a) # "dropped" => In(Append(ready, a), a)
        BY <1>2, <3>1, PushSelf DEF Callbacks
      <4>2. QED BY <2>1, <2>2, <4>1 DEF Entering
    <3>5. QED BY <2>1, <2>2, <3>2, <3>3, <3>4 DEF Known
  <2>3. CASE u # a
    <3>1. In(order', u) <=> In(order, u) BY <2>1, <2>3, PushOther
    <3>2. In(ready, u) => In(ready', u)
      BY <1>1, <1>3, <2>1, <2>3, ReadyOther DEF Callbacks
    <3>3. QED BY <1>1, <2>1, <2>3, <3>1, <3>2 DEF Known
  <2>4. QED BY <2>2, <2>3
<1>6. ASSUME NEW a \in Tasks,
             CreatePosted(a) \/ CallDatabase(a) \/ Notify(a) \/ Finish(a) \/ PostReturns(a)
      PROVE  Known(u)'
  <2>1. UNCHANGED order /\ \A b \in Tasks \ {a} : pc'[b] = pc[b]
    BY <1>1, <1>6 DEF CreatePosted, CallDatabase, Notify, Posts, Finish, PostReturns, TypeOK
  <2>2. /\ pc[a] \notin {"idle"} /\ pc'[a] \notin {"idle", "posted"}
        /\ (pc'[a] = "created" => CreatePosted(a))
    BY <1>1, <1>6, NextOpType
       DEF CreatePosted, CallDatabase, Notify, Posts, Finish, PostReturns, TypeOK, SqlOps
  <2>3. CASE u = a
    <3>1. CreatePosted(a) => In(ready', a)
      BY <1>1, AtTurn DEF CreatePosted
    <3>2. QED BY <1>1, <2>1, <2>2, <2>3, <3>1 DEF Known, Entering
  <2>4. CASE u # a
    <3>1. In(ready, u) => In(ready', u)
      BY <1>1, <1>3, <1>6, <2>4, ReadyOther
         DEF CreatePosted, CallDatabase, Notify, Finish, PostReturns, Turn, Callbacks
    <3>2. QED BY <1>1, <2>1, <2>4, <3>1 DEF Known
  <2>5. QED BY <2>3, <2>4
<1>7. CASE SqlStep
  <2>1. UNCHANGED <<pc, order>> /\ sqlq # <<>>
        /\ (ready' = Append(ready, Head(sqlq)[1]) \/ ready' = Append(ready, Main))
    BY <1>7 DEF SqlStep, Insert, InsertBusy, Commit, ReadId, AfterClose, CloseConnection,
                Query, Running, Answer
  <2>2. Head(sqlq) \in Calls BY <1>1, <2>1, HeadTail DEF TypeOK, Calls
  <2>3. Head(sqlq)[1] \in Callbacks BY <2>2 DEF Calls, Callbacks
  <2>4. \A e \in Callbacks : In(ready, u) => In(Append(ready, e), u)
    <3> SUFFICES ASSUME NEW e \in Callbacks, In(ready, u) PROVE In(Append(ready, e), u)
      OBVIOUS
    <3>1. /\ Len(ready) \in Nat /\ Len(Append(ready, e)) = Len(ready) + 1
          /\ \A i \in 1..Len(ready) : Append(ready, e)[i] = ready[i]
      BY <1>2, AppendProperties
    <3>2. QED BY <3>1 DEF In
  <2>5. In(ready, u) => In(ready', u) BY <2>1, <2>3, <2>4 DEF Callbacks
  <2>6. QED BY <1>1, <2>1, <2>5 DEF Known
<1>8. CASE BeginShutdown \/ StopAllDone \/ NotifierClosed \/ DatabaseClosed \/ Environment
  <2>1. UNCHANGED <<pc, order>>
    BY <1>8 DEF BeginShutdown, StopAllDone, NotifierClosed, DatabaseClosed, Environment,
                busVars
  <2>2. In(ready, u) => In(ready', u)
    <3>1. CASE DatabaseClosed
      BY <1>1, <1>3, <3>1, ReadyOther, EventBusAssumption
         DEF DatabaseClosed, Turn, Callbacks
    <3>2. CASE ~DatabaseClosed
      BY <1>8, <3>2 DEF BeginShutdown, StopAllDone, NotifierClosed, Environment, busVars
    <3>3. QED BY <3>1, <3>2
  <2>3. QED BY <1>1, <2>1, <2>2 DEF Known
<1>9. CASE Exit \/ Crash
  <2>1. PICK end \in Gone : Abandon(end) BY <1>9 DEF Exit, Crash, Gone
  <2>2. order' = order BY <2>1 DEF Abandon
  <2>3. /\ pc[u] \in Final \cup {"idle"} => pc'[u] = pc[u]
        /\ pc[u] \notin Final \cup {"idle"} => pc'[u] \in Final
    BY <2>1 DEF Abandon, Fate, Final
  <2>4. QED BY <1>1, <2>2, <2>3 DEF Known, Entering, Final
<1>10. QED BY <1>4, <1>5, <1>6, <1>7, <1>8, <1>9 DEF Next, LoopStep, ShutdownStep

LEMMA LineAlways == Spec => []LineInv
<1> DEFINE Line == /\ \A t \in Tasks : Known(t)
                   /\ \A t, u \in Tasks : Follows(t, u) => Behind(t, u)
<1>1. Init => Line
  <2> SUFFICES ASSUME Init PROVE Line
    OBVIOUS
  <2>1. \A x : ~In(order, x) BY DEF Init, In
  <2>2. \A t \in Tasks : Known(t) BY <2>1 DEF Init, Known, Entering
  <2>3. \A t, u \in Tasks : ~Follows(t, u) BY DEF Init, Follows, Before
  <2>4. QED BY <2>2, <2>3
<1>2. SafeInv /\ Line /\ [Next]_vars => Line'
  <2> SUFFICES ASSUME SafeInv, Line, [Next]_vars PROVE Line'
    OBVIOUS
  <2>1. LineInv BY DEF LineInv
  <2>2. \A t \in Tasks : Known(t)' BY <2>1, KnownKept
  <2>3. ASSUME NEW t \in Tasks, NEW u \in Tasks, Follows(t, u)' PROVE Behind(t, u)'
    <3>1. CASE \E a \in Tasks : Dispatch(a) BY <2>1, <2>3, <3>1, DispatchBehind
    <3>2. CASE ~\E a \in Tasks : Dispatch(a)
      <4>1. order' = order
        BY <3>2 DEF Next, LoopStep, SqlStep, ShutdownStep, vars, busVars, CreatePosted,
           CallDatabase, Notify, Finish, PostReturns, DatabaseClosed, Insert, InsertBusy,
           Commit, ReadId, AfterClose, CloseConnection, Answer, BeginShutdown, StopAllDone,
           NotifierClosed, Exit, Crash, Abandon, Environment
      <4>2. Follows(t, u) BY <2>3, <4>1 DEF Follows, Before
      <4>3. CASE UNCHANGED vars
        <5>1. Behind(t, u) BY <2>1, <4>2 DEF LineInv
        <5>2. QED BY <4>3, <5>1 DEF vars, busVars, Behind, Pending, Written
      <4>4. CASE \E a \in Tasks : CreatePosted(a) \/ CallDatabase(a) \/ Notify(a) \/ Finish(a)
                                   \/ PostReturns(a)
        BY <2>1, <4>2, <4>4, CreatePostedBehind, CallDatabaseBehind, NotifyBehind
      <4>5. CASE SqlStep BY <2>1, <4>2, <4>5, SqlBehind
      <4>6. CASE BeginShutdown \/ StopAllDone \/ NotifierClosed \/ DatabaseClosed \/ Environment
        BY <2>1, <4>2, <4>6, RunBehind
      <4>7. CASE Exit \/ Crash
        BY <2>1, <4>2, <4>7, AbandonBehind DEF Exit, Crash, Gone
      <4>8. QED BY <3>2, <4>3, <4>4, <4>5, <4>6, <4>7 DEF Next, LoopStep, ShutdownStep
    <3>3. QED BY <3>1, <3>2
  <2>4. QED BY <2>2, <2>3
<1>3. SafeInv /\ Line => LineInv BY DEF LineInv
<1> HIDE DEF Line
<1>4. QED BY <1>1, <1>2, <1>3, SafeAlways, PTL DEF Spec

\* Rows of the loop, and of the threads, get their ids in the order of
\* dispatch, for any number of coroutines whose inserts and commits interleave.
THEOREM RowsOrdered == Spec => []RowsInOrder
<1>1. LineInv => RowsInOrder
  <2> SUFFICES ASSUME LineInv, NEW t \in Tasks, NEW u \in Tasks,
                      Job[t].from = Job[u].from, Before(rows, t, u)
               PROVE  Before(order, t, u)
    BY DEF RowsInOrder
  <2>1. TypeOK /\ Sound(t) /\ Sound(u) /\ Known(t) /\ Known(u) BY DEF LineInv, SafeInv
  <2>2. PICK i \in 1..Len(rows), j \in 1..Len(rows) :
          i < j /\ rows[i] = t /\ rows[j] = u
    BY DEF Before
  <2>3. rows \in Seq(Tasks) /\ tx \in Seq(Tasks) /\ order \in Seq(Tasks) BY <2>1 DEF TypeOK
  <2>4. t # u
    <3>1. Unique(rows, t) BY <2>1, <2>3, UniquePart DEF Sound, Once
    <3>2. QED BY <2>2, <2>3, <3>1 DEF Unique
  <2>5. In(rows, t) /\ In(rows, u) BY <2>2 DEF In
  <2>6. In(order, t) /\ In(order, u) BY <2>1, <2>5 DEF Known, Sound, Once, Written
  <2>7. ~Before(order, u, t)
    <3> SUFFICES ASSUME Before(order, u, t) PROVE FALSE
      OBVIOUS
    <3>1. Behind(u, t) BY <2>4 DEF LineInv, Follows
    <3>2. Ahead(rows, u, t) BY <2>3, <3>1, AheadPart DEF Behind
    <3>3. j < i BY <2>2, <3>2 DEF Ahead
    <3>4. QED BY <2>2, <2>3, <3>3
  <2>8. PICK k \in 1..Len(order), l \in 1..Len(order) : order[k] = t /\ order[l] = u
    BY <2>6 DEF In
  <2>9. Len(order) \in Nat BY <2>3
  <2>10. k < l \/ l < k BY <2>4, <2>8, <2>9
  <2>11. QED BY <2>7, <2>8, <2>10 DEF Before
<1>2. QED BY <1>1, LineAlways, PTL
=============================================================================
