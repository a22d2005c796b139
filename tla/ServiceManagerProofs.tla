------------------------ MODULE ServiceManagerProofs ------------------------
(* Proofs about ServiceManager for every set of services of any kind and   *)
(* every set of requests, with failures, crashes and restarts.             *)
EXTENDS ServiceManager, SequenceTheorems, TLAPS

\* What the proofs need of todo: its head is a service, its tail a todo.
LEMMA HeadTail ==
  ASSUME NEW q \in Seq(Services), q # <<>>
  PROVE  Head(q) \in Services /\ Tail(q) \in Seq(Services)
BY HeadTailProperties

\* Starting, up to the first suspension, keeps the types.
LEMMA StartTypes ==
  ASSUME TypeOK, NEW a \in Actors, NEW s \in Services, NEW on \in BOOLEAN,
         Take(a, s, on), Start(a, s)
  PROVE  /\ running' \in [Services -> BOOLEAN]
         /\ bound' \in [Services -> Actors \cup {None}]
         /\ handle' \in [Services -> Actors \cup {None}]
         /\ pc' \in [Actors -> {"idle", "writing", "alerting", "done"} \cup Busy]
         /\ job' \in [Actors -> [service : Services \cup {None}, on : BOOLEAN]]
         /\ raced' \in [Services -> BOOLEAN]
         /\ faulted' \in [Services -> BOOLEAN]
<1> USE DEF TypeOK, Busy, Rest, Resting
<1>1. /\ job' \in [Actors -> [service : Services \cup {None}, on : BOOLEAN]]
      /\ raced' \in [Services -> BOOLEAN]
  BY DEF Take
<1>2. CASE AlreadyRunning(a, s) BY <1>1, <1>2 DEF AlreadyRunning
<1>3. CASE StartThread(a, s) BY <1>1, <1>3 DEF StartThread
<1>4. CASE StartThreadFails(a, s) BY <1>1, <1>4 DEF StartThreadFails
<1>5. CASE BeginStart(a, s) BY <1>1, <1>5 DEF BeginStart
<1>6. QED BY <1>2, <1>3, <1>4, <1>5 DEF Start

\* So does stopping.
LEMMA StopTypes ==
  ASSUME TypeOK, NEW a \in Actors, NEW s \in Services, NEW on \in BOOLEAN,
         Take(a, s, on), Stop(a, s)
  PROVE  /\ running' \in [Services -> BOOLEAN]
         /\ bound' \in [Services -> Actors \cup {None}]
         /\ handle' \in [Services -> Actors \cup {None}]
         /\ pc' \in [Actors -> {"idle", "writing", "alerting", "done"} \cup Busy]
         /\ job' \in [Actors -> [service : Services \cup {None}, on : BOOLEAN]]
         /\ raced' \in [Services -> BOOLEAN]
         /\ faulted' \in [Services -> BOOLEAN]
<1> USE DEF TypeOK, Busy, Rest, Resting
<1>1. /\ job' \in [Actors -> [service : Services \cup {None}, on : BOOLEAN]]
      /\ raced' \in [Services -> BOOLEAN]
  BY DEF Take
<1>2. Unbound(s) \in [Services -> Actors \cup {None}] BY DEF Unbound
<1>3. CASE NotRunning(a, s) BY <1>1, <1>3 DEF NotRunning, Stop
<1>4. CASE StopAtOnce(a, s) BY <1>1, <1>2, <1>4 DEF StopAtOnce, Stop
<1>5. CASE BeginStop(a, s) BY <1>1, <1>2, <1>5 DEF BeginStop, Stop
<1>6. QED BY <1>3, <1>4, <1>5 DEF Stop

\* Whoever has work to do on a service names one.
JobNamed == \A a \in Actors :
              pc[a] \in {"writing"} \cup Busy => job[a].service \in Services

Typed == TypeOK /\ JobNamed

\* The part of a step common to toggles and run(): JobNamed survives it.
LEMMA TakeNamed ==
  ASSUME Typed, NEW a \in Actors, NEW s \in Services, NEW on \in BOOLEAN,
         Take(a, s, on), Start(a, s) \/ Stop(a, s)
  PROVE  JobNamed'
<1>1. job' = [job EXCEPT ![a] = [service |-> s, on |-> on]] BY DEF Take
<1>2. \E v : pc' = [pc EXCEPT ![a] = v]
  BY DEF Start, AlreadyRunning, StartThread, StartThreadFails, BeginStart,
         Stop, NotRunning, StopAtOnce, BeginStop, Rest
<1>3. \A b \in Actors \ {a} : pc'[b] = pc[b] /\ job'[b] = job[b]
  BY <1>1, <1>2 DEF Typed, TypeOK
<1>4. job'[a].service = s BY <1>1 DEF Typed, TypeOK
<1>5. QED BY <1>3, <1>4 DEF Typed, JobNamed

LEMMA WriteTyped ==
  ASSUME Typed, NEW r \in Requests, Write(r)
  PROVE  Typed'
<1> DEFINE s == job[r].service
<1>1. r \in Actors /\ s \in Services /\ job[r].on \in BOOLEAN
  BY DEF Write, Typed, TypeOK, JobNamed, Actors
<1>2. Take(r, s, job[r].on) /\ (Start(r, s) \/ Stop(r, s))
  BY DEF Write
<1>3. stored' \in [Services -> {"unset", "on", "off"}]
  BY DEF Write, Typed, TypeOK
<1>4. TypeOK'
  <2>1. CASE Start(r, s)
    BY <1>1, <1>2, <1>3, <2>1, StartTypes DEF Write, Typed, TypeOK
  <2>2. CASE Stop(r, s)
    BY <1>1, <1>2, <1>3, <2>2, StopTypes DEF Write, Typed, TypeOK
  <2>3. QED BY <1>2, <2>1, <2>2
<1>5. QED BY <1>1, <1>2, <1>4, TakeNamed DEF Typed

LEMMA RunTyped ==
  ASSUME Typed, BootNext \/ StopNext
  PROVE  Typed'
<1> DEFINE s == Head(todo)
<1>1. Main \in Actors /\ s \in Services /\ todo' \in Seq(Services)
  BY HeadTail DEF BootNext, StopNext, Typed, TypeOK, Actors
<1>2. CASE BootNext /\ Wanted(s)
  <2>1. Take(Main, s, TRUE) /\ Start(Main, s) BY <1>2 DEF BootNext
  <2>2. TypeOK' BY <1>1, <1>2, <2>1, StartTypes DEF BootNext, Typed, TypeOK
  <2>3. QED BY <1>1, <2>1, <2>2, TakeNamed DEF Typed
<1>3. CASE BootNext /\ ~Wanted(s)
  BY <1>1, <1>3 DEF BootNext, Typed, TypeOK, JobNamed
<1>4. CASE StopNext
  <2>1. Take(Main, s, FALSE) /\ Stop(Main, s) BY <1>4 DEF StopNext
  <2>2. TypeOK' BY <1>1, <1>4, <2>1, StopTypes DEF StopNext, Typed, TypeOK
  <2>3. QED BY <1>1, <2>1, <2>2, TakeNamed DEF Typed
<1>5. QED BY <1>2, <1>3, <1>4

\* The steps between two suspensions of one start or stop.
LEMMA ActorTyped ==
  ASSUME Typed, NEW a \in Actors, ActorStep(a)
  PROVE  Typed'
<1> USE DEF Typed, TypeOK, JobNamed, Busy, Rest, Resting
<1>1. CASE Bind(a) BY <1>1 DEF Bind
<1>2. CASE BindFails(a) BY <1>2 DEF BindFails
<1>3. CASE Started(a) BY <1>3 DEF Started
<1>4. CASE Stopped(a) BY <1>4 DEF Stopped
<1>5. CASE StopFails(a) BY <1>5 DEF StopFails
<1>6. QED BY <1>1, <1>2, <1>3, <1>4, <1>5 DEF ActorStep

\* The manager never works on a service that is not registered.
LEMMA TypedCorrect == Spec => []Typed
<1>1. Init => Typed
  BY ServiceManagerAssumption
     DEF Init, Typed, TypeOK, JobNamed, All, Nothing, Busy, Actors
<1>2. Typed /\ [Next]_vars => Typed'
  <2> SUFFICES ASSUME Typed, [Next]_vars PROVE Typed'
    OBVIOUS
  <2>1. CASE UNCHANGED vars BY <2>1 DEF vars, Typed, TypeOK, JobNamed
  <2>2. ASSUME NEW r \in Requests, NEW s \in Services, NEW on \in BOOLEAN,
               Toggle(r, s, on)
        PROVE  Typed'
    BY <2>2 DEF Toggle, Typed, TypeOK, JobNamed, Busy, Actors
  <2>3. ASSUME NEW r \in Requests, RequestStep(r) PROVE Typed'
    <3>1. CASE Finish(r)
      BY <3>1 DEF Finish, Nothing, Typed, TypeOK, JobNamed, Busy, Actors
    <3>2. QED BY <2>3, <3>1, WriteTyped DEF RequestStep, WriteFails, Return
  <2>4. ASSUME NEW a \in Actors, ActorStep(a) PROVE Typed'
    BY <2>4, ActorTyped
  <2>5. CASE BootNext \/ StopNext BY <2>5, RunTyped
  <2>6. CASE Boot \/ Serve \/ Shutdown
    BY <2>6, ServiceManagerAssumption
       DEF Boot, Serve, Shutdown, Typed, TypeOK, JobNamed
  <2>7. CASE Die
    BY <2>7 DEF Die, All, Nothing, Typed, TypeOK, JobNamed, Busy, Actors
  <2>8. QED BY <2>1, <2>2, <2>3, <2>4, <2>5, <2>6, <2>7 DEF Next, Exit, Crash
<1>3. QED BY <1>1, <1>2, PTL DEF Spec

\* Every variable keeps its type: in particular the settings table never
\* holds anything else than what _configured_enabled understands.
THEOREM TypeCorrect == Spec => []TypeOK
<1>1. Typed => TypeOK BY DEF Typed
<1>2. QED BY <1>1, TypedCorrect, PTL

-----------------------------------------------------------------------------
\* The inductive strengthening of ListenerTracked.  Where stopping does not
\* wait, only starts are ever in progress on a server, and:
\* a start is in progress on a server or a web service only, a stop on a web
\* service only;
Suspends ==
  \A a \in Actors :
    /\ pc[a] \in {"binding", "bound"} => Kind[job[a].service] # "thread"
    /\ pc[a] = "closing" => Kind[job[a].service] = "web"

\* a start that has bound its socket still has it, and is not overtaken;
HoldsSocket ==
  \A a \in Actors :
    pc[a] = "bound" /\ Kind[job[a].service] # "web" =>
      bound[job[a].service] = a /\ ~running[job[a].service]

\* a socket belongs to the running service or to such a start;
SocketOwned ==
  \A s \in Services : Kind[s] # "web" /\ bound[s] # None =>
    \/ running[s] /\ handle[s] = bound[s]
    \/ pc[bound[s]] = "bound" /\ job[bound[s]].service = s

\* and a running service has a socket.
RunningListens == \A s \in Services : Kind[s] # "web" /\ running[s] => bound[s] # None

Tracked == Suspends /\ HoldsSocket /\ SocketOwned /\ RunningListens
TrackedInv == Typed /\ (~lingers => Tracked)

LEMMA NoneIsNobody == None \notin Actors
BY ServiceManagerAssumption DEF Actors

\* What a start or stop up to its first suspension does to pc and job.
LEMMA Moves ==
  ASSUME Typed, NEW a \in Actors, NEW s \in Services, NEW on \in BOOLEAN,
         Take(a, s, on), Start(a, s) \/ Stop(a, s)
  PROVE  /\ \A b \in Actors \ {a} : pc'[b] = pc[b] /\ job'[b] = job[b]
         /\ job'[a].service = s
         /\ pc'[a] \in {"idle", "alerting", "binding", "closing"}
<1>1. job' = [job EXCEPT ![a] = [service |-> s, on |-> on]] BY DEF Take
<1>2. \E v \in {"idle", "alerting", "binding", "closing"} :
        pc' = [pc EXCEPT ![a] = v]
  BY DEF Start, AlreadyRunning, StartThread, StartThreadFails, BeginStart,
         Stop, NotRunning, StopAtOnce, BeginStop, Rest, Resting
<1>3. \A b \in Actors \ {a} : pc'[b] = pc[b] /\ job'[b] = job[b]
  BY <1>1, <1>2 DEF Typed, TypeOK
<1>4. job'[a].service = s BY <1>1 DEF Typed, TypeOK
<1>5. pc'[a] \in {"idle", "alerting", "binding", "closing"}
  BY <1>2 DEF Typed, TypeOK
<1>6. QED BY <1>3, <1>4, <1>5

\* An actor that holds no socket of its own goes to rest, sockets unchanged.
LEMMA RestTracked ==
  ASSUME Typed, Tracked, NEW a \in Actors, pc[a] # "bound", pc'[a] \notin Busy,
         \A b \in Actors \ {a} : pc'[b] = pc[b] /\ job'[b] = job[b],
         UNCHANGED <<running, bound, handle>>
  PROVE  Tracked'
<1>1. \A b \in Actors : pc'[b] \in Busy => pc'[b] = pc[b] /\ job'[b] = job[b]
  OBVIOUS
<1>2. Suspends' BY <1>1 DEF Tracked, Suspends, Busy
<1>3. HoldsSocket' BY <1>1 DEF Tracked, HoldsSocket, Busy
<1>4. SocketOwned'
  <2>1. \A b \in Actors : pc[b] = "bound" => pc'[b] = pc[b] /\ job'[b] = job[b]
    OBVIOUS
  <2>2. \A x \in Services : bound[x] # None => bound[x] \in Actors
    BY DEF Typed, TypeOK
  <2>3. QED BY <2>1, <2>2 DEF Tracked, SocketOwned
<1>5. RunningListens' BY DEF Tracked, RunningListens
<1>6. QED BY <1>2, <1>3, <1>4, <1>5 DEF Tracked

\* A start that is taken up keeps track of the listeners.
LEMMA StartTracked ==
  ASSUME Typed, Tracked, NEW a \in Actors, NEW s \in Services, NEW on \in BOOLEAN,
         pc[a] \in {"idle", "writing"}, Take(a, s, on), Start(a, s)
  PROVE  Tracked'
<1>1. /\ \A b \in Actors \ {a} : pc'[b] = pc[b] /\ job'[b] = job[b]
      /\ job'[a].service = s
      /\ pc'[a] \in {"idle", "alerting", "binding", "closing"}
  BY Moves
<1>2. CASE AlreadyRunning(a, s)
  <2>1. pc'[a] \in {"idle", "alerting"} BY <1>2 DEF AlreadyRunning, Rest, Resting, Typed, TypeOK
  <2>2. UNCHANGED <<running, bound, handle>> BY <1>2 DEF AlreadyRunning
  <2>3. QED BY <1>1, <2>1, <2>2, RestTracked DEF Busy
<1>3. CASE StartThread(a, s)
  <2>1. pc'[a] \in {"idle", "alerting"} BY <1>3 DEF StartThread, Rest, Resting, Typed, TypeOK
  <2>2. /\ Kind[s] = "thread"
        /\ bound'[s] = a /\ handle'[s] = a /\ running'[s]
        /\ \A x \in Services \ {s} :
             bound'[x] = bound[x] /\ handle'[x] = handle[x] /\ running'[x] = running[x]
    BY <1>3 DEF StartThread, Typed, TypeOK
  <2>3. QED BY <1>1, <2>1, <2>2, NoneIsNobody
    DEF Tracked, Suspends, HoldsSocket, SocketOwned, RunningListens, Typed, TypeOK,
        JobNamed, Busy
<1>4. CASE StartThreadFails(a, s)
  <2>1. pc'[a] \in {"idle", "alerting"} BY <1>4 DEF StartThreadFails, Rest, Resting, Typed, TypeOK
  <2>2. UNCHANGED <<running, bound, handle>> BY <1>4 DEF StartThreadFails
  <2>3. QED BY <1>1, <2>1, <2>2, RestTracked DEF Busy
<1>5. CASE BeginStart(a, s)
  <2>1. pc'[a] = "binding" /\ Kind[s] # "thread" BY <1>5 DEF BeginStart, Typed, TypeOK
  <2>2. UNCHANGED <<running, bound>> BY <1>5 DEF BeginStart
  <2>3. \A x \in Services : Kind[x] # "web" => handle'[x] = handle[x]
    BY <1>5 DEF BeginStart, Typed, TypeOK
  <2>4. QED BY <1>1, <2>1, <2>2, <2>3, NoneIsNobody
    DEF Tracked, Suspends, HoldsSocket, SocketOwned, RunningListens, Typed, TypeOK
<1>6. QED BY <1>2, <1>3, <1>4, <1>5 DEF Start

\* So does a stop: the running service has no start in progress that holds
\* the socket, so the socket is the one its handle knows.
LEMMA StopTracked ==
  ASSUME Typed, ~lingers, Tracked, NEW a \in Actors, NEW s \in Services,
         NEW on \in BOOLEAN,
         pc[a] \in {"idle", "writing"}, Take(a, s, on), Stop(a, s)
  PROVE  Tracked'
<1>1. /\ \A b \in Actors \ {a} : pc'[b] = pc[b] /\ job'[b] = job[b]
      /\ job'[a].service = s
      /\ pc'[a] \in {"idle", "alerting", "binding", "closing"}
  BY Moves
<1>2. handle' = handle BY DEF Stop
<1>3. CASE NotRunning(a, s)
  <2>1. pc'[a] \in {"idle", "alerting"} BY <1>3 DEF NotRunning, Rest, Resting, Typed, TypeOK
  <2>2. UNCHANGED <<running, bound>> BY <1>3 DEF NotRunning
  <2>3. QED BY <1>1, <1>2, <2>1, <2>2, RestTracked DEF Busy
<1>4. CASE StopAtOnce(a, s)
  <2>1. pc'[a] \in {"idle", "alerting"} BY <1>4 DEF StopAtOnce, Rest, Resting, Typed, TypeOK
  <2>2. running[s] /\ Kind[s] # "web" BY <1>4 DEF StopAtOnce
  <2>3. bound[s] # None /\ bound[s] = handle[s]
    <3>1. bound[s] # None BY <2>2 DEF Tracked, RunningListens
    <3>2. bound[s] \in Actors BY <3>1 DEF Typed, TypeOK
    <3>3. ~(pc[bound[s]] = "bound" /\ job[bound[s]].service = s)
      BY <2>2, <3>2 DEF Tracked, HoldsSocket
    <3>4. QED BY <2>2, <3>1, <3>3 DEF Tracked, SocketOwned
  <2>4. /\ bound'[s] = None /\ ~running'[s]
        /\ \A x \in Services \ {s} : bound'[x] = bound[x] /\ running'[x] = running[x]
    BY <1>4, <2>3 DEF StopAtOnce, Unbound, Typed, TypeOK
  <2>5. \A b \in Actors : pc[b] = "bound" => job[b].service # s
    BY <2>2 DEF Tracked, HoldsSocket
  <2>6. \A b \in Actors : pc[b] = "bound" => job[b].service \in Services
    BY DEF Typed, JobNamed, Busy
  <2>7. Suspends' BY <1>1, <2>1 DEF Tracked, Suspends
  <2>8. HoldsSocket' BY <1>1, <2>1, <2>4, <2>5, <2>6 DEF Tracked, HoldsSocket
  <2>9. SocketOwned'
    BY <1>1, <1>2, <2>1, <2>4, NoneIsNobody DEF Tracked, SocketOwned, Typed, TypeOK
  <2>10. RunningListens' BY <2>4 DEF Tracked, RunningListens
  <2>11. QED BY <2>7, <2>8, <2>9, <2>10 DEF Tracked
<1>5. CASE BeginStop(a, s)
  <2>1. pc'[a] = "closing" /\ Kind[s] = "web" BY <1>5 DEF BeginStop, Typed, TypeOK
  <2>2. UNCHANGED running BY <1>5 DEF BeginStop
  <2>3. \A x \in Services : Kind[x] # "web" => bound'[x] = bound[x]
    BY <1>5, <2>1 DEF BeginStop, Unbound, Typed, TypeOK
  <2>4. \A b \in Actors : pc[b] = "bound" => job[b].service \in Services
    BY DEF Typed, JobNamed, Busy
  <2>5. QED BY <1>1, <1>2, <2>1, <2>2, <2>3, <2>4, NoneIsNobody
    DEF Tracked, Suspends, HoldsSocket, SocketOwned, RunningListens, Typed, TypeOK
<1>6. QED BY <1>3, <1>4, <1>5 DEF Stop

\* A socket that is bound, and a start that ends with it.
LEMMA BindTracked ==
  ASSUME Typed, Tracked, NEW a \in Actors, Bind(a)
  PROVE  Tracked'
<1> DEFINE s == job[a].service
<1>1. s \in Services /\ pc[a] = "binding" /\ bound[s] = None
  BY DEF Bind, Typed, JobNamed, Busy
<1>2. /\ bound'[s] = a
      /\ \A x \in Services \ {s} : bound'[x] = bound[x]
      /\ pc'[a] = "bound"
      /\ \A b \in Actors \ {a} : pc'[b] = pc[b]
      /\ UNCHANGED <<job, running, handle>>
  BY <1>1 DEF Bind, Typed, TypeOK
<1>3. Kind[s] # "web" => ~running[s] BY <1>1 DEF Tracked, RunningListens
<1>4. \A b \in Actors : pc[b] = "bound" /\ Kind[job[b].service] # "web" => job[b].service # s
  BY <1>1, NoneIsNobody DEF Tracked, HoldsSocket
<1>5. \A b \in Actors : pc[b] = "bound" => job[b].service \in Services
  BY DEF Typed, JobNamed, Busy
<1>6. Suspends' BY <1>1, <1>2 DEF Tracked, Suspends
<1>7. HoldsSocket' BY <1>1, <1>2, <1>3, <1>4, <1>5 DEF Tracked, HoldsSocket
<1>8. SocketOwned' BY <1>1, <1>2 DEF Tracked, SocketOwned, Typed, TypeOK
<1>9. RunningListens' BY <1>2, NoneIsNobody DEF Tracked, RunningListens
<1>10. QED BY <1>6, <1>7, <1>8, <1>9 DEF Tracked

LEMMA StartedTracked ==
  ASSUME Typed, Tracked, NEW a \in Actors, Started(a)
  PROVE  Tracked'
<1> DEFINE s == job[a].service
<1>1. s \in Services /\ pc[a] = "bound"
  BY DEF Started, Typed, JobNamed, Busy
<1>2. /\ running'[s]
      /\ \A x \in Services \ {s} : running'[x] = running[x] /\ handle'[x] = handle[x]
      /\ Kind[s] # "web" => handle'[s] = a
      /\ pc'[a] \notin Busy
      /\ \A b \in Actors \ {a} : pc'[b] = pc[b]
      /\ UNCHANGED <<job, bound>>
  BY <1>1 DEF Started, Rest, Resting, Busy, Typed, TypeOK
<1>3. Kind[s] # "web" => bound[s] = a BY <1>1 DEF Tracked, HoldsSocket
<1>4. \A b \in Actors \ {a} :
        pc[b] = "bound" /\ Kind[job[b].service] # "web" => job[b].service # s
  BY <1>1, <1>3 DEF Tracked, HoldsSocket
<1>5. \A b \in Actors : pc[b] = "bound" => job[b].service \in Services
  BY DEF Typed, JobNamed, Busy
<1>6. Suspends' BY <1>2 DEF Tracked, Suspends, Busy
<1>7. HoldsSocket' BY <1>2, <1>4, <1>5 DEF Tracked, HoldsSocket, Busy
<1>8. SocketOwned' BY <1>1, <1>2, <1>3 DEF Tracked, SocketOwned, Typed, TypeOK
<1>9. RunningListens' BY <1>2, <1>3, NoneIsNobody DEF Tracked, RunningListens
<1>10. QED BY <1>6, <1>7, <1>8, <1>9 DEF Tracked

\* A stop that ends is one of a web service.
LEMMA StoppedTracked ==
  ASSUME Typed, Tracked, NEW a \in Actors, Stopped(a)
  PROVE  Tracked'
<1> DEFINE s == job[a].service
<1>1. s \in Services /\ pc[a] = "closing" /\ Kind[s] = "web"
  BY DEF Stopped, Typed, JobNamed, Busy, Tracked, Suspends
<1>2. /\ \A x \in Services \ {s} : running'[x] = running[x]
      /\ pc'[a] \notin Busy
      /\ \A b \in Actors \ {a} : pc'[b] = pc[b]
      /\ UNCHANGED <<job, bound, handle>>
  BY <1>1 DEF Stopped, Resting, Busy, Typed, TypeOK
<1>3. \A b \in Actors : pc[b] = "bound" => job[b].service \in Services
  BY DEF Typed, JobNamed, Busy
<1>4. Suspends' BY <1>2 DEF Tracked, Suspends, Busy
<1>5. HoldsSocket' BY <1>1, <1>2, <1>3 DEF Tracked, HoldsSocket, Busy
<1>6. SocketOwned' BY <1>1, <1>2 DEF Tracked, SocketOwned, Typed, TypeOK
<1>7. RunningListens' BY <1>1, <1>2 DEF Tracked, RunningListens
<1>8. QED BY <1>4, <1>5, <1>6, <1>7 DEF Tracked

LEMMA ActorTracked ==
  ASSUME Typed, Tracked, NEW a \in Actors, ActorStep(a)
  PROVE  Tracked'
<1>1. CASE BindFails(a) \/ StopFails(a)
  <2>1. pc[a] # "bound" /\ pc'[a] \notin Busy
    BY <1>1 DEF BindFails, StopFails, Rest, Resting, Busy, Typed, TypeOK
  <2>2. \A b \in Actors \ {a} : pc'[b] = pc[b] /\ job'[b] = job[b]
    BY <1>1 DEF BindFails, StopFails, Rest, Typed, TypeOK
  <2>3. UNCHANGED <<running, bound, handle>> BY <1>1 DEF BindFails, StopFails
  <2>4. QED BY <2>1, <2>2, <2>3, RestTracked
<1>2. QED BY <1>1, BindTracked, StartedTracked, StoppedTracked DEF ActorStep

\* The steps of toggles and of run().
LEMMA RequestTracked ==
  ASSUME Typed, ~lingers, Tracked, NEW r \in Requests, RequestStep(r)
  PROVE  Tracked'
<1>1. r \in Actors BY DEF Actors
<1>2. CASE Write(r)
  <2>1. job[r].service \in Services /\ job[r].on \in BOOLEAN /\ pc[r] = "writing"
    BY <1>1, <1>2 DEF Write, Typed, TypeOK, JobNamed
  <2>2. Take(r, job[r].service, job[r].on) BY <1>2 DEF Write
  <2>3. Start(r, job[r].service) \/ Stop(r, job[r].service) BY <1>2 DEF Write
  <2>4. QED BY <1>1, <2>1, <2>2, <2>3, StartTracked, StopTracked
<1>3. CASE pc[r] \in {"writing", "alerting"} /\ Finish(r)
  <2>1. pc[r] # "bound" /\ pc'[r] \notin Busy
    BY <1>1, <1>3 DEF Finish, Busy, Typed, TypeOK
  <2>2. \A b \in Actors \ {r} : pc'[b] = pc[b] /\ job'[b] = job[b]
    BY <1>1, <1>3 DEF Finish, Typed, TypeOK
  <2>3. UNCHANGED <<running, bound, handle>> BY <1>3 DEF Finish
  <2>4. QED BY <1>1, <2>1, <2>2, <2>3, RestTracked
<1>4. QED BY <1>2, <1>3 DEF RequestStep, WriteFails, Return

LEMMA RunTracked ==
  ASSUME Typed, ~lingers, Tracked, BootNext \/ StopNext
  PROVE  Tracked'
<1>1. Main \in Actors /\ Head(todo) \in Services /\ pc[Main] = "idle"
  BY HeadTail DEF BootNext, StopNext, Typed, TypeOK, Actors
<1>2. CASE BootNext /\ Wanted(Head(todo))
  BY <1>1, <1>2, StartTracked DEF BootNext
<1>3. CASE BootNext /\ ~Wanted(Head(todo))
  BY <1>3 DEF BootNext, Tracked, Suspends, HoldsSocket, SocketOwned, RunningListens
<1>4. CASE StopNext BY <1>1, <1>4, StopTracked DEF StopNext
<1>5. QED BY <1>2, <1>3, <1>4

\* Whatever toggles, boots, failures and crashes overlap, a listener that
\* stop cannot keep waiting (Python 3.11) is never lost track of: what
\* listens is what the service would close, and what runs listens.
THEOREM ListenersNeverLost == Spec => []ListenerTracked
<1>1. Init => TrackedInv
  BY ServiceManagerAssumption
     DEF Init, TrackedInv, Typed, TypeOK, JobNamed, All, Nothing, Busy, Actors,
         Tracked, Suspends, HoldsSocket, SocketOwned, RunningListens
<1>2. Typed /\ TrackedInv /\ [Next]_vars => (~lingers => Tracked)'
  <2> SUFFICES ASSUME Typed, TrackedInv, [Next]_vars, ~lingers'
               PROVE  Tracked'
    OBVIOUS
  <2>1. CASE UNCHANGED vars
    BY <2>1 DEF vars, TrackedInv, Tracked, Suspends, HoldsSocket, SocketOwned, RunningListens
  <2>2. lingers' = lingers
    BY DEF vars, Next, Toggle, RequestStep, Write, WriteFails, Return, Finish,
           ActorStep, Bind, BindFails, Started, Stopped, StopFails, Boot, BootNext,
           Serve, Shutdown, StopNext, Exit, Crash, Die
  <2>3. ~lingers /\ Tracked BY <2>2 DEF TrackedInv
  <2>4. ASSUME NEW r \in Requests, NEW s \in Services, NEW on \in BOOLEAN,
               Toggle(r, s, on)
        PROVE  Tracked'
    <3>1. r \in Actors /\ pc[r] # "bound" /\ pc'[r] \notin Busy
      BY <2>4 DEF Toggle, Actors, Busy, Typed, TypeOK
    <3>2. \A b \in Actors \ {r} : pc'[b] = pc[b] /\ job'[b] = job[b]
      BY <2>4 DEF Toggle, Typed, TypeOK
    <3>3. UNCHANGED <<running, bound, handle>> BY <2>4 DEF Toggle
    <3>4. QED BY <2>3, <3>1, <3>2, <3>3, RestTracked
  <2>5. ASSUME NEW r \in Requests, RequestStep(r) PROVE Tracked'
    BY <2>3, <2>5, RequestTracked
  <2>6. ASSUME NEW a \in Actors, ActorStep(a) PROVE Tracked'
    BY <2>3, <2>6, ActorTracked
  <2>7. CASE BootNext \/ StopNext BY <2>3, <2>7, RunTracked
  <2>8. CASE Boot \/ Serve \/ Shutdown
    BY <2>3, <2>8 DEF Boot, Serve, Shutdown, Tracked, Suspends, HoldsSocket,
                      SocketOwned, RunningListens
  <2>9. CASE Die
    BY <2>9 DEF Die, All, Tracked, Suspends, HoldsSocket, SocketOwned, RunningListens
  <2>10. QED BY <2>1, <2>4, <2>5, <2>6, <2>7, <2>8, <2>9 DEF Next, Exit, Crash
<1>3. TrackedInv => ListenerTracked
  BY DEF TrackedInv, Tracked, SocketOwned, RunningListens, ListenerTracked
<1>4. QED BY <1>1, <1>2, <1>3, TypedCorrect, PTL DEF Spec, TrackedInv
-----------------------------------------------------------------------------
(* A toggle is applied and persisted.  The invariant follows a service     *)
(* that no start or stop has been overtaken on and that none has failed    *)
(* on; what overtakes or fails is free to leave it in any state.           *)
InTodo(s) == \E i \in 1..Len(todo) : todo[i] = s
Works(a, s) == pc[a] \in Busy /\ job[a].service = s
Plain(s) == ~raced[s] /\ ~faulted[s]

\* What the work in progress is for: stop_all stops whatever the table says.
Target(s) == main # "stopall" /\ Wanted(s)

\* Requests are served between Serve and Shutdown, run() works before and after.
Phases ==
  /\ \A r \in Requests : pc[r] \in {"idle", "done"} \/ main = "up"
  /\ pc[Main] \in Busy \cup {"idle"}
  /\ main \in {"down", "up"} => pc[Main] = "idle" /\ todo = <<>>
  /\ main = "down" => \A s \in Services : ~running[s] /\ bound[s] = None

\* Where an actor is suspended tells whether it starts or stops.
Directed ==
  \A a \in Actors :
    /\ pc[a] \in {"binding", "bound"} => job[a].on
    /\ pc[a] = "closing" => ~job[a].on /\ (Kind[job[a].service] # "server" \/ lingers)
    /\ pc[a] \in Busy => Kind[job[a].service] # "thread"

\* All who work on a service do what is wanted of it, on a web service alone.
OneWay(s) ==
  /\ \A a \in Actors : Works(a, s) => (job[a].on <=> Target(s))
  /\ Kind[s] = "web" => \A a, b \in Actors : Works(a, s) /\ Works(b, s) => a = b

\* The socket a start has bound is its own, a stop has closed it, and otherwise
\* it is the one of the running service.
Sockets(s) ==
  /\ \A a \in Actors : Works(a, s) =>
       /\ pc[a] = "bound" => bound[s] = a /\ ~running[s]
       /\ pc[a] = "closing" => running[s] /\ bound[s] = None
       /\ Kind[s] = "web" /\ pc[a] # "closing" =>
            handle[s] = a /\ ~running[s] /\ (pc[a] = "binding" => bound[s] = None)
  /\ bound[s] # None => \/ running[s] /\ handle[s] = bound[s]
                        \/ Works(bound[s], s) /\ pc[bound[s]] = "bound"
  /\ running[s] => bound[s] # None \/ \E a \in Actors : Works(a, s) /\ pc[a] = "closing"

\* A service run() has done with, and nobody works on, is where it should be.
Reached(s) ==
  /\ (\A a \in Actors : ~Works(a, s)) /\ main # "down" /\ ~InTodo(s)
       => (running[s] <=> Target(s))
  /\ main = "boot" /\ running[s] => Wanted(s)

Fine(s) == Plain(s) => OneWay(s) /\ Sockets(s) /\ Reached(s)
FineInv == Typed /\ Phases /\ Directed /\ \A s \in Services : Fine(s)

\* What a step that is none of its business leaves of a service.
Untouched(s) ==
  /\ \A a \in Actors :
       /\ Works(a, s)' <=> Works(a, s)
       /\ Works(a, s) => pc'[a] = pc[a] /\ job'[a].on = job[a].on
  /\ stored'[s] = stored[s] /\ running'[s] = running[s]
  /\ bound'[s] = bound[s] /\ handle'[s] = handle[s]
  /\ raced'[s] = raced[s] /\ faulted'[s] = faulted[s]

LEMMA UntouchedFine ==
  ASSUME Typed, NEW s \in Services, Fine(s), Untouched(s), main' = main,
         InTodo(s)' <=> InTodo(s)
  PROVE  Fine(s)'
<1> SUFFICES ASSUME Plain(s)' PROVE OneWay(s)' /\ Sockets(s)' /\ Reached(s)'
  BY DEF Fine
<1>1. Plain(s) BY DEF Plain, Untouched
<1>2. OneWay(s) /\ Sockets(s) /\ Reached(s) BY <1>1 DEF Fine
<1>3. (Target(s)' <=> Target(s)) /\ (Wanted(s)' <=> Wanted(s))
  BY DEF Target, Wanted, Untouched
<1>4. OneWay(s)' BY <1>2, <1>3 DEF OneWay, Untouched
<1>5. bound[s] # None => bound[s] \in Actors BY DEF Typed, TypeOK
<1>6. Sockets(s)' BY <1>2, <1>5 DEF Sockets, Untouched
<1>7. Reached(s)' BY <1>2, <1>3 DEF Reached, Untouched
<1>8. QED BY <1>4, <1>6, <1>7

\* What a start or stop up to its first suspension does, and to whom.
LEMMA TakeUp ==
  ASSUME Typed, NEW a \in Actors, NEW s \in Services, NEW on \in BOOLEAN,
         pc[a] \in {"idle", "writing"}, Take(a, s, on), Start(a, s) \/ Stop(a, s)
  PROVE  /\ ~Works(a, s)
         /\ \A b \in Actors \ {a} : pc'[b] = pc[b] /\ job'[b] = job[b]
         /\ job'[a].service = s /\ job'[a].on = on
         /\ \A x \in Services \ {s} :
              /\ running'[x] = running[x] /\ bound'[x] = bound[x]
              /\ handle'[x] = handle[x]
              /\ raced'[x] = raced[x] /\ faulted'[x] = faulted[x]
              /\ ~Works(a, x) /\ ~Works(a, x)'
<1>1. /\ \A b \in Actors \ {a} : pc'[b] = pc[b] /\ job'[b] = job[b]
      /\ job'[a].service = s
  BY Moves
<1>2. job'[a].on = on BY DEF Take, Typed, TypeOK
<1>3. \A x \in Services : ~Works(a, x) BY DEF Works, Busy
<1>4. \A x \in Services \ {s} : raced'[x] = raced[x] BY DEF Take, Typed, TypeOK
<1>5. CASE Start(a, s)
  BY <1>1, <1>2, <1>3, <1>4, <1>5
     DEF Start, AlreadyRunning, StartThread, StartThreadFails, BeginStart, Typed, TypeOK,
         Works
<1>6. CASE Stop(a, s)
  <2>1. \A x \in Services \ {s} : Unbound(s)[x] = bound[x] BY DEF Unbound, Typed, TypeOK
  <2>2. QED BY <1>1, <1>2, <1>3, <1>4, <1>6, <2>1
    DEF Stop, NotRunning, StopAtOnce, BeginStop, Typed, TypeOK, Works
<1>7. QED BY <1>5, <1>6

\* It leaves the other services alone.
LEMMA TakeUpOther ==
  ASSUME Typed, NEW a \in Actors, NEW s \in Services, NEW on \in BOOLEAN,
         pc[a] \in {"idle", "writing"}, Take(a, s, on), Start(a, s) \/ Stop(a, s),
         main' = main, NEW x \in Services, x # s, Fine(x), stored'[x] = stored[x],
         InTodo(x)' <=> InTodo(x)
  PROVE  Fine(x)'
<1>1. /\ \A b \in Actors \ {a} : pc'[b] = pc[b] /\ job'[b] = job[b]
      /\ ~Works(a, x) /\ ~Works(a, x)'
      /\ running'[x] = running[x] /\ bound'[x] = bound[x] /\ handle'[x] = handle[x]
      /\ raced'[x] = raced[x] /\ faulted'[x] = faulted[x]
  BY TakeUp
<1>2. \A b \in Actors \ {a} : Works(b, x)' <=> Works(b, x) BY <1>1 DEF Works
<1>3. Untouched(x) BY <1>1, <1>2 DEF Untouched
<1>4. QED BY <1>3, UntouchedFine

\* Who is not overtaken joins work in the same direction, or finds none.
LEMMA NotOvertaking ==
  ASSUME Typed, Phases, Directed, NEW s \in Services, Fine(s),
         NEW a \in Actors, NEW on \in BOOLEAN, ~Works(a, s),
         Take(a, s, on), Plain(s)', faulted'[s] = faulted[s]
  PROVE  /\ Plain(s) /\ OneWay(s) /\ Sockets(s) /\ Reached(s)
         /\ \A b \in Actors : Works(b, s) =>
              b # a /\ job[b].on = on /\ Kind[s] = "server"
<1>1. ~Overtakes(a, s, on) /\ ~raced[s] BY DEF Take, Plain, Typed, TypeOK
<1>2. Plain(s) BY <1>1 DEF Plain
<1>3. \A b \in Actors : Works(b, s) => b # a /\ job[b].on = on /\ Kind[s] # "web"
  BY <1>1 DEF Overtakes, Works
<1>4. \A b \in Actors : Works(b, s) => Kind[s] # "thread" BY DEF Directed, Works
<1>5. QED BY <1>2, <1>3, <1>4, ServiceManagerAssumption DEF Fine

\* A start that is wanted and overtakes nobody keeps its service in order.
LEMMA StartFine ==
  ASSUME Typed, Phases, Directed, NEW s \in Services, Fine(s), NEW a \in Actors,
         pc[a] \in {"idle", "writing"}, Take(a, s, TRUE), Start(a, s),
         Target(s)', Wanted(s)'
  PROVE  Fine(s)'
<1> SUFFICES ASSUME Plain(s)' PROVE OneWay(s)' /\ Sockets(s)' /\ Reached(s)'
  BY DEF Fine
<1>1. /\ ~Works(a, s)
      /\ \A b \in Actors \ {a} : pc'[b] = pc[b] /\ job'[b] = job[b]
      /\ job'[a].service = s /\ job'[a].on
  BY TakeUp
<1>2. ~StartThreadFails(a, s) /\ faulted'[s] = faulted[s]
  BY DEF Start, AlreadyRunning, StartThread, StartThreadFails, BeginStart, Plain, Typed,
         TypeOK
<1>3. /\ Plain(s) /\ OneWay(s) /\ Sockets(s) /\ Reached(s)
      /\ \A b \in Actors : Works(b, s) => b # a /\ job[b].on /\ Kind[s] = "server"
  BY <1>1, <1>2, NotOvertaking
<1>4. \A b \in Actors \ {a} : Works(b, s)' <=> Works(b, s) BY <1>1 DEF Works
<1>5. \A b \in Actors : Works(b, s) => pc[b] # "closing" BY <1>3 DEF Directed, Works
<1>6. OneWay(s)' BY <1>1, <1>3, <1>4 DEF OneWay
<1>7. (bound[s] # None => bound[s] \in Actors) /\ None \notin Actors
  BY NoneIsNobody DEF Typed, TypeOK
<1>8. CASE AlreadyRunning(a, s)
  <2>1. /\ running[s] /\ running' = running /\ bound' = bound /\ handle' = handle
        /\ ~Works(a, s)'
    BY <1>8 DEF AlreadyRunning, Rest, Resting, Works, Busy, Typed, TypeOK
  <2>2. Sockets(s)' BY <1>1, <1>3, <1>4, <1>5, <1>7, <2>1 DEF Sockets
  <2>3. Reached(s)' BY <2>1 DEF Reached
  <2>4. QED BY <1>6, <2>2, <2>3
<1>9. CASE StartThread(a, s)
  <2>1. /\ running'[s] /\ bound'[s] = a /\ handle'[s] = a /\ Kind[s] = "thread"
        /\ ~Works(a, s)'
    BY <1>9 DEF StartThread, Rest, Resting, Works, Busy, Typed, TypeOK
  <2>2. \A b \in Actors : ~Works(b, s)' BY <1>3, <1>4, <2>1
  <2>3. Sockets(s)' BY <1>7, <2>1, <2>2 DEF Sockets
  <2>4. Reached(s)' BY <2>1 DEF Reached
  <2>5. QED BY <1>6, <2>3, <2>4
<1>10. CASE BeginStart(a, s)
  <2>1. /\ ~running[s] /\ running' = running /\ bound' = bound
        /\ pc'[a] = "binding" /\ Works(a, s)'
        /\ handle'[s] = IF Kind[s] = "web" THEN a ELSE handle[s]
    BY <1>1, <1>10 DEF BeginStart, Works, Busy, Typed, TypeOK
  <2>2. Kind[s] = "web" => bound[s] = None BY <1>3, <1>7, <2>1 DEF Sockets
  <2>3. \A b \in Actors \ {a} : Works(b, s)' => pc'[b] = pc[b] /\ Works(b, s)
    BY <1>1, <1>4
  <2>4. ASSUME NEW b \in Actors, Works(b, s)'
        PROVE  /\ pc'[b] = "bound" => bound'[s] = b /\ ~running'[s]
               /\ pc'[b] # "closing"
               /\ Kind[s] = "web" => b = a
    BY <1>3, <1>5, <2>1, <2>3, <2>4 DEF Sockets
  <2>5. (bound[s] # None => Works(bound[s], s) /\ pc[bound[s]] = "bound")'
    <3>1. ASSUME NEW b \in Actors, Works(b, s), pc[b] = "bound"
          PROVE  Works(b, s)' /\ pc'[b] = "bound"
      BY <1>1, <1>3, <1>4, <3>1
    <3>2. bound[s] # None => Works(bound[s], s) /\ pc[bound[s]] = "bound"
      BY <1>3, <2>1 DEF Sockets
    <3>3. bound'[s] = bound[s] BY <2>1
    <3>4. QED BY <1>7, <3>1, <3>2, <3>3 DEF Works
  <2>6. Sockets(s)' BY <2>1, <2>2, <2>4, <2>5 DEF Sockets
  <2>7. Reached(s)' BY <2>1 DEF Reached
  <2>8. QED BY <1>6, <2>6, <2>7
<1>11. QED BY <1>2, <1>8, <1>9, <1>10 DEF Start

\* So does a stop.
LEMMA StopFine ==
  ASSUME Typed, Phases, Directed, NEW s \in Services, Fine(s), NEW a \in Actors,
         pc[a] \in {"idle", "writing"}, Take(a, s, FALSE), Stop(a, s),
         ~Target(s)', UNCHANGED <<main, lingers>>, main # "boot"
  PROVE  Fine(s)'
<1> SUFFICES ASSUME Plain(s)' PROVE OneWay(s)' /\ Sockets(s)' /\ Reached(s)'
  BY DEF Fine
<1>1. /\ ~Works(a, s)
      /\ \A b \in Actors \ {a} : pc'[b] = pc[b] /\ job'[b] = job[b]
      /\ job'[a].service = s /\ ~job'[a].on
  BY TakeUp
<1>2. UNCHANGED <<handle, faulted>> BY DEF Stop
<1>3. /\ Plain(s) /\ OneWay(s) /\ Sockets(s) /\ Reached(s)
      /\ \A b \in Actors : Works(b, s) => b # a /\ ~job[b].on /\ Kind[s] = "server"
  BY <1>1, <1>2, NotOvertaking
<1>4. \A b \in Actors \ {a} : Works(b, s)' <=> Works(b, s) BY <1>1 DEF Works
<1>5. \A b \in Actors : Works(b, s) =>
        pc[b] = "closing" /\ running[s] /\ bound[s] = None /\ lingers
  BY <1>3 DEF Directed, Works, Busy, Sockets
<1>6. OneWay(s)' BY <1>1, <1>3, <1>4 DEF OneWay
<1>7. (bound[s] # None => bound[s] \in Actors) /\ None \notin Actors
  BY NoneIsNobody DEF Typed, TypeOK
<1>8. bound[s] # None => running[s] /\ handle[s] = bound[s]
  BY <1>3, <1>5, <1>7 DEF Sockets
<1>9. CASE NotRunning(a, s)
  <2>1. ~running[s] /\ running' = running /\ bound' = bound /\ ~Works(a, s)'
    BY <1>9 DEF NotRunning, Rest, Resting, Works, Busy, Typed, TypeOK
  <2>2. \A b \in Actors : ~Works(b, s)' BY <1>4, <1>5, <2>1
  <2>3. bound'[s] = None BY <1>8, <2>1
  <2>4. Sockets(s)' BY <2>1, <2>2, <2>3 DEF Sockets
  <2>5. Reached(s)' BY <2>1 DEF Reached
  <2>6. QED BY <1>6, <2>4, <2>5
<1>10. CASE StopAtOnce(a, s)
  <2>1. /\ running[s] /\ ~running'[s] /\ bound' = Unbound(s) /\ ~Works(a, s)'
        /\ Kind[s] = "server" => ~lingers
    BY <1>10 DEF StopAtOnce, Rest, Resting, Works, Busy, Typed, TypeOK
  <2>2. \A b \in Actors : ~Works(b, s)' BY <1>3, <1>4, <1>5, <2>1
  <2>3. bound'[s] = None BY <1>8, <2>1 DEF Unbound, Typed, TypeOK
  <2>4. Sockets(s)' BY <2>1, <2>2, <2>3 DEF Sockets
  <2>5. Reached(s)' BY <2>1 DEF Reached
  <2>6. QED BY <1>6, <2>4, <2>5
<1>11. CASE BeginStop(a, s)
  <2>1. /\ running[s] /\ running' = running /\ bound' = Unbound(s)
        /\ pc'[a] = "closing" /\ Works(a, s)'
    BY <1>1, <1>11 DEF BeginStop, Works, Busy, Typed, TypeOK
  <2>2. bound'[s] = None BY <1>8, <2>1 DEF Unbound, Typed, TypeOK
  <2>3. \A b \in Actors : Works(b, s)' => pc'[b] = "closing"
    BY <1>1, <1>4, <1>5, <2>1
  <2>4. Sockets(s)' BY <2>1, <2>2, <2>3 DEF Sockets
  <2>5. Reached(s)' BY <2>1 DEF Reached
  <2>6. QED BY <1>6, <2>4, <2>5
<1>12. QED BY <1>9, <1>10, <1>11 DEF Stop

\* The steps between the suspensions, for the service worked on.
LEMMA ActorFine ==
  ASSUME Typed, Phases, Directed, NEW a \in Actors, ActorStep(a),
         NEW s \in Services, job[a].service = s, Fine(s)
  PROVE  Fine(s)'
<1>1. Works(a, s) /\ UNCHANGED <<stored, job, main, todo, raced>>
  BY DEF ActorStep, Bind, BindFails, Started, Stopped, StopFails, Works, Busy
<1>2. (Target(s)' <=> Target(s)) /\ (Wanted(s)' <=> Wanted(s))
  BY <1>1 DEF Target, Wanted
<1> SUFFICES ASSUME Plain(s)' PROVE OneWay(s)' /\ Sockets(s)' /\ Reached(s)'
  BY DEF Fine
<1>3. Plain(s) /\ faulted'[s] = faulted[s]
  BY <1>1 DEF ActorStep, Bind, BindFails, Started, Stopped, StopFails, Plain, Typed, TypeOK
<1>4. OneWay(s) /\ Sockets(s) /\ Reached(s) BY <1>3 DEF Fine
<1>5. (bound[s] # None => bound[s] \in Actors) /\ None \notin Actors
  BY NoneIsNobody DEF Typed, TypeOK
<1>6. CASE Bind(a)
  <2>1. /\ pc[a] = "binding" /\ bound[s] = None /\ bound'[s] = a /\ pc'[a] = "bound"
        /\ \A b \in Actors \ {a} : pc'[b] = pc[b]
        /\ UNCHANGED <<running, handle>>
    BY <1>6 DEF Bind, Typed, TypeOK
  <2>2. \A b \in Actors : Works(b, s)' <=> Works(b, s) BY <1>1, <2>1 DEF Works, Busy
  <2>3. \A b \in Actors : Works(b, s) => pc[b] = "binding"
    <3>1. job[a].on /\ \A b \in Actors : Works(b, s) => job[b].on
      BY <1>1, <1>4, <2>1 DEF Directed, OneWay
    <3>2. \A b \in Actors : Works(b, s) => pc[b] # "closing" BY <3>1 DEF Directed
    <3>3. \A b \in Actors : Works(b, s) => pc[b] # "bound"
      BY <1>4, <1>5, <2>1 DEF Sockets
    <3>4. QED BY <3>2, <3>3 DEF Works, Busy
  <2>4. ~running[s] BY <1>4, <2>1, <2>3 DEF Sockets
  <2>5. OneWay(s)' BY <1>1, <1>2, <1>4, <2>2 DEF OneWay
  <2>6. Sockets(s)'
    BY <1>1, <1>4, <1>5, <2>1, <2>2, <2>3, <2>4 DEF Sockets, OneWay
  <2>7. Reached(s)' BY <1>1, <2>2, <2>4, <2>1 DEF Reached
  <2>8. QED BY <2>5, <2>6, <2>7
<1>7. CASE BindFails(a)
  <2>1. /\ pc[a] = "binding" /\ bound[s] # None /\ ~Works(a, s)'
        /\ \A b \in Actors \ {a} : pc'[b] = pc[b]
        /\ UNCHANGED <<running, handle, bound>>
    <3>1. bound[s] # None BY <1>7 DEF BindFails, Plain, Typed, TypeOK
    <3>2. QED BY <1>7, <3>1 DEF BindFails, Rest, Resting, Works, Busy, Typed, TypeOK
  <2>2. \A b \in Actors \ {a} : Works(b, s)' <=> Works(b, s) BY <1>1, <2>1 DEF Works
  <2>3. OneWay(s)' BY <1>1, <1>2, <1>4, <2>1, <2>2 DEF OneWay
  <2>4. job[a].on /\ Target(s) BY <1>1, <1>4, <2>1 DEF OneWay, Directed
  <2>5. \/ running[s] /\ handle[s] = bound[s]
        \/ bound[s] # a /\ Works(bound[s], s)' /\ pc'[bound[s]] = "bound" /\ Works(bound[s], s)
    BY <1>1, <1>4, <1>5, <2>1, <2>2 DEF Sockets, Works
  <2>6. Sockets(s)' BY <1>1, <1>4, <2>1, <2>2, <2>5 DEF Sockets
  <2>7. Reached(s)' BY <1>1, <1>2, <1>4, <1>5, <2>1, <2>4, <2>5 DEF Reached, Works
  <2>8. QED BY <2>3, <2>6, <2>7
<1>8. CASE Started(a)
  <2>1. /\ pc[a] = "bound" /\ running'[s] /\ ~Works(a, s)'
        /\ \A b \in Actors \ {a} : pc'[b] = pc[b]
        /\ handle'[s] = (IF Kind[s] = "web" THEN handle[s] ELSE a)
        /\ UNCHANGED bound
    BY <1>8 DEF Started, Rest, Resting, Works, Busy, Typed, TypeOK
  <2>2. \A b \in Actors \ {a} : Works(b, s)' <=> Works(b, s) BY <1>1, <2>1 DEF Works
  <2>3. bound[s] = a /\ handle'[s] = a BY <1>1, <1>4, <2>1 DEF Sockets
  <2>4. job[a].on /\ Target(s) BY <1>1, <1>4, <2>1 DEF OneWay, Directed
  <2>5. OneWay(s)' BY <1>1, <1>2, <1>4, <2>1, <2>2 DEF OneWay
  <2>6. \A b \in Actors : Works(b, s)' =>
          b # a /\ Works(b, s) /\ pc'[b] = "binding" /\ Kind[s] # "web"
    <3>1. SUFFICES ASSUME NEW b \in Actors, Works(b, s)'
                   PROVE  b # a /\ Works(b, s) /\ pc'[b] = "binding" /\ Kind[s] # "web"
      OBVIOUS
    <3>2. b # a /\ Works(b, s) /\ pc'[b] = pc[b] BY <2>1, <2>2, <3>1
    <3>3. job[b].on BY <1>4, <2>4, <3>2 DEF OneWay
    <3>4. pc[b] = "binding"
      BY <1>4, <2>3, <3>2, <3>3 DEF Directed, Sockets, Works, Busy
    <3>5. QED BY <1>1, <1>4, <3>2, <3>4 DEF OneWay
  <2>7. Sockets(s)' BY <1>5, <2>1, <2>3, <2>6 DEF Sockets
  <2>8. Reached(s)'
    <3>1. Wanted(s) BY <2>4 DEF Target
    <3>2. QED BY <1>1, <1>2, <2>1, <2>4, <3>1 DEF Reached
  <2>9. QED BY <2>5, <2>7, <2>8
<1>9. CASE Stopped(a)
  <2>1. /\ pc[a] = "closing" /\ ~running'[s]
        /\ UNCHANGED <<bound, handle>>
    BY <1>9 DEF Stopped, Typed, TypeOK
  <2>2. ~job[a].on /\ ~Target(s) /\ bound[s] = None
    BY <1>1, <1>4, <2>1 DEF Directed, OneWay, Sockets
  <2>3. ASSUME NEW b \in Actors PROVE ~Works(b, s)'
    <3>1. CASE Works(b, s)
      <4>1. ~job[b].on BY <1>4, <2>2, <3>1 DEF OneWay
      <4>2. pc[b] = "closing" BY <3>1, <4>1 DEF Directed, Works, Busy
      <4>3. b = a \/ Kind[s] = "server"
        BY <1>1, <1>4, <3>1, ServiceManagerAssumption DEF OneWay, Directed, Works
      <4>4. pc'[b] = Resting(b) BY <1>9, <3>1, <4>2, <4>3 DEF Stopped, Works
      <4>5. QED BY <4>4 DEF Resting, Works, Busy
    <3>2. CASE ~Works(b, s)
      <4>1. pc'[b] \in {pc[b], "idle", "alerting"} BY <1>9 DEF Stopped, Resting
      <4>2. QED BY <1>1, <3>2, <4>1 DEF Works, Busy
    <3>3. QED BY <3>1, <3>2
  <2>4. OneWay(s)' BY <2>3 DEF OneWay
  <2>5. Sockets(s)' BY <2>1, <2>2, <2>3 DEF Sockets
  <2>6. Reached(s)' BY <1>2, <2>1, <2>2 DEF Reached
  <2>7. QED BY <2>4, <2>5, <2>6
<1>10. CASE StopFails(a) BY <1>10 DEF StopFails, Plain, Typed, TypeOK
<1>11. QED BY <1>6, <1>7, <1>8, <1>9, <1>10 DEF ActorStep

\* They leave the other services alone.
LEMMA ActorOther ==
  ASSUME Typed, NEW a \in Actors, ActorStep(a),
         NEW x \in Services, job[a].service # x, Fine(x)
  PROVE  Fine(x)'
<1>1. UNCHANGED <<stored, job, main, todo, raced>>
  BY DEF ActorStep, Bind, BindFails, Started, Stopped, StopFails
<1>2. job[a].service \in Services
  BY DEF ActorStep, Bind, BindFails, Started, Stopped, StopFails, Typed, JobNamed, Busy
<1>3. /\ running'[x] = running[x] /\ bound'[x] = bound[x] /\ handle'[x] = handle[x]
      /\ faulted'[x] = faulted[x]
  BY <1>2 DEF ActorStep, Bind, BindFails, Started, Stopped, StopFails, Typed, TypeOK
<1>4. \A b \in Actors : job[b].service = x => pc'[b] = pc[b]
  BY DEF ActorStep, Bind, BindFails, Started, Stopped, StopFails, Rest, Typed, TypeOK
<1>5. Untouched(x) BY <1>1, <1>3, <1>4 DEF Untouched, Works
<1>6. QED BY <1>1, <1>5, UntouchedFine DEF InTodo

\* A request that is taken up, or is over.
LEMMA RequestFine ==
  ASSUME FineInv, NEW r \in Requests, RequestStep(r), NEW x \in Services
  PROVE  Fine(x)'
<1>1. r \in Actors /\ r # Main /\ Typed /\ Phases /\ Directed /\ Fine(x)
  BY ServiceManagerAssumption DEF FineInv, Actors
<1>2. CASE Write(r)
  <2> DEFINE s == job[r].service
             on == job[r].on
  <2>1. s \in Services /\ on \in BOOLEAN /\ pc[r] = "writing"
    BY <1>1, <1>2 DEF Write, Typed, TypeOK, JobNamed
  <2>2. Take(r, s, on) /\ (IF on THEN Start(r, s) ELSE Stop(r, s))
    BY <1>2 DEF Write
  <2>3. UNCHANGED <<main, todo, lingers>> /\ main = "up"
    BY <1>1, <1>2, <2>1 DEF Write, Phases
  <2>4. stored' = [stored EXCEPT ![s] = IF on THEN "on" ELSE "off"]
    BY <1>2 DEF Write
  <2> HIDE DEF s, on
  <2>5. stored'[s] = (IF on THEN "on" ELSE "off") /\ \A y \in Services \ {s} : stored'[y] = stored[y]
    BY <1>1, <2>1, <2>4 DEF Typed, TypeOK
  <2>6. CASE x # s
    BY <1>1, <2>1, <2>2, <2>3, <2>5, <2>6, TakeUpOther DEF InTodo
  <2>7. CASE x = s /\ on
    <3>1. Wanted(x)' /\ Target(x)' BY <2>3, <2>5, <2>7 DEF Wanted, Target
    <3>2. Take(r, x, TRUE) /\ Start(r, x) BY <2>1, <2>2, <2>7
    <3>3. QED BY <1>1, <2>1, <3>1, <3>2, StartFine
  <2>8. CASE x = s /\ ~on
    <3>1. ~Target(x)' BY <2>5, <2>8 DEF Wanted, Target
    <3>2. Take(r, x, FALSE) /\ Stop(r, x) BY <2>1, <2>2, <2>8
    <3>3. QED BY <1>1, <2>1, <2>3, <3>1, <3>2, StopFine
  <2>9. QED BY <2>6, <2>7, <2>8
<1>3. CASE pc[r] \in {"writing", "alerting"} /\ Finish(r)
  <2>1. /\ pc'[r] = "done" /\ \A b \in Actors \ {r} : pc'[b] = pc[b] /\ job'[b] = job[b]
        /\ UNCHANGED <<stored, running, bound, handle, main, todo, raced, faulted>>
    BY <1>1, <1>3 DEF Finish, Typed, TypeOK
  <2>2. Untouched(x) BY <1>3, <2>1 DEF Untouched, Works, Busy
  <2>3. QED BY <1>1, <2>1, <2>2, UntouchedFine DEF InTodo
<1>4. QED BY <1>2, <1>3 DEF RequestStep, WriteFails, Return

\* One service of start_all or stop_all.
LEMMA RunFine ==
  ASSUME FineInv, BootNext \/ StopNext, NEW x \in Services
  PROVE  Fine(x)'
<1>0. PICK s \in Services : s = Head(todo)
  BY HeadTail DEF FineInv, BootNext, StopNext, Typed, TypeOK
<1>1. /\ Main \in Actors /\ pc[Main] = "idle"
      /\ Typed /\ Phases /\ Directed /\ Fine(x)
      /\ UNCHANGED <<stored, main, lingers>> /\ todo' = Tail(todo)
      /\ todo \in Seq(Services) /\ todo # <<>>
  BY HeadTail DEF FineInv, BootNext, StopNext, Typed, TypeOK, Actors
<1>2. x # s => (InTodo(x)' <=> InTodo(x))
  <2>1. /\ Len(todo) \in Nat \ {0} /\ Len(Tail(todo)) = Len(todo) - 1
        /\ \A i \in 1..Len(Tail(todo)) : Tail(todo)[i] = todo[i + 1]
        /\ s = todo[1]
    BY <1>0, <1>1, HeadTailProperties
  <2>2. ASSUME x # s, InTodo(x) PROVE InTodo(x)'
    <3>1. PICK i \in 1..Len(todo) : todo[i] = x BY <2>2 DEF InTodo
    <3>2. i # 1 BY <2>1, <2>2, <3>1
    <3>3. i - 1 \in 1..Len(Tail(todo)) /\ Tail(todo)[i - 1] = todo[(i - 1) + 1]
      BY <2>1, <3>1, <3>2
    <3>4. QED BY <1>1, <2>1, <3>1, <3>3 DEF InTodo
  <2>3. ASSUME InTodo(x)' PROVE InTodo(x)
    <3>1. PICK i \in 1..Len(Tail(todo)) : Tail(todo)[i] = x BY <1>1, <2>3 DEF InTodo
    <3>2. i + 1 \in 1..Len(todo) /\ todo[i + 1] = x BY <2>1, <3>1
    <3>3. QED BY <3>2 DEF InTodo
  <2>4. QED BY <2>2, <2>3
<1>3. CASE BootNext /\ ~Wanted(s)
  <2>1. /\ UNCHANGED <<running, bound, handle, pc, job, raced, faulted>> /\ main = "boot"
    BY <1>0, <1>3 DEF BootNext
  <2>2. Untouched(x) BY <1>1, <2>1 DEF Untouched, Works
  <2>3. CASE x # s BY <1>1, <1>2, <2>2, <2>3, UntouchedFine
  <2>4. CASE x = s
    <3>1. Plain(x)' => Plain(x) BY <2>1 DEF Plain
    <3>2. OneWay(x) => OneWay(x)' BY <1>1, <2>1 DEF OneWay, Works, Target, Wanted
    <3>3. Sockets(x) => Sockets(x)' BY <2>1 DEF Sockets, Works
    <3>4. Reached(x) => Reached(x)'
      BY <1>1, <1>3, <2>1, <2>4 DEF Reached, Target, Wanted
    <3>5. QED BY <1>1, <3>1, <3>2, <3>3, <3>4 DEF Fine
  <2>5. QED BY <2>3, <2>4
<1>4. CASE BootNext /\ Wanted(s)
  <2>1. Take(Main, s, TRUE) /\ Start(Main, s) /\ main = "boot" BY <1>0, <1>4 DEF BootNext
  <2>2. Wanted(s)' /\ Target(s)' BY <1>1, <1>4, <2>1 DEF Wanted, Target
  <2>3. CASE x = s BY <1>1, <2>1, <2>2, <2>3, StartFine
  <2>4. CASE x # s BY <1>1, <1>2, <2>1, <2>4, TakeUpOther
  <2>5. QED BY <2>3, <2>4
<1>5. CASE StopNext
  <2>1. Take(Main, s, FALSE) /\ Stop(Main, s) /\ main = "stopall" BY <1>0, <1>5 DEF StopNext
  <2>2. ~Target(s)' BY <1>1, <2>1 DEF Target
  <2>3. CASE x = s BY <1>1, <2>1, <2>2, <2>3, StopFine
  <2>4. CASE x # s BY <1>1, <1>2, <2>1, <2>4, TakeUpOther
  <2>5. QED BY <2>3, <2>4
<1>6. QED BY <1>3, <1>4, <1>5

\* Where a start or stop suspends first tells which of them it is.
LEMMA TakeUpDirected ==
  ASSUME Typed, Directed, NEW a \in Actors, NEW s \in Services, NEW on \in BOOLEAN,
         pc[a] \in {"idle", "writing"}, Take(a, s, on), lingers' = lingers,
         IF on THEN Start(a, s) ELSE Stop(a, s)
  PROVE  Directed'
<1>1. /\ \A b \in Actors \ {a} : pc'[b] = pc[b] /\ job'[b] = job[b]
      /\ job'[a].service = s /\ job'[a].on = on
  BY TakeUp
<1>2. CASE on
  <2>1. pc'[a] \in {"idle", "alerting"} \/ (pc'[a] = "binding" /\ Kind[s] # "thread")
    BY <1>2 DEF Start, AlreadyRunning, StartThread, StartThreadFails, BeginStart, Rest,
                Resting, Typed, TypeOK
  <2>2. QED BY <1>1, <1>2, <2>1 DEF Directed, Busy
<1>3. CASE ~on
  <2>1. \/ pc'[a] \in {"idle", "alerting"}
        \/ pc'[a] = "closing" /\ (Kind[s] = "web" \/ (Kind[s] = "server" /\ lingers))
    BY <1>3 DEF Stop, NotRunning, StopAtOnce, BeginStop, Rest, Resting, Typed, TypeOK
  <2>2. QED BY <1>1, <1>3, <2>1 DEF Directed, Busy
<1>4. QED BY <1>2, <1>3

LEMMA ActorPhases ==
  ASSUME Typed, Phases, Directed, NEW a \in Actors, ActorStep(a)
  PROVE  Phases' /\ Directed'
<1>1. /\ pc[a] \in Busy /\ UNCHANGED <<job, main, todo, lingers>>
      /\ \A b \in Actors : pc'[b] \in {pc[b], Resting(b)} \/ (b = a /\ pc'[b] = "bound")
      /\ pc'[a] = "bound" => pc[a] = "binding"
  <2>1. UNCHANGED <<job, main, todo, lingers>>
    BY DEF ActorStep, Bind, BindFails, Started, Stopped, StopFails
  <2>2. Resting(a) # "bound" BY DEF Resting
  <2>3. CASE Bind(a) BY <2>1, <2>3 DEF Bind, Busy, Typed, TypeOK
  <2>4. CASE BindFails(a) BY <2>1, <2>2, <2>4 DEF BindFails, Rest, Busy, Typed, TypeOK
  <2>5. CASE Started(a) BY <2>1, <2>2, <2>5 DEF Started, Rest, Busy, Typed, TypeOK
  <2>6. CASE Stopped(a) BY <2>1, <2>2, <2>6 DEF Stopped, Busy
  <2>7. CASE StopFails(a) BY <2>1, <2>2, <2>7 DEF StopFails, Rest, Busy, Typed, TypeOK
  <2>8. QED BY <2>3, <2>4, <2>5, <2>6, <2>7 DEF ActorStep
<1>2. \A r \in Requests : r \in Actors /\ r # Main
  BY ServiceManagerAssumption DEF Actors
<1>3. \A b \in Actors : Resting(b) \notin Busy /\ (b = Main => Resting(b) = "idle")
  BY DEF Resting, Busy
<1>4. Directed' BY <1>1, <1>3 DEF Directed, Busy
<1>5. main # "down"
  <2>1. CASE a = Main BY <1>1, <2>1 DEF Phases, Busy
  <2>2. CASE a # Main BY <1>1, <2>2 DEF Phases, Actors, Busy
  <2>3. QED BY <2>1, <2>2
<1>6. Phases'
  <2>1. ASSUME NEW r \in Requests PROVE pc'[r] \in {"idle", "done"} \/ main' = "up"
    <3>1. CASE main = "up" BY <1>1, <3>1
    <3>2. CASE main # "up"
      <4>1. pc[r] \in {"idle", "done"} BY <3>2 DEF Phases
      <4>2. a = Main BY <1>1, <3>2 DEF Phases, Actors, Busy
      <4>3. pc'[r] = pc[r]
        BY <1>2, <4>1, <4>2 DEF ActorStep, Bind, BindFails, Started, Stopped, StopFails,
           Rest, Typed, TypeOK
      <4>4. QED BY <4>1, <4>3
    <3>3. QED BY <3>1, <3>2
  <2>2. Main \in Actors BY DEF Actors
  <2>3. pc'[Main] \in Busy \cup {"idle"} BY <1>1, <1>3, <2>2 DEF Phases, Busy
  <2>4. main = "up" => pc'[Main] = "idle"
    BY <1>1, <1>3, <2>2 DEF Phases, Busy
  <2>5. QED BY <1>1, <1>5, <2>1, <2>3, <2>4 DEF Phases
<1>7. QED BY <1>4, <1>6

LEMMA PhasesKept ==
  ASSUME Typed, Phases, Directed, [Next]_vars
  PROVE  Phases' /\ Directed'
<1>1. \A r \in Requests : r \in Actors /\ r # Main
  BY ServiceManagerAssumption DEF Actors
<1>2. Main \in Actors BY DEF Actors
<1>3. CASE UNCHANGED vars BY <1>3 DEF vars, Phases, Directed
<1>4. ASSUME NEW r \in Requests, NEW s \in Services, NEW on \in BOOLEAN, Toggle(r, s, on)
      PROVE  Phases' /\ Directed'
  <2>1. /\ pc'[r] = "writing" /\ \A b \in Actors \ {r} : pc'[b] = pc[b] /\ job'[b] = job[b]
        /\ UNCHANGED <<main, todo, lingers, running, bound>> /\ main = "up"
    BY <1>1, <1>4 DEF Toggle, Typed, TypeOK
  <2>2. QED BY <1>1, <1>2, <2>1 DEF Phases, Directed, Busy
<1>5. ASSUME NEW r \in Requests, RequestStep(r) PROVE Phases' /\ Directed'
  <2>1. pc[r] \in {"writing", "alerting"} /\ UNCHANGED <<main, todo, lingers>>
    BY <1>5 DEF RequestStep, Write, WriteFails, Return, Finish
  <2>2. main = "up" BY <2>1 DEF Phases
  <2>3. CASE Write(r)
    <3> DEFINE s == job[r].service
               on == job[r].on
    <3>1. s \in Services /\ on \in BOOLEAN /\ pc[r] = "writing"
      BY <1>1, <2>3 DEF Write, Typed, TypeOK, JobNamed
    <3>2. Take(r, s, on) /\ (IF on THEN Start(r, s) ELSE Stop(r, s))
      BY <2>3 DEF Write
    <3> HIDE DEF s, on
    <3>3. Directed' BY <1>1, <2>1, <3>1, <3>2, TakeUpDirected
    <3>4. \A b \in Actors \ {r} : pc'[b] = pc[b] BY <1>1, <3>1, <3>2, TakeUp
    <3>5. Phases' BY <1>1, <1>2, <2>1, <2>2, <3>4 DEF Phases
    <3>6. QED BY <3>3, <3>5
  <2>4. CASE Finish(r)
    <3>1. /\ pc'[r] = "done" /\ \A b \in Actors \ {r} : pc'[b] = pc[b] /\ job'[b] = job[b]
      BY <1>1, <2>4 DEF Finish, Typed, TypeOK
    <3>2. QED BY <1>1, <1>2, <2>1, <2>2, <3>1 DEF Phases, Directed, Busy
  <2>5. QED BY <1>5, <2>3, <2>4 DEF RequestStep, WriteFails, Return
<1>6. ASSUME NEW a \in Actors, ActorStep(a) PROVE Phases' /\ Directed'
  BY <1>6, ActorPhases
<1>7. CASE BootNext \/ StopNext
  <2> DEFINE s == Head(todo)
  <2>1. s \in Services /\ pc[Main] = "idle" /\ UNCHANGED <<main, lingers>>
        /\ main \in {"boot", "stopall"}
    BY <1>7, HeadTail DEF BootNext, StopNext, Typed, TypeOK
  <2>2. CASE BootNext /\ ~Wanted(s)
    BY <2>1, <2>2 DEF BootNext, Phases, Directed
  <2>3. CASE (BootNext /\ Wanted(s)) \/ StopNext
    <3>1. PICK on \in BOOLEAN : Take(Main, s, on) /\ (IF on THEN Start(Main, s) ELSE Stop(Main, s))
      BY <2>3 DEF BootNext, StopNext
    <3> HIDE DEF s
    <3>2. Directed' BY <1>2, <2>1, <3>1, TakeUpDirected
    <3>3. \A b \in Actors \ {Main} : pc'[b] = pc[b] BY <1>2, <2>1, <3>1, TakeUp
    <3>4. pc'[Main] \in Busy \cup {"idle"}
      BY <1>2, <2>1, <3>1 DEF Start, AlreadyRunning, StartThread, StartThreadFails,
         BeginStart, Stop, NotRunning, StopAtOnce, BeginStop, Rest, Resting, Busy, Typed,
         TypeOK
    <3>5. Phases' BY <1>1, <2>1, <3>3, <3>4 DEF Phases
    <3>6. QED BY <3>2, <3>5
  <2>4. QED BY <1>7, <2>2, <2>3
<1>8. CASE Boot \/ Serve \/ Shutdown
  BY <1>8 DEF Boot, Serve, Shutdown, Phases, Directed
<1>9. CASE Die
  BY <1>1, <1>2, <1>9, ServiceManagerAssumption
     DEF Die, All, Nothing, Phases, Directed, Busy, Typed, TypeOK
<1>10. QED BY <1>3, <1>4, <1>5, <1>6, <1>7, <1>8, <1>9 DEF Next, Exit, Crash

\* The steps of run() that touch no service: nobody works on one meanwhile.
LEMMA ProcessFine ==
  ASSUME FineInv, Boot \/ Serve \/ Shutdown \/ Die, NEW x \in Services
  PROVE  Fine(x)'
<1>1. Typed /\ Phases /\ Fine(x) BY DEF FineInv
<1>2. CASE Die
  <2>1. /\ \A a \in Actors : pc'[a] \notin Busy
        /\ running'[x] = FALSE /\ bound'[x] = None /\ main' = "down"
    BY <1>2 DEF Die, All, Busy
  <2>2. \A a \in Actors : ~Works(a, x)' BY <2>1 DEF Works
  <2>3. OneWay(x)' BY <2>2 DEF OneWay
  <2>4. Sockets(x)' BY <2>1, <2>2 DEF Sockets
  <2>5. Reached(x)' BY <2>1 DEF Reached
  <2>6. QED BY <2>3, <2>4, <2>5 DEF Fine
<1>3. CASE Boot \/ Serve \/ Shutdown
  <2>1. UNCHANGED <<stored, running, bound, handle, pc, job, lingers, raced, faulted>>
    BY <1>3 DEF Boot, Serve, Shutdown
  <2>2. \A a \in Actors : ~Works(a, x)
    <3>1. main \in {"down", "up"} \/ pc[Main] = "idle" BY <1>3 DEF Boot, Serve, Shutdown
    <3>2. pc[Main] = "idle" BY <1>1, <3>1 DEF Phases
    <3>3. \A r \in Requests : pc[r] \in {"idle", "done"}
      BY <1>1, <1>3 DEF Boot, Serve, Shutdown, Phases
    <3>4. QED BY <3>2, <3>3 DEF Works, Busy, Actors
  <2>3. \A a \in Actors : ~Works(a, x)' BY <2>1, <2>2 DEF Works
  <2>4. OneWay(x)' BY <2>3 DEF OneWay
  <2>5. (Plain(x)' <=> Plain(x)) /\ (Sockets(x) <=> Sockets(x)') /\ (Wanted(x)' <=> Wanted(x))
    BY <2>1, <2>2, <2>3 DEF Plain, Sockets, Works, Wanted
  <2>6. CASE Boot \/ Shutdown
    <3>1. todo' = Order BY <2>6 DEF Boot, Shutdown
    <3>2. InTodo(x)' BY <3>1, ServiceManagerAssumption DEF InTodo
    <3>3. main' = "boot" => ~running'[x]
      BY <1>1, <2>1, <2>6 DEF Boot, Shutdown, Phases
    <3>4. Reached(x)' BY <3>2, <3>3 DEF Reached
    <3>5. QED BY <1>1, <2>4, <2>5, <3>4 DEF Fine
  <2>7. CASE Serve
    <3>1. main = "boot" /\ main' = "up" /\ UNCHANGED todo BY <2>7 DEF Serve
    <3>2. (InTodo(x)' <=> InTodo(x)) /\ (Target(x)' <=> Target(x))
      BY <2>5, <3>1 DEF InTodo, Target
    <3>3. Reached(x) => Reached(x)' BY <2>1, <2>2, <3>1, <3>2 DEF Reached
    <3>4. QED BY <1>1, <2>4, <2>5, <3>3 DEF Fine
  <2>8. QED BY <1>3, <2>6, <2>7
<1>4. QED BY <1>2, <1>3

\* A request that comes in works on nothing yet.
LEMMA ToggleFine ==
  ASSUME FineInv, NEW r \in Requests, NEW s \in Services, NEW on \in BOOLEAN,
         Toggle(r, s, on), NEW x \in Services
  PROVE  Fine(x)'
<1>1. r \in Actors /\ Typed /\ Fine(x) BY DEF FineInv, Actors
<1>2. /\ pc[r] = "idle" /\ pc'[r] = "writing"
      /\ \A b \in Actors \ {r} : pc'[b] = pc[b] /\ job'[b] = job[b]
      /\ UNCHANGED <<stored, running, bound, handle, main, todo, raced, faulted>>
  BY <1>1 DEF Toggle, Typed, TypeOK
<1>3. Untouched(x) BY <1>2 DEF Untouched, Works, Busy
<1>4. QED BY <1>1, <1>2, <1>3, UntouchedFine DEF InTodo

LEMMA FineAlways == Spec => []FineInv
<1>1. Init => Phases /\ Directed /\ \A s \in Services : Fine(s)
  <2> SUFFICES ASSUME Init PROVE Phases /\ Directed /\ \A s \in Services : Fine(s)
    OBVIOUS
  <2>1. /\ \A a \in Actors : pc[a] = "idle"
        /\ \A s \in Services : running[s] = FALSE /\ bound[s] = None
        /\ main = "down" /\ todo = <<>>
    BY DEF Init, All
  <2>2. Phases BY <2>1 DEF Phases, Actors
  <2>3. Directed BY <2>1 DEF Directed, Busy
  <2>4. ASSUME NEW s \in Services PROVE Fine(s)
    <3>1. \A a \in Actors : ~Works(a, s) BY <2>1 DEF Works, Busy
    <3>2. QED BY <2>1, <3>1 DEF Fine, OneWay, Sockets, Reached
  <2>5. QED BY <2>2, <2>3, <2>4
<1>2. FineInv /\ [Next]_vars => (Phases /\ Directed /\ \A s \in Services : Fine(s))'
  <2> SUFFICES ASSUME FineInv, [Next]_vars
               PROVE  Phases' /\ Directed' /\ \A x \in Services : Fine(x)'
    OBVIOUS
  <2>1. Typed /\ Phases /\ Directed /\ \A x \in Services : Fine(x) BY DEF FineInv
  <2>2. Phases' /\ Directed' BY <2>1, PhasesKept
  <2>3. ASSUME NEW x \in Services PROVE Fine(x)'
    <3>1. CASE UNCHANGED vars
      <4>1. UNCHANGED <<stored, running, bound, handle, pc, job, main, todo, raced, faulted>>
        BY <3>1 DEF vars
      <4>2. Untouched(x) BY <4>1 DEF Untouched, Works
      <4>3. QED BY <2>1, <4>1, <4>2, UntouchedFine DEF InTodo
    <3>2. ASSUME NEW r \in Requests, NEW s \in Services, NEW on \in BOOLEAN, Toggle(r, s, on)
          PROVE  Fine(x)'
      BY <3>2, ToggleFine
    <3>3. ASSUME NEW r \in Requests, RequestStep(r) PROVE Fine(x)'
      BY <3>3, RequestFine
    <3>4. ASSUME NEW a \in Actors, ActorStep(a) PROVE Fine(x)'
      <4>1. CASE job[a].service = x
        BY <2>1, <3>4, <4>1, ActorFine
      <4>2. CASE job[a].service # x BY <2>1, <3>4, <4>2, ActorOther
      <4>3. QED BY <4>1, <4>2
    <3>5. CASE BootNext \/ StopNext BY <3>5, RunFine
    <3>6. CASE Boot \/ Serve \/ Shutdown \/ Die BY <3>6, ProcessFine
    <3>7. QED BY <3>1, <3>2, <3>3, <3>4, <3>5, <3>6 DEF Next, Exit, Crash
  <2>4. QED BY <2>2, <2>3
<1>3. QED BY <1>1, <1>2, TypedCorrect, PTL DEF Spec, FineInv

\* README.md:257: a toggle is applied live and persisted.  Once the process is
\* up and nobody works on a service, it runs and listens exactly if the
\* settings want it to, across crashes and restarts, for a service that no
\* start or stop overtook another on and that none failed on.
THEOREM ToggleCorrect == Spec => []AppliedAndPersisted
<1>1. FineInv => AppliedAndPersisted
  <2> SUFFICES ASSUME FineInv, NEW s \in Services, Settled(s), Plain(s)
               PROVE  running[s] = Wanted(s) /\ (bound[s] # None) = Wanted(s)
    BY DEF AppliedAndPersisted, Plain
  <2>1. Typed /\ Phases /\ Sockets(s) /\ Reached(s) BY DEF FineInv, Fine
  <2>2. \A a \in Actors : ~Works(a, s) BY DEF Settled, Working, Works
  <2>3. main = "up" /\ ~InTodo(s) BY <2>1 DEF Settled, Phases, InTodo
  <2>4. running[s] <=> Wanted(s) BY <2>1, <2>2, <2>3 DEF Reached, Target
  <2>5. bound[s] # None => bound[s] \in Actors BY <2>1 DEF Typed, TypeOK
  <2>6. bound[s] # None <=> running[s] BY <2>1, <2>2, <2>5 DEF Sockets
  <2>7. running[s] \in BOOLEAN /\ Wanted(s) \in BOOLEAN
    BY <2>1, ServiceManagerAssumption DEF Typed, TypeOK, Wanted
  <2>8. QED BY <2>4, <2>6, <2>7
<1>2. QED BY <1>1, FineAlways, PTL

\* stop_all leaves no socket open and no flag set of such a service.
THEOREM StopAllCloses == Spec => []AllClosed
<1>1. FineInv => AllClosed
  <2> SUFFICES ASSUME FineInv, AllStopped, NEW s \in Services, Plain(s)
               PROVE  bound[s] = None /\ ~running[s]
    BY DEF AllClosed, Plain
  <2>1. Typed /\ Phases /\ Sockets(s) /\ Reached(s) BY DEF FineInv, Fine
  <2>2. main = "stopall" /\ pc[Main] = "idle" /\ todo = <<>> BY DEF AllStopped
  <2>3. \A a \in Actors : ~Works(a, s)
    BY <2>1, <2>2 DEF Phases, Works, Busy, Actors
  <2>4. ~InTodo(s) /\ ~Target(s) BY <2>2 DEF InTodo, Target
  <2>5. ~running[s] BY <2>1, <2>2, <2>3, <2>4 DEF Reached
  <2>6. bound[s] # None => bound[s] \in Actors BY <2>1 DEF Typed, TypeOK
  <2>7. QED BY <2>1, <2>3, <2>5, <2>6 DEF Sockets
<1>2. QED BY <1>1, FineAlways, PTL
=============================================================================
