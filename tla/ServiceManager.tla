--------------------------- MODULE ServiceManager ---------------------------
(* ServiceManager (src/app/core/service_manager.py) with the start and     *)
(* stop of the honeypots (src/app/honeypots) and the start_all / stop_all  *)
(* of run() (src/app/main.py).  Toggle requests of the dashboard are       *)
(* coroutines of one event loop: an action is what runs between two        *)
(* suspensions.  How a start or stop suspends depends on the kind:         *)
(*   thread  ftp: neither start nor stop suspends;                         *)
(*   server  ssh, telnet, mysql, mssql, rdp: create_server suspends before *)
(*           it binds and again before it returns; wait_closed suspends    *)
(*           (for the clients to leave) from Python 3.12 on;               *)
(*   web     http, https: site.start suspends likewise, runner.cleanup too.*)
EXTENDS Integers, Sequences, FiniteSets

CONSTANTS Services,
          Order,        \* all services, in the order of register
          Kind,         \* Kind[s]: thread, server or web
          Default,      \* Default[s]: the <NAME>_ENABLED setting
          Requests,     \* toggle requests
          Main,         \* run(), as an actor that starts and stops services
          None,
          CanFail,      \* a start, a stop or a write of the setting may fail
          MaxRestarts   \* bound: how often the process is started again

ASSUME ServiceManagerAssumption ==
  /\ Order \in Seq(Services) /\ \A s \in Services : \E i \in 1..Len(Order) : Order[i] = s
  /\ Kind \in [Services -> {"thread", "server", "web"}]
  /\ Default \in [Services -> BOOLEAN]
  /\ CanFail \in BOOLEAN /\ MaxRestarts \in Nat
  /\ Main \notin Requests /\ None \notin Requests \cup {Main}

VARIABLES stored,     \* settings table: service_<name>_enabled; it survives
          running,    \* hp._running
          bound,      \* bound[s]: the start whose socket listens, or None
          handle,     \* hp._server or hp._runner: the start that stored it
          pc,         \* where each actor is suspended
          job,        \* job[a]: the service and direction a works on
          main,       \* run(): down, boot, up or stopall
          todo,       \* services run() has still to start or stop
          restarts,
          lingers,    \* wait_closed waits for clients (Python 3.12+)
          raced,      \* history: a start or stop of s was overtaken
          faulted     \* history: a start or stop of s failed

vars == <<stored, running, bound, handle, pc, job, main, todo, restarts, lingers, raced,
          faulted>>

Actors == Requests \cup {Main}
Busy == {"binding", "bound", "closing"}

TypeOK ==
  /\ stored \in [Services -> {"unset", "on", "off"}]
  /\ running \in [Services -> BOOLEAN]
  /\ bound \in [Services -> Actors \cup {None}]
  /\ handle \in [Services -> Actors \cup {None}]
  /\ pc \in [Actors -> {"idle", "writing", "alerting", "done"} \cup Busy]
  /\ job \in [Actors -> [service : Services \cup {None}, on : BOOLEAN]]
  /\ main \in {"down", "boot", "up", "stopall"}
  /\ todo \in Seq(Services)
  /\ restarts \in 0..MaxRestarts /\ lingers \in BOOLEAN
  /\ raced \in [Services -> BOOLEAN] /\ faulted \in [Services -> BOOLEAN]

Nothing == [service |-> None, on |-> FALSE]
All(v) == [s \in Services |-> v]

Init ==
  /\ stored = All("unset") /\ running = All(FALSE)
  /\ bound = All(None) /\ handle = All(None)
  /\ pc = [a \in Actors |-> "idle"] /\ job = [a \in Actors |-> Nothing]
  /\ main = "down" /\ todo = <<>> /\ restarts = 0
  /\ lingers \in BOOLEAN
  /\ raced = All(FALSE) /\ faulted = All(FALSE)

\* _configured_enabled: the stored setting, or else the one from .env.
Wanted(s) == stored[s] = "on" \/ (stored[s] = "unset" /\ Default[s])

\* After _start or _stop a request records its alert, run() goes on.
Resting(a) == IF a = Main THEN "idle" ELSE "alerting"
Rest(a) == pc' = [pc EXCEPT ![a] = Resting(a)]

Overtakes(a, s, on) ==
  \E b \in Actors \ {a} : /\ pc[b] \in Busy /\ job[b].service = s
                          /\ job[b].on # on \/ Kind[s] = "web"

\* What a does first when its turn on service s comes.
Take(a, s, on) ==
  /\ job' = [job EXCEPT ![a] = [service |-> s, on |-> on]]
  /\ raced' = IF Overtakes(a, s, on) THEN [raced EXCEPT ![s] = TRUE] ELSE raced
-----------------------------------------------------------------------------
(* _start                                                                  *)
AlreadyRunning(a, s) ==
  /\ running[s]
  /\ Rest(a)
  /\ UNCHANGED <<running, bound, handle, faulted>>

\* FTPServer binds in its constructor.
StartThread(a, s) ==
  /\ ~running[s] /\ Kind[s] = "thread" /\ bound[s] = None
  /\ bound' = [bound EXCEPT ![s] = a]
  /\ handle' = [handle EXCEPT ![s] = a]
  /\ running' = [running EXCEPT ![s] = TRUE]
  /\ Rest(a)
  /\ UNCHANGED faulted

StartThreadFails(a, s) ==
  /\ CanFail /\ ~running[s] /\ Kind[s] = "thread"
  /\ faulted' = [faulted EXCEPT ![s] = TRUE]
  /\ Rest(a)
  /\ UNCHANGED <<running, bound, handle>>

\* The web services store their runner before the first suspension, the
\* servers their server after the last one.
BeginStart(a, s) ==
  /\ ~running[s] /\ Kind[s] # "thread"
  /\ pc' = [pc EXCEPT ![a] = "binding"]
  /\ handle' = IF Kind[s] = "web" THEN [handle EXCEPT ![s] = a] ELSE handle
  /\ UNCHANGED <<running, bound, faulted>>

Start(a, s) == AlreadyRunning(a, s) \/ StartThread(a, s) \/ StartThreadFails(a, s)
               \/ BeginStart(a, s)

Bind(a) == LET s == job[a].service IN
  /\ pc[a] = "binding" /\ bound[s] = None
  /\ bound' = [bound EXCEPT ![s] = a]
  /\ pc' = [pc EXCEPT ![a] = "bound"]
  /\ UNCHANGED <<stored, running, handle, job, main, todo, restarts, lingers, raced, faulted>>

\* Mutant: a start waits for a taken port instead of failing.
BindWaits(a) == LET s == job[a].service IN
  /\ pc[a] = "binding" /\ bound[s] = None /\ CanFail
  /\ faulted' = [faulted EXCEPT ![s] = TRUE]
  /\ Rest(a)
  /\ UNCHANGED <<stored, running, bound, handle, job, main, todo, restarts, lingers, raced>>

\* Mutant: a start that fails marks the service as not running.
BindFailsResets(a) == LET s == job[a].service IN
  /\ pc[a] = "binding" /\ (bound[s] # None \/ CanFail)
  /\ faulted' = [faulted EXCEPT ![s] = @ \/ bound[s] = None]
  /\ running' = [running EXCEPT ![s] = FALSE]
  /\ Rest(a)
  /\ UNCHANGED <<stored, bound, handle, job, main, todo, restarts, lingers, raced>>

\* The port is taken, by another start of this service too, or the start
\* fails otherwise; _start logs the exception.
BindFails(a) == LET s == job[a].service IN
  /\ pc[a] = "binding" /\ (bound[s] # None \/ CanFail)
  /\ faulted' = [faulted EXCEPT ![s] = @ \/ bound[s] = None]
  /\ Rest(a)
  /\ UNCHANGED <<stored, running, bound, handle, job, main, todo, restarts, lingers, raced>>

Started(a) == LET s == job[a].service IN
  /\ pc[a] = "bound"
  /\ running' = [running EXCEPT ![s] = TRUE]
  /\ handle' = IF Kind[s] = "web" THEN handle ELSE [handle EXCEPT ![s] = a]
  /\ Rest(a)
  /\ UNCHANGED <<stored, bound, job, main, todo, restarts, lingers, raced, faulted>>
-----------------------------------------------------------------------------
(* _stop closes the listener its handle knows, and no other.               *)
NotRunning(a, s) ==
  /\ ~running[s]
  /\ Rest(a)
  /\ UNCHANGED <<running, bound>>

Unbound(s) == [bound EXCEPT ![s] = IF @ = handle[s] THEN None ELSE @]

StopAtOnce(a, s) ==
  /\ running[s] /\ (Kind[s] = "thread" \/ (Kind[s] = "server" /\ ~lingers))
  /\ bound' = Unbound(s)
  /\ running' = [running EXCEPT ![s] = FALSE]
  /\ Rest(a)

BeginStop(a, s) ==
  /\ running[s] /\ (Kind[s] = "web" \/ (Kind[s] = "server" /\ lingers))
  /\ bound' = Unbound(s)
  /\ pc' = [pc EXCEPT ![a] = "closing"]
  /\ UNCHANGED running

Stop(a, s) == /\ NotRunning(a, s) \/ StopAtOnce(a, s) \/ BeginStop(a, s)
              /\ UNCHANGED <<handle, faulted>>

\* Mutant: stop does not reset _running.
StoppedKeepsFlag(a) ==
  /\ pc[a] = "closing"
  /\ Rest(a)
  /\ UNCHANGED <<stored, running, bound, handle, job, main, todo, restarts, lingers, raced, faulted>>

\* wait_closed wakes all who wait for the server; a cleanup wakes its own.
Stopped(a) == LET s == job[a].service IN
  /\ pc[a] = "closing"
  /\ running' = [running EXCEPT ![s] = FALSE]
  /\ pc' = [b \in Actors |->
       IF b = a \/ (Kind[s] = "server" /\ pc[b] = "closing" /\ job[b].service = s)
       THEN Resting(b) ELSE pc[b]]
  /\ UNCHANGED <<stored, bound, handle, job, main, todo, restarts, lingers, raced, faulted>>

\* stop raises before `_running = False`.
StopFails(a) ==
  /\ CanFail /\ pc[a] = "closing"
  /\ faulted' = [faulted EXCEPT ![job[a].service] = TRUE]
  /\ Rest(a)
  /\ UNCHANGED <<stored, running, bound, handle, job, main, todo, restarts, lingers, raced>>
-----------------------------------------------------------------------------
(* set_enabled                                                             *)
Toggle(r, s, on) ==
  /\ main = "up" /\ pc[r] = "idle"
  /\ pc' = [pc EXCEPT ![r] = "writing"]
  /\ job' = [job EXCEPT ![r] = [service |-> s, on |-> on]]
  /\ UNCHANGED <<stored, running, bound, handle, main, todo, restarts, lingers, raced, faulted>>

\* Mutant: the toggle is applied but not stored.
WriteNotStored(r) == LET s == job[r].service IN
  /\ pc[r] = "writing"
  /\ Take(r, s, job[r].on)
  /\ IF job[r].on THEN Start(r, s) ELSE Stop(r, s)
  /\ UNCHANGED <<stored, main, todo, restarts, lingers>>

\* Mutant: the setting is stored as "true", which start_all does not know.
WriteTrue(r) == LET s == job[r].service IN
  /\ pc[r] = "writing"
  /\ stored' = [stored EXCEPT ![s] = IF job[r].on THEN "true" ELSE "off"]
  /\ Take(r, s, job[r].on)
  /\ IF job[r].on THEN Start(r, s) ELSE Stop(r, s)
  /\ UNCHANGED <<main, todo, restarts, lingers>>

\* set_setting is durable and the request goes on to _start or _stop.
Write(r) == LET s == job[r].service IN
  /\ pc[r] = "writing"
  /\ stored' = [stored EXCEPT ![s] = IF job[r].on THEN "on" ELSE "off"]
  /\ Take(r, s, job[r].on)
  /\ IF job[r].on THEN Start(r, s) ELSE Stop(r, s)
  /\ UNCHANGED <<main, todo, restarts, lingers>>

Finish(r) ==
  /\ pc' = [pc EXCEPT ![r] = "done"]
  /\ job' = [job EXCEPT ![r] = Nothing]
  /\ UNCHANGED <<stored, running, bound, handle, main, todo, restarts, lingers, raced, faulted>>

\* set_setting raises: the request ends with an error, nothing is applied.
WriteFails(r) == CanFail /\ pc[r] = "writing" /\ Finish(r)

\* The alert is recorded, whatever became of the toggle, and status returned.
Return(r) == pc[r] = "alerting" /\ Finish(r)
-----------------------------------------------------------------------------
(* run(): start_all, serve, stop_all, and the end of the process.          *)
Boot ==
  /\ main = "down" /\ restarts < MaxRestarts
  /\ main' = "boot" /\ todo' = Order /\ restarts' = restarts + 1
  /\ UNCHANGED <<stored, running, bound, handle, pc, job, lingers, raced, faulted>>

BootNext == LET s == Head(todo) IN
  /\ main = "boot" /\ pc[Main] = "idle" /\ todo # <<>>
  /\ todo' = Tail(todo)
  /\ IF Wanted(s) THEN Take(Main, s, TRUE) /\ Start(Main, s)
                  ELSE UNCHANGED <<running, bound, handle, pc, job, raced, faulted>>
  /\ UNCHANGED <<stored, main, restarts, lingers>>

Serve ==
  /\ main = "boot" /\ pc[Main] = "idle" /\ todo = <<>>
  /\ main' = "up"
  /\ UNCHANGED <<stored, running, bound, handle, pc, job, todo, restarts, lingers, raced, faulted>>

\* uvicorn lets the requests finish before serve returns.
Shutdown ==
  /\ main = "up" /\ \A r \in Requests : pc[r] \in {"idle", "done"}
  /\ main' = "stopall" /\ todo' = Order
  /\ UNCHANGED <<stored, running, bound, handle, pc, job, restarts, lingers, raced, faulted>>

StopNext ==
  /\ main = "stopall" /\ pc[Main] = "idle" /\ todo # <<>>
  /\ todo' = Tail(todo)
  /\ Take(Main, Head(todo), FALSE) /\ Stop(Main, Head(todo))
  /\ UNCHANGED <<stored, main, restarts, lingers>>

\* The process is gone, and with it everything but the settings table.
Die ==
  /\ main' = "down" /\ todo' = <<>>
  /\ running' = All(FALSE) /\ bound' = All(None) /\ handle' = All(None)
  /\ pc' = [a \in Actors |-> IF a = Main \/ pc[a] = "idle" THEN "idle" ELSE "done"]
  /\ job' = [a \in Actors |-> Nothing]
  /\ raced' = All(FALSE) /\ faulted' = All(FALSE)
  /\ UNCHANGED <<stored, restarts, lingers>>

AllStopped == main = "stopall" /\ pc[Main] = "idle" /\ todo = <<>>
Exit == AllStopped /\ Die
Crash == main # "down" /\ Die

ActorStep(a) == Bind(a) \/ BindFails(a) \/ Started(a) \/ Stopped(a) \/ StopFails(a)
RequestStep(r) == Write(r) \/ WriteFails(r) \/ Return(r)

Next ==
  \/ \E r \in Requests, s \in Services, on \in BOOLEAN : Toggle(r, s, on)
  \/ \E r \in Requests : RequestStep(r)
  \/ \E a \in Actors : ActorStep(a)
  \/ Boot \/ BootNext \/ Serve \/ Shutdown \/ StopNext \/ Exit \/ Crash

\* A client that stays keeps the wait_closed of a server waiting.
Waits(a) == pc[a] = "closing" /\ Kind[job[a].service] = "server"

\* The event loop resumes every coroutine whose call has ended, and every
\* call but wait_closed ends by itself: a cleanup by its timeout.
Fairness ==
  /\ \A r \in Requests : WF_vars(RequestStep(r))
  /\ \A a \in Actors : WF_vars(~Waits(a) /\ ActorStep(a))
  /\ WF_vars(BootNext \/ Serve \/ StopNext \/ Exit)

Spec == Init /\ [][Next]_vars /\ Fairness
-----------------------------------------------------------------------------
Working(s, step) == \E a \in Actors : pc[a] \in step /\ job[a].service = s
Settled(s) == main = "up" /\ ~Working(s, Busy)

(* The ftp, ssh, telnet, mysql, mssql and rdp listeners are never lost     *)
(* track of, whatever toggles overlap (on Python 3.11: ~lingers): a socket *)
(* that listens is the one the service would close, and is flagged running *)
(* or about to be; and what is flagged running listens.                    *)
ListenerTracked ==
  \A s \in Services : Kind[s] # "web" /\ ~lingers =>
    /\ bound[s] # None =>
         (running[s] /\ handle[s] = bound[s]) \/ pc[bound[s]] = "bound"
    /\ running[s] => bound[s] # None

(* README.md:257: a toggle is applied live and persisted.  It holds across *)
(* crashes and restarts as long as no toggle of the service is taken up    *)
(* while an earlier one is still starting or stopping it.                  *)
AppliedAndPersisted ==
  \A s \in Services : Settled(s) /\ ~raced[s] /\ ~faulted[s] =>
    running[s] = Wanted(s) /\ (bound[s] # None) = Wanted(s)

(* stop_all leaves no socket open and no flag set, unless a start or stop  *)
(* of the service was overtaken or failed before.                          *)
AllClosed ==
  AllStopped => \A s \in Services :
    ~raced[s] /\ ~faulted[s] => bound[s] = None /\ ~running[s]

(* On Python 3.11 a toggle request is answered, unless the process dies:   *)
(* no order of starts, stops and failures leaves a request waiting.  (From *)
(* 3.12 on a client that never leaves keeps wait_closed waiting.)          *)
EveryToggleAnswered ==
  \A r \in Requests : pc[r] = "writing" /\ ~lingers ~> pc[r] = "done"

(* The same as AppliedAndPersisted without its conditions, for a server:   *)
(* what README.md:257 says without reservation.                            *)
ToggleAppliedLive ==
  \A s \in Services : Settled(s) => running[s] = Wanted(s)

(* README.md:257 again, of a web service: one that is switched off and     *)
(* that the dashboard shows as off does not listen.                        *)
OffMeansClosed ==
  \A s \in Services : Settled(s) /\ ~Wanted(s) /\ ~running[s] => bound[s] = None
=============================================================================
