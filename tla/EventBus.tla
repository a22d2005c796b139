------------------------------ MODULE EventBus ------------------------------
(* EventBus (src/app/core/event_bus.py) over Database (src/app/db) and     *)
(* TelegramNotifier (module Notifier).  One action is what the event loop  *)
(* runs between two suspensions of a coroutine, one statement of the       *)
(* aiosqlite thread, or a step of run()'s shutdown (src/app/main.py).      *)
(* asyncio and aiosqlite are external: ready is the FIFO of the event      *)
(* loop, sqlq the FIFO of the one database thread, and all coroutines      *)
(* share one connection and so one transaction.                            *)
EXTENDS Integers, Sequences, FiniteSets, Functions

CONSTANTS Tasks,      \* the bus coroutines handed to dispatch
          Job,        \* Job[t]: kind, source, about (service or type), from
          NotifyOn,   \* the TELEGRAM_NOTIFY_* flags that are set
          CanBusy,    \* the database file may be locked by the IDS process
          Cooldown, Time, NoKey, Main

Kinds == {"event", "credential", "session", "alert"}

ASSUME EventBusAssumption ==
  /\ Job \in [Tasks -> [kind : Kinds, source : STRING, about : STRING,
                        from : {"loop", "thread"}]]
  /\ NotifyOn \subseteq {"connection", "credential", "scan"}
  /\ CanBusy \in BOOLEAN
  /\ Main \notin Tasks

VARIABLES ready,      \* callbacks of the event loop, in order
          pc,         \* pc[t]: where coroutine t is suspended
          reply,      \* reply[t]: how its last database call ended
          sqlq,       \* calls queued for the database thread
          conn,       \* the SQLite connection: open or closed
          tx,         \* inserts of the open transaction
          rows,       \* committed rows, in id order
          main,       \* progress of run()
          outcome,    \* history: what t learnt about its own insert
          order,      \* history: tasks in the order of dispatch
          early,      \* history: tasks dispatched before shutdown began
          told,       \* history: when the message of t was started, 0 if never
          clock, enabled, client, closing, lastSent, call, granted

busVars == <<ready, pc, reply, sqlq, conn, tx, rows, main, outcome, order, early, told>>
notifierVars == <<clock, enabled, client, closing, lastSent, call, granted>>
vars == <<busVars, notifierVars>>

\* Mutant: every interaction has a key of its own.
KeyOfOne(t) == <<Job[t].kind, t>>

\* Mutant: one key per source.
KeyOfSource(t) == <<"ip", Job[t].source>>

\* The dedupe key event, credential and alert pass to _notify.
KeyOf(t) ==
  LET j == Job[t] IN
  CASE j.kind = "event"      -> <<"ip", j.source, "">>
    [] j.kind = "credential" -> <<"cred", j.source, j.about>>
    [] OTHER                 -> <<"alert", j.source, j.about>>

Keys == {KeyOf(t) : t \in {u \in Tasks : Job[u].kind # "session"}}

\* What Notifier assumes of its constants.
ASSUME BusNotifierAssumption ==
  /\ Cooldown \in Nat
  /\ Time \subseteq {t \in Nat : t >= Cooldown}
  /\ NoKey \notin Keys

N == INSTANCE Notifier WITH Callers <- Tasks

SqlOps == {"insert", "commit", "select", "fetch"}
Final == {"done", "cancelled", "dropped", "lost"}
Gone == {"exited", "crashed"}

TypeOK ==
  /\ ready \in Seq(Tasks \cup {Main})
  /\ pc \in [Tasks -> {"idle", "posted", "created", "post"} \cup SqlOps \cup Final]
  /\ reply \in [Tasks -> {"none", "ok", "error"}]
  /\ sqlq \in Seq((Tasks \X SqlOps) \cup {<<Main, "close">>})
  /\ conn \in {"open", "closed"}
  /\ tx \in Seq(Tasks) /\ rows \in Seq(Tasks)
  /\ main \in {"serving", "stopping", "notifier", "closing", "closed"} \cup Gone
  /\ outcome \in [Tasks -> {"pending", "recorded", "failed"}]
  /\ order \in Seq(Tasks) /\ early \subseteq Tasks
  /\ told \in [Tasks -> Time \cup {0}]

Init ==
  /\ ready = <<>> /\ sqlq = <<>> /\ tx = <<>> /\ rows = <<>>
  /\ pc = [t \in Tasks |-> "idle"]
  /\ reply = [t \in Tasks |-> "none"]
  /\ conn = "open" /\ main = "serving"
  /\ outcome = [t \in Tasks |-> "pending"]
  /\ order = <<>> /\ early = {} /\ told = [t \in Tasks |-> 0]
  /\ N!NotifierInit
-----------------------------------------------------------------------------
(* dispatch: create_task in the loop; from the thread of the FTP server or *)
(* of the sniffer a callback is posted, or dropped once the loop is closed.*)
Enter(t) ==
  IF Job[t].from = "loop" THEN "created"
  ELSE IF main = "exited" THEN "dropped" ELSE "posted"

Dispatch(t) ==
  /\ pc[t] = "idle" /\ main # "crashed"
  /\ Job[t].from = "loop" => main # "exited"
  /\ pc' = [pc EXCEPT ![t] = Enter(t)]
  /\ ready' = IF Enter(t) = "dropped" THEN ready ELSE Append(ready, t)
  /\ order' = Append(order, t)
  /\ early' = IF main = "serving" THEN early \cup {t} ELSE early
  /\ UNCHANGED <<reply, sqlq, conn, tx, rows, main, outcome, told, notifierVars>>

Turn(t) == ready # <<>> /\ Head(ready) = t

\* The callback of run_coroutine_threadsafe creates the task.
CreatePosted(t) ==
  /\ Turn(t) /\ pc[t] = "posted"
  /\ pc' = [pc EXCEPT ![t] = "created"]
  /\ ready' = Append(Tail(ready), t)
  /\ UNCHANGED <<reply, sqlq, conn, tx, rows, main, outcome, order, early, told, notifierVars>>

\* Mutant: insert_session forgets its commit.
NextOpSessionOpen(t) ==
  CASE pc[t] = "created" -> "insert"
    [] pc[t] = "insert" /\ Job[t].kind # "session" -> "commit"
    [] OTHER -> "none"

\* Mutant: the helpers commit first and insert then.
NextOpCommitFirst(t) ==
  CASE pc[t] = "created" -> "commit"
    [] pc[t] = "commit"  -> "insert"
    [] OTHER -> "none"

\* The database call that follows in insert_event, _credential, _session
\* and insert_alert; "none" at their end.
NextOp(t) ==
  CASE pc[t] = "created" -> "insert"
    [] pc[t] = "insert"  -> "commit"
    [] pc[t] = "commit" /\ Job[t].kind = "alert" -> "select"
    [] pc[t] = "select"  -> "fetch"
    [] OTHER -> "none"

\* The statement raises: the thread reported an error, or Database.close
\* has already set conn to None.
Raises(t) == reply[t] = "error" \/ (NextOp(t) # "none" /\ main = "closed")

Learnt(t) ==
  [outcome EXCEPT ![t] = IF pc[t] = "commit" /\ reply[t] = "ok" THEN "recorded"
                         ELSE IF Raises(t) /\ @ = "pending" THEN "failed" ELSE @]

\* Mutant: no test for the end of the helper.
CallDatabaseForEver(t) ==
  /\ Turn(t) /\ pc[t] \in {"created"} \cup SqlOps
  /\ ~Raises(t)
  /\ pc' = [pc EXCEPT ![t] = NextOp(t)]
  /\ sqlq' = Append(sqlq, <<t, NextOp(t)>>)
  /\ outcome' = Learnt(t)
  /\ ready' = Tail(ready)
  /\ UNCHANGED <<reply, conn, tx, rows, main, order, early, told, notifierVars>>

\* Mutant: a failed call is tried again until it succeeds.
CallDatabaseRetries(t) ==
  LET op == IF reply[t] = "error" THEN pc[t] ELSE NextOp(t) IN
  /\ Turn(t) /\ pc[t] \in {"created"} \cup SqlOps /\ op # "none"
  /\ pc' = [pc EXCEPT ![t] = op]
  /\ sqlq' = Append(sqlq, <<t, op>>)
  /\ ready' = Tail(ready)
  /\ UNCHANGED <<reply, conn, tx, rows, main, outcome, order, early, told, notifierVars>>

\* Mutant: the database thread serves the newest call first.
CallDatabaseLifo(t) ==
  /\ Turn(t) /\ pc[t] \in {"created"} \cup SqlOps
  /\ ~Raises(t) /\ NextOp(t) # "none"
  /\ pc' = [pc EXCEPT ![t] = NextOp(t)]
  /\ sqlq' = <<<<t, NextOp(t)>>>> \o sqlq
  /\ outcome' = Learnt(t)
  /\ ready' = Tail(ready)
  /\ UNCHANGED <<reply, conn, tx, rows, main, order, early, told, notifierVars>>

CallDatabase(t) ==
  /\ Turn(t) /\ pc[t] \in {"created"} \cup SqlOps
  /\ ~Raises(t) /\ NextOp(t) # "none"
  /\ pc' = [pc EXCEPT ![t] = NextOp(t)]
  /\ sqlq' = Append(sqlq, <<t, NextOp(t)>>)
  /\ outcome' = Learnt(t)
  /\ ready' = Tail(ready)
  /\ UNCHANGED <<reply, conn, tx, rows, main, order, early, told, notifierVars>>

Flag(t) == CASE Job[t].kind = "event" -> "connection"
             [] Job[t].kind = "credential" -> "credential"
             [] OTHER -> "scan"

Muted(t) == Job[t].kind = "session" \/ Flag(t) \notin NotifyOn

\* A POST has been started for t.
Posts(t) == /\ pc' = [pc EXCEPT ![t] = IF call'[t].state = "posting" THEN "post" ELSE "done"]
            /\ told' = IF call'[t].state = "posting" THEN [told EXCEPT ![t] = clock] ELSE told

\* Mutant: the message goes out after the insert, the commit is not awaited.
NotifyBeforeCommit(t) ==
  /\ Turn(t) /\ pc[t] = "insert" /\ reply[t] = "ok" /\ ~Muted(t)
  /\ ready' = Tail(ready)
  /\ N!Send(t, KeyOf(t)) /\ Posts(t)
  /\ UNCHANGED <<reply, sqlq, conn, tx, rows, main, outcome, order, early>>

\* Recorded or not, `except Exception` swallows the difference and _notify
\* is awaited; send suspends only in its POST.
Notify(t) ==
  /\ Turn(t) /\ pc[t] \in {"created"} \cup SqlOps
  /\ Raises(t) \/ NextOp(t) = "none"
  /\ outcome' = Learnt(t)
  /\ ready' = Tail(ready)
  /\ \/ Muted(t) /\ pc' = [pc EXCEPT ![t] = "done"] /\ UNCHANGED <<told, notifierVars>>
     \/ ~Muted(t) /\ N!Send(t, KeyOf(t)) /\ Posts(t)
  /\ UNCHANGED <<reply, sqlq, conn, tx, rows, main, order, early>>

\* The POST has answered, failed or run into its timeout.
PostReturns(t) ==
  /\ main \notin Gone /\ pc[t] = "post"
  /\ N!PostReturns(t)
  /\ ready' = Append(ready, t)
  /\ UNCHANGED <<pc, reply, sqlq, conn, tx, rows, main, outcome, order, early, told>>

Finish(t) ==
  /\ Turn(t) /\ pc[t] = "post"
  /\ pc' = [pc EXCEPT ![t] = "done"]
  /\ ready' = Tail(ready)
  /\ UNCHANGED <<reply, sqlq, conn, tx, rows, main, outcome, order, early, told, notifierVars>>
-----------------------------------------------------------------------------
(* The database thread runs the head of its queue and posts the result.    *)
Answer(r) ==
  /\ reply' = [reply EXCEPT ![Head(sqlq)[1]] = r]
  /\ ready' = Append(ready, Head(sqlq)[1])
  /\ sqlq' = Tail(sqlq)
  /\ UNCHANGED <<pc, conn, main, outcome, order, early, told, notifierVars>>

Running(op) == sqlq # <<>> /\ Head(sqlq)[2] = op /\ conn = "open"

\* The first INSERT opens a transaction; the next ones join it.
Insert == Running("insert") /\ Answer("ok")
          /\ tx' = Append(tx, Head(sqlq)[1]) /\ UNCHANGED rows

InsertBusy == CanBusy /\ Running("insert") /\ Answer("error") /\ UNCHANGED <<tx, rows>>

\* One commit writes to disk what every coroutine has inserted so far.
Commit == Running("commit") /\ Answer("ok")
          /\ rows' = rows \o tx /\ tx' = <<>>

Query == Running("select") \/ Running("fetch")
ReadId == Query /\ Answer("ok") /\ UNCHANGED <<tx, rows>>

AfterClose == /\ sqlq # <<>> /\ conn = "closed"
              /\ Answer("error") /\ UNCHANGED <<tx, rows>>

\* SQLite rolls back what is not committed when its connection closes.
CloseConnection ==
  /\ Running("close")
  /\ conn' = "closed" /\ tx' = <<>>
  /\ ready' = Append(ready, Main)
  /\ sqlq' = Tail(sqlq)
  /\ UNCHANGED <<pc, reply, rows, main, outcome, order, early, told, notifierVars>>

SqlStep == Insert \/ InsertBusy \/ Commit \/ ReadId \/ AfterClose \/ CloseConnection
-----------------------------------------------------------------------------
(* The finally of run(): stop_all, notifier.close, db.close; then          *)
(* asyncio.run cancels what is left and closes the loop.  stop_all stops   *)
(* listeners only: connections, the FTP thread and the sniffer go on.      *)
BeginShutdown ==
  /\ main = "serving" /\ main' = "stopping"
  /\ UNCHANGED <<ready, pc, reply, sqlq, conn, tx, rows, outcome, order, early, told, notifierVars>>

CloseDatabase == sqlq' = Append(sqlq, <<Main, "close">>) /\ main' = "closing"

StopAllDone ==
  /\ main = "stopping"
  /\ N!BeginClose
  /\ IF closing' = "done" THEN CloseDatabase ELSE main' = "notifier" /\ UNCHANGED sqlq
  /\ UNCHANGED <<ready, pc, reply, conn, tx, rows, outcome, order, early, told>>

NotifierClosed ==
  /\ main = "notifier"
  /\ N!EndClose
  /\ CloseDatabase
  /\ UNCHANGED <<ready, pc, reply, conn, tx, rows, outcome, order, early, told>>

DatabaseClosed ==
  /\ Turn(Main) /\ main' = "closed"
  /\ ready' = Tail(ready)
  /\ UNCHANGED <<pc, reply, sqlq, conn, tx, rows, outcome, order, early, told, notifierVars>>

\* A posted callback is dropped, a task is cancelled; a crash does neither.
Fate(end, t) == CASE end = "crashed" -> "lost"
                  [] end = "exited" /\ pc[t] = "posted" -> "dropped"
                  [] OTHER -> "cancelled"

\* Nothing of the process is left but the committed rows: they are in the WAL,
\* which the kernel keeps.
Abandon(end) ==
  /\ main' = end
  /\ pc' = [t \in Tasks |-> IF pc[t] \in Final \cup {"idle"} THEN pc[t] ELSE Fate(end, t)]
  /\ ready' = <<>> /\ sqlq' = <<>> /\ tx' = <<>> /\ conn' = "closed"
  /\ UNCHANGED <<reply, rows, outcome, order, early, told, notifierVars>>

Exit == main = "closed" /\ Abandon("exited")

\* The process ends without its finally: SIGKILL, no memory, a fatal signal.
\* The system itself goes on: with synchronous=NORMAL a loss of power could
\* take the last commits with it, and is not modelled.
Crash == main \notin Gone /\ Abandon("crashed")

Environment ==
  /\ N!SetClock \/ (main \notin Gone /\ \E on \in BOOLEAN : N!ConfigureNotifier(on))
  /\ UNCHANGED busVars

LoopStep == DatabaseClosed \/
            \E t \in Tasks : CreatePosted(t) \/ CallDatabase(t) \/ Notify(t) \/ Finish(t)
ShutdownStep == StopAllDone \/ NotifierClosed \/ Exit

Next ==
  \/ \E t \in Tasks : Dispatch(t)
  \/ LoopStep
  \/ \E t \in Tasks : PostReturns(t)
  \/ SqlStep
  \/ BeginShutdown
  \/ ShutdownStep
  \/ Crash
  \/ Environment

\* The loop and the database thread keep running, a POST ends by its 10 s
\* timeout and shutdown, once begun, goes on.  Nothing forces a dispatch,
\* a shutdown or a crash.
Fairness ==
  /\ WF_vars(LoopStep) /\ WF_vars(SqlStep) /\ WF_vars(ShutdownStep)
  /\ \A t \in Tasks : WF_vars(PostReturns(t))

Spec == Init /\ [][Next]_vars /\ Fairness
-----------------------------------------------------------------------------
Before(s, a, b) == \E i, j \in 1..Len(s) : i < j /\ s[i] = a /\ s[j] = b

(* A coroutine whose insert and commit returned has its row in the file,   *)
(* although the commit that wrote it may have been another coroutine's,    *)
(* and keeps it when the process exits or crashes.                         *)
RecordedIsDurable == \A t \in Tasks : outcome[t] = "recorded" => t \in Range(rows)

(* A row waits in the shared transaction only while its own coroutine is   *)
(* on its way to commit: no insert is left open for a later crash to lose. *)
NoOrphanInsert == \A t \in Range(tx) : pc[t] \in {"insert", "commit"}

(* Rows of one context, the loop or a thread, have ids in the order of     *)
(* their dispatch, however their inserts and commits interleave.           *)
RowsInOrder ==
  \A t, u \in Tasks :
    Job[t].from = Job[u].from /\ Before(rows, t, u) => Before(order, t, u)

(* A Telegram message is about an interaction that is already durable, or  *)
(* whose failure to record was logged; never about one still in doubt.     *)
RecordBeforeNotify ==
  \A t \in Tasks : call[t].state # "idle" =>
    outcome[t] = "failed" \/ (outcome[t] = "recorded" /\ t \in Range(rows))

\* What event_bus.py counts as the same: connections and requests of a source,
\* logins of a source at one service, alerts of one type about a source.
Alike(t, u) == /\ Job[t].kind = Job[u].kind /\ Job[t].source = Job[u].source
               /\ Job[t].kind = "event" \/ Job[t].about = Job[u].about

(* telegram.py:1: messages about alike interactions are started a cooldown *)
(* apart, whichever coroutines, of the loop or posted by threads, are on   *)
(* their way at the same time and whatever becomes of their POSTs.         *)
AlikeSpaced ==
  \A t, u \in Tasks : t # u /\ Alike(t, u) /\ told[t] # 0 /\ told[u] # 0 =>
    told[t] - told[u] >= Cooldown \/ told[u] - told[t] >= Cooldown

(* An interaction is silenced only by one alike, less than a cooldown ago: *)
(* no source, service or type keeps the messages of another one back.      *)
SilencedByAlike ==
  [][\A t \in Tasks :
       call'[t].state = "suppressed" /\ call[t].state # "suppressed" =>
         \E u \in Tasks \ {t} :
           Alike(t, u) /\ told[u] # 0 /\ clock - told[u] < Cooldown]_vars

(* Whatever is dispatched is eventually finished, cancelled or lost: no    *)
(* coroutine waits for ever for the loop, the database or Telegram.        *)
EventuallySettled == \A t \in Tasks : pc[t] # "idle" ~> pc[t] \in Final

(* README.md:5 "records every interaction in SQLite", of the interactions  *)
(* the bus accepted before an orderly shutdown began.                      *)
AllRecordedAtExit == main = "exited" => early \subseteq Range(rows)
=============================================================================
