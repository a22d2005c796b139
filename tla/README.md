# A TLA+ model of HoneyPork

HoneyPork is a honeypot: eight fake network services, a passive scan detector, a
dashboard that switches services and configures Telegram alerts, and one SQLite
database that everything is recorded in. Its logic is small; what is hard about it
is that nearly all of it runs as coroutines of one event loop that share one
database connection, one notifier and the listeners themselves, while an FTP
server and a packet sniffer feed it from threads. This directory models that part
in TLA+, checks it with TLC and proves what matters most with TLAPS.

Paths below are relative to `src/`.

## 1. Inventory

| Component | State it keeps | Operations | Interacts with |
| --- | --- | --- | --- |
| `app/notifier/telegram.py` TelegramNotifier | token, chat id, http client, `_cooldown` table, a lock | `configure`, `send`, `close` | called by the bus and by the dashboard; Telegram over HTTP |
| `app/core/event_bus.py` EventBus | the loop it is bound to | `dispatch` (loop or thread), `event`, `command`, `credential`, `session`, `alert`, `_notify` | honeypots and sniffer dispatch into it; it awaits Database and TelegramNotifier |
| `app/db/database.py` Database | one aiosqlite connection, and through it one open transaction; tables events, credentials, sessions, alerts, settings | `connect`, `close`, inserts, lists, `ack_alert`, `get_setting`, `set_setting`, `get_stats` | every coroutine of the main process; the IDS process has the same file open |
| `app/core/service_manager.py` ServiceManager | the honeypots by name; the settings `service_<name>_enabled` | `register`, `start_all`, `set_enabled`, `status`, `stop_all` | dashboard toggles, `run()`, honeypots, the bus |
| `app/honeypots/*.py` listeners | `_running`, `_server` or `_runner`, the socket | `start`, `stop` | the service manager |
| `app/honeypots/*.py` sessions | login progress, line buffers, commands so far | one handler per protocol | `emit` to the bus |
| `app/ids/rules.py` ScanDetector | a deque of ports and one of SYNs per source, the last alert per kind and source | `process` | the sniffer thread |
| `app/ids/sniffer.py` IDSSniffer, `run_sniffer` | the scapy sniffer; in its own process also a database, notifier and bus | `start`, `stop`, `_on_packet` | ScanDetector, EventBus |
| `app/main.py` | - | `ensure_admin`, `_start_ids`, `run` | builds everything, stops it in `finally` |
| `app/dashboard/app.py`, `static/app.js` | session cookie; the page's lists | login, stats, lists, ack, toggle, Telegram settings | Database, ServiceManager, TelegramNotifier |
| `app/utils/certs.py`, `ssh.py` host key, `decoy.py` files | files kept once they exist | generate on first start | read by https, ssh, ftp |
| `app/config.py`, `app/core/geo.py`, `app/dashboard/auth.py`, decoy texts, templates | none | - | - |

What is hard here, and what makes each component correct:

* **Bus and database.** Coroutines interleave at every `await`, in one transaction:
  a commit is everybody's commit. Correct means: a coroutine that was told its row
  is committed has it on disk, in the order of dispatch; no insert stays open;
  a failed insert harms nobody else; messages about different interactions do not
  silence each other; every coroutine ends.
* **Notifier.** The cooldown table is read and written by concurrent senders, a POST
  may fail, the clock may be set back. Correct means: a rate limiter per dedupe key
  that silences nothing without a reason.
* **Service manager.** A toggle is three awaits long and `running` changes only at the
  end of a start or stop, so toggles overtake each other; the process may crash after
  the setting was stored. Correct means: setting, flag and socket agree.
* **Scan detector.** One call reads the clock up to five times; window and suppression
  have the same length. Correct means: no alert without a scan, no scan without an
  alert, no second alert within the window.
* **Shutdown.** `stop_all`, `notifier.close`, `db.close` run while sessions, the FTP
  thread and the sniffer still produce events.
* **Shell sessions.** Characters arrive in chunks of any size, channels of one
  connection interleave, and a connection ends in any phase, with or without EOF.
  Correct means: what is recorded is what was typed.
* **Telegram settings.** A save is four to eight database calls between which other
  requests run. Correct means: saves act as if one after the other, and the notifier
  ends with what the table says.
* **Wire protocols.** A handler reads two packets at most, of a peer that may send them
  malformed, in another order, or not at all. Correct means: the events of a peer are a
  function of what was read of it, passwords as typed, and no handler outlives its peer.
* **IDS process.** The sniffer is a thread that outlives, or refuses to be stopped by,
  the coroutine that started it. Correct means: an alert the detector has noted, and
  will not raise again for a window, reaches the event loop while there is one.
* **Alerts table.** Polls overlap, answers overtake each other and get lost, the
  session expires. Correct means: the page comes to show what the server has.
* **Start-up.** Files are written in place and kept if they exist, the administrator's two
  rows in two transactions. Correct means: what a crash left is repaired by the next
  start, and what worked once is not changed by a later one.

`PROJECT.json` lists every hazard at its line, with the property that covers it or
the reason why none does yet.

## 2. Modules

```
RateLimit       what a rate limiter promises (abstract)
  implemented by Notifier       -> instantiated by EventBus (+ inserts, + end of run())
  implemented by ScanDetector   -> extended by IdsProcess (sniffer thread, its process)

ServiceManager                             on its own
ShellSession, WireSession                  joined by MCSessions
StartUp, TelegramConfig, AlertFeed         joined by MCDashboard, with Notifier

NotifierProofs, ScanDetectorProofs, ServiceManagerProofs, EventBusProofs,
TelegramConfigProofs, SessionsProofs, DashboardProofs
                                           the theorems
SequenceLemmas                             what the proofs about sequences share
```

An MC module gives the constants their values; there is one `.cfg` per run.
`MCSessions` extends the two session modules (WireSession says `WireInit`, `WireNext` and so
on for that): a peer is served by a shell or by a wire protocol. `MCDashboard` puts four modules that share no variable behind one choice at
the start of a behaviour, and lets the chosen one move; this is sound because each property
speaks of one of them. It extends StartUp, TelegramConfig (whose definitions are
`SettingsInit`, `SettingsNext` and so on for that), AlertFeed (`FeedInit`, `FeedNext`) and
Notifier (`NotifierInit`, `NotifierNext`, `ConfigureNotifier`), which here has any callers;
in EventBus it has those of the bus. Each
proof module extends the component it is about; `SessionsProofs` is about ShellSession and
WireSession, `DashboardProofs` about StartUp and AlertFeed. Operators whose comment begins with *Mutant* are not
part of a specification: each is a plausible bug in the operator below it, and a property
of the runs must fail when it takes that operator's place.

### RateLimit
A history of grants per key; a step grants some keys at times that lie `Window` or
more after all earlier grants of the same key. It has no clock and no table: those
are the implementations' business.

### Notifier (`app/notifier/telegram.py`)
`send` is split where it suspends, at the POST: `Send` = `Refuse` (not configured),
`Suppress` (key too recent) or `StartPost` (cooldown noted, client opened, POST
started), later `PostReturns`. The lock guards no `await`, so check and update are
one step - a fact of asyncio that the model states rather than assumes away: the
property would not change if they were two. `close` is `BeginClose`/`EndClose`
around `aclose`. `SetClock` lets the wall clock jump anywhere in `Time`, back as
well. `granted` is a history variable: the times at which each key passed the limit.
Text, token and HTTP details are abstracted; `configure` only decides `enabled` (`ConfigureNotifier`).

### EventBus (`app/core/event_bus.py`, inserts of `app/db/database.py`, `finally` of `app/main.py`)
`Tasks` are the coroutines handed to `dispatch`, each with a kind, a source, a service
or alert type, and the context it is dispatched from. `ready` is the event loop's FIFO,
`sqlq` the FIFO of the aiosqlite thread, `tx` the open transaction, `rows` what is
committed (ids within a table follow insertion, which is the order of `rows`).

* `Dispatch`: `create_task`, or from a thread a posted callback (`CreatePosted` makes
  the task), or dropped once the loop is closed.
* `CallDatabase`: the coroutine runs to its next `await conn....`; `NextOp` is the
  sequence of calls in the insert helpers. `Notify`: the helper returned or raised
  (`except Exception` treats both alike) and `_notify` runs to the POST or to the end.
  `PostReturns`, `Finish`: the end of the POST.
* `Insert`, `InsertBusy`, `Commit`, `ReadId`, `AfterClose`, `CloseConnection`: the
  database thread. `InsertBusy` is `SQLITE_BUSY` after the default timeout, because the
  IDS container writes to the same file.
* `BeginShutdown`, `StopAllDone`, `NotifierClosed`, `DatabaseClosed`, `Exit`: the
  `finally` of `run()` and the cancellation of what is left by `asyncio.run`. `Crash`:
  the process ends anywhere, without its `finally`. The system goes on: `database.py:22-23`
  sets WAL with `synchronous=NORMAL`, under which a commit that returned survives the end
  of the process, but not a loss of power or a crash of the operating system. Those are
  not modelled, and `RecordedIsDurable` says nothing of them.

The notifier is the module Notifier, instantiated with `Callers <- Tasks`: its
variables are the bus's and its actions conjuncts of the bus's actions. What the bus adds
is the dedupe key (`KeyOf`). Two properties say what that key must achieve, in terms of
the interactions and not of the key: messages about interactions the bus counts as the same
(`Alike`) are started a cooldown apart (`AlikeSpaced`), and only such a message silences
another (`SilencedByAlike`). `told`, the time at which a coroutine's message was started,
is a history variable.

asyncio wakes a coroutine through two callbacks where the model has one; the extra
hop only delays it, and a delay is something the database thread can produce as well.

### ScanDetector (`app/ids/rules.py`)
`process` is called from one thread, so a call is one action, but with five clock
readings `r[1] <= ... <= r[5]`: the packet's time, the two pruning cut-offs and the two
readings of `_ok`. `Prune` drops the oldest entries up to the first fresh one, as
`popleft` does. `seen` (all SYNs), `raised` (all alerts) and `last` (the last call) are
history variables that the properties compare the deques with.

### ServiceManager (`app/core/service_manager.py`, `start`/`stop` of `app/honeypots`, `app/main.py`, toggle route)
An actor is a toggle request or `run()` itself. A request is `Toggle` (the POST),
`Write` (setting committed, then `_start` or `_stop` up to its first suspension), the
steps of the start (`Bind`, `BindFails`, `Started`) or stop (`Stopped`, `StopFails`),
and `Return` (alert and status). `bound[s]` is the start whose socket listens and
`handle[s]` the start that `_server`/`_runner` belongs to: that they can differ is the
point. The kinds of honeypot differ in where they suspend:

| Kind | Services | start | stop |
| --- | --- | --- | --- |
| thread | ftp | does not suspend | does not suspend |
| server | ssh, telnet, mysql, mssql, rdp | before binding and before returning; `_server` stored at the end | `wait_closed`: at once on Python 3.11 (the Docker image), until the clients leave from 3.12 on (`lingers`) |
| web | http, https | the same, but `_runner` stored first | `runner.cleanup` suspends |

`run()` goes through `start_all` (`Boot`, `BootNext`, `Serve`) and `stop_all`
(`Shutdown`, `StopNext`, `Exit`); `Crash` ends the process anywhere; only `stored`
survives. `raced` and `faulted` are history variables that name the condition under
which the unconditional promise of the README holds.

### ShellSession (`app/honeypots/ssh.py`, `app/honeypots/telnet.py`)
A peer connects to one of the two. The SSH actions are the handlers asyncssh calls
(`SshConnect`, `OfferKey`, `OfferPassword`, `OpenChannel`, `DataReceived`,
`EofReceived`), none of which suspends, and the ends no handler is written for
(`ChannelClosed`, `SshDisconnect`); every channel has a `_FakeShell` of its own. Telnet
is one coroutine: `GotUser`, `GotPassword`, `GotLine`, `GivesUp` and `LogsOut` are its
resumptions after a `readline`, `FeedReader` and `Hangup` what happens to the reader
meanwhile; `how = "error"` is a `readline` that raises, at any moment. A text is a
sequence over three characters, one visible, one that `strip` removes, and the newline.
`Split` reads it one character after the other (`NextChar`), as a recursive function.
`typed` is a history variable: `SshCommandsExact` compares the incremental split with
the split of the whole stream, `TelnetTranscript` the events of a finished session with
a function of everything typed. Durations and banners are left out.

### TelegramConfig (`app/dashboard/app.py`, settings of `app/db/database.py`, start of `app/main.py`)
A request is the list of database calls it has still to make (`SaveCalls`,
`ReadCalls`). `Call` performs the call at the head of `sqlq` and lets the coroutine make
its next one, at the end of the queue: results are delivered in the order of the calls,
and the loop resumes coroutines in that order, so nothing is lost by joining the two. It
is this queue discipline, not a lock, that keeps overlapping saves from mixing, and the
properties show that it suffices. `committed` is what is on disk, `view` what the
connection sees; `OtherCommits` is a commit of the bus on the same connection,
`CallFails` a locked file, `Restart` a crash and the start-up after it. `serial`
(the rows all saves answered so far leave when made one after the other), `shown`,
`clean` and `booted` are history variables. The properties are claimed while `clean`: a
save that fails leaves its token stored and the notifier as it was.
`LiveFollowsTable` also shows where `.env` ends: a start-up falls back to it, a save
does not, so after the first save a token or chat id that is only in `.env` is not used
until the next restart, though the page goes on showing it as configured.

### IdsProcess (`app/ids/sniffer.py`, `_start_ids` of `app/main.py`)
Extends ScanDetector: `OnPacket` is a call of `process` and the handing over of each of
its alerts, which a closed loop refuses. `mode` is the process: its own (`run_sniffer`,
whose `finally` is `StopSniffer`, `CloseDatabase`, `CloseLoop`) or embedded
(`LeaveSniffer`: `run()` ends and does not know the sniffer). scapy's thread opens its
socket some time after `start` (`SnifferOpens`) or dies of a refusal; its `stop` raises
unless the thread is sniffing, and then notifier and database are not closed. Which frames
the kernel's filter passes is external: only SYNs arrive.

### WireSession (`_handle` of mssql, mysql, rdp; `app/honeypots/http.py`, `ftp.py`)
A peer sends items: packets, heads and forms, logins. An item is a record of what the code
tells apart - its kind, an empty or blank user name, the bits of a password, which client
details a packet shows - and `"bad"` is a packet whose length field is shorter than its
header, on which `readexactly` raises. `StreamConnect`, `MssqlPrelogin`, `MssqlLogin`,
`MysqlAuth`, `RdpConfirm`, `RdpNegotiate` are the stretches of `_handle` between reads,
`HandlerFails` its `except` and `finally`, `RdpTimeout` the `wait_for`. aiohttp and
pyftpdlib read by themselves and call back: `HttpHandle`, `HttpForm` (an `_post` awaits
its form), `FtpCommand` (`validate_authentication`, then `on_login`), `LibraryCloses`.
https is the same code as http. `Deobfuscate` is the password codec bit by bit; the peer
applies `Obfuscate`, written from TDS, to what it means to send. `sent` is a history
variable; `NoticedExact` compares the events of a peer with a function of the items read
so far, as far as the code notices them: requests without a route and what is not looked at
in an RDP packet are left out there, and are the subject of `PathsRecorded` and
`CookieRecorded`. A name of more than one part, offsets that point anywhere, and the text codecs
(which ignore what they cannot decode) are abstracted.

The model also fixes what the code does with a client that starts with LOGIN7: it is
consumed as the PRELOGIN, and the login is not recorded.

### AlertFeed (`app/dashboard/static/app.js`, alert routes of `app/dashboard/app.py`, `list_alerts`, `ack_alert`)
A request is a slot that is free, asked, answered or denied; server and browser take their
steps in any order, so a later answer may be overtaken by an earlier one. `RefreshAlerts`
is `setInterval` as well as a click or the `then` of an acknowledgement, `RenderAlerts` the
arrival of any answer. `ClickAckAll` and `PostAckAll` are the two requests behind
"Acknowledge visible". A 401 makes the page go to `/login` (`Redirect`); `LogIn` is a new
page. `Newest` is SQL's LIMIT, no limit if negative. Ids are numbers and a list is a set of
rows, for the page shows them in the order of their ids.

### StartUp (`app/utils/certs.py`, host key of `app/honeypots/ssh.py`, `ensure_decoy_fs`, `ensure_admin`, `POST /login`)
`run()` as the sequence of its writes: `OpenFile` truncates, `FillFile` completes, `Crash`
may come between them and leaves the file `Torn`: empty or cut, it exists. A file holds the
number of the start that made it, so that a certificate and a key match when their numbers
do. `.env` and the switches of the services may be edited between starts. The decoy files
are one file here: each is written and kept by the same code. A service that does not get
its port is ServiceManager's business; one that is switched on later runs the same code as
in the start. An `open` that is refused leaves nothing, and the start is tried again.

## 3. Runs

| Run | What it asks | Result |
| --- | --- | --- |
| `event_bus` | Is what a coroutine was told true on disk and in order, with nothing left open? Is a message only about a row that is decided, and silenced only by one alike? Does every coroutine end? | holds |
| `event_bus_exit` | Is everything accepted before an orderly shutdown recorded (`README.md:5`)? | **violated** |
| `scan_detector` | Are alerts justified, complete, rate limited, and handed to the loop while there is one? | holds |
| `service_manager` | Do setting, flag and socket agree without overlap, are server sockets tracked with it, is every toggle answered? | holds |
| `toggle_race` | Is every toggle applied live (`README.md:257`)? | **violated** |
| `web_leak` | Does a web service that is off and shown as off stop listening? | **violated** |
| `sessions` | Is what is recorded of a peer of any of the eight services what it sent, for every cut into chunks, every order of packets and every end, and does every handler end? | holds |
| `ssh_no_eof` | Does every shell leave its session (`README.md:60`)? | **violated** |
| `post_paths` | Is a request to any path and of any method recorded (`README.md:5`, `README.md:221`)? | **violated** |
| `rdp_cookie` | Is the `mstshash` cookie recorded (`app/honeypots/rdp.py:3`)? | **violated** |
| `dashboard` | Do overlapping saves act one after the other, does the page come to show the server's alerts, does a start repair what a crash left and keep what worked, is the cooldown a rate limiter per key whose suppressions are justified? | holds |
| `ack_visible` | Does "Acknowledge visible" acknowledge only what has been on the page (`app/dashboard/templates/index.html:73`)? | **violated** |

The seven violations are real disagreements between code and documentation:

1. `event_bus_exit`: `db.close()` follows `stop_all` at once; a coroutine between its
   statements, or still in the queue, fails on the closed connection.
2. `toggle_race`: `_start` and `_stop` test `running`, which an operation in progress
   has not changed yet; the overtaking toggle is stored and skipped.
3. `web_leak`: two overlapping starts of http or https; the second overwrites `_runner`,
   the first gets the port. No later stop closes it.
4. `ssh_no_eof`: the session, with its duration, is recorded in `eof_received` alone;
   a channel or connection closed without EOF leaves commands but no session. (A last
   line without newline is not recorded by SSH either; telnet records it.)
5. `ack_visible`: the button asks the server for what is unacknowledged now and
   acknowledges all of it. An alert that came in since the last refresh, or that the page
   has no room for, is acknowledged unseen.
6. `post_paths`: a POST to a path without a route is answered 405 by aiohttp, before any
   code of the honeypot runs (`app/honeypots/http.py:36-46`), and leaves no record;
   `README.md:5` says "records every interaction", `README.md:221` "captures form/POST
   credentials, paths".
7. `rdp_cookie`: the first packet of an RDP client carries the `mstshash` cookie that the
   docstring of `rdp.py` (3-6) promises to extract; `_handle` reads and drops it
   (`rdp.py:50`) and looks for the cookie in the second.

Some things the code does were noted without a run of their own. The dedupe key of a
credential names the service (`app/core/event_bus.py:110`), while `README.md:237` says
"rate-limited per source IP": a source that tries several services is announced for each.
The X.224 confirm of the RDP honeypot states a length of 11 bytes and has 12
(`app/honeypots/rdp.py:19`). `DASHBOARD_TLS` (`README.md:193`) is read and not used.

### Bounds

* Notifier: two coroutines suffice for any race on one key, two keys to mix histories up;
  the clock takes the values 3, 4 and 5 with a cooldown of 2, so a key can be granted twice,
  at exactly the cooldown, suppressed within it, and asked for again after a set-back.
* EventBus: three groups of tasks, each dispatched at most once. A connection and a session from
  the loop with an FTP login from a thread put two rows of others into the transaction a
  task commits; two alerts of one type, from a thread and from the loop, have the longer
  `insert_alert`, one key, and readings of the clock one cooldown apart; a connection and
  an alert about one source have two keys. No group has two tasks from threads: that
  their rows keep their order is the theorem `RowsOrdered`.
* ScanDetector: five SYNs over two sources and two ports, thresholds 2 and 3, window 2, clock 2..6, and
  calls that take at most one tick (`Lag`): deques go stale and refill, both kinds of
  alert fire twice. Time only moves with a call, so nothing is lost by having no tick.
* ServiceManager: one service of each kind, three requests - two that overlap, one that
  meets what they left - and one restart (`MaxRestarts` = 2 starts of the process).
  Requests are used once: their names identify starts.
* Sessions: one peer, for two share nothing. In a shell, two channels; six characters in chunks of
  one or two: a telnet login with a command and an unfinished line, or two SSH commands,
  whole, split, or interleaved over two channels; one public key at most. On a wire
  protocol, three items: a handshake and one packet too many, a GET and a POST with its
  form, two FTP logins and another command. The passwords are none, a letter, and a byte
  none of whose bits has a mirror image, so that no order of the codec's steps is confused
  with another.
* Dashboard, settings: two saves at a time and a page, so that two coroutines interleave at
  every call and a third reads between them; two tokens, one chat id, empty and masked
  fields, a token but no chat id in `.env`, one restart. (Three saves hold as well, in
  22 million states.) Alerts: a page of two rows and a third alert that pushes one out, two
  lists under way, so that one overtakes the other, two clicks, one loss. Start: three
  starts, the first two ending anywhere, and four contents of `.env`.
* IdsProcess: the SYNs of ScanDetector where the sniffer has its own process and this is
  running; three (`MaxLate`), enough for an alert of each kind, where it is embedded or its
  process is ending.

`CHECK_DEADLOCK FALSE` stands where a run really may end: the process has exited, every
peer has gone, or a bound on SYNs, saves, clicks or restarts is reached.

### Fairness

EventBus: the event loop and the database thread keep running (weak fairness of
`LoopStep` and `SqlStep`); a POST ends by httpx's timeout of 10 s (`app/notifier/telegram.py:42`);
a shutdown that began goes on. Nothing obliges anyone to dispatch, shut down or crash.
ServiceManager: weak fairness of every actor's steps and of `run()`, except of a step
that waits in the `wait_closed` of a server (`Waits`). aiohttp's cleanup has a timeout;
`wait_closed` returns at once on Python 3.11. Where it may wait for clients (`lingers`)
no code forces them to leave, so `EveryToggleAnswered` claims nothing there.
ShellSession: a coroutine `_shell` that can go on is resumed. No peer is obliged to
type or to hang up; `TelnetSessionRecorded` speaks of peers that did.
WireSession: a coroutine `_handle` that can go on is resumed, and a timer fires; no peer is
obliged to send or to leave. `HandlerLetsGo` therefore speaks of peers that have left, and
of the one read with a timeout.
AlertFeed: the interval goes on, requests are answered, answers delivered, a redirect
followed. Nobody is obliged to click or to log in again; `PageConverges` speaks of a page
that is in the end open with a valid session.
TelegramConfig, IdsProcess and StartUp state no liveness and assume no fairness.

## 4. Proofs

All theorems hold for every value of the constants under the module's assumption. TLC
checked each strengthened invariant on the instances of the runs before it was proved.

* **Notifier** (`NotifierProofs`; `NotifierAssumption`: the cooldown is a natural number
  and the clock reads natural numbers not below it, as `time.time()` does - the table's
  default 0.0 would otherwise count as a grant). `TypeCorrect`, `TableCorrect`: the table
  holds exactly the last grant of each key. With it, `CooldownCorrect` (grants of one key
  are a cooldown apart), `RateLimitRefined` (every step is a step of RateLimit or a
  stutter) and `SuppressionCorrect`. The invariant is `NotifierTypeOK`, `TableIsLastGrant` and
  the abstract `Spaced`: spacing alone is not inductive, for only the table connects the
  test with the history.
* **ScanDetector and IDS process** (`ScanDetectorProofs`; `ScanDetectorAssumption`). The
  argument of Notifier for `_ok`, where one call may grant two kinds of alert at two readings
  of the clock: `AlertsSpaced`, `AlertsRefineRateLimit`. `TypeCorrect` needs that pruning a
  deque leaves a deque (`PruneSeq`, by the least index that stays). `WindowsExact`,
  `AlertsJustified` and `ScansDetected` relate deques and alerts to the history of all
  SYNs, for any thresholds, sources and ports, with the hypothesis `Lag <= Window`: one
  call takes no longer than a window, 30 s by default (`app/config.py:51`). Without it, a call could drop its
  own SYN before counting. The invariant says that the history is ordered in time, that a deque
  mirrors, entry by entry and in order, the source's SYNs from some moment on
  (`Holds`, `Exact`), and what the last call found and told (`LastExact`, `LastTold`);
  `popleft` looks at the oldest entry only, and it is the order that makes this enough.
  `IdsUsesDetector`, `IdsDetects` and `EveryAlertHandedOver` carry this to the sniffer's process
  (`HandedInv`: every alert was handed over or missed, and the loop of the sniffer's own
  process is closed only after its thread is over, or has refused to stop).
* **ServiceManager** (`ServiceManagerProofs`; `ServiceManagerAssumption`: every service has
  a kind and a place in the order of registration). `TypeCorrect`, and
  `ListenersNeverLost`: where `wait_closed` does not linger, the listener of ftp or
  of a server is in the handle or belongs to a start in progress, for any services,
  overlapping toggles, failures, crashes and restarts. The invariant adds that a start
  in progress suspends only for kinds that do, that a socket belongs to a start that
  holds it, and that a service whose `running` is set listens through its handle: without
  these a stop could close one socket while the flag stood for another. `ToggleCorrect`
  (setting, flag and socket agree) and `StopAllCloses` rest on `FineInv`: for a service that
  was neither overtaken nor hit by a failure all who work on it do what is wanted of it - what
  is stored, or "off" once `stop_all` runs - and on a web service it is one (`OneWay`), the
  socket is the one their step explains (`Sockets`), and when nobody works the target is reached
  (`Reached`) unless `start_all` or `stop_all` still has the service before it (`Phases`).
* **EventBus** (`EventBusProofs`, with the lemmas of `SequenceLemmas` about queues in which
  nobody stands twice; `EventBusAssumption`: what the tasks are; `BusNotifierAssumption`: that
  of Notifier). Through the instance, `BusCooldownKept`, `BusSilencedForCause` and
  `BusRateLimited` carry the theorems of NotifierProofs to the whole bus (`BusStepsNotifier`,
  a lemma: no step of the bus does to the notifier's variables what Notifier would not;
  `SameNotifier`: the instance the theorems are about is the one the bus uses).
  `AlikeMessagesSpaced` and `OnlyAlikeSilences` say the same of interactions instead of keys,
  for any mix of them: equal keys are alike interactions (`KeysAlike`), a grant of the history is
  the message of one coroutine, and every message is in the history (`ToldInv`).
  `TypeCorrect`. `RecordedDurable` (up to the end of the process, as `Crash` is), `NoOrphan`,
  `RecordedBeforeNotified`: the inductive invariant (`SafeInv`) says of each coroutine
  that it has one token - a place in `ready`, or in `sqlq`, or a POST it waits for
  (`Token`), that its row passes from nowhere to the transaction to the tables in step
  with its program counter (`Owned`, `Once`), that what it was told is so (`Durable`,
  `Informed`), and that a closed connection has no transaction (`Closed`). The token is what
  keeps two results from reaching one coroutine. `RowsOrdered`: `LineInv` adds that of two
  tasks of one context the earlier is ahead wherever both are, and never behind in the
  path `ready`, `sqlq`, `tx`, `rows` (`Behind`) - no step may let a later one pass, the
  callback a thread posts included.
* **TelegramConfig** (`TelegramConfigProofs`, with `SequenceLemmas`; `TelegramConfigAssumption`).
  `SettingsTypeCorrect`, and for any number of overlapping saves and pages
  `OverlappingSaves`, `NotifierFollows`, `PagesWhole`. The queue is served in turn and every
  request ends with the same calls, so of two requests under way the one with fewer calls
  left, or with as many and the earlier place in the queue, stays ahead (`Before`): the order
  of the answers is known before the first answer. `OverlapCorrect` is the inductive invariant:
  in that order, a row holds what the last save to have written it left, or what `serial`
  ends with (`ViewInv`); what is not committed belongs to a save at its commit (`CommitInv`);
  what pages and saves have read half of is the state after the saves before them
  (`PageInv`, `ShownInv`); what the newest save has read back still stands in the table, and
  the notifier has it once no save is under way (`LiveInv`). It is claimed while `clean`, like the properties.

* **ShellSession** (`SessionsProofs`; `ShellSessionAssumption`: a newline is not a blank, and
  a telnet peer has a channel). `ShellTypeCorrect`, and for any alphabet, any numbers of peers
  and channels and chunks of any size `SshExactly` and `TelnetExactly`. They rest on what
  splitting a text into lines does: `TextConcat` (the lines of two texts put together are
  those of the first, and those of what it left unfinished with the second), `FirstLine` (the
  lines of a text are the first one and those of what follows it), `CommandsConcat`. On SSH
  the buffer is always the unfinished end of the stream, which is inductive as it stands. On
  telnet lines are taken one at a time from a reader that may hold several, and what the end
  of the connection changes is which of them are complete: `ShellStepCorrect` is the inductive
  invariant, that the lines taken so far followed by those of what is unread are the lines of
  all that was typed (`Took`), and that name, commands and events are what those taken call for.
  `CommandsAccounted` says that command events and sessions of a peer agree, however its
  channels interleave. Its invariant (`BooksCorrect`) keeps two accounts at every moment, not
  only when all channels have ended: there are as many command events as places of that
  command in the lists of the channels, and a bijection leads from the channels that have ended
  to the sessions in the events, each listing what its channel has (`Account`, `Leaves`).
* **WireSession** (`SessionsProofs`; `WireSessionAssumption`: a password is a sequence of
  bytes). `WireTypeCorrect`, and `NoticedIsExact` for any names, passwords and order of items.
  The codec returns every byte (`BytesReturn`, bit by bit). `WireStepCorrect` is the inductive
  invariant: what is unread is the end of what was sent, as it stands on the wire, with
  every form right after its head (`Unread`); where a handler stands tells how much it has read
  and whether the last head calls for a form, and its records are those of what it has
  read (`Progress`). Without the place of the forms a handler could meet a form it had not
  asked for, which has no route.

* **StartUp** (`DashboardProofs`; `StartUpAssumption`: any number of starts, any contents of
  `.env` in which user name and password are not empty - an empty one counts as missing,
  and the login would then follow `.env`). `TypeCorrect`, `NextStartRepairs`,
  `FirstStartStays`. The invariant says that a key exists only after its certificate and
  matches it or is torn (`Certs`), what the start has already made sure of where it stands
  (`Reached`), why a wanted service is not up (`Down`), and that a file or row that
  something was shown or accepted by exists and is not written again (`Keys`, `Logins`):
  none of the properties speaks of the order of the writes, and all rest on it.
* **AlertFeed** (`DashboardProofs`; `AlertFeedAssumption`: any limit, a negative one
  included). `FeedTypeCorrect`, for any numbers of alerts and requests. What it says beyond types
  is that an answer is no longer than the page's limit - `NewestBounded`: the rows SQL's LIMIT
  gives are, but for the oldest, newer than that one, and of those there are fewer than the
  limit - and that only alerts there are are acknowledged. The invariant (`FeedStepCorrect`)
  follows the ids: an answer on its way, or on the page, tells of no alert that has not
  been inserted, however late it arrives.

The library's induction theorems take a predicate as a parameter; `SequenceLemmas` states
induction for a *set* of numbers or of sequences (`Induction`, `SequenceInduction`, from least
elements), which the provers can instantiate. So what `Split` and `FlattenSeq` compute
is proved for texts of any length.

## 5. Model-checked only

Liveness is out of the prover's reach: `EventuallySettled`, `EveryToggleAnswered`,
`TelnetSessionRecorded`, `HandlerLetsGo`, `PageConverges`. The seven violations are runs only.
Every other property of a run is stated by a theorem.

## 6. Not modelled

Formatting of messages and rows, decoy content, bcrypt and the signing of the session
cookie (libraries), configuration parsing, GeoIP (nothing calls it), the tables of events and
credentials and the counters of the page (they are polled like alerts and nothing on the page
changes them), the schema, templates and packaging. Offsets and text encodings inside
packets. The IDS process reads the Telegram settings once and never again; nothing promises
otherwise, and IdsProcess leaves them out.
A loss of power or a crash of the operating system, in any module: with
`synchronous=NORMAL` (`app/db/database.py:23`) it can take the last commits with it, so what
is said of crashes and restarts is said of the end of the process.
An FTP server closed from the loop while its own thread is in `poll` is inside
pyftpdlib. A transaction that SQLite itself rolls back on an I/O error or a full disk
is not modelled: it would undo the inserts of other coroutines as well.

## 7. Plan

The safety half of the liveness arguments that are chains of single steps (`HandlerLetsGo`,
`TelnetSessionRecorded`): a measure, and that no step increases it.
