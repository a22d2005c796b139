----------------------------- MODULE MCEventBus -----------------------------
(* The coroutines of the runs of EventBus, all about one source a.  A      *)
(* behaviour chooses a group of them: a connection and a session from the  *)
(* loop with an FTP login from a thread, one of which notifies; two alerts *)
(* of one type, whose helper has two database calls more, from the         *)
(* sniffer's thread and from the loop, with readings of the clock a        *)
(* cooldown apart; or a connection and an alert, which notify under keys   *)
(* of their own.                                                           *)
EXTENDS EventBus, TLC

CONSTANTS t1, t2, t3, t4, t5

VARIABLE group

Coroutine(kind, about, from) ==
  [kind |-> kind, source |-> "a", about |-> about, from |-> from]

Jobs == (t1 :> Coroutine("event", "ssh", "loop"))
        @@ (t2 :> Coroutine("session", "ssh", "loop"))
        @@ (t3 :> Coroutine("credential", "ftp", "thread"))
        @@ (t4 :> Coroutine("alert", "port_scan", "thread"))
        @@ (t5 :> Coroutine("alert", "port_scan", "loop"))
MCJob == [t \in Tasks |-> Jobs[t]]

Alerts == {t4, t5}
Groups == {{t1, t2, t3}, Alerts, {t1, t4}}

BusInit ==
  /\ group \in Groups
  /\ Init
  /\ group # Alerts => clock = CHOOSE c \in Time : TRUE

\* Telegram is switched on at most once; the clock moves under Alerts only.
BusNext ==
  /\ Next
  /\ \A t \in Tasks \ group : pc'[t] = "idle"
  /\ enabled => enabled'
  /\ group # Alerts => clock' = clock
  /\ UNCHANGED group

BusSpec == BusInit /\ [][BusNext]_<<group, vars>> /\ Fairness
=============================================================================
