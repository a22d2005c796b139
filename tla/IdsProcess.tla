----------------------------- MODULE IdsProcess -----------------------------
(* The IDS around the ScanDetector (src/app/ids/sniffer.py): scapy's       *)
(* sniffer thread, which calls _on_packet, the event loop that the alerts  *)
(* are handed to, and the end of both.  The IDS is a process of its own    *)
(* (run_sniffer) or embedded in the main process (_start_ids of            *)
(* app/main.py), which starts the sniffer and never stops it.              *)
EXTENDS ScanDetector

CONSTANT MaxLate   \* bound: SYNs seen embedded, or while the process ends

VARIABLES mode,     \* "own" or "embedded"
          proc,     \* where run_sniffer, or run() of the main process, stands
          sniffer,  \* the sniffer thread: it opens its socket, lives, or is over
          loop,     \* the event loop is open
          db,       \* the database connection is open
          refused,  \* sniffer.stop() has raised
          handed,   \* alerts handed to the loop, in order
          missed    \* alerts that emit could not hand over

idsVars == <<mode, proc, sniffer, loop, db, refused, handed, missed>>

IdsInit ==
  /\ Init
  /\ mode \in {"own", "embedded"}
  /\ proc = "boot" /\ sniffer = "none"
  /\ loop = TRUE /\ db = FALSE /\ refused = FALSE
  /\ handed = <<>> /\ missed = <<>>

\* Database, notifier and bus are set up, then the sniffer is started; with
\* IDS_ENABLED off, or scapy missing, the main process goes on without.
StartSniffer ==
  /\ proc = "boot"
  /\ proc' = "running" /\ db' = TRUE
  /\ sniffer' \in IF mode = "own" THEN {"opening"} ELSE {"opening", "none"}
  /\ UNCHANGED <<vars, mode, loop, refused, handed, missed>>

\* The thread has its raw socket, or is refused one and dies of it.
SnifferOpens ==
  /\ sniffer = "opening"
  /\ sniffer' \in {"live", "dead"}
  /\ UNCHANGED <<vars, mode, proc, loop, db, refused, handed, missed>>

\* What process returns, in its order.
AlertList(s, alerts) ==
  (IF "sweep" \in alerts THEN << <<"sweep", s>> >> ELSE <<>>)
  \o (IF "flood" \in alerts THEN << <<"flood", s>> >> ELSE <<>>)

\* _on_packet: every alert is handed over by call_soon_threadsafe, which a
\* closed loop refuses; the exception is logged, the next alert is tried.
OnPacket(s, p) ==
  /\ sniffer = "live"
  /\ Len(seen) < IF mode = "own" /\ proc = "running" THEN MaxSyns ELSE MaxLate
  /\ Process(s, p)
  /\ LET new == AlertList(s, last'.alerts) IN
     IF loop THEN handed' = handed \o new /\ UNCHANGED missed
             ELSE missed' = missed \o new /\ UNCHANGED handed
  /\ UNCHANGED <<mode, proc, sniffer, loop, db, refused>>

\* A frame that is no TCP over IP is passed over: no variable changes.

\* Mutant: run_sniffer does not stop its sniffer, as run() does not.
StopSnifferNot ==
  /\ proc = "running" /\ mode = "own"
  /\ proc' = "stopped"
  /\ UNCHANGED <<vars, mode, sniffer, loop, db, refused, handed, missed>>

\* The finally of run_sniffer.  scapy's stop waits for the thread; it raises
\* where the thread does not sniff (yet, or any more), and the rest is skipped.
StopSniffer ==
  /\ proc = "running" /\ mode = "own"
  /\ IF sniffer = "live"
     THEN proc' = "stopped" /\ sniffer' = "over" /\ UNCHANGED refused
     ELSE proc' = "raised" /\ refused' = TRUE /\ UNCHANGED sniffer
  /\ UNCHANGED <<vars, mode, loop, db, handed, missed>>

\* run() ends without a word to the sniffer.
LeaveSniffer ==
  /\ proc = "running" /\ mode = "embedded"
  /\ proc' = "stopped"
  /\ UNCHANGED <<vars, mode, sniffer, loop, db, refused, handed, missed>>

\* notifier.close() and db.close().
CloseDatabase ==
  /\ proc = "stopped"
  /\ proc' = "closed" /\ db' = FALSE
  /\ UNCHANGED <<vars, mode, sniffer, loop, refused, handed, missed>>

\* asyncio.run closes the loop; threads may still run.
CloseLoop ==
  /\ proc \in {"closed", "raised"} /\ loop
  /\ loop' = FALSE
  /\ UNCHANGED <<vars, mode, proc, sniffer, db, refused, handed, missed>>

\* The process is gone, its threads with it.
ProcessEnds ==
  /\ proc # "gone"
  /\ proc' = "gone" /\ sniffer' = "over" /\ loop' = FALSE /\ db' = FALSE
  /\ UNCHANGED <<vars, mode, refused, handed, missed>>

IdsNext ==
  \/ StartSniffer \/ SnifferOpens \/ StopSniffer \/ LeaveSniffer
  \/ CloseDatabase \/ CloseLoop \/ ProcessEnds
  \/ \E s \in Sources, p \in Ports : OnPacket(s, p)

IdsSpec == IdsInit /\ [][IdsNext]_<<vars, idsVars>>
-----------------------------------------------------------------------------
Times(list, k) == Cardinality({i \in DOMAIN list : list[i] = k})

(* sniffer.py:101: every alert the detector has noted, and will not raise  *)
(* again for a window, is handed to the loop, unless the loop is closed    *)
(* under a sniffer that was embedded or that refused to be stopped; and    *)
(* that refusal is all that leaves the database open.                      *)
AlertsHandedOver ==
  /\ \A k \in AlertKeys : Times(handed, k) + Times(missed, k) = Len(raised[k])
  /\ missed # <<>> => mode = "embedded" \/ refused
  /\ db /\ ~loop => refused
=============================================================================
