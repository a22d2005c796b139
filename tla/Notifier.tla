------------------------------ MODULE Notifier ------------------------------
(* TelegramNotifier (src/app/notifier/telegram.py).  Every caller is a     *)
(* coroutine of the one event loop, so a handler is split into actions     *)
(* exactly at the awaits that suspend: the POST of send and the aclose of  *)
(* close.  The lock of send guards no await, so it is never contended and  *)
(* check and update of the cooldown are one step.                          *)
EXTENDS Integers, Sequences

CONSTANTS Callers,    \* coroutines that call send
          Keys,       \* the dedupe keys
          NoKey,      \* send called without a dedupe key
          Cooldown,   \* TELEGRAM_COOLDOWN_SECONDS
          Time        \* the values time.time() returns

\* time.time() counts from 1970: further from 0 than any cooldown in use.
ASSUME NotifierAssumption ==
  /\ Cooldown \in Nat
  /\ Time \subseteq {t \in Nat : t >= Cooldown}
  /\ NoKey \notin Keys

VARIABLES clock,      \* the wall clock; it can be set back
          enabled,    \* a token and a chat id are configured
          client,     \* self._client: none, open or closed
          closing,    \* progress of close: no, aclose, done
          lastSent,   \* self._cooldown, 0 where the dict has no entry
          call,       \* call[c]: what send does or returned for c, and its key
          granted     \* history: the times at which each key passed the limit

notifierVars == <<clock, enabled, client, closing, lastSent, call, granted>>

Verdicts == {"sent", "failed", "suppressed", "disabled"}
NotCalling == [state |-> "idle", key |-> NoKey]

NotifierTypeOK ==
  /\ clock \in Time
  /\ enabled \in BOOLEAN
  /\ client \in {"none", "open", "closed"}
  /\ closing \in {"no", "aclose", "done"}
  /\ lastSent \in [Keys -> Time \cup {0}]
  /\ call \in [Callers -> [state : {"idle", "posting"} \cup Verdicts,
                           key : Keys \cup {NoKey}]]
  /\ granted \in [Keys -> Seq(Time)]

NotifierInit ==
  /\ clock \in Time
  /\ enabled = FALSE
  /\ client = "none"
  /\ closing = "no"
  /\ lastSent = [k \in Keys |-> 0]
  /\ call = [c \in Callers |-> NotCalling]
  /\ granted = [k \in Keys |-> <<>>]

Limited(k) == k # NoKey /\ Cooldown > 0

TooSoonInclusive(k) == clock - lastSent[k] <= Cooldown   \* Mutant: <= for <.

TooSoon(k) == clock - lastSent[k] < Cooldown

\* `if not self.enabled: return False`
Refuse(c, k) ==
  /\ ~enabled
  /\ call' = [call EXCEPT ![c] = [state |-> "disabled", key |-> k]]
  /\ UNCHANGED <<clock, enabled, client, closing, lastSent, granted>>

\* Mutant: every attempt extends the cooldown.
SuppressExtends(c, k) ==
  /\ enabled
  /\ Limited(k) /\ TooSoon(k)
  /\ lastSent' = [lastSent EXCEPT ![k] = clock]
  /\ call' = [call EXCEPT ![c] = [state |-> "suppressed", key |-> k]]
  /\ UNCHANGED <<clock, enabled, client, closing, granted>>

\* A key whose cooldown runs: return False, the cooldown is not extended.
Suppress(c, k) ==
  /\ enabled
  /\ Limited(k) /\ TooSoon(k)
  /\ call' = [call EXCEPT ![c] = [state |-> "suppressed", key |-> k]]
  /\ UNCHANGED <<clock, enabled, client, closing, lastSent, granted>>

\* Mutant: the table holds the end of the cooldown.
StartPostDeadline(c, k) ==
  /\ enabled
  /\ Limited(k) => ~TooSoon(k)
  /\ lastSent' = IF Limited(k) THEN [lastSent EXCEPT ![k] = clock + Cooldown] ELSE lastSent
  /\ client' = "open"
  /\ call' = [call EXCEPT ![c] = [state |-> "posting", key |-> k]]
  /\ UNCHANGED <<clock, enabled, closing, granted>>

\* The cooldown starts before the POST does, _get_client reopens a closed
\* client, and the coroutine suspends in client.post.
StartPost(c, k) ==
  /\ enabled
  /\ Limited(k) => ~TooSoon(k)
  /\ lastSent' = IF Limited(k) THEN [lastSent EXCEPT ![k] = clock] ELSE lastSent
  /\ granted' = IF Limited(k) THEN [granted EXCEPT ![k] = Append(@, clock)]
                              ELSE granted
  /\ client' = "open"
  /\ call' = [call EXCEPT ![c] = [state |-> "posting", key |-> k]]
  /\ UNCHANGED <<clock, enabled, closing>>

Send(c, k) ==
  /\ call[c].state = "idle"
  /\ Refuse(c, k) \/ Suppress(c, k) \/ StartPost(c, k)

\* Mutant: a failed POST gives the cooldown back.
PostReturnsForgiving(c) ==
  /\ call[c].state = "posting"
  /\ call' = [call EXCEPT ![c].state = "failed"]
  /\ lastSent' = [k \in Keys |-> IF k = call[c].key THEN 0 ELSE lastSent[k]]
  /\ UNCHANGED <<clock, enabled, client, closing, granted>>

\* The POST succeeds, or fails or times out: the cooldown stays consumed.
PostReturns(c) ==
  /\ call[c].state = "posting"
  /\ \E v \in {"sent", "failed"} : call' = [call EXCEPT ![c].state = v]
  /\ UNCHANGED <<clock, enabled, client, closing, lastSent, granted>>

\* The caller takes the result and may send again.
Return(c) ==
  /\ call[c].state \in Verdicts
  /\ call' = [call EXCEPT ![c] = NotCalling]
  /\ UNCHANGED <<clock, enabled, client, closing, lastSent, granted>>

\* Both credentials present, or one of them removed.
ConfigureNotifier(on) ==
  /\ enabled' = on
  /\ UNCHANGED <<clock, client, closing, lastSent, call, granted>>

\* close marks an open client closed and awaits its transport ...
BeginClose ==
  /\ closing = "no"
  /\ IF client = "open" THEN client' = "closed" /\ closing' = "aclose"
                        ELSE client' = "none" /\ closing' = "done"
  /\ UNCHANGED <<clock, enabled, lastSent, call, granted>>

\* ... and then drops whatever client is there, one that a send opened too.
EndClose ==
  /\ closing = "aclose"
  /\ client' = "none"
  /\ closing' = "done"
  /\ UNCHANGED <<clock, enabled, lastSent, call, granted>>

SetClock ==
  /\ clock' \in Time \ {clock}
  /\ UNCHANGED <<enabled, client, closing, lastSent, call, granted>>

NotifierNext ==
  \/ \E c \in Callers, k \in Keys \cup {NoKey} : Send(c, k)
  \/ \E c \in Callers : PostReturns(c)
  \/ \E c \in Callers : Return(c)
  \/ \E on \in BOOLEAN : ConfigureNotifier(on)
  \/ BeginClose
  \/ EndClose
  \/ SetClock

NotifierSpec == NotifierInit /\ [][NotifierNext]_notifierVars
-----------------------------------------------------------------------------
RL == INSTANCE RateLimit WITH Window <- Cooldown

(* The cooldown table and the lock of send implement a rate limiter per    *)
(* dedupe key, whatever the order of callers, failures and clock changes.  *)
ImplementsRateLimit == RL!Spec

(* Two messages of one dedupe key never start less than Cooldown apart,    *)
(* although coroutines check the table, suspend and come back in any order *)
(* and the wall clock may be set back.                                     *)
CooldownKept == RL!Spaced

(* The table is never ahead of or behind what was let through: an entry is *)
(* the time of the last message of its key, and a key without an entry was *)
(* never let through.  (What makes CooldownKept inductive.)                *)
TableIsLastGrant ==
  \A k \in Keys :
    lastSent[k] = IF granted[k] = <<>> THEN 0 ELSE granted[k][Len(granted[k])]

(* No message is silenced without cause: a send is suppressed only while a *)
(* message of the same key was started less than Cooldown ago (or, with    *)
(* the clock set back, in what is now the future).                         *)
SilencedForCause ==
  [][\A c \in Callers :
       call'[c].state = "suppressed" /\ call[c].state # "suppressed" =>
         LET g == granted[call'[c].key]
         IN  \E i \in 1..Len(g) : clock - g[i] < Cooldown]_notifierVars
=============================================================================
