--------------------------- MODULE TelegramConfig ---------------------------
(***************************************************************************)
(* The Telegram settings: two rows of the settings table, token and chat   *)
(* id, saved and shown by the dashboard (app/dashboard/app.py), read at    *)
(* start-up with .env as fallback (app/main.py), and the pair the notifier *)
(* is configured with.  A request is a coroutine that makes one database   *)
(* call after the other; aiosqlite serves the calls of all coroutines in   *)
(* the order they were made and resumes a coroutine with each result, so   *)
(* one step performs a call and lets its coroutine make the next.          *)
(***************************************************************************)
EXTENDS Naturals, Sequences, SequencesExt

CONSTANTS Saves,        \* POST requests that may be in progress
          Pages,        \* GET requests that may be in progress
          Tokens,       \* bot tokens an operator may enter
          Chats,        \* chat ids an operator may enter
          None,         \* "": an empty field, and a row that is not there
          Masked,       \* a token with a "*" in it, as the page shows it
          EnvToken,     \* TELEGRAM_BOT_TOKEN of .env
          EnvChat,      \* TELEGRAM_CHAT_ID of .env
          MaxSaves,     \* bound: saves answered or in progress
          MaxCrashes    \* bound

\* What the constants have to be.
ASSUME TelegramConfigAssumption ==
  /\ None \notin Tokens \cup Chats /\ Masked \notin Tokens \cup {None}
  /\ EnvToken \in Tokens \cup {None} /\ EnvChat \in Chats \cup {None}
  /\ {MaxSaves, MaxCrashes} \subseteq Nat /\ Saves \cap Pages = {}

VARIABLES view,      \* the two rows as the connection sees them
          committed, \* the two rows as committed
          live,      \* _token and _chat_id of the notifier
          calls,     \* calls[r]: database calls the request has still to make
          body,      \* body[r]: what the request posts
          got,       \* got[r]: what the request has read
          sqlq,      \* requests whose call waits for the database thread
          serial,    \* history: all rows the saves answered so far leave when
                     \* made one after the other, in the order of the answers
          shown,     \* history: rows the page was shown
          made,      \* number of saves
          clean,     \* history: no save has failed or been cut off
          booted,    \* history: live was set at start-up, not by a save
          crashes
settingsVars == <<view, committed, live, calls, body, got, sqlq, serial, shown, made, clean,
                  booted, crashes>>

Pair(token, chat) == [token |-> token, chat |-> chat]
Rows == [token : Tokens \cup {None}, chat : Chats \cup {None}]
Bodies == [token : Tokens \cup {None, Masked}, chat : Chats \cup {None}]
Or(value, other) == IF value = None THEN other ELSE value

\* What the start-up configures and the page shows: the rows, or else .env.
WithEnv(rows) == Pair(Or(rows.token, EnvToken), Or(rows.chat, EnvChat))

SettingsInit ==
  /\ view = Pair(None, None)
  /\ committed = view
  /\ live = WithEnv(view)
  /\ calls = [r \in Saves \cup Pages |-> <<>>]
  /\ body = [r \in Saves \cup Pages |-> Pair(None, None)]
  /\ got = [r \in Saves \cup Pages |-> Pair(None, None)]
  /\ sqlq = <<>>
  /\ serial = <<Pair(None, None)>>
  /\ shown = {}
  /\ made = 0
  /\ clean = TRUE
  /\ booted = TRUE
  /\ crashes = 0

---------------------------------------------------------------------------
\* Mutant: the test for "*" is missing.
EntersTokenAny(token) == token # None

\* A token is stored if it is one: neither empty nor the mask sent back.
EntersToken(token) == token \notin {None, Masked}

\* Mutant: the chat id is read first.
ReadCallsChatFirst == <<"getChat", "fetch", "getToken", "fetch">>

\* get_setting twice: each an execute, which reads the row, and a fetchone.
ReadCalls == <<"getToken", "fetch", "getChat", "fetch">>

\* Mutant: the settings are read back before the chat id is stored.
SaveCallsReadEarly(token) ==
  (IF EntersToken(token) THEN <<"setToken", "commit">> ELSE <<>>)
    \o ReadCalls \o <<"setChat", "commit">>

\* Mutant: set_setting does not commit.
SaveCallsNoCommit(token) ==
  (IF EntersToken(token) THEN <<"setToken">> ELSE <<>>) \o <<"setChat">> \o ReadCalls

\* api_set_telegram: set_setting once or twice, then both settings read back.
SaveCalls(token) ==
  (IF EntersToken(token) THEN <<"setToken", "commit">> ELSE <<>>)
    \o <<"setChat", "commit">> \o ReadCalls

Idle(r) == calls[r] = <<>>
Quiet == sqlq = <<>>

\* A request arrives and makes its first call.
Arrive(r, list) ==
  /\ Idle(r)
  /\ calls' = [calls EXCEPT ![r] = list]
  /\ sqlq' = Append(sqlq, r)
  /\ UNCHANGED <<view, committed, live, got, serial, shown, clean, booted, crashes>>

Save(r, b) ==
  /\ made < MaxSaves
  /\ made' = made + 1
  /\ Arrive(r, SaveCalls(b.token))
  /\ body' = [body EXCEPT ![r] = b]

\* api_get_telegram
Show(r) == Arrive(r, ReadCalls) /\ UNCHANGED <<body, made>>

\* The effect of a call on the database.
Execute(r, call) ==
  /\ view' = CASE call = "setToken" -> [view EXCEPT !.token = body[r].token]
               [] call = "setChat" -> [view EXCEPT !.chat = body[r].chat]
               [] OTHER -> view
  /\ committed' = IF call = "commit" THEN view ELSE committed

\* What the request knows after a call.
Learn(r, call) ==
  got' = CASE call = "getToken" -> [got EXCEPT ![r].token = view.token]
           [] call = "getChat" -> [got EXCEPT ![r].chat = view.chat]
           [] OTHER -> got

\* What a save leaves in the table when it is alone.
Apply(rows, b) ==
  Pair(IF b.token \in Tokens THEN b.token ELSE rows.token, b.chat)

\* The coroutine of a request ends and its variables with it.
Forget(r) ==
  /\ body' = [body EXCEPT ![r] = Pair(None, None)]
  /\ got' = [got EXCEPT ![r] = Pair(None, None)]

\* A save has made its last call: it configures the notifier with what it has
\* read back, without .env.
Configure(r) ==
  /\ r \in Saves
  /\ live' = got[r]
  /\ booted' = FALSE
  /\ serial' = Append(serial, Apply(Last(serial), body[r]))
  /\ UNCHANGED shown

\* A page has made its last call.
Display(r) ==
  /\ r \in Pages
  /\ shown' = shown \cup {got[r]}
  /\ UNCHANGED <<live, booted, serial>>

\* The call at the head of the queue is performed and its coroutine resumed.
Call ==
  /\ ~Quiet
  /\ LET r == Head(sqlq) IN
     /\ Execute(r, Head(calls[r]))
     /\ calls' = [calls EXCEPT ![r] = Tail(@)]
     /\ \/ /\ Len(calls[r]) > 1
           /\ sqlq' = Append(Tail(sqlq), r)
           /\ Learn(r, Head(calls[r]))
           /\ UNCHANGED <<body, live, booted, serial, shown>>
        \/ /\ Len(calls[r]) = 1
           /\ sqlq' = Tail(sqlq)
           /\ Configure(r) \/ Display(r)
           /\ Forget(r)
  /\ UNCHANGED <<made, clean, crashes>>

\* A write or its commit raises (the file is locked by the other process):
\* the request ends with an error, what it has written before stays.
CallFails ==
  /\ ~Quiet
  /\ LET r == Head(sqlq) IN
     /\ Head(calls[r]) \in {"setToken", "setChat", "commit"}
     /\ calls' = [calls EXCEPT ![r] = <<>>]
     /\ Forget(r)
  /\ sqlq' = Tail(sqlq)
  /\ clean' = FALSE
  /\ UNCHANGED <<view, committed, live, serial, shown, made, booted, crashes>>

\* Any other coroutine of the process commits on the same connection.
OtherCommits ==
  /\ committed' = view
  /\ UNCHANGED <<view, live, calls, body, got, sqlq, serial, shown, made, clean, booted, crashes>>

\* The process dies and starts again: what was not committed is gone, and run()
\* configures the notifier before any request arrives.
Restart ==
  /\ crashes < MaxCrashes
  /\ crashes' = crashes + 1
  /\ view' = committed
  /\ live' = WithEnv(committed)
  /\ booted' = TRUE
  /\ calls' = [r \in Saves \cup Pages |-> <<>>]
  /\ sqlq' = <<>>
  /\ body' = [r \in Saves \cup Pages |-> Pair(None, None)]
  /\ got' = [r \in Saves \cup Pages |-> Pair(None, None)]
  /\ clean' = (clean /\ \A r \in Saves : Idle(r))
  /\ UNCHANGED <<committed, serial, shown, made>>

SettingsNext ==
  \/ \E r \in Saves, b \in Bodies : Save(r, b)
  \/ \E r \in Pages : Show(r)
  \/ Call \/ CallFails \/ OtherCommits \/ Restart

SettingsSpec == SettingsInit /\ [][SettingsNext]_settingsVars

---------------------------------------------------------------------------
(* Properties.                                                             *)

\* Every variable keeps its type; a request waits in the queue exactly while
\* it has a call to make, and waits there once.
SettingsTypeOK ==
  /\ {view, committed, live} \subseteq Rows
  /\ calls \in [Saves \cup Pages ->
       Seq({"setToken", "setChat", "commit", "getToken", "getChat", "fetch"})]
  /\ body \in [Saves \cup Pages -> Bodies]
  /\ got \in [Saves \cup Pages -> Rows]
  /\ sqlq \in Seq(Saves \cup Pages) /\ IsInjective(sqlq)
  /\ ToSet(sqlq) = {r \in Saves \cup Pages : ~Idle(r)}
  /\ serial \in Seq(Rows) /\ shown \subseteq Rows /\ made \in 0..MaxSaves
  /\ {clean, booted} \subseteq BOOLEAN
  /\ crashes \in 0..MaxCrashes

\* app.py:122: saves that overlap store what the same saves would have stored
\* one after the other, in the order they were answered; a restart keeps it.
SavesInAnswerOrder == clean /\ Quiet => committed = Last(serial)

\* app.py:128: whatever overlapped, the notifier ends with the settings that
\* are stored: of the last save as they are, of a start-up with .env.
LiveFollowsTable ==
  clean /\ Quiet => live = IF booted THEN WithEnv(committed) ELSE committed

\* app.py:111 reads the two rows in two calls, yet never shows the token of one
\* state of the settings with the chat id of another.
PageNeverTorn ==
  clean /\ Quiet => shown \subseteq ToSet(serial)

=============================================================================
