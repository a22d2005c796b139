----------------------------- MODULE WireSession -----------------------------
(***************************************************************************)
(* The honeypots that speak a wire protocol: mssql, mysql and rdp, each a  *)
(* coroutine _handle that reads a few packets and closes, http (and https, *)
(* which is the same code), whose handlers aiohttp calls per request, and  *)
(* ftp, whose callbacks pyftpdlib calls in a thread.  A peer is served by  *)
(* one of them.  What it sends is a sequence of items: a packet whose      *)
(* length field matches its bytes, a packet whose length field is shorter  *)
(* than its header ("bad"), the head or the form of an HTTP request, an    *)
(* FTP login.  An item that the connection cuts off never arrives.         *)
(***************************************************************************)
EXTENDS Naturals, Sequences, SequencesExt

CONSTANTS Clients,    \* remote ends, one connection each
          Names,      \* user names; "" is empty, " " one that strip() empties
          Passwords,  \* what a user types: sequences of bytes
          MaxItems    \* bound: items a peer sends

\* A byte is its bits, the lowest one first.
Byte == [0..7 -> {0, 1}]

ASSUME WireSessionAssumption == Passwords \subseteq Seq(Byte)

VARIABLES served,   \* served[p]: the honeypot that serves the peer
          at,       \* at[p]: where the handler stands
          wire,     \* wire[p]: items that arrived and are not read yet
          ended,    \* ended[p]: how the connection ended
          reply,    \* reply[p]: the last answer written
          records,  \* records[p]: the events about the peer, in order
          sent      \* sent[p]: history, all items, as the peer meant them
wireVars == <<served, at, wire, ended, reply, records, sent>>

Streams == {"mssql", "mysql", "rdp"}
Services == Streams \union {"http", "ftp"}

Connected == [type |-> "connection"]
Negotiate(details) == [type |-> "negotiate", details |-> details]
Request(route) == [type |-> "request", route |-> route]
LoggedIn(user) == [type |-> "login", user |-> user]
Credential(user, secret) == [type |-> "credential", user |-> user, secret |-> secret]

WireInit ==
  /\ served = [p \in Clients |-> "none"]
  /\ at = [p \in Clients |-> "away"]
  /\ wire = [p \in Clients |-> <<>>]
  /\ ended = [p \in Clients |-> "no"]
  /\ reply = [p \in Clients |-> "none"]
  /\ records = [p \in Clients |-> <<>>]
  /\ sent = [p \in Clients |-> <<>>]

---------------------------------------------------------------------------
(* Data.                                                                   *)

XorA5(b) == [i \in 0..7 |-> IF i \in {0, 2, 5, 7} THEN 1 - b[i] ELSE b[i]]
SwapNibbles(b) == [i \in 0..7 |-> b[(i + 4) % 8]]

\* What a TDS client does to the bytes of a password.
Obfuscate(data) == [i \in DOMAIN data |-> XorA5(SwapNibbles(data[i]))]

\* Mutant: the nibbles are swapped before the xor.
DeobfuscateSwapped(data) == [i \in DOMAIN data |-> XorA5(SwapNibbles(data[i]))]

\* _deobfuscate_password
Deobfuscate(data) == [i \in DOMAIN data |-> SwapNibbles(XorA5(data[i]))]

\* strip("\x00 ")
Stripped(name) == IF name = " " THEN "" ELSE name

\* `a or b or ...`: the first value that is not empty, as an optional value.
FirstOf(values) ==
  LET full == {i \in DOMAIN values : values[i] # ""} IN
  IF full = {} THEN <<>> ELSE <<values[Min(full)]>>

\* An item as it stands on the wire.
OnWire(item) ==
  IF item.kind = "login7" THEN [item EXCEPT !.secret = Obfuscate(@)] ELSE item

Plain(kinds) == [kind : kinds]

\* What the peers of a service send.
Items(s) ==
  CASE s = "mssql" -> Plain({"bad", "prelogin", "other", "shortlogin7"})
                      \union [kind : {"login7"}, user : Names, secret : Passwords]
    [] s = "mysql" -> Plain({"short"})
                      \union [kind : {"auth"}, user : Names,
                              auth : {<<>>, <<"">>, <<"hash">>}]
    [] s = "rdp"   -> Plain({"bad"})
                      \union [kind : {"tpkt"}, marks :
                                {m \in SUBSET {"username", "hostname", "negotiated"} :
                                   "username" \in m => "hostname" \in m}]
    [] s = "http"  -> [kind : {"get"}, route : {"index", "login", "other"}]
                      \union [kind : {"post"}, route : {"login", "other"}]
                      \union Plain({"garbled"})
                      \union [kind : {"form"}, user : {<<v, w>> : v, w \in Names},
                              secret : {<<v, w>> : v, w \in Names}]
    [] s = "ftp"   -> Plain({"other"})
                      \union [kind : {"pass"}, user : Names, secret : Names]

\* A form is the body of a POST that has a handler.
FormDue(list) == list # <<>> /\ Last(list) = [kind |-> "post", route |-> "login"]
Fits(list, item) == FormDue(list) <=> item.kind \in {"form", "garbled"}

---------------------------------------------------------------------------
(* The connection.                                                         *)

Become(p, where) == at' = [at EXCEPT ![p] = where]
Answer(p, what) == reply' = [reply EXCEPT ![p] = what]
Record(p, rows) == records' = [records EXCEPT ![p] = @ \o rows]
Take(p) == wire' = [wire EXCEPT ![p] = Tail(@)]

Open(p) == at[p] \notin {"away", "closed", "expired"}

Arrive(p, item) ==
  /\ Open(p) /\ ended[p] = "no"
  /\ Len(sent[p]) < MaxItems /\ Fits(sent[p], item)
  /\ sent' = [sent EXCEPT ![p] = Append(@, item)]
  /\ wire' = [wire EXCEPT ![p] = Append(@, OnWire(item))]
  /\ UNCHANGED <<served, at, ended, reply, records>>

\* The peer closes its side, or the connection breaks: reads will raise.
PeerLeaves(p, how) ==
  /\ Open(p) /\ ended[p] = "no"
  /\ ended' = [ended EXCEPT ![p] = how]
  /\ UNCHANGED <<served, at, wire, reply, records, sent>>

\* A handler reads its next item, if it can be read.
Reads(p) == ended[p] # "error" /\ wire[p] # <<>> /\ Head(wire[p]).kind # "bad"

\* A read raises: the connection is over, or payload of a negative length.
Fails(p) ==
  \/ ended[p] = "error"
  \/ ended[p] = "eof" /\ wire[p] = <<>>
  \/ wire[p] # <<>> /\ Head(wire[p]).kind = "bad"

---------------------------------------------------------------------------
(* mssql, mysql, rdp: _handle, from one read to the next.                  *)

\* Up to the first read; mysql writes its handshake before it.
StreamConnect(p, s) ==
  /\ at[p] = "away" /\ s \in Streams
  /\ served' = [served EXCEPT ![p] = s]
  /\ Become(p, "first")
  /\ Record(p, <<Connected>>)
  /\ Answer(p, IF s = "mysql" THEN "handshake" ELSE "none")
  /\ UNCHANGED <<wire, ended, sent>>

\* `except Exception`, and the writer is closed in any case.
HandlerFails(p) ==
  /\ served[p] \in Streams /\ Open(p) /\ Fails(p)
  /\ Become(p, "closed")
  /\ UNCHANGED <<served, wire, ended, reply, records, sent>>

\* The first packet, whatever it is, is consumed here.
MssqlPrelogin(p) ==
  /\ served[p] = "mssql" /\ at[p] = "first" /\ Reads(p) /\ Take(p)
  /\ Answer(p, IF Head(wire[p]).kind = "prelogin" THEN "prelogin" ELSE reply[p])
  /\ Become(p, "second")
  /\ UNCHANGED <<served, ended, records, sent>>

\* _parse_login7: the user name and the password; a packet too short for the
\* table of offsets has neither.
ParseLogin7(packet) ==
  IF packet.kind = "login7"
  THEN [user |-> Stripped(packet.user), secret |-> Deobfuscate(packet.secret)]
  ELSE [user |-> "", secret |-> <<>>]

MssqlLogin(p) ==
  LET packet == Head(wire[p])
      login == ParseLogin7(packet)
      isLogin == packet.kind \in {"login7", "shortlogin7"}
  IN /\ served[p] = "mssql" /\ at[p] = "second" /\ Reads(p) /\ Take(p)
     /\ Record(p, IF isLogin /\ login.user # ""
                  THEN <<Credential(<<login.user>>, login.secret)>> ELSE <<>>)
     /\ Answer(p, IF isLogin THEN "refused" ELSE reply[p])
     /\ Become(p, "closed")
     /\ UNCHANGED <<served, ended, sent>>

\* _read_auth_response; an empty user name is recorded, an empty hash is not.
MysqlAuth(p) ==
  LET packet == Head(wire[p])
      auth == packet.kind = "auth"
  IN /\ served[p] = "mysql" /\ at[p] = "first" /\ Reads(p) /\ Take(p)
     /\ Record(p, IF auth
                  THEN <<Credential(<<packet.user>>,
                           IF packet.auth = <<"">> THEN <<>> ELSE packet.auth)>>
                  ELSE <<>>)
     /\ Answer(p, IF auth THEN "refused" ELSE reply[p])
     /\ Become(p, "closed")
     /\ UNCHANGED <<served, ended, sent>>

\* The X.224 Connection Request is read, not looked at, and confirmed.
RdpConfirm(p) ==
  /\ served[p] = "rdp" /\ at[p] = "first" /\ Reads(p) /\ Take(p)
  /\ Answer(p, "confirm")
  /\ Become(p, "negotiate")
  /\ UNCHANGED <<served, ended, records, sent>>

\* _extract_client_info of the packet that follows; no details, no event.
RdpNegotiate(p) ==
  LET details == Head(wire[p]).marks IN
  /\ served[p] = "rdp" /\ at[p] = "negotiate" /\ Reads(p) /\ Take(p)
  /\ Record(p, IF details # {} THEN <<Negotiate(details)>> ELSE <<>>)
  /\ Become(p, "closed")
  /\ UNCHANGED <<served, ended, reply, sent>>

\* Mutant: the read is not bounded by wait_for.
RdpTimeoutNever(p) ==
  /\ served[p] = "rdp" /\ at[p] = "negotiate" /\ ended[p] # "no"
  /\ Become(p, "expired")
  /\ UNCHANGED <<served, wire, ended, reply, records, sent>>

\* wait_for gives up; it may win over a packet that is there already.
RdpTimeout(p) ==
  /\ served[p] = "rdp" /\ at[p] = "negotiate"
  /\ Become(p, "expired")
  /\ UNCHANGED <<served, wire, ended, reply, records, sent>>

\* A resumption of the coroutine _handle of a peer.
HandlerStep(p) ==
  \/ HandlerFails(p) \/ MssqlPrelogin(p) \/ MssqlLogin(p) \/ MysqlAuth(p)
  \/ RdpConfirm(p) \/ RdpNegotiate(p) \/ RdpTimeout(p)

---------------------------------------------------------------------------
(* http and ftp: the library reads, the code has callbacks.                *)

HttpConnect(p) ==
  /\ at[p] = "away"
  /\ served' = [served EXCEPT ![p] = "http"]
  /\ Become(p, "serving")
  /\ UNCHANGED <<wire, ended, reply, records, sent>>

\* Mutant: every POST has a handler, whatever its path.
HttpHandleEvery(p) ==
  LET head == Head(wire[p])
      routed == TRUE
  IN /\ served[p] = "http" /\ at[p] = "serving" /\ Reads(p) /\ Take(p)
     /\ Record(p, IF routed THEN <<Request(head.route)>> ELSE <<>>)
     /\ IF head.kind = "post" /\ routed
        THEN Become(p, "body") /\ UNCHANGED reply
        ELSE UNCHANGED at /\ Answer(p, IF routed THEN head.route ELSE "405")
     /\ UNCHANGED <<served, ended, sent>>

\* _index, _login and _notfound, and _post up to `await request.post()`.
\* A POST to another path has no route: the library answers it.
HttpHandle(p) ==
  LET head == Head(wire[p])
      routed == head.kind = "get" \/ head.route = "login"
  IN /\ served[p] = "http" /\ at[p] = "serving" /\ Reads(p) /\ Take(p)
     /\ Record(p, IF routed THEN <<Request(head.route)>> ELSE <<>>)
     /\ IF head.kind = "post" /\ routed
        THEN Become(p, "body") /\ UNCHANGED reply
        ELSE UNCHANGED at /\ Answer(p, IF routed THEN head.route ELSE "405")
     /\ UNCHANGED <<served, ended, sent>>

\* The fields of a form, in the order the code asks for them.
LoginOf(form) ==
  LET user == FirstOf(form.user)  secret == FirstOf(form.secret) IN
  IF user # <<>> \/ secret # <<>> THEN <<Credential(user, secret)>> ELSE <<>>

\* _post with the form, or with {} where it could not be parsed.
HttpForm(p) ==
  LET form == Head(wire[p])
      login == IF form.kind = "form" THEN LoginOf(form) ELSE <<>>
  IN /\ served[p] = "http" /\ at[p] = "body" /\ Reads(p) /\ Take(p)
     /\ Record(p, login)
     /\ Answer(p, IF login # <<>> THEN "401" ELSE "login")
     /\ Become(p, "serving")
     /\ UNCHANGED <<served, ended, sent>>

\* on_connect
FtpConnect(p) ==
  /\ at[p] = "away"
  /\ served' = [served EXCEPT ![p] = "ftp"]
  /\ Become(p, "serving")
  /\ Record(p, <<Connected>>)
  /\ UNCHANGED <<wire, ended, reply, sent>>

Anonymous == {"anonymous", "FTP"}

\* validate_authentication, which accepts, and then on_login.
FtpCommand(p) ==
  LET cmd == Head(wire[p]) IN
  /\ served[p] = "ftp" /\ at[p] = "serving" /\ Reads(p) /\ Take(p)
  /\ IF cmd.kind = "pass"
     THEN /\ Record(p, (IF cmd.user \in Anonymous THEN <<>>
                        ELSE <<Credential(<<cmd.user>>, <<cmd.secret>>)>>)
                       \o <<LoggedIn(cmd.user)>>)
          /\ Answer(p, "welcome")
     ELSE UNCHANGED <<records, reply>>
  /\ UNCHANGED <<served, at, ended, sent>>

\* The library notices the end, items unread or not; a form cut off is {} to _post.
LibraryCloses(p) ==
  /\ served[p] \in {"http", "ftp"} /\ Open(p) /\ ended[p] # "no"
  /\ Become(p, "closed")
  /\ UNCHANGED <<served, wire, ended, reply, records, sent>>

CallbackStep(p) ==
  HttpHandle(p) \/ HttpForm(p) \/ FtpCommand(p) \/ LibraryCloses(p)

---------------------------------------------------------------------------
Wire(p) ==
  \/ \E s \in Streams : StreamConnect(p, s)
  \/ HttpConnect(p) \/ FtpConnect(p)
  \/ HandlerStep(p) \/ CallbackStep(p)
  \/ \E how \in {"eof", "error"} : PeerLeaves(p, how)
  \/ served[p] # "none" /\ \E item \in Items(served[p]) : Arrive(p, item)

WireNext == \E p \in Clients : Wire(p)

\* The event loop resumes a coroutine that can go on, and its timers fire.
WireFairness == \A p \in Clients : WF_wireVars(HandlerStep(p))

WireSpec == WireInit /\ [][WireNext]_wireVars /\ WireFairness

---------------------------------------------------------------------------
(* Properties.                                                             *)

\* What the handler of a peer has read, as the peer meant it.
Taken(p) == SubSeq(sent[p], 1, Len(sent[p]) - Len(wire[p]))

\* Every variable keeps its type: what is unread is the end of what was sent,
\* and _post waits for a form exactly when the last item it read calls for one.
WireTypeOK ==
  /\ served \in [Clients -> Services \union {"none"}]
  /\ at \in [Clients -> {"away", "first", "second", "negotiate", "serving", "body",
                       "closed", "expired"}]
  /\ ended \in [Clients -> {"no", "eof", "error"}]
  /\ \A p \in Clients :
       /\ served[p] = "none" <=> at[p] = "away"
       /\ sent[p] \in Seq(IF served[p] = "none" THEN {} ELSE Items(served[p]))
       /\ Len(wire[p]) <= Len(sent[p])
       /\ \A i \in DOMAIN wire[p] :
            wire[p][i] = OnWire(sent[p][Len(sent[p]) - Len(wire[p]) + i])
       /\ Open(p) => (at[p] = "body" <=> FormDue(Taken(p)))

\* What an item of http or of ftp is to leave.
RowsOfItem(item) ==
  CASE item.kind \in {"get", "post"} -> <<Request(item.route)>>
    [] item.kind = "form" /\ ToSet(item.user) \union ToSet(item.secret) # {""} ->
         <<Credential(FirstOf(item.user), FirstOf(item.secret))>>
    [] item.kind = "pass" ->
         IF item.user \in Anonymous THEN <<LoggedIn(item.user)>>
         ELSE <<Credential(<<item.user>>, <<item.secret>>), LoggedIn(item.user)>>
    [] OTHER -> <<>>

\* A POST to a path without a route leaves nothing: PathsRecorded fails.
Unrouted == [kind |-> "post", route |-> "other"]
RowsNoticed(item) == IF item = Unrouted THEN <<>> ELSE RowsOfItem(item)

\* What the code records of a peer that meant to send these items.  It looks
\* at the second packet of mssql and of rdp only: CookieRecorded fails.
RecordsOf(s, items) ==
  CASE s = "none" -> <<>>
    [] s = "http" -> FlattenSeq([i \in DOMAIN items |-> RowsNoticed(items[i])])
    [] s = "ftp" -> <<Connected>> \o FlattenSeq([i \in DOMAIN items |-> RowsNoticed(items[i])])
    [] s = "mssql" -> <<Connected>> \o
         (IF Len(items) >= 2 /\ items[2].kind = "login7" /\ items[2].user \notin {"", " "}
          THEN <<Credential(<<items[2].user>>, items[2].secret)>> ELSE <<>>)
    [] s = "mysql" -> <<Connected>> \o
         (IF items # <<>> /\ items[1].kind = "auth"
          THEN <<Credential(<<items[1].user>>,
                   IF ToSet(items[1].auth) \subseteq {""} THEN <<>> ELSE items[1].auth)>>
          ELSE <<>>)
    [] s = "rdp" -> <<Connected>> \o
         (IF Len(items) >= 2 /\ items[2].marks # {} THEN <<Negotiate(items[2].marks)>> ELSE <<>>)

(* mssql.py:47, mysql.py:96, http.py:87, ftp.py:42: of the items the code   *)
(* looks at (RowsNoticed, RecordsOf) everything is recorded, once, in order *)
(* and with passwords as they were typed, wherever the connection ends.     *)
NoticedExact == \A p \in Clients : records[p] = RecordsOf(served[p], Taken(p))

(* README.md:5 "records every interaction in SQLite", :221 "captures        *)
(* form/POST credentials, paths": every request read leaves its path.       *)
PathsRecorded ==
  \A p \in Clients : served[p] = "http" =>
    \A item \in ToSet(Taken(p)) :
      item.kind \in {"get", "post"} => Request(item.route) \in ToSet(records[p])

(* rdp.py:3-6 "extracts whatever client metadata (hostname / mstshash       *)
(* cookie / OS hints) is available, then logs the attempt": a cookie in one *)
(* of the packets a finished handler has read is in the event about them.   *)
CookieRecorded ==
  \A p \in Clients : served[p] = "rdp" /\ at[p] = "closed" /\ Len(Taken(p)) = 2 =>
    \A item \in ToSet(Taken(p)) : "username" \in item.marks =>
      \E r \in ToSet(records[p]) : r.type = "negotiate" /\ "username" \in r.details

\* mssql.py:69, mysql.py:61, rdp.py:56: a handler whose peer is gone comes to
\* its end and closes its side; one that has confirmed an RDP connection does
\* so even if the peer stays and stays silent.
HandlerLetsGo ==
  \A p \in Clients :
    (served[p] \in Streams /\ (ended[p] # "no" \/ at[p] = "negotiate")) ~> ~Open(p)

=============================================================================
