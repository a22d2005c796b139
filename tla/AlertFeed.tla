------------------------------ MODULE AlertFeed ------------------------------
(***************************************************************************)
(* The alerts table of the dashboard: the page (app/dashboard/static/      *)
(* app.js), the routes it calls (app/dashboard/app.py) and the queries     *)
(* behind them (app/db/database.py).  The page asks for the list every     *)
(* five seconds and whenever something was clicked, without waiting for    *)
(* earlier requests; browser and server may answer in any order, and a     *)
(* request may fail.  The bus inserts alerts meanwhile.  The page polls    *)
(* events, credentials and counters in the same way; they cannot be        *)
(* changed from the page and are left out.                                 *)
(***************************************************************************)
EXTENDS Integers, FiniteSets

CONSTANTS Slots,      \* requests for the list under way at a time
          Limit,      \* the limit the page asks for (200)
          Cap,        \* the limit the route allows (1000)
          MaxAlerts,  \* bound: alerts inserted
          MaxClicks,  \* bound: clicks on a button or the filter
          MaxLosses   \* bound: requests that fail

\* The page asks for 200 and the route allows 1000; a negative limit is legal.
ASSUME AlertFeedAssumption ==
  Limit \in Int /\ Cap \in Nat /\ {MaxAlerts, MaxClicks, MaxLosses} \subseteq Nat

VARIABLES rows,     \* number of alerts inserted: their ids are 1..rows
          acked,    \* ids whose row says acknowledged
          signed,   \* the page's session is valid
          page,     \* "index", or "login" after a redirect
          filter,   \* the box "show unacknowledged only"
          table,    \* the rows on the page, <<id, acknowledged>>
          list,     \* list[s]: a request for the list
          ackAll,   \* the request behind "Acknowledge visible"
          posts,    \* ids whose acknowledgement is under way
          clicks, losses,
          seen      \* history: ids that have been on the page
feedVars == <<rows, acked, signed, page, filter, table, list, ackAll, posts, clicks, losses, seen>>
server == <<rows, acked, signed>>
browser == <<page, filter, table, list, ackAll, posts, seen>>

Ids == 1..MaxAlerts
Free == [at |-> "free"]
Asked(unacked) == [at |-> "asked", unacked |-> unacked]
Answered(result) == [at |-> "answered", result |-> result]
Denied == [at |-> "denied"]

FeedInit ==
  /\ rows = 0 /\ acked = {}
  /\ signed = TRUE /\ page = "index"
  /\ filter = FALSE /\ table = {}
  /\ list = [s \in Slots |-> Free]
  /\ ackAll = Free /\ posts = {}
  /\ clicks = 0 /\ losses = 0 /\ seen = {}

---------------------------------------------------------------------------
(* The server.                                                             *)

\* Mutant: one row more than asked for.
NewestOneMore(ids, limit) ==
  {i \in ids : limit < 0 \/ Cardinality({j \in ids : j > i}) <= limit}

\* A limit of SQL: a negative one is none.
Newest(ids, limit) ==
  {i \in ids : limit < 0 \/ Cardinality({j \in ids : j > i}) < limit}

\* api_alerts, list_alerts
ListAlerts(limit, unacked) ==
  LET ids == Newest({i \in 1..rows : unacked => i \notin acked},
                    IF limit < Cap THEN limit ELSE Cap)
  IN {<<i, i \in acked>> : i \in ids}

\* require_user, and then the query.
Respond(request) == IF signed THEN Answered(ListAlerts(Limit, request.unacked)) ELSE Denied

\* The bus commits an alert.
InsertAlert ==
  /\ rows < MaxAlerts
  /\ rows' = rows + 1
  /\ UNCHANGED <<acked, signed, browser, clicks, losses>>

\* The session cookie is older than a day, or its key has changed.
SessionExpires ==
  /\ signed /\ clicks < MaxClicks
  /\ signed' = FALSE /\ clicks' = clicks + 1
  /\ UNCHANGED <<rows, acked, browser, losses>>

AnswerList(s) ==
  /\ list[s].at = "asked"
  /\ list' = [list EXCEPT ![s] = Respond(@)]
  /\ UNCHANGED <<server, page, filter, table, ackAll, posts, seen, clicks, losses>>

AnswerAckAll ==
  /\ ackAll.at = "asked"
  /\ ackAll' = Respond(ackAll)
  /\ UNCHANGED <<server, page, filter, table, list, posts, seen, clicks, losses>>

\* api_ack, ack_alert, and the answer.
AckAlert(id) ==
  /\ id \in posts /\ signed
  /\ acked' = acked \union {id}
  /\ posts' = posts \ {id}
  /\ UNCHANGED <<rows, signed, page, filter, table, list, ackAll, seen, clicks, losses>>

---------------------------------------------------------------------------
(* The page.                                                               *)

FreeSlot(s) == page = "index" /\ list[s].at = "free"

\* refreshAlerts, from setInterval, from a click or after an acknowledgement.
RefreshAlerts(s) ==
  /\ FreeSlot(s)
  /\ list' = [list EXCEPT ![s] = Asked(filter)]
  /\ UNCHANGED <<server, page, filter, table, ackAll, posts, seen, clicks, losses>>

\* Mutant: an empty list is not rendered.
RenderAlertsNotEmpty(s) ==
  /\ list[s].at = "answered"
  /\ table' = IF list[s].result = {} THEN table ELSE list[s].result
  /\ seen' = seen \union {row[1] : row \in table'}
  /\ list' = [list EXCEPT ![s] = Free]
  /\ UNCHANGED <<server, page, filter, ackAll, posts, clicks, losses>>

\* renderAlerts, whichever answer comes.
RenderAlerts(s) ==
  /\ list[s].at = "answered"
  /\ table' = list[s].result
  /\ seen' = seen \union {row[1] : row \in table'}
  /\ list' = [list EXCEPT ![s] = Free]
  /\ UNCHANGED <<server, page, filter, ackAll, posts, clicks, losses>>

\* api: a 401 sends the browser to the login page, and the page is gone.
Redirect ==
  /\ page = "index"
  /\ ackAll = Denied \/ (posts # {} /\ ~signed) \/ \E s \in Slots : list[s] = Denied
  /\ page' = "login"
  /\ list' = [s \in Slots |-> Free] /\ ackAll' = Free /\ posts' = {}
  /\ filter' = FALSE /\ table' = {}
  /\ UNCHANGED <<server, seen, clicks, losses>>

\* POST /login and the page anew; refreshAll is the first of its polls.
LogIn ==
  /\ page = "login"
  /\ page' = "index" /\ signed' = TRUE
  /\ UNCHANGED <<rows, acked, filter, table, list, ackAll, posts, clicks, losses, seen>>

\* fetch rejects, or the answer is no JSON: caught, or ignored by the browser.
\* The acknowledgements of a Promise.all go on without each other.
Fails ==
  /\ losses < MaxLosses
  /\ losses' = losses + 1
  /\ \/ /\ \E s \in Slots : /\ list[s].at \in {"asked", "answered"}
                            /\ list' = [list EXCEPT ![s] = Free]
        /\ UNCHANGED <<ackAll, posts>>
     \/ /\ ackAll.at \in {"asked", "answered"}
        /\ ackAll' = Free
        /\ UNCHANGED <<list, posts>>
     \/ /\ \E id \in posts : posts' = posts \ {id}
        /\ UNCHANGED <<list, ackAll>>
  /\ UNCHANGED <<server, page, filter, table, seen, clicks>>

Click == page = "index" /\ clicks < MaxClicks /\ clicks' = clicks + 1

\* The filter's change handler; it calls refreshAlerts.
ClickFilter(s) ==
  /\ Click /\ FreeSlot(s)
  /\ filter' = ~filter
  /\ list' = [list EXCEPT ![s] = Asked(~filter)]
  /\ UNCHANGED <<server, page, table, ackAll, posts, losses, seen>>

\* The button of a row, which has the id of its alert.
ClickAck(id) ==
  /\ Click /\ <<id, FALSE>> \in table
  /\ posts' = posts \union {id}
  /\ UNCHANGED <<server, page, filter, table, list, ackAll, losses, seen>>

\* "Acknowledge visible": asks what there is to be acknowledged ...
ClickAckAll ==
  /\ Click /\ ackAll = Free
  /\ ackAll' = Asked(TRUE)
  /\ UNCHANGED <<server, page, filter, table, list, posts, losses, seen>>

\* ... and acknowledges all of it.
PostAckAll ==
  /\ ackAll.at = "answered"
  /\ posts' = posts \union {row[1] : row \in ackAll.result}
  /\ ackAll' = Free
  /\ UNCHANGED <<server, page, filter, table, list, losses, seen, clicks>>

---------------------------------------------------------------------------
Server == AnswerAckAll \/ \E s \in Slots : AnswerList(s)
Browser == PostAckAll \/ Redirect \/ \E s \in Slots : RenderAlerts(s)

FeedNext ==
  \/ InsertAlert \/ SessionExpires \/ Server
  \/ \E id \in Ids : AckAlert(id) \/ ClickAck(id)
  \/ Browser \/ LogIn \/ Fails \/ ClickAckAll
  \/ \E s \in Slots : RefreshAlerts(s) \/ ClickFilter(s)

\* setInterval goes on, every request is answered and every answer delivered.
\* No one has to click, to acknowledge or to log in again.
FeedFairness ==
  /\ \A s \in Slots : /\ WF_feedVars(RefreshAlerts(s)) /\ WF_feedVars(AnswerList(s))
                      /\ WF_feedVars(RenderAlerts(s))
  /\ \A id \in Ids : WF_feedVars(AckAlert(id))
  /\ WF_feedVars(AnswerAckAll) /\ WF_feedVars(PostAckAll) /\ WF_feedVars(Redirect)

FeedSpec == FeedInit /\ [][FeedNext]_feedVars /\ FeedFairness

---------------------------------------------------------------------------
(* Properties.                                                             *)

Result == {r \in SUBSET (Ids \X BOOLEAN) : Limit >= 0 => Cardinality(r) <= Limit}
Request == {Free, Denied} \union {Asked(u) : u \in BOOLEAN} \union {Answered(r) : r \in Result}

\* Every variable keeps its type, no answer is longer than the page asked for,
\* and the page is empty while the browser is at the login page.
FeedTypeOK ==
  /\ rows \in 0..MaxAlerts /\ acked \subseteq 1..rows /\ seen \subseteq 1..rows
  /\ signed \in BOOLEAN /\ filter \in BOOLEAN /\ page \in {"index", "login"}
  /\ table \in Result /\ list \in [Slots -> Request] /\ ackAll \in Request
  /\ posts \subseteq 1..rows /\ losses \in 0..MaxLosses /\ clicks \in 0..MaxClicks
  /\ page = "login" => table = {} /\ posts = {} /\ \A s \in Slots : list[s] = Free

\* app.js:174, app.js:254: whatever answers overtook each other and whatever was
\* lost, once nothing changes any more the page comes to show exactly the newest
\* alerts under its filter, each with its acknowledgement, and never goes back.
PageConverges ==
  <>[](page = "index" /\ signed) => <>[](table = ListAlerts(Limit, filter))

\* index.html:73, "Acknowledge visible": only alerts that have been on the page
\* are acknowledged.
AckedWasVisible == acked \subseteq seen

=============================================================================
