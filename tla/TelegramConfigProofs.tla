------------------------ MODULE TelegramConfigProofs ------------------------
(* Proofs about TelegramConfig for any number of saves and pages, any      *)
(* tokens, chat ids and .env, and any number of restarts.                  *)
EXTENDS TelegramConfig, SequenceLemmas

Requests == Saves \cup Pages
CallNames == {"setToken", "setChat", "commit", "getToken", "getChat", "fetch"}

\* The calls of the longest request; every other makes the last of them.
Full == <<"setToken", "commit", "setChat", "commit", "getToken", "fetch", "getChat", "fetch">>

Left(r) == Len(calls[r])

\* A request has the last calls of Full to make: a page at most four, and the
\* two for the token only a save that enters one.
Steps ==
  \A r \in Requests :
    /\ Left(r) \in 0..8 /\ \A i \in 1..Left(r) : calls[r][i] = Full[8 - Left(r) + i]
    /\ r \in Pages => Left(r) <= 4
    /\ r \in Saves /\ Left(r) > 6 => EntersToken(body[r].token)

\* The queue holds each pending request once, in the order of their turns.
LEMMA QueueOf ==
  ASSUME SettingsTypeOK
  PROVE  \A r \in Requests : Unique(sqlq, r) /\ (In(sqlq, r) <=> ~Idle(r))
<1>1. sqlq \in Seq(Requests) /\ IsInjective(sqlq)
      /\ ToSet(sqlq) = {r \in Requests : ~Idle(r)}
  BY DEF SettingsTypeOK, Requests
<1>2. DOMAIN sqlq = 1..Len(sqlq) BY <1>1
<1>3. \A r : Unique(sqlq, r) BY <1>1, <1>2 DEF IsInjective, Unique
<1>4. \A r : In(sqlq, r) <=> r \in ToSet(sqlq) BY <1>2 DEF In, ToSet
<1>5. QED BY <1>1, <1>3, <1>4

\* And conversely.
LEMMA QueueTyped ==
  ASSUME NEW q \in Seq(Requests), NEW P \in SUBSET Requests,
         \A r \in Requests : Unique(q, r) /\ (In(q, r) <=> r \in P)
  PROVE  IsInjective(q) /\ ToSet(q) = P
<1>1. Len(q) \in Nat /\ DOMAIN q = 1..Len(q) /\ \A i \in 1..Len(q) : q[i] \in Requests
  BY ElementOfSeq
<1>2. ASSUME NEW i \in 1..Len(q), NEW j \in 1..Len(q), q[i] = q[j] PROVE i = j
  BY <1>1, <1>2 DEF Unique
<1>3. IsInjective(q) BY <1>1, <1>2 DEF IsInjective
<1>4. \A r \in ToSet(q) : r \in Requests /\ In(q, r) BY <1>1 DEF ToSet, In
<1>5. \A r \in Requests : In(q, r) => r \in ToSet(q) BY <1>1 DEF ToSet, In
<1>6. QED BY <1>3, <1>4, <1>5

\* A list of two calls before another, elementwise.
LEMMA TwoBefore ==
  ASSUME NEW S, NEW x \in S, NEW y \in S, NEW q \in Seq(S), NEW n \in Nat, Len(q) = n
  PROVE  /\ <<x, y>> \o q \in Seq(S)
         /\ Len(<<x, y>> \o q) = n + 2
         /\ (<<x, y>> \o q)[1] = x /\ (<<x, y>> \o q)[2] = y
         /\ \A i \in 3..n + 2 : (<<x, y>> \o q)[i] = q[i - 2]
<1> DEFINE p == <<x, y>>
           h == p \o q
<1>1. p \in Seq(S) /\ Len(p) = 2 /\ p[1] = x /\ p[2] = y OBVIOUS
<1> HIDE DEF p
<1>2. ASSUME NEW s1 \in Seq(S), NEW s2 \in Seq(S)
      PROVE  /\ Len(s1 \o s2) = Len(s1) + Len(s2) /\ s1 \o s2 \in Seq(S)
             /\ \A i \in 1..Len(s1) + Len(s2) :
                  (s1 \o s2)[i] = IF i <= Len(s1) THEN s1[i] ELSE s2[i - Len(s1)]
  BY ConcatProperties
<1>3. /\ Len(h) = Len(p) + Len(q) /\ h \in Seq(S)
      /\ \A i \in 1..Len(p) + Len(q) : h[i] = IF i <= Len(p) THEN p[i] ELSE q[i - Len(p)]
  BY <1>1, <1>2
<1> HIDE DEF h
<1>4. Len(h) = 2 + n /\ \A i \in 1..2 + n : h[i] = IF i <= 2 THEN p[i] ELSE q[i - 2]
  BY <1>1, <1>3
<1>5. /\ Len(h) = n + 2 /\ h[1] = x /\ h[2] = y
      /\ \A i \in 3..n + 2 : h[i] = q[i - 2]
  BY <1>1, <1>4
<1>6. QED BY <1>3, <1>5 DEF h, p

\* The list of calls of a save and of a page.
LEMMA CallLists ==
  /\ ReadCalls \in Seq(CallNames) /\ Len(ReadCalls) = 4
  /\ \A i \in 1..4 : ReadCalls[i] = Full[8 - 4 + i]
  /\ \A token : EntersToken(token) =>
       /\ SaveCalls(token) \in Seq(CallNames) /\ Len(SaveCalls(token)) = 8
       /\ \A i \in 1..8 : SaveCalls(token)[i] = Full[8 - 8 + i]
  /\ \A token : ~EntersToken(token) =>
       /\ SaveCalls(token) \in Seq(CallNames) /\ Len(SaveCalls(token)) = 6
       /\ \A i \in 1..6 : SaveCalls(token)[i] = Full[8 - 6 + i]
<1>1. /\ ReadCalls \in Seq(CallNames) /\ Len(ReadCalls) = 4
      /\ \A i \in 1..4 : ReadCalls[i] = Full[8 - 4 + i]
  BY DEF ReadCalls, Full, CallNames
<1> DEFINE chat == <<"setChat", "commit">>
           tok == <<"setToken", "commit">>
           tail == chat \o ReadCalls
<1>2. /\ {"setChat", "commit", "setToken"} \subseteq CallNames
      /\ chat \in Seq(CallNames) /\ tok \in Seq(CallNames)
  BY DEF CallNames
<1>3. /\ tail \in Seq(CallNames) /\ Len(tail) = 6 /\ tail[1] = "setChat" /\ tail[2] = "commit"
      /\ \A i \in 3..6 : tail[i] = ReadCalls[i - 2]
  <2>1. ASSUME NEW x \in CallNames, NEW y \in CallNames
        PROVE  LET h == <<x, y>> \o ReadCalls IN
               /\ h \in Seq(CallNames) /\ Len(h) = 6 /\ h[1] = x /\ h[2] = y
               /\ \A i \in 3..6 : h[i] = ReadCalls[i - 2]
    <3> DEFINE n == Len(ReadCalls)
    <3>1. n \in Nat /\ Len(ReadCalls) = n /\ ReadCalls \in Seq(CallNames) BY <1>1
    <3>2. n = 4 BY <1>1
    <3> HIDE DEF n
    <3>3. LET h == <<x, y>> \o ReadCalls IN
          /\ h \in Seq(CallNames) /\ Len(h) = n + 2 /\ h[1] = x /\ h[2] = y
          /\ \A i \in 3..n + 2 : h[i] = ReadCalls[i - 2]
      BY <3>1, TwoBefore
    <3>4. QED BY <3>2, <3>3
  <2>2. QED BY <1>2, <2>1
<1>4. \A i \in 1..6 : tail[i] = Full[8 - 6 + i]
  BY <1>1, <1>3 DEF Full
<1> HIDE DEF tail
<1>5. /\ tok \o tail \in Seq(CallNames) /\ Len(tok \o tail) = 8
      /\ (tok \o tail)[1] = "setToken" /\ (tok \o tail)[2] = "commit"
      /\ \A i \in 3..8 : (tok \o tail)[i] = tail[i - 2]
  <2>1. ASSUME NEW x \in CallNames, NEW y \in CallNames
        PROVE  LET h == <<x, y>> \o tail IN
               /\ h \in Seq(CallNames) /\ Len(h) = 8 /\ h[1] = x /\ h[2] = y
               /\ \A i \in 3..8 : h[i] = tail[i - 2]
    <3> DEFINE n == Len(tail)
    <3>1. n \in Nat /\ Len(tail) = n /\ tail \in Seq(CallNames) BY <1>3
    <3>2. n = 6 BY <1>3
    <3> HIDE DEF n
    <3>3. LET h == <<x, y>> \o tail IN
          /\ h \in Seq(CallNames) /\ Len(h) = n + 2 /\ h[1] = x /\ h[2] = y
          /\ \A i \in 3..n + 2 : h[i] = tail[i - 2]
      BY <3>1, TwoBefore
    <3>4. QED BY <3>2, <3>3
  <2>2. QED BY <1>2, <2>1
<1>6. \A i \in 1..8 : (tok \o tail)[i] = Full[8 - 8 + i]
  <2>1. \A i \in 3..8 : i - 2 \in 1..6 /\ tail[i - 2] = Full[8 - 6 + (i - 2)] BY <1>4
  <2>2. QED BY <1>5, <2>1 DEF Full
<1>7. <<>> \o tail = tail BY <1>3, ConcatEmptySeq
<1>8. ASSUME NEW token
      PROVE  SaveCalls(token) = IF EntersToken(token) THEN tok \o tail ELSE tail
  <2>1. CASE EntersToken(token)
    <3>1. SaveCalls(token) = (tok \o chat) \o ReadCalls BY <2>1 DEF SaveCalls
    <3>2. QED BY <1>1, <1>2, <2>1, <3>1, ConcatAssociative DEF tail
  <2>2. CASE ~EntersToken(token)
    <3>1. SaveCalls(token) = (<<>> \o chat) \o ReadCalls BY <2>2 DEF SaveCalls
    <3>2. <<>> \o chat = chat BY <1>2, ConcatEmptySeq
    <3>3. QED BY <2>2, <3>1, <3>2 DEF tail
  <2>3. QED BY <2>1, <2>2
<1>9. QED BY <1>1, <1>3, <1>4, <1>5, <1>6, <1>8
-----------------------------------------------------------------------------
(* Whose turn comes first.  The queue is served round and round, so the    *)
(* request with fewer calls left has the earlier turns; of two with as     *)
(* many, the one that is ahead in the queue.  Before(r, s, k) says that r  *)
(* makes its last call before s the one k calls after its last.            *)
Before(r, s, k) ==
  (Left(r) < Left(s) + k) \/ (Left(r) = Left(s) + k /\ Ahead(sqlq, r, s))

Others(r) == {s \in Requests \ {r} : ~Idle(s)}

\* Each turn of a request.
Turn(h) ==
  /\ ~Quiet /\ h = Head(sqlq)
  /\ calls' = [calls EXCEPT ![h] = Tail(@)]
  /\ sqlq' = IF Len(calls[h]) > 1 THEN Append(Tail(sqlq), h) ELSE Tail(sqlq)

\* The shape of calls and queue, and what else the proofs need of the types.
LEMMA Shape ==
  ASSUME SettingsTypeOK, Steps
  PROVE  /\ sqlq \in Seq(Requests)
         /\ calls \in [Requests -> Seq(CallNames)]
         /\ \A r \in Requests : /\ Left(r) \in Nat /\ (Idle(r) <=> Left(r) = 0)
                                /\ Unique(sqlq, r) /\ (In(sqlq, r) <=> ~Idle(r))
<1>1. sqlq \in Seq(Requests) /\ calls \in [Requests -> Seq(CallNames)]
  BY DEF SettingsTypeOK, Requests, CallNames
<1>2. \A r \in Requests : Left(r) \in Nat /\ (Idle(r) <=> Left(r) = 0)
  BY <1>1 DEF Left, Idle
<1>3. QED BY <1>1, <1>2, QueueOf

\* A new request is behind all others and changes nothing between them.
LEMMA ArriveTurn ==
  ASSUME SettingsTypeOK, Steps, NEW r \in Requests, NEW list \in Seq(CallNames),
         list # <<>>, Arrive(r, list)
  PROVE  /\ sqlq' \in Seq(Requests)
         /\ \A s \in Requests : Unique(sqlq', s) /\ (In(sqlq', s) <=> calls'[s] # <<>>)
         /\ \A s \in Others(r) : Ahead(sqlq', s, r) /\ ~Ahead(sqlq', r, s)
         /\ \A s, t \in Others(r) : s # t => (Ahead(sqlq', s, t) <=> Ahead(sqlq, s, t))
<1>1. /\ sqlq \in Seq(Requests) /\ calls \in [Requests -> Seq(CallNames)]
      /\ \A s \in Requests : Unique(sqlq, s) /\ (In(sqlq, s) <=> ~Idle(s))
  BY Shape
<1>2. sqlq' = Append(sqlq, r) /\ Idle(r) /\ calls' = [calls EXCEPT ![r] = list]
  BY DEF Arrive
<1>3. sqlq' \in Seq(Requests) BY <1>1, <1>2, AppendProperties
<1>4. calls'[r] # <<>> /\ \A s \in Requests \ {r} : calls'[s] = calls[s] BY <1>1, <1>2
<1>5. ~In(sqlq, r) BY <1>1, <1>2
<1>6. ASSUME NEW s \in Requests PROVE Unique(sqlq', s) /\ (In(sqlq', s) <=> calls'[s] # <<>>)
  <2>1. CASE s = r BY <1>1, <1>2, <1>4, <1>5, <2>1, PushSelf
  <2>2. CASE s # r BY <1>1, <1>2, <1>4, <2>2, PushOther DEF Idle
  <2>3. QED BY <2>1, <2>2
<1>7. ASSUME NEW s \in Others(r) PROVE Ahead(sqlq', s, r) /\ ~Ahead(sqlq', r, s)
  <2>1. s \in Requests /\ s # r /\ In(sqlq, s) /\ Unique(sqlq, s) BY <1>1 DEF Others
  <2>2. QED BY <1>1, <1>2, <1>5, <2>1, AheadPushed
<1>8. ASSUME NEW s \in Others(r), NEW t \in Others(r), s # t
      PROVE  Ahead(sqlq', s, t) <=> Ahead(sqlq, s, t)
  <2>1. /\ s # r /\ In(sqlq, s) /\ Unique(sqlq, s)
        /\ t # r /\ In(sqlq, t) /\ Unique(sqlq, t)
    BY <1>1 DEF Others
  <2>2. QED BY <1>1, <1>2, <1>8, <2>1, AheadPushSame
<1>9. QED BY <1>3, <1>6, <1>7, <1>8

\* The request at the head is before all others; it goes behind them or leaves.
LEMMA HeadTurn ==
  ASSUME SettingsTypeOK, Steps, NEW h, Turn(h)
  PROVE  /\ h \in Requests /\ ~Idle(h)
         /\ sqlq' \in Seq(Requests)
         /\ \A s \in Requests : Unique(sqlq', s) /\ (In(sqlq', s) <=> calls'[s] # <<>>)
         /\ \A s \in Others(h) : Ahead(sqlq, h, s) /\ ~Ahead(sqlq, s, h)
         /\ \A s \in Others(h) : Left(h) > 1 => Ahead(sqlq', s, h) /\ ~Ahead(sqlq', h, s)
         /\ \A s, t \in Others(h) : s # t => (Ahead(sqlq', s, t) <=> Ahead(sqlq, s, t))
<1>1. /\ sqlq \in Seq(Requests) /\ calls \in [Requests -> Seq(CallNames)]
      /\ \A s \in Requests : Unique(sqlq, s) /\ (In(sqlq, s) <=> ~Idle(s))
  BY Shape
<1>2. sqlq # <<>> /\ h = Head(sqlq) BY DEF Turn, Quiet
<1>3. h \in Requests /\ Tail(sqlq) \in Seq(Requests) BY <1>1, <1>2, HeadTailProperties
<1>4. In(sqlq, h) /\ ~Idle(h) BY <1>1, <1>2, <1>3, HeadIn
<1> DEFINE q == Tail(sqlq)
<1>5. ~In(q, h) /\ Unique(q, h) BY <1>1, <1>2, <1>3, PopSelf
<1>6. \A s \in Requests \ {h} : Unique(q, s) /\ (In(q, s) <=> In(sqlq, s))
  BY <1>1, <1>2, PopOther
<1>7. calls[h] \in Seq(CallNames) /\ calls[h] # <<>> /\ Len(calls[h]) \in Nat \ {0}
      /\ (Len(calls[h]) > 1 <=> Tail(calls[h]) # <<>>)
  <2>1. calls[h] \in Seq(CallNames) /\ calls[h] # <<>> BY <1>1, <1>3, <1>4 DEF Idle
  <2> DEFINE c == calls[h]
  <2> HIDE DEF c
  <2>2. c \in Seq(CallNames) /\ c # <<>> BY <2>1 DEF c
  <2>3. Len(c) \in Nat \ {0} /\ Len(Tail(c)) = Len(c) - 1 /\ Tail(c) \in Seq(CallNames)
    BY <2>2, HeadTailProperties
  <2>4. ASSUME NEW d \in Seq(CallNames) PROVE d = <<>> <=> Len(d) = 0
    OBVIOUS
  <2>5. Tail(c) = <<>> <=> Len(Tail(c)) = 0 BY <2>3, <2>4
  <2>6. Len(c) > 1 <=> Len(Tail(c)) # 0 BY <2>3
  <2>7. QED BY <2>2, <2>3, <2>5, <2>6 DEF c
<1>8. calls'[h] = Tail(calls[h]) /\ \A s \in Requests \ {h} : calls'[s] = calls[s]
  BY <1>1, <1>3 DEF Turn
<1>9. \A s \in Others(h) : /\ s \in Requests /\ s # h /\ In(sqlq, s) /\ Unique(sqlq, s)
                           /\ In(q, s) /\ Unique(q, s)
  BY <1>1, <1>6 DEF Others
<1>10. \A s \in Others(h) : Ahead(sqlq, h, s) /\ ~Ahead(sqlq, s, h)
  <2> SUFFICES ASSUME NEW s \in Others(h) PROVE Ahead(sqlq, h, s) /\ ~Ahead(sqlq, s, h)
    OBVIOUS
  <2>1. ~Ahead(sqlq, s, h) BY <1>1, <1>2, <1>9, AheadHead
  <2>2. QED BY <1>1, <1>3, <1>4, <1>9, <2>1, AheadOne
<1>11. \A s, t \in Others(h) : s # t => (Ahead(q, s, t) <=> Ahead(sqlq, s, t))
  BY <1>1, <1>2, <1>9, AheadPopSame
<1> HIDE DEF q
<1>12. q \in Seq(Requests) BY <1>3 DEF q
<1>13. CASE Len(calls[h]) > 1
  <2>1. sqlq' = Append(q, h) BY <1>13 DEF Turn, q
  <2>2. sqlq' \in Seq(Requests) BY <1>3, <1>12, <2>1, AppendProperties
  <2>3. ASSUME NEW s \in Requests PROVE Unique(sqlq', s) /\ (In(sqlq', s) <=> calls'[s] # <<>>)
    <3>1. CASE s = h BY <1>3, <1>5, <1>7, <1>8, <1>12, <1>13, <2>1, <3>1, PushSelf
    <3>2. CASE s # h
      <4>1. Unique(q, s) /\ (In(q, s) <=> ~Idle(s)) /\ calls'[s] = calls[s]
        BY <1>1, <1>6, <1>8, <3>2
      <4>2. QED BY <1>3, <1>12, <2>1, <3>2, <4>1, PushOther DEF Idle
    <3>3. QED BY <3>1, <3>2
  <2>4. \A s \in Others(h) : Ahead(sqlq', s, h) /\ ~Ahead(sqlq', h, s)
    BY <1>3, <1>5, <1>9, <1>12, <2>1, AheadPushed
  <2>5. \A s, t \in Others(h) : s # t => (Ahead(sqlq', s, t) <=> Ahead(q, s, t))
    BY <1>3, <1>9, <1>12, <2>1, AheadPushSame
  <2>6. QED BY <1>3, <1>4, <1>10, <1>11, <2>2, <2>3, <2>4, <2>5
<1>14. CASE ~(Len(calls[h]) > 1)
  <2>1. sqlq' = q BY <1>14 DEF Turn, q
  <2>2. ASSUME NEW s \in Requests PROVE Unique(sqlq', s) /\ (In(sqlq', s) <=> calls'[s] # <<>>)
    <3>1. CASE s = h BY <1>5, <1>7, <1>8, <1>14, <2>1, <3>1
    <3>2. CASE s # h BY <1>1, <1>6, <1>8, <2>1, <3>2 DEF Idle
    <3>3. QED BY <3>1, <3>2
  <2>3. QED BY <1>3, <1>4, <1>10, <1>11, <1>12, <1>14, <2>1, <2>2 DEF Left
<1>15. QED BY <1>13, <1>14
-----------------------------------------------------------------------------
(* Types.                                                                  *)
LEMMA PairTyped ==
  ASSUME NEW token, NEW chat
  PROVE  /\ Pair(token, chat).token = token /\ Pair(token, chat).chat = chat
         /\ token \in Tokens \cup {None} /\ chat \in Chats \cup {None}
              => Pair(token, chat) \in Rows
         /\ token \in Tokens \cup {None, Masked} /\ chat \in Chats \cup {None}
              => Pair(token, chat) \in Bodies
BY DEF Pair, Rows, Bodies

LEMMA RowFields ==
  ASSUME NEW row \in Rows
  PROVE  row.token \in Tokens \cup {None} /\ row.chat \in Chats \cup {None}
BY DEF Rows

LEMMA TokenChanged ==
  ASSUME NEW row \in Rows, NEW token \in Tokens \cup {None}
  PROVE  /\ [row EXCEPT !.token = token] \in Rows
         /\ [row EXCEPT !.token = token].token = token
         /\ [row EXCEPT !.token = token].chat = row.chat
BY DEF Rows

LEMMA ChatChanged ==
  ASSUME NEW row \in Rows, NEW chat \in Chats \cup {None}
  PROVE  /\ [row EXCEPT !.chat = chat] \in Rows
         /\ [row EXCEPT !.chat = chat].token = row.token
         /\ [row EXCEPT !.chat = chat].chat = chat
BY DEF Rows

LEMMA RowsEqual ==
  ASSUME NEW x \in Rows, NEW y \in Rows, x.token = y.token, x.chat = y.chat
  PROVE  x = y
BY DEF Rows

LEMMA BodyTyped ==
  ASSUME NEW b \in Bodies
  PROVE  /\ b.chat \in Chats \cup {None} /\ b.token \in Tokens \cup {None, Masked}
         /\ (EntersToken(b.token) <=> b.token \in Tokens)
BY TelegramConfigAssumption DEF Bodies, EntersToken

Sound == SettingsTypeOK /\ Steps /\ serial # <<>>

\* The rows the answered saves leave.
LEMMA LastRow ==
  ASSUME Sound
  PROVE  /\ Last(serial) \in Rows /\ Last(serial) \in ToSet(serial)
         /\ \A b \in Bodies :
              LET new == Apply(Last(serial), b) IN
              /\ new \in Rows /\ new.chat = b.chat
              /\ new.token = IF EntersToken(b.token) THEN b.token ELSE Last(serial).token
              /\ Append(serial, new) \in Seq(Rows) /\ Append(serial, new) # <<>>
              /\ Last(Append(serial, new)) = new
              /\ ToSet(Append(serial, new)) = ToSet(serial) \cup {new}
<1>1. serial \in Seq(Rows) /\ Len(serial) \in Nat \ {0} /\ DOMAIN serial = 1..Len(serial)
  BY DEF Sound, SettingsTypeOK
<1>2. Last(serial) = serial[Len(serial)] /\ Len(serial) \in 1..Len(serial)
  BY <1>1 DEF Last
<1>3. Last(serial) \in Rows BY <1>1, <1>2, ElementOfSeq
<1>4. Last(serial) \in ToSet(serial) BY <1>1, <1>2 DEF ToSet
<1>5. ASSUME NEW new \in Rows
      PROVE  /\ Append(serial, new) \in Seq(Rows) /\ Append(serial, new) # <<>>
             /\ Last(Append(serial, new)) = new
             /\ ToSet(Append(serial, new)) = ToSet(serial) \cup {new}
  <2> DEFINE h == Append(serial, new)
  <2>1. /\ h \in Seq(Rows) /\ Len(h) = Len(serial) + 1 /\ h[Len(serial) + 1] = new
        /\ \A i \in 1..Len(serial) : h[i] = serial[i]
    BY <1>1, AppendProperties
  <2> HIDE DEF h
  <2>2. DOMAIN h = 1..Len(serial) + 1 /\ h # <<>> BY <1>1, <2>1
  <2>3. Last(h) = new BY <2>1 DEF Last
  <2>4. ToSet(h) = ToSet(serial) \cup {new} BY <1>1, <2>1, <2>2 DEF ToSet
  <2>5. QED BY <2>1, <2>2, <2>3, <2>4 DEF h
<1>6. ASSUME NEW b \in Bodies
      PROVE  /\ Apply(Last(serial), b) \in Rows /\ Apply(Last(serial), b).chat = b.chat
             /\ Apply(Last(serial), b).token
                  = IF EntersToken(b.token) THEN b.token ELSE Last(serial).token
  <2> DEFINE token == IF b.token \in Tokens THEN b.token ELSE Last(serial).token
  <2>1. Apply(Last(serial), b) = Pair(token, b.chat) BY DEF Apply
  <2>2. token \in Tokens \cup {None} BY <1>3, RowFields
  <2>3. b.chat \in Chats \cup {None} /\ (EntersToken(b.token) <=> b.token \in Tokens)
    BY BodyTyped
  <2> HIDE DEF token
  <2>4. QED BY <2>1, <2>2, <2>3, PairTyped DEF token
<1>7. QED BY <1>3, <1>4, <1>5, <1>6

\* What a call does: h is the request and n the calls it had left.
LEMMA CallEffect ==
  ASSUME Sound, Call, NEW h, h = Head(sqlq), NEW n, n = Left(h)
  PROVE  /\ Turn(h) /\ h \in Requests /\ n \in 1..8
         /\ n > 4 => h \in Saves
         /\ n > 6 => h \in Saves /\ EntersToken(body[h].token)
         /\ view' \in Rows
         /\ view'.token = IF n = 8 THEN body[h].token ELSE view.token
         /\ view'.chat = IF n = 6 THEN body[h].chat ELSE view.chat
         /\ n \notin {6, 8} => view' = view
         /\ committed' = IF n \in {5, 7} THEN view ELSE committed
         /\ got' \in [Requests -> Rows]
         /\ \A r \in Requests \ {h} : got'[r] = got[r] /\ body'[r] = body[r]
         /\ n > 1 => /\ got'[h].token = IF n = 4 THEN view.token ELSE got[h].token
                     /\ got'[h].chat = IF n = 2 THEN view.chat ELSE got[h].chat
                     /\ UNCHANGED <<body, live, booted, serial, shown>>
         /\ n = 1 => /\ Configure(h) \/ Display(h)
                     /\ Forget(h)
         /\ UNCHANGED <<made, clean, crashes>>
<1>0. n = Len(calls[h]) BY DEF Left
<1>1. /\ h \in Requests /\ ~Idle(h) /\ calls[h] \in Seq(CallNames) /\ n \in 1..8
      /\ Head(calls[h]) = Full[8 - n + 1]
      /\ n > 4 => h \in Saves
      /\ n > 6 => h \in Saves /\ EntersToken(body[h].token)
  <2>1. ~Quiet /\ sqlq \in Seq(Requests) /\ sqlq # <<>> BY Shape DEF Call, Sound, Quiet
  <2>2. h \in Requests /\ In(sqlq, h) BY <2>1, HeadIn, HeadTailProperties
  <2>3. ~Idle(h) /\ calls[h] \in Seq(CallNames) /\ calls[h] # <<>>
    BY <2>2, Shape DEF Sound, Idle
  <2>4. n \in 0..8 /\ n # 0 /\ \A i \in 1..n : calls[h][i] = Full[8 - n + i]
    <3>1. /\ Left(h) \in 0..8 /\ Left(h) # 0
          /\ \A i \in 1..Left(h) : calls[h][i] = Full[8 - Left(h) + i]
      BY <2>2, <2>3, Shape DEF Sound, Steps
    <3>2. QED BY <3>1
  <2>5. Head(calls[h]) = calls[h][1] BY <2>3, HeadTailProperties
  <2>6. /\ h \in Pages => n <= 4
        /\ h \in Saves /\ n > 6 => EntersToken(body[h].token)
    BY <2>2 DEF Sound, Steps
  <2>7. n \in 1..8 /\ calls[h][1] = Full[8 - n + 1]
    <3>1. n \in 1..8 /\ 1 \in 1..n BY <2>4
    <3>2. QED BY <2>4, <3>1
  <2>8. n > 4 => h \in Saves BY <2>2, <2>6, <2>7 DEF Requests
  <2>9. n > 6 => h \in Saves /\ EntersToken(body[h].token) BY <2>6, <2>7, <2>8
  <2>10. QED BY <2>2, <2>3, <2>5, <2>7, <2>8, <2>9
<1> DEFINE c == Len(calls[h])
<1>c. c \in 1..8 /\ c = n BY <1>0, <1>1
<1>d. (c > 1 /\ ~(c = 1)) \/ (c = 1 /\ ~(c > 1))
  <2> HIDE DEF c
  <2>1. QED BY <1>c
<1>e. (c > 1) <=> (n > 1) BY <1>c
<1>2. Turn(h)
  <2>1. \/ Len(calls[h]) > 1 /\ ~(Len(calls[h]) = 1)
        \/ Len(calls[h]) = 1 /\ ~(Len(calls[h]) > 1)
    BY <1>d
  <2>2. ~Quiet /\ calls' = [calls EXCEPT ![h] = Tail(@)] BY DEF Call
  <2>3. sqlq' = IF Len(calls[h]) > 1 THEN Append(Tail(sqlq), h) ELSE Tail(sqlq)
    BY <2>1 DEF Call
  <2>4. QED BY <2>2, <2>3 DEF Turn
<1>3. /\ (Head(calls[h]) = "setToken" <=> n = 8)
      /\ (Head(calls[h]) = "setChat" <=> n = 6)
      /\ (Head(calls[h]) = "commit" <=> n \in {5, 7})
      /\ (Head(calls[h]) = "getToken" <=> n = 4)
      /\ (Head(calls[h]) = "getChat" <=> n = 2)
  <2>1. n = 1 \/ n = 2 \/ n = 3 \/ n = 4 \/ n = 5 \/ n = 6 \/ n = 7 \/ n = 8 BY <1>1
  <2>2. /\ Full[1] = "setToken" /\ Full[2] = "commit" /\ Full[3] = "setChat"
        /\ Full[4] = "commit" /\ Full[5] = "getToken" /\ Full[6] = "fetch"
        /\ Full[7] = "getChat" /\ Full[8] = "fetch"
    BY DEF Full
  <2>3. Head(calls[h]) = Full[9 - n] BY <1>1
  <2>4. QED BY <2>1, <2>2, <2>3
<1>4. /\ view \in Rows /\ got \in [Requests -> Rows] /\ body \in [Requests -> Bodies]
  BY DEF Sound, SettingsTypeOK, Requests
<1>5. body[h] \in Bodies /\ got[h] \in Rows BY <1>1, <1>4
<1>6. Execute(h, Head(calls[h])) BY DEF Call
<1>7. /\ view' \in Rows
      /\ view'.token = IF n = 8 THEN body[h].token ELSE view.token
      /\ view'.chat = IF n = 6 THEN body[h].chat ELSE view.chat
      /\ n \notin {6, 8} => view' = view
  <2>1. CASE n = 8
    <3>1. view' = [view EXCEPT !.token = body[h].token] BY <1>3, <1>6, <2>1 DEF Execute
    <3>2. body[h].token \in Tokens BY <1>1, <1>5, <2>1, BodyTyped
    <3>3. QED BY <1>4, <2>1, <3>1, <3>2, TokenChanged
  <2>2. CASE n = 6
    <3>1. view' = [view EXCEPT !.chat = body[h].chat] BY <1>3, <1>6, <2>2 DEF Execute
    <3>2. body[h].chat \in Chats \cup {None} BY <1>5, BodyTyped
    <3>3. QED BY <1>4, <2>2, <3>1, <3>2, ChatChanged
  <2>3. CASE n \notin {6, 8}
    <3>1. view' = view BY <1>3, <1>6, <2>3 DEF Execute
    <3>2. QED BY <1>4, <2>3, <3>1
  <2>4. QED BY <2>1, <2>2, <2>3
<1>8. committed' = IF n \in {5, 7} THEN view ELSE committed BY <1>3, <1>6 DEF Execute
<1>9. ASSUME n > 1
      PROVE  /\ Learn(h, Head(calls[h]))
             /\ UNCHANGED <<body, live, booted, serial, shown>>
  <2>1. Len(calls[h]) > 1 /\ ~(Len(calls[h]) = 1) BY <1>d, <1>e, <1>9
  <2>2. QED BY <2>1 DEF Call
<1>10. ASSUME n > 1
       PROVE  /\ got' \in [Requests -> Rows]
              /\ \A r \in Requests \ {h} : got'[r] = got[r]
              /\ got'[h].token = IF n = 4 THEN view.token ELSE got[h].token
              /\ got'[h].chat = IF n = 2 THEN view.chat ELSE got[h].chat
  <2>1. CASE n = 4
    <3>1. got' = [got EXCEPT ![h].token = view.token] BY <1>3, <1>9, <1>10, <2>1 DEF Learn
    <3>2. got' = [got EXCEPT ![h] = [got[h] EXCEPT !.token = view.token]]
      BY <1>1, <1>4, <3>1
    <3>3. view.token \in Tokens \cup {None} BY <1>4, RowFields
    <3> DEFINE new == [got[h] EXCEPT !.token = view.token]
    <3>4. new \in Rows /\ new.token = view.token /\ new.chat = got[h].chat
      BY <1>5, <3>3, TokenChanged
    <3> HIDE DEF new
    <3>5. got' = [got EXCEPT ![h] = new] BY <3>2 DEF new
    <3>6. QED BY <1>1, <1>4, <2>1, <3>4, <3>5
  <2>2. CASE n = 2
    <3>1. got' = [got EXCEPT ![h].chat = view.chat] BY <1>3, <1>9, <1>10, <2>2 DEF Learn
    <3>2. got' = [got EXCEPT ![h] = [got[h] EXCEPT !.chat = view.chat]]
      BY <1>1, <1>4, <3>1
    <3>3. view.chat \in Chats \cup {None} BY <1>4, RowFields
    <3> DEFINE new == [got[h] EXCEPT !.chat = view.chat]
    <3>4. new \in Rows /\ new.chat = view.chat /\ new.token = got[h].token
      BY <1>5, <3>3, ChatChanged
    <3> HIDE DEF new
    <3>5. got' = [got EXCEPT ![h] = new] BY <3>2 DEF new
    <3>6. QED BY <1>1, <1>4, <2>2, <3>4, <3>5
  <2>3. CASE n \notin {2, 4}
    <3>1. got' = got BY <1>3, <1>9, <1>10, <2>3 DEF Learn
    <3>2. QED BY <1>4, <2>3, <3>1
  <2>4. QED BY <2>1, <2>2, <2>3
<1>11. ASSUME ~(n > 1)
       PROVE  /\ n = 1 /\ (Configure(h) \/ Display(h))
              /\ Forget(h)
  <2>1. n = 1 /\ ~(Len(calls[h]) > 1) BY <1>1, <1>e, <1>11
  <2>2. QED BY <2>1 DEF Call
<1>12. ASSUME Forget(h)
       PROVE  /\ got' \in [Requests -> Rows]
              /\ \A r \in Requests \ {h} : got'[r] = got[r] /\ body'[r] = body[r]
  <2>1. Pair(None, None) \in Rows BY PairTyped
  <2>2. QED BY <1>4, <1>12, <2>1 DEF Forget
<1>13. UNCHANGED <<made, clean, crashes>> BY DEF Call
<1>14. CASE n > 1 BY <1>1, <1>2, <1>7, <1>8, <1>9, <1>10, <1>13, <1>14
<1>15. CASE ~(n > 1) BY <1>1, <1>2, <1>7, <1>8, <1>11, <1>12, <1>13, <1>15
<1>16. QED BY <1>14, <1>15

\* The parts Sound is made of, with the queue as the lemmas speak of it.
LEMMA SoundNext ==
  ASSUME {view', committed', live'} \subseteq Rows,
         calls' \in [Requests -> Seq(CallNames)],
         body' \in [Requests -> Bodies], got' \in [Requests -> Rows],
         sqlq' \in Seq(Requests),
         \A s \in Requests : Unique(sqlq', s) /\ (In(sqlq', s) <=> calls'[s] # <<>>),
         serial' \in Seq(Rows), serial' # <<>>, shown' \subseteq Rows,
         made' \in 0..MaxSaves, {clean', booted'} \subseteq BOOLEAN,
         crashes' \in 0..MaxCrashes, Steps'
  PROVE  Sound'
<1> DEFINE P == {s \in Requests : ~(calls'[s] = <<>>)}
<1>1. \A s \in Requests : Unique(sqlq', s) /\ (In(sqlq', s) <=> s \in P) OBVIOUS
<1>2. IsInjective(sqlq') /\ ToSet(sqlq') = P BY <1>1, QueueTyped
<1>3. SettingsTypeOK' BY <1>2 DEF SettingsTypeOK, Requests, CallNames, Idle
<1>4. QED BY <1>3 DEF Sound

LEMMA SoundInit == SettingsInit => Sound
<1> SUFFICES ASSUME SettingsInit PROVE Sound OBVIOUS
<1>1. /\ EnvToken \in Tokens \cup {None} /\ EnvChat \in Chats \cup {None}
      /\ MaxSaves \in Nat /\ MaxCrashes \in Nat
  BY TelegramConfigAssumption
<1>2. Pair(None, None) \in Rows /\ Pair(None, None) \in Bodies BY PairTyped
<1>3. WithEnv(view) \in Rows
  <2>1. view.token \in Tokens \cup {None} /\ view.chat \in Chats \cup {None}
    BY <1>2, RowFields DEF SettingsInit
  <2>2. Or(view.token, EnvToken) \in Tokens \cup {None}
        /\ Or(view.chat, EnvChat) \in Chats \cup {None}
    BY <1>1, <2>1 DEF Or
  <2>3. QED BY <2>2, PairTyped DEF WithEnv
<1>4. sqlq = <<>> /\ calls = [r \in Requests |-> <<>>] BY DEF SettingsInit, Requests
<1>5. IsInjective(sqlq) /\ ToSet(sqlq) = {} BY <1>4 DEF IsInjective, ToSet
<1>6. {r \in Requests : ~Idle(r)} = {} BY <1>4 DEF Idle
<1>7. /\ {view, committed, live} \subseteq Rows
      /\ serial \in Seq(Rows) /\ serial # <<>> /\ shown \subseteq Rows
      /\ body \in [Requests -> Bodies] /\ got \in [Requests -> Rows]
      /\ {clean, booted} \subseteq BOOLEAN
  BY <1>2, <1>3 DEF SettingsInit, Requests
<1>8. /\ sqlq \in Seq(Requests) /\ calls \in [Requests -> Seq(CallNames)]
      /\ made \in 0..MaxSaves /\ crashes \in 0..MaxCrashes
  BY <1>1, <1>4 DEF SettingsInit
<1>9. SettingsTypeOK
  BY <1>5, <1>6, <1>7, <1>8 DEF SettingsTypeOK, Requests, CallNames
<1>10. Steps BY <1>4 DEF Steps, Left
<1>11. QED BY <1>7, <1>9, <1>10 DEF Sound

\* A request that makes the last calls of Full has made none yet.
LEMMA SoundArrive ==
  ASSUME Sound, NEW r \in Requests, NEW list \in Seq(CallNames), NEW n \in 1..8,
         Len(list) = n, \A i \in 1..n : list[i] = Full[8 - n + i],
         Arrive(r, list), body' \in [Requests -> Bodies],
         \A s \in Requests \ {r} : body'[s] = body[s],
         r \in Pages => n <= 4,
         r \in Saves /\ n > 6 => EntersToken(body'[r].token),
         made' \in 0..MaxSaves
  PROVE  Sound' /\ Left(r)' = n /\ \A s \in Requests \ {r} : Left(s)' = Left(s)
<1>1. SettingsTypeOK /\ Steps /\ list # <<>> BY DEF Sound
<1>2. /\ sqlq' \in Seq(Requests)
      /\ \A s \in Requests : Unique(sqlq', s) /\ (In(sqlq', s) <=> calls'[s] # <<>>)
  BY <1>1, ArriveTurn
<1>3. calls \in [Requests -> Seq(CallNames)] /\ calls' = [calls EXCEPT ![r] = list]
  BY <1>1, Shape DEF Arrive
<1>4. /\ calls' \in [Requests -> Seq(CallNames)] /\ calls'[r] = list
      /\ \A s \in Requests \ {r} : calls'[s] = calls[s]
  BY <1>3
<1>5. Left(r)' = n /\ \A s \in Requests \ {r} : Left(s)' = Left(s) BY <1>4 DEF Left
<1>6. Steps'
  <2>1. ASSUME NEW s \in Requests
        PROVE  /\ Left(s)' \in 0..8
               /\ \A i \in 1..Left(s)' : calls'[s][i] = Full[8 - Left(s)' + i]
               /\ s \in Pages => Left(s)' <= 4
               /\ s \in Saves /\ Left(s)' > 6 => EntersToken(body'[s].token)
    <3>1. CASE s = r
      <4>1. n \in 0..8 OBVIOUS
      <4>2. QED BY <1>4, <1>5, <3>1, <4>1
    <3>2. CASE s # r
      <4>1. Left(s)' = Left(s) /\ calls'[s] = calls[s] /\ body'[s] = body[s]
        BY <1>4, <1>5, <3>2
      <4>2. /\ Left(s) \in 0..8 /\ \A i \in 1..Left(s) : calls[s][i] = Full[8 - Left(s) + i]
            /\ s \in Pages => Left(s) <= 4
            /\ s \in Saves /\ Left(s) > 6 => EntersToken(body[s].token)
        BY <1>1 DEF Steps
      <4>3. QED BY <4>1, <4>2
    <3>3. QED BY <3>1, <3>2
  <2>2. QED BY <2>1 DEF Steps
<1>7. UNCHANGED <<view, committed, live, got, serial, shown, clean, booted, crashes>>
  BY DEF Arrive
<1>8. /\ {view, committed, live} \subseteq Rows /\ got \in [Requests -> Rows]
      /\ serial \in Seq(Rows) /\ serial # <<>> /\ shown \subseteq Rows
      /\ {clean, booted} \subseteq BOOLEAN /\ crashes \in 0..MaxCrashes
  BY <1>1 DEF Sound, SettingsTypeOK, Requests
<1>9. Sound' BY <1>2, <1>4, <1>6, <1>7, <1>8, SoundNext
<1>10. QED BY <1>5, <1>9

\* What a new save changes; no other request is touched.
LEMMA SaveEffect ==
  ASSUME Sound, NEW r \in Saves, NEW b \in Bodies, Save(r, b)
  PROVE  /\ Sound' /\ Idle(r) /\ body'[r] = b
         /\ Left(r)' = IF EntersToken(b.token) THEN 8 ELSE 6
         /\ \A s \in Requests \ {r} : Left(s)' = Left(s) /\ body'[s] = body[s]
         /\ Arrive(r, SaveCalls(b.token)) /\ SaveCalls(b.token) \in Seq(CallNames)
         /\ SaveCalls(b.token) # <<>>
<1>1. /\ r \in Requests /\ body \in [Requests -> Bodies] /\ made \in 0..MaxSaves
      /\ MaxSaves \in Nat
  BY TelegramConfigAssumption DEF Requests, Sound, SettingsTypeOK
<1>2. /\ Arrive(r, SaveCalls(b.token)) /\ body' = [body EXCEPT ![r] = b]
      /\ made < MaxSaves /\ made' = made + 1 /\ Idle(r)
  BY DEF Save, Arrive
<1>3. /\ body' \in [Requests -> Bodies] /\ body'[r] = b /\ made' \in 0..MaxSaves
      /\ \A s \in Requests \ {r} : body'[s] = body[s]
  BY <1>1, <1>2
<1>4. r \notin Pages BY TelegramConfigAssumption
<1> DEFINE list == SaveCalls(b.token)
<1>5. CASE EntersToken(b.token)
  <2>1. list \in Seq(CallNames) /\ Len(list) = 8 /\ \A i \in 1..8 : list[i] = Full[8 - 8 + i]
    BY <1>5, CallLists
  <2> HIDE DEF list
  <2>2. list # <<>> BY <2>1
  <2>3. Arrive(r, list) BY <1>2 DEF list
  <2>4. Sound' /\ Left(r)' = 8 /\ \A s \in Requests \ {r} : Left(s)' = Left(s)
    BY <1>1, <1>3, <1>4, <1>5, <2>1, <2>3, SoundArrive
  <2>5. QED BY <1>2, <1>3, <1>5, <2>1, <2>2, <2>4 DEF list
<1>6. CASE ~EntersToken(b.token)
  <2>1. list \in Seq(CallNames) /\ Len(list) = 6 /\ \A i \in 1..6 : list[i] = Full[8 - 6 + i]
    BY <1>6, CallLists
  <2> HIDE DEF list
  <2>2. list # <<>> BY <2>1
  <2>3. Arrive(r, list) BY <1>2 DEF list
  <2>4. Sound' /\ Left(r)' = 6 /\ \A s \in Requests \ {r} : Left(s)' = Left(s)
    BY <1>1, <1>3, <1>4, <2>1, <2>3, SoundArrive
  <2>5. QED BY <1>2, <1>3, <1>6, <2>1, <2>2, <2>4 DEF list
<1>7. QED BY <1>5, <1>6

\* What a page's request changes.
LEMMA ShowEffect ==
  ASSUME Sound, NEW r \in Pages, Show(r)
  PROVE  /\ Sound' /\ Idle(r) /\ Left(r)' = 4 /\ UNCHANGED body
         /\ \A s \in Requests \ {r} : Left(s)' = Left(s)
         /\ Arrive(r, ReadCalls) /\ ReadCalls \in Seq(CallNames) /\ ReadCalls # <<>>
<1>1. /\ r \in Requests /\ body \in [Requests -> Bodies] /\ made \in 0..MaxSaves
  BY DEF Requests, Sound, SettingsTypeOK
<1>2. Arrive(r, ReadCalls) /\ UNCHANGED <<body, made>> /\ Idle(r) BY DEF Show, Arrive
<1>3. /\ ReadCalls \in Seq(CallNames) /\ Len(ReadCalls) = 4
      /\ \A i \in 1..4 : ReadCalls[i] = Full[8 - 4 + i]
  BY CallLists
<1>4. ReadCalls # <<>> BY <1>3
<1>5. Sound' /\ Left(r)' = 4 /\ \A s \in Requests \ {r} : Left(s)' = Left(s)
  BY <1>1, <1>2, <1>3, SoundArrive
<1>6. QED BY <1>2, <1>3, <1>4, <1>5

\* A turn takes one call off the list of its request.
LEMMA TurnLeft ==
  ASSUME Sound, NEW h, Turn(h)
  PROVE  /\ h \in Requests /\ Left(h) \in 1..8 /\ Left(h)' = Left(h) - 1
         /\ \A s \in Requests \ {h} : Left(s)' = Left(s)
         /\ calls' \in [Requests -> Seq(CallNames)]
         /\ (\A s \in Requests : body'[s] = body[s] \/ Left(s)' = 0) => Steps'
<1>1. SettingsTypeOK /\ Steps BY DEF Sound
<1>2. h \in Requests /\ ~Idle(h) BY <1>1, HeadTurn
<1>3. calls \in [Requests -> Seq(CallNames)] /\ calls' = [calls EXCEPT ![h] = Tail(@)]
  BY <1>1, Shape DEF Turn
<1>4. calls[h] \in Seq(CallNames) /\ calls[h] # <<>> BY <1>2, <1>3 DEF Idle
<1> DEFINE c == calls[h]
           d == Tail(c)
<1>5. calls' = [calls EXCEPT ![h] = d] BY <1>3
<1>6. c = calls[h] /\ c \in Seq(CallNames) /\ c # <<>> BY <1>4
<1> HIDE DEF c
<1>7. /\ Len(c) \in Nat \ {0} /\ Len(d) = Len(c) - 1 /\ d \in Seq(CallNames)
      /\ \A i \in 1..Len(d) : d[i] = c[i + 1]
  BY <1>6, HeadTailProperties
<1> HIDE DEF d
<1>8. /\ calls' \in [Requests -> Seq(CallNames)] /\ calls'[h] = d
      /\ \A s \in Requests \ {h} : calls'[s] = calls[s]
  BY <1>2, <1>3, <1>5, <1>7
<1>9. /\ Left(h) = Len(c) /\ Left(h)' = Len(d)
      /\ \A s \in Requests \ {h} : Left(s)' = Left(s)
  BY <1>6, <1>8 DEF Left
<1>10. /\ Left(h) \in 0..8 /\ \A i \in 1..Left(h) : c[i] = Full[8 - Left(h) + i]
       /\ h \in Pages => Left(h) <= 4
       /\ h \in Saves /\ Left(h) > 6 => EntersToken(body[h].token)
  BY <1>1, <1>2, <1>6 DEF Steps
<1>11. Left(h) \in 1..8 /\ Left(h)' = Left(h) - 1
  <2>1. Left(h) \in 0..8 BY <1>10
  <2>2. Len(c) \in Nat \ {0} /\ Len(d) = Len(c) - 1 BY <1>7
  <2>3. Left(h) = Len(c) /\ Left(h)' = Len(d) BY <1>9
  <2>4. QED BY <2>1, <2>2, <2>3
<1>12. ASSUME NEW i \in 1..Left(h)' PROVE d[i] = Full[8 - Left(h)' + i]
  <2>1. i \in 1..Len(d) /\ i + 1 \in 1..Left(h) BY <1>9, <1>11
  <2>2. d[i] = Full[8 - Left(h) + (i + 1)] BY <1>7, <1>10, <2>1
  <2>3. 8 - Left(h) + (i + 1) = 8 - Left(h)' + i BY <1>11
  <2>4. QED BY <2>2, <2>3
<1>13. ASSUME \A s \in Requests : body'[s] = body[s] \/ Left(s)' = 0
       PROVE  Steps'
  <2>1. ASSUME NEW s \in Requests
        PROVE  /\ Left(s)' \in 0..8
               /\ \A i \in 1..Left(s)' : calls'[s][i] = Full[8 - Left(s)' + i]
               /\ s \in Pages => Left(s)' <= 4
               /\ s \in Saves /\ Left(s)' > 6 => EntersToken(body'[s].token)
    <3>1. CASE s = h
      <4>1. Left(h)' \in 0..8 /\ calls'[h] = d /\ (h \in Pages => Left(h)' <= 4)
        BY <1>8, <1>10, <1>11
      <4>2. ASSUME h \in Saves, Left(h)' > 6 PROVE EntersToken(body'[h].token)
        BY <1>2, <1>10, <1>11, <1>13, <4>2
      <4>3. QED BY <1>12, <3>1, <4>1, <4>2
    <3>2. CASE s # h
      <4>1. Left(s)' = Left(s) /\ calls'[s] = calls[s] BY <1>8, <1>9, <3>2
      <4>2. /\ Left(s) \in 0..8 /\ \A i \in 1..Left(s) : calls[s][i] = Full[8 - Left(s) + i]
            /\ s \in Pages => Left(s) <= 4
            /\ s \in Saves /\ Left(s) > 6 => EntersToken(body[s].token)
        BY <1>1 DEF Steps
      <4>3. s \in Saves /\ Left(s)' > 6 => EntersToken(body'[s].token)
        BY <1>13, <4>1, <4>2
      <4>4. QED BY <4>1, <4>2, <4>3
    <3>3. QED BY <3>1, <3>2
  <2>2. QED BY <2>1 DEF Steps
<1>14. QED BY <1>2, <1>8, <1>9, <1>11, <1>13

LEMMA SoundCall == ASSUME Sound, Call PROVE Sound'
<1>0. PICK h : h = Head(sqlq) OBVIOUS
<1>n. PICK n : n = Left(h) OBVIOUS
<1>1. /\ Turn(h) /\ h \in Requests /\ n \in 1..8
      /\ view' \in Rows /\ got' \in [Requests -> Rows]
      /\ committed' = IF n \in {5, 7} THEN view ELSE committed
      /\ \A r \in Requests \ {h} : body'[r] = body[r]
      /\ n > 1 => UNCHANGED <<body, live, booted, serial, shown>>
      /\ n = 1 => (Configure(h) \/ Display(h)) /\ Forget(h)
      /\ UNCHANGED <<made, clean, crashes>>
  BY <1>0, <1>n, CallEffect
<1>2. /\ view \in Rows /\ committed \in Rows /\ live \in Rows /\ shown \subseteq Rows
      /\ serial \in Seq(Rows) /\ serial # <<>>
      /\ body \in [Requests -> Bodies] /\ got \in [Requests -> Rows]
      /\ {clean, booted} \subseteq BOOLEAN
      /\ made \in 0..MaxSaves /\ crashes \in 0..MaxCrashes
  BY DEF Sound, SettingsTypeOK, Requests
<1>3. /\ sqlq' \in Seq(Requests)
      /\ \A s \in Requests : Unique(sqlq', s) /\ (In(sqlq', s) <=> calls'[s] # <<>>)
  BY <1>1, HeadTurn DEF Sound
<1>4. /\ calls' \in [Requests -> Seq(CallNames)] /\ Left(h)' = Left(h) - 1
      /\ (\A s \in Requests : body'[s] = body[s] \/ Left(s)' = 0) => Steps'
  BY <1>1, TurnLeft
<1>5. {view', committed'} \subseteq Rows /\ {clean', booted} \subseteq BOOLEAN
  <2>1. clean' = clean /\ view' \in Rows /\ committed' \in {view, committed} BY <1>1
  <2>2. QED BY <1>2, <2>1
<1>6. made' \in 0..MaxSaves /\ crashes' \in 0..MaxCrashes BY <1>1, <1>2
<1>7. CASE n > 1
  <2>1. UNCHANGED <<body, live, booted, serial, shown>> BY <1>1, <1>7
  <2>2. Steps' BY <1>4, <2>1
  <2>3. /\ body' \in [Requests -> Bodies] /\ serial' \in Seq(Rows) /\ serial' # <<>>
        /\ shown' \subseteq Rows /\ {view', committed', live'} \subseteq Rows
        /\ {clean', booted'} \subseteq BOOLEAN
    BY <1>2, <1>5, <2>1
  <2>4. QED BY <1>1, <1>3, <1>4, <1>6, <2>2, <2>3, SoundNext
<1>8. CASE ~(n > 1)
  <2>1. (Configure(h) \/ Display(h)) /\ Forget(h) /\ n = 1 BY <1>1, <1>8
  <2>2. Pair(None, None) \in Bodies BY PairTyped
  <2>3. body' \in [Requests -> Bodies] BY <1>2, <2>1, <2>2 DEF Forget
  <2>4. Left(h)' = 0 BY <1>n, <1>4, <2>1
  <2>5. Steps' BY <1>1, <1>4, <2>4
  <2>6. /\ live' \in Rows /\ shown' \subseteq Rows /\ booted' \in BOOLEAN
        /\ serial' \in Seq(Rows) /\ serial' # <<>>
    <3>1. got[h] \in Rows /\ body[h] \in Bodies BY <1>1, <1>2
    <3>2. CASE Configure(h)
      <4>1. /\ Append(serial, Apply(Last(serial), body[h])) \in Seq(Rows)
            /\ Append(serial, Apply(Last(serial), body[h])) # <<>>
        BY <3>1, LastRow
      <4>2. QED BY <1>2, <3>1, <3>2, <4>1 DEF Configure
    <3>3. CASE Display(h) BY <1>2, <3>1, <3>3 DEF Display
    <3>4. QED BY <2>1, <3>2, <3>3
  <2>7. {view', committed', live'} \subseteq Rows /\ {clean', booted'} \subseteq BOOLEAN
    BY <1>5, <2>6
  <2>8. QED BY <1>1, <1>3, <1>4, <1>6, <2>3, <2>5, <2>6, <2>7, SoundNext
<1>9. QED BY <1>7, <1>8

\* A request that ends early leaves the queue and changes nothing between others.
LEMMA SoundFails == ASSUME Sound, CallFails PROVE Sound'
<1>0. PICK h : h = Head(sqlq) OBVIOUS
<1>1. /\ sqlq # <<>> /\ calls' = [calls EXCEPT ![h] = <<>>] /\ Forget(h) /\ sqlq' = Tail(sqlq)
      /\ clean' = FALSE
      /\ UNCHANGED <<view, committed, live, serial, shown, made, booted, crashes>>
  BY <1>0 DEF CallFails, Quiet
<1>2. /\ sqlq \in Seq(Requests) /\ calls \in [Requests -> Seq(CallNames)]
      /\ \A s \in Requests : Unique(sqlq, s) /\ (In(sqlq, s) <=> ~Idle(s))
  BY Shape DEF Sound
<1>3. h \in Requests /\ sqlq' \in Seq(Requests) BY <1>0, <1>1, <1>2, HeadTailProperties
<1>4. /\ calls' \in [Requests -> Seq(CallNames)] /\ calls'[h] = <<>>
      /\ \A s \in Requests \ {h} : calls'[s] = calls[s]
  <2>1. <<>> \in Seq(CallNames) OBVIOUS
  <2>2. QED BY <1>1, <1>2, <1>3, <2>1
<1>5. ASSUME NEW s \in Requests PROVE Unique(sqlq', s) /\ (In(sqlq', s) <=> calls'[s] # <<>>)
  <2>1. CASE s = h
    <3>1. ~In(Tail(sqlq), h) /\ Unique(Tail(sqlq), h) BY <1>0, <1>1, <1>2, <1>3, PopSelf
    <3>2. QED BY <1>1, <1>4, <2>1, <3>1
  <2>2. CASE s # h
    <3>1. Unique(Tail(sqlq), s) /\ (In(Tail(sqlq), s) <=> In(sqlq, s))
      BY <1>0, <1>1, <1>2, <2>2, PopOther
    <3>2. QED BY <1>1, <1>2, <1>4, <2>2, <3>1 DEF Idle
  <2>3. QED BY <2>1, <2>2
<1>6. /\ view \in Rows /\ committed \in Rows /\ live \in Rows /\ shown \subseteq Rows
      /\ serial \in Seq(Rows) /\ serial # <<>> /\ booted \in BOOLEAN
      /\ body \in [Requests -> Bodies] /\ got \in [Requests -> Rows]
      /\ made \in 0..MaxSaves /\ crashes \in 0..MaxCrashes
  BY DEF Sound, SettingsTypeOK, Requests
<1>7. /\ body' \in [Requests -> Bodies] /\ got' \in [Requests -> Rows]
      /\ \A s \in Requests \ {h} : body'[s] = body[s]
  <2>1. Pair(None, None) \in Bodies /\ Pair(None, None) \in Rows BY PairTyped
  <2>2. QED BY <1>1, <1>6, <2>1 DEF Forget
<1>8. Steps'
  <2>1. ASSUME NEW s \in Requests
        PROVE  /\ Left(s)' \in 0..8
               /\ \A i \in 1..Left(s)' : calls'[s][i] = Full[8 - Left(s)' + i]
               /\ s \in Pages => Left(s)' <= 4
               /\ s \in Saves /\ Left(s)' > 6 => EntersToken(body'[s].token)
    <3>1. CASE s = h
      <4>1. Left(h)' = 0 BY <1>4 DEF Left
      <4>2. QED BY <3>1, <4>1
    <3>2. CASE s # h
      <4>1. Left(s)' = Left(s) /\ calls'[s] = calls[s] /\ body'[s] = body[s]
        BY <1>4, <1>7, <3>2 DEF Left
      <4>2. /\ Left(s) \in 0..8 /\ \A i \in 1..Left(s) : calls[s][i] = Full[8 - Left(s) + i]
            /\ s \in Pages => Left(s) <= 4
            /\ s \in Saves /\ Left(s) > 6 => EntersToken(body[s].token)
        BY DEF Sound, Steps
      <4>3. QED BY <4>1, <4>2
    <3>3. QED BY <3>1, <3>2
  <2>2. QED BY <2>1 DEF Steps
<1>9. QED BY <1>1, <1>3, <1>4, <1>5, <1>6, <1>7, <1>8, SoundNext

LEMMA SoundRestart == ASSUME Sound, Restart PROVE Sound'
<1>1. /\ view \in Rows /\ committed \in Rows /\ shown \subseteq Rows
      /\ serial \in Seq(Rows) /\ serial # <<>> /\ clean \in BOOLEAN
      /\ made \in 0..MaxSaves /\ crashes \in 0..MaxCrashes
  BY DEF Sound, SettingsTypeOK
<1>2. WithEnv(committed) \in Rows
  <2>1. committed.token \in Tokens \cup {None} /\ committed.chat \in Chats \cup {None}
    BY <1>1, RowFields
  <2>2. Or(committed.token, EnvToken) \in Tokens \cup {None}
        /\ Or(committed.chat, EnvChat) \in Chats \cup {None}
    BY <2>1, TelegramConfigAssumption DEF Or
  <2>3. QED BY <2>2, PairTyped DEF WithEnv
<1>3. /\ {view', committed', live'} \subseteq Rows /\ booted' \in BOOLEAN /\ clean' \in BOOLEAN
      /\ UNCHANGED <<serial, shown, made>>
  BY <1>1, <1>2 DEF Restart
<1>4. crashes' \in 0..MaxCrashes
  <2>1. MaxCrashes \in Nat BY TelegramConfigAssumption
  <2>2. QED BY <1>1, <2>1 DEF Restart
<1>5. sqlq' = <<>> /\ calls' = [r \in Requests |-> <<>>] BY DEF Restart, Requests
<1>6. /\ sqlq' \in Seq(Requests) /\ calls' \in [Requests -> Seq(CallNames)]
      /\ \A s \in Requests : Unique(sqlq', s) /\ (In(sqlq', s) <=> calls'[s] # <<>>)
  BY <1>5 DEF Unique, In
<1>7. body' \in [Requests -> Bodies] /\ got' \in [Requests -> Rows]
  BY PairTyped DEF Restart, Requests
<1>8. Steps' BY <1>5 DEF Steps, Left
<1>9. QED BY <1>1, <1>3, <1>4, <1>6, <1>7, <1>8, SoundNext

LEMMA SoundStep == ASSUME Sound, [SettingsNext]_settingsVars PROVE Sound'
<1>1. CASE \E r \in Saves, b \in Bodies : Save(r, b) BY <1>1, SaveEffect
<1>2. CASE \E r \in Pages : Show(r) BY <1>2, ShowEffect
<1>3. CASE OtherCommits
  <2>1. SettingsTypeOK'
    BY <1>3 DEF Sound, SettingsTypeOK, OtherCommits, Idle
  <2>2. Steps' /\ serial' # <<>> BY <1>3 DEF Sound, Steps, Left, OtherCommits
  <2>3. QED BY <2>1, <2>2 DEF Sound
<1>4. CASE UNCHANGED settingsVars
  BY <1>4 DEF settingsVars, Sound, SettingsTypeOK, Steps, Left, Idle
<1>5. QED BY <1>1, <1>2, <1>3, <1>4, SoundCall, SoundFails, SoundRestart DEF SettingsNext

\* Every variable keeps its type, and a request waits in the queue exactly while
\* it has a call to make.
THEOREM SettingsTypeCorrect == SettingsSpec => []SettingsTypeOK
<1>1. Sound => SettingsTypeOK BY DEF Sound
<1>2. QED BY <1>1, SoundInit, SoundStep, PTL DEF SettingsSpec
-----------------------------------------------------------------------------
(* The order of the turns.                                                 *)
Pending == {r \in Requests : ~Idle(r)}

\* Whoever has its turn is before all others that have no fewer calls left.
LEMMA HeadBefore ==
  ASSUME Sound, NEW h, Turn(h)
  PROVE  \A s \in Pending \ {h} :
           /\ Before(s, h, 0) <=> Left(s) < Left(h)
           /\ Before(s, h, 4) <=> Left(s) < Left(h) + 4
           /\ Before(h, s, 0) <=> Left(h) <= Left(s)
           /\ Before(h, s, 4) <=> Left(h) <= Left(s) + 4
<1> SUFFICES ASSUME NEW s \in Pending \ {h}
             PROVE  /\ Before(s, h, 0) <=> Left(s) < Left(h)
                    /\ Before(s, h, 4) <=> Left(s) < Left(h) + 4
                    /\ Before(h, s, 0) <=> Left(h) <= Left(s)
                    /\ Before(h, s, 4) <=> Left(h) <= Left(s) + 4
  OBVIOUS
<1>1. s \in Others(h) /\ s \in Requests BY DEF Pending, Others
<1>2. Ahead(sqlq, h, s) /\ ~Ahead(sqlq, s, h) /\ h \in Requests
  BY <1>1, HeadTurn DEF Sound
<1>3. Left(s) \in Nat /\ Left(h) \in Nat BY <1>1, <1>2, Shape DEF Sound
<1>4. QED BY <1>2, <1>3 DEF Before

\* A turn changes nothing in the order of those that remain: the request that
\* goes behind the others has one call less to make.
LEMMA TurnBefore ==
  ASSUME Sound, NEW h, Turn(h),
         NEW s \in Pending, NEW t \in Pending, s # t, Left(h) > 1 \/ h \notin {s, t}
  PROVE  /\ Before(s, t, 0)' <=> Before(s, t, 0)
         /\ Before(s, t, 4)' <=> Before(s, t, 4)
<1>1. /\ s \in Requests /\ t \in Requests /\ h \in Requests
      /\ Left(s) \in Nat /\ Left(t) \in Nat /\ Left(h) \in 1..8
      /\ Left(h)' = Left(h) - 1 /\ \A r \in Requests \ {h} : Left(r)' = Left(r)
  BY TurnLeft, Shape DEF Pending, Sound
<1>2. CASE h \notin {s, t}
  <2>1. s \in Others(h) /\ t \in Others(h) BY <1>2 DEF Pending, Others
  <2>2. Ahead(sqlq', s, t) <=> Ahead(sqlq, s, t) BY <2>1, HeadTurn DEF Sound
  <2>3. Left(s)' = Left(s) /\ Left(t)' = Left(t) BY <1>1, <1>2
  <2>4. QED BY <2>2, <2>3 DEF Before
<1>3. CASE h = t /\ Left(h) > 1
  <2>1. s \in Pending \ {h} /\ s \in Others(h) BY <1>3 DEF Pending, Others
  <2>2. /\ Before(s, h, 0) <=> Left(s) < Left(h)
        /\ Before(s, h, 4) <=> Left(s) < Left(h) + 4
    BY <2>1, HeadBefore
  <2>3. Ahead(sqlq', s, h) BY <1>3, <2>1, HeadTurn DEF Sound
  <2>4. Left(s)' = Left(s) BY <1>1, <2>1
  <2>5. /\ Before(s, h, 0)' <=> Left(s) <= Left(h) - 1
        /\ Before(s, h, 4)' <=> Left(s) <= Left(h) - 1 + 4
    BY <1>1, <2>3, <2>4 DEF Before
  <2>6. QED BY <1>1, <1>3, <2>2, <2>5
<1>4. CASE h = s /\ Left(h) > 1
  <2>1. t \in Pending \ {h} /\ t \in Others(h) BY <1>4 DEF Pending, Others
  <2>2. /\ Before(h, t, 0) <=> Left(h) <= Left(t)
        /\ Before(h, t, 4) <=> Left(h) <= Left(t) + 4
    BY <2>1, HeadBefore
  <2>3. ~Ahead(sqlq', h, t) BY <1>4, <2>1, HeadTurn DEF Sound
  <2>4. Left(t)' = Left(t) BY <1>1, <2>1
  <2>5. /\ Before(h, t, 0)' <=> Left(h) - 1 < Left(t)
        /\ Before(h, t, 4)' <=> Left(h) - 1 < Left(t) + 4
    BY <1>1, <2>3, <2>4 DEF Before
  <2>6. QED BY <1>1, <1>4, <2>2, <2>5
<1>5. QED BY <1>2, <1>3, <1>4

\* A new request is behind all others that have no more calls to make, and
\* changes nothing between the others.
LEMMA ArriveBefore ==
  ASSUME Sound, NEW r \in Requests, NEW list \in Seq(CallNames), list # <<>>,
         Arrive(r, list), Left(r)' \in Nat,
         \A s \in Requests \ {r} : Left(s)' = Left(s)
  PROVE  /\ r \notin Pending
         /\ \A s, t \in Pending : s # t => /\ Before(s, t, 0)' <=> Before(s, t, 0)
                                           /\ Before(s, t, 4)' <=> Before(s, t, 4)
         /\ \A s \in Pending : /\ Before(r, s, 0)' <=> Left(r)' < Left(s)
                               /\ Before(r, s, 4)' <=> Left(r)' < Left(s) + 4
<1>1. r \notin Pending BY DEF Arrive, Pending
<1>2. \A s \in Pending : s \in Requests /\ s # r /\ s \in Others(r) /\ Left(s) \in Nat
  BY <1>1, Shape DEF Pending, Others, Sound
<1>3. /\ \A s \in Others(r) : ~Ahead(sqlq', r, s)
      /\ \A s, t \in Others(r) : s # t => (Ahead(sqlq', s, t) <=> Ahead(sqlq, s, t))
  BY ArriveTurn DEF Sound
<1>4. ASSUME NEW s \in Pending, NEW t \in Pending, s # t
      PROVE  /\ Before(s, t, 0)' <=> Before(s, t, 0)
             /\ Before(s, t, 4)' <=> Before(s, t, 4)
  <2>1. Left(s)' = Left(s) /\ Left(t)' = Left(t)
        /\ (Ahead(sqlq', s, t) <=> Ahead(sqlq, s, t))
    BY <1>2, <1>3, <1>4
  <2>2. QED BY <2>1 DEF Before
<1>5. ASSUME NEW s \in Pending
      PROVE  /\ Before(r, s, 0)' <=> Left(r)' < Left(s)
             /\ Before(r, s, 4)' <=> Left(r)' < Left(s) + 4
  <2>1. Left(s)' = Left(s) /\ ~Ahead(sqlq', r, s) /\ Left(s) \in Nat
    BY <1>2, <1>3
  <2>2. QED BY <2>1 DEF Before
<1>6. QED BY <1>1, <1>4, <1>5
-----------------------------------------------------------------------------
(* Who is seen.  A value read from the table is that of the newest of a    *)
(* set R of saves, newest in the order O of their last calls; if there is  *)
(* none, that of the saves answered before.                                *)
Stored(v, R, O, old, new) ==
  \/ R = {} /\ v = old
  \/ \E m \in R : v = new[m] /\ \A r \in R \ {m} : <<r, m>> \in O

\* h is answered: it was the newest only if it was alone, and is now the old one.
LEMMA StoredKept ==
  ASSUME NEW v, NEW R, NEW O, NEW old, NEW new, Stored(v, R, O, old, new),
         NEW P, NEW old2, NEW new2, NEW h,
         \A r, s \in R \ {h} : r # s /\ <<r, s>> \in O => <<r, s>> \in P,
         \A r \in R \ {h} : new2[r] = new[r],
         h \in R => old2 = new[h] /\ \A r \in R \ {h} : <<r, h>> \notin O,
         h \notin R => old2 = old
  PROVE  Stored(v, R \ {h}, P, old2, new2)
<1>1. CASE R = {} /\ v = old BY <1>1 DEF Stored
<1>2. ASSUME NEW m \in R, v = new[m], \A r \in R \ {m} : <<r, m>> \in O
      PROVE  Stored(v, R \ {h}, P, old2, new2)
  <2>1. CASE m = h
    <3>1. R \ {h} = {} BY <1>2, <2>1
    <3>2. v = old2 BY <1>2, <2>1
    <3>3. QED BY <3>1, <3>2 DEF Stored
  <2>2. CASE m # h
    <3>1. m \in R \ {h} /\ v = new2[m] BY <1>2, <2>2
    <3>2. \A r \in (R \ {h}) \ {m} : <<r, m>> \in P BY <1>2, <2>2
    <3>3. QED BY <3>1, <3>2 DEF Stored
  <2>3. QED BY <2>1, <2>2
<1>3. QED BY <1>1, <1>2 DEF Stored

\* Nobody of R is answered.
LEMMA StoredSame ==
  ASSUME NEW v, NEW R, NEW O, NEW old, NEW new, Stored(v, R, O, old, new),
         NEW P, NEW new2,
         \A r, s \in R : r # s /\ <<r, s>> \in O => <<r, s>> \in P,
         \A r \in R : new2[r] = new[r]
  PROVE  Stored(v, R, P, old, new2)
<1>1. CASE R = {} /\ v = old BY <1>1 DEF Stored
<1>2. ASSUME NEW m \in R, v = new[m], \A r \in R \ {m} : <<r, m>> \in O
      PROVE  Stored(v, R, P, old, new2)
  <2>1. v = new2[m] /\ \A r \in R \ {m} : <<r, m>> \in P BY <1>2
  <2>2. QED BY <2>1 DEF Stored
<1>3. QED BY <1>1, <1>2 DEF Stored

\* The saves in progress, those that enter a token, and what has been written.
Sav == {r \in Saves : ~Idle(r)}
Tok == {r \in Sav : EntersToken(body[r].token)}
TokenWritten == {r \in Tok : Left(r) <= 7}
ChatWritten == {r \in Sav : Left(r) <= 5}

\* The order of the last calls, and what the saves post.
Order == {e \in Requests \X Requests : Before(e[1], e[2], 0)}
NewTokens == [r \in Requests |-> body[r].token]
NewChats == [r \in Requests |-> body[r].chat]

TokenOf(v, R) == Stored(v, R, Order, Last(serial).token, NewTokens)
ChatOf(v, R) == Stored(v, R, Order, Last(serial).chat, NewChats)

\* The saves that write a row before the page reads it, and those that are
\* answered no later than save m.
Seen(p) == {s \in Sav : Before(s, p, 4)}
UpTo(m) == {s \in Sav : s = m \/ Before(s, m, 0)}

Newest(m) == m \in Sav /\ \A r \in Sav : r = m \/ Before(r, m, 0)

\* The rows are those of the newest that has written.
ViewInv == TokenOf(view.token, TokenWritten) /\ ChatOf(view.chat, ChatWritten)

\* What is written and not committed, its save commits next.
CommitInv == committed # view => \E r \in Sav : Left(r) \in {5, 7}

\* What a page has read is what the newest it sees has written.
PageInv ==
  \A p \in Pages : ~Idle(p) => /\ Left(p) <= 3 => TokenOf(got[p].token, Tok \cap Seen(p))
                               /\ Left(p) <= 1 => ChatOf(got[p].chat, Seen(p))

\* What a page was shown is in the table after some save, answered or not.
Foreseen(x) == \E m \in Sav : x.chat = body[m].chat /\ TokenOf(x.token, Tok \cap UpTo(m))
ShownInv == \A x \in shown : x \in ToSet(serial) \/ Foreseen(x)

\* The newest save reads back what the table holds to the end.
LiveInv ==
  /\ Sav = {} => live = IF booted THEN WithEnv(view) ELSE view
  /\ \A r \in Sav : Newest(r) => /\ Left(r) <= 3 => got[r].token = view.token
                                 /\ Left(r) <= 1 => got[r].chat = view.chat

Overlap == ViewInv /\ CommitInv /\ PageInv /\ ShownInv /\ LiveInv
OverlapInv == clean => Overlap
-----------------------------------------------------------------------------
(* What the turns do to these sets.                                        *)
LEMMA SavPending ==
  ASSUME Sound
  PROVE  /\ Sav \subseteq Pending /\ Tok \subseteq Sav
         /\ TokenWritten \subseteq Tok /\ ChatWritten \subseteq Sav
         /\ \A s \in Sav : s \in Requests /\ s \in Saves /\ s \notin Pages
         /\ \A p \in Pages : p \in Requests /\ p \notin Saves /\ (~Idle(p) => p \in Pending)
         /\ \A s \in Pending : s \in Requests /\ ~Idle(s) /\ Left(s) \in 1..8
BY Shape, TelegramConfigAssumption
   DEF Sav, Tok, TokenWritten, ChatWritten, Pending, Requests, Sound, Steps

LEMMA OrderPairs ==
  ASSUME NEW r \in Requests, NEW s \in Requests
  PROVE  /\ <<r, s>> \in Order <=> Before(r, s, 0)
         /\ <<r, s>> \in Order' <=> Before(r, s, 0)'
<1>1. <<r, s>> \in Order <=> Before(r, s, 0) BY DEF Order
<1>2. <<r, s>> \in Order' <=> Before(r, s, 0)' BY DEF Order
<1>3. QED BY <1>1, <1>2

\* A request that goes behind the others.
LEMMA TurnKeeps ==
  ASSUME Sound, NEW h, Turn(h), Left(h) > 1, UNCHANGED body
  PROVE  /\ Sav' = Sav /\ Tok' = Tok /\ NewTokens' = NewTokens /\ NewChats' = NewChats
         /\ \A r \in Requests : calls'[r] = <<>> <=> Idle(r)
         /\ \A r, s \in Sav : r # s => (<<r, s>> \in Order' <=> <<r, s>> \in Order)
         /\ \A p \in Pages : ~Idle(p) => Seen(p)' = Seen(p)
         /\ \A m \in Sav : UpTo(m)' = UpTo(m)
         /\ \A m \in Sav : Newest(m)' <=> Newest(m)
<1>1. /\ h \in Requests /\ Left(h)' = Left(h) - 1 /\ Left(h) \in 1..8
      /\ \A s \in Requests \ {h} : Left(s)' = Left(s)
      /\ calls' \in [Requests -> Seq(CallNames)]
  BY TurnLeft
<1>2. ASSUME NEW r \in Requests PROVE calls'[r] = <<>> <=> Idle(r)
  <2>1. calls'[r] \in Seq(CallNames) /\ Left(r)' = Len(calls'[r]) BY <1>1 DEF Left
  <2>2. calls'[r] = <<>> <=> Left(r)' = 0 BY <2>1
  <2>3. (Idle(r) <=> Left(r) = 0) /\ Left(r) \in Nat BY Shape DEF Sound
  <2>4. Left(r)' = 0 <=> Left(r) = 0 BY <1>1, <2>3
  <2>5. QED BY <2>2, <2>3, <2>4
<1>3. \A r \in Requests : Idle(r)' <=> Idle(r) BY <1>2 DEF Idle
<1>4. Sav' = Sav
  <2>1. \A s \in Saves : s \in Requests BY DEF Requests
  <2>2. QED BY <1>3, <2>1 DEF Sav
<1>5. Tok' = Tok BY <1>4 DEF Tok
<1>6. NewTokens' = NewTokens /\ NewChats' = NewChats BY DEF NewTokens, NewChats
<1>7. \A r, s \in Pending : r # s => /\ Before(r, s, 0)' <=> Before(r, s, 0)
                                     /\ Before(r, s, 4)' <=> Before(r, s, 4)
  BY TurnBefore
<1>8. \A r, s \in Sav : r # s => /\ Before(r, s, 0)' <=> Before(r, s, 0)
                                 /\ r \in Requests /\ s \in Requests
  BY <1>7, SavPending
<1>9. \A r, s \in Sav : r # s => (<<r, s>> \in Order' <=> <<r, s>> \in Order)
  BY <1>8, OrderPairs
<1>10. ASSUME NEW p \in Pages, ~Idle(p) PROVE Seen(p)' = Seen(p)
  <2>1. p \in Pending /\ \A s \in Sav : s \in Pending /\ s # p BY <1>10, SavPending
  <2>2. QED BY <1>4, <1>7, <2>1 DEF Seen
<1>11. ASSUME NEW m \in Sav PROVE UpTo(m)' = UpTo(m)
  <2>1. \A s \in Sav : s # m => (Before(s, m, 0)' <=> Before(s, m, 0)) BY <1>8
  <2>2. \A s \in Sav : (s = m \/ Before(s, m, 0)') <=> (s = m \/ Before(s, m, 0)) BY <2>1
  <2>3. QED BY <1>4, <2>2 DEF UpTo
<1>12. ASSUME NEW m \in Sav PROVE Newest(m)' <=> Newest(m)
  BY <1>4, <1>8 DEF Newest
<1>13. QED BY <1>2, <1>4, <1>5, <1>6, <1>9, <1>10, <1>11, <1>12

\* A request that leaves, by its last call.
LEMMA TurnLeaves ==
  ASSUME Sound, NEW h, Turn(h), Left(h) = 1, \A r \in Requests \ {h} : body'[r] = body[r]
  PROVE  /\ Sav' = Sav \ {h} /\ Tok' = Tok \ {h}
         /\ TokenWritten' = TokenWritten \ {h} /\ ChatWritten' = ChatWritten \ {h}
         /\ calls'[h] = <<>> /\ \A r \in Requests \ {h} : calls'[r] = <<>> <=> Idle(r)
         /\ \A r \in Sav \ {h} : NewTokens'[r] = NewTokens[r] /\ NewChats'[r] = NewChats[r]
         /\ \A r, s \in Sav \ {h} : r # s => (<<r, s>> \in Order' <=> <<r, s>> \in Order)
         /\ \A p \in Pages \ {h} : ~Idle(p) => Seen(p)' = Seen(p) \ {h}
         /\ \A m \in Sav \ {h} : UpTo(m)' = UpTo(m) \ {h}
         /\ \A m \in Sav \ {h} : Newest(m)' => Newest(m)
<1>1. /\ h \in Requests /\ Left(h)' = 0
      /\ \A s \in Requests \ {h} : Left(s)' = Left(s)
      /\ calls' \in [Requests -> Seq(CallNames)]
  BY TurnLeft
<1>2. ASSUME NEW r \in Requests PROVE calls'[r] = <<>> <=> (r = h \/ Idle(r))
  <2>1. calls'[r] \in Seq(CallNames) /\ Left(r)' = Len(calls'[r]) BY <1>1 DEF Left
  <2>2. calls'[r] = <<>> <=> Left(r)' = 0 BY <2>1
  <2>3. Idle(r) <=> Left(r) = 0 BY Shape DEF Sound
  <2>4. QED BY <1>1, <2>2, <2>3
<1>3. \A r \in Requests : Idle(r)' <=> (r = h \/ Idle(r)) BY <1>2 DEF Idle
<1>4. Sav' = Sav \ {h}
  <2>1. \A s \in Saves : s \in Requests BY DEF Requests
  <2>2. QED BY <1>3, <2>1 DEF Sav
<1>5. \A s \in Sav \ {h} : s \in Requests /\ body'[s] = body[s] /\ Left(s)' = Left(s)
  BY <1>1, SavPending
<1>6. Tok' = Tok \ {h} BY <1>4, <1>5 DEF Tok
<1>7. TokenWritten' = TokenWritten \ {h} BY <1>5, <1>6, SavPending DEF TokenWritten
<1>8. ChatWritten' = ChatWritten \ {h} BY <1>4, <1>5 DEF ChatWritten
<1>9. ASSUME NEW r \in Sav \ {h}
      PROVE  NewTokens'[r] = NewTokens[r] /\ NewChats'[r] = NewChats[r]
  BY <1>5, <1>9 DEF NewTokens, NewChats
<1>10. \A r, s \in Pending \ {h} : r # s => /\ Before(r, s, 0)' <=> Before(r, s, 0)
                                            /\ Before(r, s, 4)' <=> Before(r, s, 4)
  BY TurnBefore
<1>11. \A r, s \in Sav \ {h} : r # s => /\ Before(r, s, 0)' <=> Before(r, s, 0)
                                        /\ r \in Requests /\ s \in Requests
  BY <1>10, SavPending
<1>12. \A r, s \in Sav \ {h} : r # s => (<<r, s>> \in Order' <=> <<r, s>> \in Order)
  BY <1>11, OrderPairs
<1>13. ASSUME NEW p \in Pages \ {h}, ~Idle(p) PROVE Seen(p)' = Seen(p) \ {h}
  <2>1. p \in Pending \ {h} /\ \A s \in Sav : s \in Pending /\ s # p BY <1>13, SavPending
  <2>2. \A s \in Sav \ {h} : Before(s, p, 4)' <=> Before(s, p, 4) BY <1>10, <2>1
  <2>3. QED BY <1>4, <2>2 DEF Seen
<1>14. ASSUME NEW m \in Sav \ {h} PROVE UpTo(m)' = UpTo(m) \ {h}
  <2>1. \A s \in Sav \ {h} : s # m => (Before(s, m, 0)' <=> Before(s, m, 0)) BY <1>11
  <2>2. \A s \in Sav \ {h} : (s = m \/ Before(s, m, 0)') <=> (s = m \/ Before(s, m, 0))
    BY <2>1
  <2>3. QED BY <1>4, <2>2 DEF UpTo
<1>15. ASSUME NEW m \in Sav \ {h}, Newest(m)' PROVE Newest(m)
  <2>1. \A r \in Sav \ {h} : r = m \/ Before(r, m, 0)' BY <1>4, <1>15 DEF Newest
  <2>2. \A r \in Sav \ {h} : r = m \/ Before(r, m, 0) BY <1>11, <2>1
  <2>3. h \in Sav => Before(h, m, 0)
    <3>1. m \in Pending \ {h} /\ Left(m) \in 1..8 BY SavPending
    <3>2. QED BY <3>1, HeadBefore
  <2>4. QED BY <2>2, <2>3 DEF Newest
<1>16. QED BY <1>1, <1>2, <1>4, <1>6, <1>7, <1>8, <1>9, <1>12, <1>13, <1>14, <1>15

\* A save that leaves is before all others, and everybody sees what it wrote.
LEMMA LeaverFirst ==
  ASSUME Sound, NEW h, Turn(h), Left(h) = 1, h \in Sav
  PROVE  /\ h \in ChatWritten /\ (h \in Tok <=> h \in TokenWritten) /\ UpTo(h) = {h}
         /\ \A r \in Sav \ {h} : <<r, h>> \notin Order
         /\ \A p \in Pages : ~Idle(p) => h \in Seen(p)
         /\ \A m \in Sav : h \in UpTo(m)
         /\ Sav = {h} => Newest(h)
<1>1. \A s \in Pending \ {h} : /\ Before(s, h, 0) <=> Left(s) < Left(h)
                               /\ Before(h, s, 0) <=> Left(h) <= Left(s)
                               /\ Before(h, s, 4) <=> Left(h) <= Left(s) + 4
  BY HeadBefore
<1>2. /\ \A s \in Sav : s \in Pending /\ s \in Requests
      /\ \A s \in Pending : Left(s) \in 1..8
      /\ \A p \in Pages : p # h /\ (~Idle(p) => p \in Pending)
  BY SavPending
<1>3. \A s \in Pending \ {h} : ~Before(s, h, 0) /\ Before(h, s, 0) /\ Before(h, s, 4)
  BY <1>1, <1>2
<1>4. h \in ChatWritten /\ (h \in Tok <=> h \in TokenWritten)
  BY DEF ChatWritten, TokenWritten
<1>5. UpTo(h) = {h} BY <1>2, <1>3 DEF UpTo
<1>6. \A r \in Sav \ {h} : <<r, h>> \notin Order BY <1>2, <1>3, OrderPairs
<1>7. \A p \in Pages : ~Idle(p) => h \in Seen(p) BY <1>2, <1>3 DEF Seen
<1>8. \A m \in Sav : h \in UpTo(m) BY <1>2, <1>3 DEF UpTo
<1>9. Sav = {h} => Newest(h) BY DEF Newest
<1>10. QED BY <1>4, <1>5, <1>6, <1>7, <1>8, <1>9

\* A new request enters no set that matters: it has its writes and reads before it.
LEMMA ArriveKeeps ==
  ASSUME Sound, NEW r \in Requests, NEW list \in Seq(CallNames), list # <<>>,
         Arrive(r, list), NEW n \in 4..8, Left(r)' = n,
         \A s \in Requests \ {r} : Left(s)' = Left(s) /\ body'[s] = body[s],
         r \in Saves => n = IF EntersToken(body'[r].token) THEN 8 ELSE 6
  PROVE  /\ Sav \subseteq Sav' /\ Sav' \subseteq Sav \cup {r} /\ r \notin Pending
         /\ r \in Saves => r \in Sav'
         /\ r \notin Saves => Sav' = Sav
         /\ TokenWritten' = TokenWritten /\ ChatWritten' = ChatWritten
         /\ \A s \in Requests \ {r} : calls'[s] = calls[s]
         /\ \A s \in Sav : NewTokens'[s] = NewTokens[s] /\ NewChats'[s] = NewChats[s]
         /\ \A s, t \in Sav : s # t => (<<s, t>> \in Order' <=> <<s, t>> \in Order)
         /\ \A p \in Pages \ {r} : ~Idle(p) =>
              /\ Left(p) <= 3 => (Tok \cap Seen(p))' = Tok \cap Seen(p)
              /\ Left(p) <= 1 => Seen(p)' = Seen(p)
         /\ \A m \in Sav : (Tok \cap UpTo(m))' = Tok \cap UpTo(m)
         /\ \A m \in Sav : Newest(m)' => Newest(m)
<1>1. /\ r \notin Pending /\ Idle(r)
      /\ \A s, t \in Pending : s # t => /\ Before(s, t, 0)' <=> Before(s, t, 0)
                                        /\ Before(s, t, 4)' <=> Before(s, t, 4)
      /\ \A s \in Pending : /\ Before(r, s, 0)' <=> n < Left(s)
                            /\ Before(r, s, 4)' <=> n < Left(s) + 4
  <2>1. Left(r)' \in Nat OBVIOUS
  <2>2. /\ r \notin Pending
        /\ \A s, t \in Pending : s # t => /\ Before(s, t, 0)' <=> Before(s, t, 0)
                                          /\ Before(s, t, 4)' <=> Before(s, t, 4)
        /\ \A s \in Pending : /\ Before(r, s, 0)' <=> Left(r)' < Left(s)
                              /\ Before(r, s, 4)' <=> Left(r)' < Left(s) + 4
    BY <2>1, ArriveBefore
  <2>3. QED BY <2>2 DEF Arrive
<1>2. /\ \A s \in Sav : /\ s \in Pending /\ s \in Requests /\ s # r
                        /\ Left(s)' = Left(s) /\ body'[s] = body[s] /\ Left(s) \in 1..8
      /\ \A p \in Pages : ~Idle(p) => p \in Pending /\ p \notin Sav /\ Left(p) \in 1..8
  BY <1>1, SavPending
<1>3. calls'[r] = list /\ \A s \in Requests \ {r} : calls'[s] = calls[s]
  <2>1. calls \in [Requests -> Seq(CallNames)] /\ calls' = [calls EXCEPT ![r] = list]
    BY Shape DEF Sound, Arrive
  <2>2. QED BY <2>1
<1>4. r \notin Sav /\ \A s \in Saves : s \in Requests BY <1>2 DEF Requests
<1>5. Sav' = IF r \in Saves THEN Sav \cup {r} ELSE Sav
  <2>1. \A s \in Saves : Idle(s)' <=> (s # r /\ Idle(s)) BY <1>3, <1>4 DEF Idle
  <2>2. QED BY <1>4, <2>1 DEF Sav
<1>6. \A s \in Tok' : s \in Tok \/ (s = r /\ n = 8 /\ r \in Saves) BY <1>2, <1>5 DEF Tok
<1>7. \A s \in Tok : s \in Tok' BY <1>2, <1>5 DEF Tok
<1>8. TokenWritten' = TokenWritten
  <2>1. \A s \in Tok : s # r /\ Left(s)' = Left(s) BY <1>2 DEF Tok
  <2>2. ~(Left(r)' <= 7) \/ r \notin Tok' BY <1>4, <1>6 DEF Tok
  <2>3. QED BY <1>6, <1>7, <2>1, <2>2 DEF TokenWritten
<1>9. r \in Saves => n >= 6 OBVIOUS
<1>10. ChatWritten' = ChatWritten
  <2>1. r \in Saves => ~(Left(r)' <= 5) BY <1>9
  <2>2. QED BY <1>2, <1>5, <2>1 DEF ChatWritten
<1>11. ASSUME NEW s \in Sav
       PROVE  NewTokens'[s] = NewTokens[s] /\ NewChats'[s] = NewChats[s]
  BY <1>2, <1>11 DEF NewTokens, NewChats
<1>12. \A s, t \in Sav : s # t => (<<s, t>> \in Order' <=> <<s, t>> \in Order)
  BY <1>1, <1>2, OrderPairs
<1>13. ASSUME NEW p \in Pages \ {r}, ~Idle(p)
       PROVE  /\ Left(p) <= 3 => (Tok \cap Seen(p))' = Tok \cap Seen(p)
              /\ Left(p) <= 1 => Seen(p)' = Seen(p)
  <2>1. p \in Pending /\ Left(p) \in 1..8 BY <1>2, <1>13
  <2>2. \A s \in Sav : Before(s, p, 4)' <=> Before(s, p, 4) BY <1>1, <1>2, <1>13, <2>1
  <2>3. Left(p) <= 3 /\ n = 8 => ~Before(r, p, 4)' BY <1>1, <2>1
  <2>4. Left(p) <= 1 /\ r \in Saves => ~Before(r, p, 4)' BY <1>1, <1>9, <2>1
  <2>5. ASSUME Left(p) <= 3 PROVE (Tok \cap Seen(p))' = Tok \cap Seen(p)
    <3>1. Tok \subseteq Sav BY SavPending
    <3>2. \A s : s \in Tok' /\ s \in Seen(p)' => s \in Tok /\ s \in Seen(p)
      BY <1>6, <2>2, <2>3, <2>5, <3>1 DEF Seen
    <3>3. \A s : s \in Tok /\ s \in Seen(p) => s \in Tok' /\ s \in Seen(p)'
      BY <1>5, <1>7, <2>2 DEF Seen
    <3>4. QED BY <3>2, <3>3
  <2>6. ASSUME Left(p) <= 1 PROVE Seen(p)' = Seen(p)
    BY <1>5, <2>2, <2>4, <2>6 DEF Seen
  <2>7. QED BY <2>5, <2>6
<1>14. ASSUME NEW m \in Sav PROVE (Tok \cap UpTo(m))' = Tok \cap UpTo(m)
  <2>1. \A s \in Sav : s # m => (Before(s, m, 0)' <=> Before(s, m, 0)) BY <1>1, <1>2
  <2>2. n = 8 => ~Before(r, m, 0)' /\ r # m BY <1>1, <1>2
  <2>3. Tok \subseteq Sav BY SavPending
  <2>4. \A s : s \in Tok' /\ s \in UpTo(m)' => s \in Tok /\ s \in UpTo(m)
    BY <1>6, <2>1, <2>2, <2>3 DEF UpTo
  <2>5. \A s : s \in Tok /\ s \in UpTo(m) => s \in Tok' /\ s \in UpTo(m)'
    BY <1>5, <1>7, <2>1 DEF UpTo
  <2>6. QED BY <2>4, <2>5
<1>15. ASSUME NEW m \in Sav, Newest(m)' PROVE Newest(m)
  <2>1. \A s \in Sav : s = m \/ Before(s, m, 0)' BY <1>5, <1>15 DEF Newest
  <2>2. \A s \in Sav : s # m => (Before(s, m, 0)' <=> Before(s, m, 0)) BY <1>1, <1>2
  <2>3. QED BY <2>1, <2>2 DEF Newest
<1>16. Sav \subseteq Sav' /\ Sav' \subseteq Sav \cup {r} BY <1>5
<1>17. QED
  BY <1>1, <1>3, <1>5, <1>8, <1>10, <1>11, <1>12, <1>13, <1>14, <1>15, <1>16
-----------------------------------------------------------------------------
(* The invariant, step by step.                                            *)
LEMMA OverlapInit == SettingsInit => Overlap
<1> SUFFICES ASSUME SettingsInit PROVE Overlap OBVIOUS
<1>1. Sav = {} /\ \A p \in Pages : Idle(p) BY DEF SettingsInit, Sav, Idle
<1>2. TokenWritten = {} /\ ChatWritten = {} BY <1>1 DEF TokenWritten, Tok, ChatWritten
<1>3. Last(serial) = view
  <2>1. serial = <<view>> BY DEF SettingsInit
  <2>2. QED BY <2>1 DEF Last
<1>4. ViewInv BY <1>2, <1>3 DEF ViewInv, TokenOf, ChatOf, Stored
<1>5. CommitInv /\ PageInv /\ ShownInv /\ LiveInv
  BY <1>1 DEF SettingsInit, CommitInv, PageInv, ShownInv, LiveInv
<1>6. QED BY <1>4, <1>5 DEF Overlap

LEMMA OverlapArrive ==
  ASSUME Sound, Overlap, NEW r \in Requests, NEW list \in Seq(CallNames), list # <<>>,
         Arrive(r, list), NEW n \in 4..8, Left(r)' = n,
         \A s \in Requests \ {r} : Left(s)' = Left(s) /\ body'[s] = body[s],
         r \in Saves => n = IF EntersToken(body'[r].token) THEN 8 ELSE 6
  PROVE  Overlap'
<1>1. /\ Sav \subseteq Sav' /\ Sav' \subseteq Sav \cup {r} /\ r \notin Pending
      /\ r \in Saves => r \in Sav'
      /\ r \notin Saves => Sav' = Sav
      /\ TokenWritten' = TokenWritten /\ ChatWritten' = ChatWritten
      /\ \A s \in Requests \ {r} : calls'[s] = calls[s]
      /\ \A s \in Sav : NewTokens'[s] = NewTokens[s] /\ NewChats'[s] = NewChats[s]
      /\ \A s, t \in Sav : s # t => (<<s, t>> \in Order' <=> <<s, t>> \in Order)
      /\ \A p \in Pages \ {r} : ~Idle(p) =>
           /\ Left(p) <= 3 => (Tok \cap Seen(p))' = Tok \cap Seen(p)
           /\ Left(p) <= 1 => Seen(p)' = Seen(p)
      /\ \A m \in Sav : (Tok \cap UpTo(m))' = Tok \cap UpTo(m)
      /\ \A m \in Sav : Newest(m)' => Newest(m)
  BY ArriveKeeps
<1>2. UNCHANGED <<view, committed, live, got, serial, shown, booted>> BY DEF Arrive
<1>3. /\ \A s \in Sav : s \in Requests \ {r} /\ s \in Saves
      /\ TokenWritten \subseteq Sav /\ ChatWritten \subseteq Sav /\ Tok \subseteq Sav
      /\ \A p \in Pages : p \in Requests
  BY <1>1, SavPending
<1>4. ASSUME NEW v, NEW R \in SUBSET Sav
      PROVE  /\ TokenOf(v, R) => Stored(v, R, Order', Last(serial).token, NewTokens')
             /\ ChatOf(v, R) => Stored(v, R, Order', Last(serial).chat, NewChats')
  <2>1. ASSUME TokenOf(v, R)
        PROVE  Stored(v, R, Order', Last(serial).token, NewTokens')
    BY <1>1, <2>1, StoredSame DEF TokenOf
  <2>2. ASSUME ChatOf(v, R)
        PROVE  Stored(v, R, Order', Last(serial).chat, NewChats')
    BY <1>1, <2>2, StoredSame DEF ChatOf
  <2>3. QED BY <2>1, <2>2
<1>5. ViewInv'
  <2>1. Stored(view.token, TokenWritten, Order', Last(serial).token, NewTokens')
        /\ Stored(view.chat, ChatWritten, Order', Last(serial).chat, NewChats')
    BY <1>3, <1>4 DEF Overlap, ViewInv
  <2>2. QED BY <1>1, <1>2, <2>1 DEF ViewInv, TokenOf, ChatOf
<1>6. CommitInv'
  <2>1. \A s \in Sav : s \in Sav' /\ Left(s)' = Left(s) BY <1>1, <1>3
  <2>2. QED BY <1>2, <2>1 DEF Overlap, CommitInv
<1>7. PageInv'
  <2> SUFFICES ASSUME NEW p \in Pages, ~Idle(p)'
               PROVE  /\ Left(p)' <= 3 => TokenOf(got[p].token, Tok \cap Seen(p))'
                      /\ Left(p)' <= 1 => ChatOf(got[p].chat, Seen(p))'
    BY DEF PageInv
  <2>1. CASE p = r BY <2>1
  <2>2. CASE p # r
    <3>1. /\ ~Idle(p) /\ Left(p)' = Left(p) /\ got'[p] = got[p]
          /\ Left(p) <= 3 => TokenOf(got[p].token, Tok \cap Seen(p))
          /\ Left(p) <= 1 => ChatOf(got[p].chat, Seen(p))
      BY <1>1, <1>2, <1>3, <2>2 DEF Idle, Overlap, PageInv
    <3>2. Tok \cap Seen(p) \subseteq Sav /\ Seen(p) \subseteq Sav BY DEF Seen
    <3>3. ASSUME Left(p) <= 3 PROVE TokenOf(got[p].token, Tok \cap Seen(p))'
      <4>1. Stored(got[p].token, Tok \cap Seen(p), Order', Last(serial).token, NewTokens')
        BY <1>4, <3>1, <3>2, <3>3
      <4>2. (Tok \cap Seen(p))' = Tok \cap Seen(p) BY <1>1, <2>2, <3>1, <3>3
      <4>3. QED BY <1>2, <3>1, <4>1, <4>2 DEF TokenOf
    <3>4. ASSUME Left(p) <= 1 PROVE ChatOf(got[p].chat, Seen(p))'
      <4>1. Stored(got[p].chat, Seen(p), Order', Last(serial).chat, NewChats')
        BY <1>4, <3>1, <3>2, <3>4
      <4>2. Seen(p)' = Seen(p) BY <1>1, <2>2, <3>1, <3>4
      <4>3. QED BY <1>2, <3>1, <4>1, <4>2 DEF ChatOf
    <3>5. QED BY <3>1, <3>3, <3>4
  <2>3. QED BY <2>1, <2>2
<1>8. ShownInv'
  <2> SUFFICES ASSUME NEW x \in shown, x \notin ToSet(serial)
               PROVE  Foreseen(x)'
    BY <1>2 DEF ShownInv
  <2>1. PICK m \in Sav : x.chat = body[m].chat /\ TokenOf(x.token, Tok \cap UpTo(m))
    BY DEF Overlap, ShownInv, Foreseen
  <2>2. m \in Sav' /\ body'[m] = body[m] /\ (Tok \cap UpTo(m))' = Tok \cap UpTo(m)
    BY <1>1, <1>3
  <2>3. Tok \cap UpTo(m) \subseteq Sav BY DEF UpTo
  <2>4. Stored(x.token, Tok \cap UpTo(m), Order', Last(serial).token, NewTokens')
    BY <1>4, <2>1, <2>3
  <2>5. TokenOf(x.token, Tok \cap UpTo(m))' BY <1>2, <2>2, <2>4 DEF TokenOf
  <2>6. x.chat = body'[m].chat BY <2>1, <2>2
  <2>7. QED BY <2>2, <2>5, <2>6 DEF Foreseen
<1>9. LiveInv'
  <2>1. Sav' = {} => live' = IF booted' THEN WithEnv(view') ELSE view'
    BY <1>1, <1>2 DEF Overlap, LiveInv
  <2>2. ASSUME NEW s \in Sav', Newest(s)'
        PROVE  /\ Left(s)' <= 3 => got'[s].token = view'.token
               /\ Left(s)' <= 1 => got'[s].chat = view'.chat
    <3>1. CASE s = r BY <3>1
    <3>2. CASE s # r
      <4>1. s \in Sav /\ Newest(s) /\ Left(s)' = Left(s) BY <1>1, <1>3, <2>2, <3>2
      <4>2. QED BY <1>2, <4>1 DEF Overlap, LiveInv
    <3>3. QED BY <3>1, <3>2
  <2>3. QED BY <2>1, <2>2 DEF LiveInv
<1>10. QED BY <1>5, <1>6, <1>7, <1>8, <1>9 DEF Overlap

\* A call that is not the last: only what is written and read changes.
LEMMA OverlapTurn ==
  ASSUME Sound, Overlap, Call, NEW h, h = Head(sqlq), NEW n, n = Left(h), n > 1
  PROVE  Overlap'
<1>1. /\ Turn(h) /\ h \in Requests /\ n \in 1..8
      /\ n > 4 => h \in Saves
      /\ n > 6 => h \in Saves /\ EntersToken(body[h].token)
      /\ view' \in Rows
      /\ view'.token = IF n = 8 THEN body[h].token ELSE view.token
      /\ view'.chat = IF n = 6 THEN body[h].chat ELSE view.chat
      /\ n \notin {6, 8} => view' = view
      /\ committed' = IF n \in {5, 7} THEN view ELSE committed
      /\ \A r \in Requests \ {h} : got'[r] = got[r]
      /\ got'[h].token = IF n = 4 THEN view.token ELSE got[h].token
      /\ got'[h].chat = IF n = 2 THEN view.chat ELSE got[h].chat
      /\ UNCHANGED <<body, live, booted, serial, shown>>
  BY CallEffect
<1>2. /\ Left(h)' = n - 1 /\ \A s \in Requests \ {h} : Left(s)' = Left(s) BY <1>1, TurnLeft
<1>3. /\ Sav' = Sav /\ Tok' = Tok /\ NewTokens' = NewTokens /\ NewChats' = NewChats
      /\ \A r \in Requests : calls'[r] = <<>> <=> Idle(r)
      /\ \A r, s \in Sav : r # s => (<<r, s>> \in Order' <=> <<r, s>> \in Order)
      /\ \A p \in Pages : ~Idle(p) => Seen(p)' = Seen(p)
      /\ \A m \in Sav : UpTo(m)' = UpTo(m)
      /\ \A m \in Sav : Newest(m)' <=> Newest(m)
  BY <1>1, TurnKeeps
<1>4. /\ \A s \in Sav : s \in Pending /\ s \in Requests /\ s \in Saves /\ Left(s) \in 1..8
      /\ TokenWritten \subseteq Sav /\ ChatWritten \subseteq Sav /\ Tok \subseteq Sav
      /\ \A p \in Pages : p \in Requests /\ p \notin Saves /\ (~Idle(p) => p \in Pending)
      /\ h \in Pending
  <2>1. h \in Pending BY <1>1, HeadTurn DEF Pending, Sound
  <2>2. QED BY <2>1, SavPending
<1>5. \A s \in Pending \ {h} : /\ Before(s, h, 0) <=> Left(s) < n
                               /\ Before(s, h, 4) <=> Left(s) < n + 4
                               /\ Before(h, s, 0) <=> n <= Left(s)
  BY <1>1, HeadBefore
<1>6. h \in Saves => h \in Sav BY <1>4 DEF Sav, Pending
<1>7. ASSUME NEW v, NEW R \in SUBSET Sav
      PROVE  /\ TokenOf(v, R) => Stored(v, R, Order', Last(serial).token, NewTokens')
             /\ ChatOf(v, R) => Stored(v, R, Order', Last(serial).chat, NewChats')
  <2>1. ASSUME TokenOf(v, R)
        PROVE  Stored(v, R, Order', Last(serial).token, NewTokens')
    BY <1>3, <2>1, StoredSame DEF TokenOf
  <2>2. ASSUME ChatOf(v, R)
        PROVE  Stored(v, R, Order', Last(serial).chat, NewChats')
    BY <1>3, <2>2, StoredSame DEF ChatOf
  <2>3. QED BY <2>1, <2>2
\* The rows.
<1>8. Stored(view'.token, TokenWritten', Order', Last(serial).token, NewTokens')
  <2>1. CASE n = 8
    <3>1. h \in Sav /\ h \in Tok BY <1>1, <1>6, <2>1 DEF Tok
    <3>2. h \in TokenWritten' BY <1>2, <1>3, <2>1, <3>1 DEF TokenWritten
    <3>3. NewTokens'[h] = view'.token BY <1>1, <1>3, <2>1 DEF NewTokens
    <3>4. ASSUME NEW r \in TokenWritten' \ {h} PROVE <<r, h>> \in Order'
      <4>1. r \in Sav /\ r # h /\ Left(r) <= 7 BY <1>2, <1>3, <1>4 DEF TokenWritten
      <4>2. Before(r, h, 0) BY <1>4, <1>5, <2>1, <4>1
      <4>3. <<r, h>> \in Order BY <1>1, <1>4, <4>1, <4>2, OrderPairs
      <4>4. QED BY <1>3, <3>1, <4>1, <4>3
    <3>5. QED BY <3>2, <3>3, <3>4 DEF Stored
  <2>2. CASE n # 8
    <3>1. TokenWritten' = TokenWritten
      <4>1. \A s \in Tok : Left(s)' <= 7 <=> Left(s) <= 7 BY <1>1, <1>2, <1>4, <2>2
      <4>2. QED BY <1>3, <4>1 DEF TokenWritten
    <3>2. TokenOf(view'.token, TokenWritten) BY <1>1, <2>2 DEF Overlap, ViewInv
    <3>3. QED BY <1>4, <1>7, <3>1, <3>2
  <2>3. QED BY <2>1, <2>2
<1>9. Stored(view'.chat, ChatWritten', Order', Last(serial).chat, NewChats')
  <2>1. CASE n = 6
    <3>1. h \in Sav BY <1>1, <1>6, <2>1
    <3>2. h \in ChatWritten' BY <1>2, <1>3, <2>1, <3>1 DEF ChatWritten
    <3>3. NewChats'[h] = view'.chat BY <1>1, <1>3, <2>1 DEF NewChats
    <3>4. ASSUME NEW r \in ChatWritten' \ {h} PROVE <<r, h>> \in Order'
      <4>1. r \in Sav /\ r # h /\ Left(r) <= 5 BY <1>2, <1>3, <1>4 DEF ChatWritten
      <4>2. Before(r, h, 0) BY <1>4, <1>5, <2>1, <4>1
      <4>3. <<r, h>> \in Order BY <1>1, <1>4, <4>1, <4>2, OrderPairs
      <4>4. QED BY <1>3, <3>1, <4>1, <4>3
    <3>5. QED BY <3>2, <3>3, <3>4 DEF Stored
  <2>2. CASE n # 6
    <3>1. ChatWritten' = ChatWritten
      <4>1. \A s \in Sav : Left(s)' <= 5 <=> Left(s) <= 5 BY <1>1, <1>2, <1>4, <2>2
      <4>2. QED BY <1>3, <4>1 DEF ChatWritten
    <3>2. ChatOf(view'.chat, ChatWritten) BY <1>1, <2>2 DEF Overlap, ViewInv
    <3>3. QED BY <1>4, <1>7, <3>1, <3>2
  <2>3. QED BY <2>1, <2>2
<1>10. ViewInv' BY <1>1, <1>8, <1>9 DEF ViewInv, TokenOf, ChatOf
<1>11. CommitInv'
  <2>1. CASE n \in {6, 8}
    <3>1. h \in Sav' /\ Left(h)' \in {5, 7} BY <1>1, <1>2, <1>3, <1>6, <2>1
    <3>2. QED BY <3>1 DEF CommitInv
  <2>2. CASE n \in {5, 7}
    <3>1. view' = view /\ committed' = view BY <1>1, <2>2
    <3>2. QED BY <3>1 DEF CommitInv
  <2>3. CASE n \notin {5, 6, 7, 8}
    <3>1. view' = view /\ committed' = committed BY <1>1, <2>3
    <3>2. \A s \in Sav : Left(s) \in {5, 7} => Left(s)' = Left(s) BY <1>2, <1>4, <2>3
    <3>3. QED BY <1>3, <3>1, <3>2 DEF Overlap, CommitInv
  <2>4. QED BY <1>1, <2>1, <2>2, <2>3
\* The pages.
<1>12. ASSUME NEW p \in Pages, ~Idle(p)
       PROVE  /\ Left(p)' <= 3 => TokenOf(got[p].token, Tok \cap Seen(p))'
              /\ Left(p)' <= 1 => ChatOf(got[p].chat, Seen(p))'
  <2>1. Seen(p)' = Seen(p) /\ (Tok \cap Seen(p))' = Tok \cap Seen(p) BY <1>3, <1>12
  <2>2. Tok \cap Seen(p) \subseteq Sav /\ Seen(p) \subseteq Sav BY DEF Seen
  <2>3. ASSUME Left(p)' <= 3 PROVE TokenOf(got'[p].token, Tok \cap Seen(p))
    <3>1. CASE p = h /\ n = 4
      <4>1. got'[p].token = view.token BY <1>1, <3>1
      <4>2. \A s \in Sav : Before(s, p, 4) <=> Left(s) <= 7 BY <1>4, <1>5, <3>1
      <4>3. Tok \cap Seen(p) = TokenWritten BY <1>4, <4>2 DEF Seen, TokenWritten
      <4>4. QED BY <4>1, <4>3 DEF Overlap, ViewInv
    <3>2. CASE p # h \/ n # 4
      <4>1. Left(p) <= 3 /\ got'[p].token = got[p].token BY <1>1, <1>2, <1>4, <2>3, <3>2
      <4>2. QED BY <1>12, <4>1 DEF Overlap, PageInv
    <3>3. QED BY <3>1, <3>2
  <2>4. ASSUME Left(p)' <= 1 PROVE ChatOf(got'[p].chat, Seen(p))
    <3>1. CASE p = h /\ n = 2
      <4>1. got'[p].chat = view.chat BY <1>1, <3>1
      <4>2. \A s \in Sav : Before(s, p, 4) <=> Left(s) <= 5 BY <1>4, <1>5, <3>1
      <4>3. Seen(p) = ChatWritten BY <4>2 DEF Seen, ChatWritten
      <4>4. QED BY <4>1, <4>3 DEF Overlap, ViewInv
    <3>2. CASE p # h \/ n # 2
      <4>1. Left(p) <= 1 /\ got'[p].chat = got[p].chat BY <1>1, <1>2, <1>4, <2>4, <3>2
      <4>2. QED BY <1>12, <4>1 DEF Overlap, PageInv
    <3>3. QED BY <3>1, <3>2
  <2>5. ASSUME Left(p)' <= 3 PROVE TokenOf(got[p].token, Tok \cap Seen(p))'
    <3>1. Stored(got'[p].token, Tok \cap Seen(p), Order', Last(serial).token, NewTokens')
      BY <1>7, <2>2, <2>3, <2>5
    <3>2. QED BY <1>1, <2>1, <3>1 DEF TokenOf
  <2>6. ASSUME Left(p)' <= 1 PROVE ChatOf(got[p].chat, Seen(p))'
    <3>1. Stored(got'[p].chat, Seen(p), Order', Last(serial).chat, NewChats')
      BY <1>7, <2>2, <2>4, <2>6
    <3>2. QED BY <1>1, <2>1, <3>1 DEF ChatOf
  <2>7. QED BY <2>5, <2>6
<1>13. PageInv' BY <1>3, <1>4, <1>12 DEF PageInv, Idle
<1>14. ShownInv'
  <2> SUFFICES ASSUME NEW x \in shown, x \notin ToSet(serial)
               PROVE  Foreseen(x)'
    BY <1>1 DEF ShownInv
  <2>1. PICK m \in Sav : x.chat = body[m].chat /\ TokenOf(x.token, Tok \cap UpTo(m))
    BY DEF Overlap, ShownInv, Foreseen
  <2>2. Tok \cap UpTo(m) \subseteq Sav BY DEF UpTo
  <2>3. Stored(x.token, Tok \cap UpTo(m), Order', Last(serial).token, NewTokens')
    BY <1>7, <2>1, <2>2
  <2>4. (Tok \cap UpTo(m))' = Tok \cap UpTo(m) BY <1>3
  <2>5. TokenOf(x.token, Tok \cap UpTo(m))' BY <1>1, <2>3, <2>4 DEF TokenOf
  <2>6. m \in Sav' /\ x.chat = body'[m].chat BY <1>1, <1>3, <2>1
  <2>7. QED BY <2>5, <2>6 DEF Foreseen
\* The notifier.
<1>15. LiveInv'
  <2>1. ASSUME Sav' = {} PROVE live' = IF booted' THEN WithEnv(view') ELSE view'
    <3>1. Sav = {} /\ h \notin Saves BY <1>3, <1>6, <2>1
    <3>2. view' = view BY <1>1, <3>1
    <3>3. live = IF booted THEN WithEnv(view) ELSE view BY <3>1 DEF Overlap, LiveInv
    <3>4. QED BY <1>1, <3>2, <3>3
  <2>2. ASSUME NEW r \in Sav', Newest(r)'
        PROVE  /\ Left(r)' <= 3 => got'[r].token = view'.token
               /\ Left(r)' <= 1 => got'[r].chat = view'.chat
    <3>1. r \in Sav /\ Newest(r) /\ r \in Requests BY <1>3, <1>4, <2>2
    <3>2. /\ Left(r) <= 3 => got[r].token = view.token
          /\ Left(r) <= 1 => got[r].chat = view.chat
      BY <3>1 DEF Overlap, LiveInv
    <3>3. CASE r = h
      <4>1. CASE n <= 4
        <5>1. view' = view /\ Left(h)' = n - 1 BY <1>1, <1>2, <4>1
        <5>2. ASSUME Left(h)' <= 3 PROVE got'[h].token = view.token
          BY <1>1, <3>2, <3>3, <4>1
        <5>3. ASSUME Left(h)' <= 1 PROVE got'[h].chat = view.chat
          BY <1>1, <3>2, <3>3, <4>1, <5>1, <5>3
        <5>4. QED BY <3>3, <5>1, <5>2, <5>3
      <4>2. CASE n > 4 BY <1>1, <1>2, <3>3, <4>2
      <4>3. QED BY <1>1, <4>1, <4>2
    <3>4. CASE r # h
      <4>1. Left(r)' = Left(r) /\ got'[r] = got[r] BY <1>1, <1>2, <3>1, <3>4
      <4>2. Left(r) <= 3 => view' = view
        <5>1. CASE h \in Saves
          <6>1. Before(h, r, 0) BY <1>6, <3>1, <3>4, <5>1 DEF Newest
          <6>2. n <= Left(r) BY <1>4, <1>5, <3>1, <3>4, <6>1
          <6>3. QED BY <1>1, <1>4, <3>1, <6>2
        <5>2. CASE h \notin Saves BY <1>1, <5>2
        <5>3. QED BY <5>1, <5>2
      <4>3. Left(r) <= 1 => Left(r) <= 3 BY <1>4, <3>1
      <4>4. QED BY <3>2, <4>1, <4>2, <4>3
    <3>5. QED BY <3>3, <3>4
  <2>3. QED BY <2>1, <2>2 DEF LiveInv
<1>16. QED BY <1>10, <1>11, <1>13, <1>14, <1>15 DEF Overlap

\* A save is answered: the rows it leaves are the old ones for all others.
LEMMA OverlapSaved ==
  ASSUME Sound, Overlap, Call, NEW h, h = Head(sqlq), Left(h) = 1, Configure(h)
  PROVE  Overlap'
<1>0. PICK n : n = Left(h) OBVIOUS
<1>1. /\ Turn(h) /\ h \in Requests /\ n = 1
      /\ view' = view /\ committed' = committed
      /\ \A r \in Requests \ {h} : got'[r] = got[r] /\ body'[r] = body[r]
  <2>1. /\ Turn(h) /\ h \in Requests
        /\ n \notin {6, 8} => view' = view
        /\ committed' = IF n \in {5, 7} THEN view ELSE committed
        /\ \A r \in Requests \ {h} : got'[r] = got[r] /\ body'[r] = body[r]
    BY <1>0, CallEffect
  <2>2. n = 1 BY <1>0
  <2>3. QED BY <2>1, <2>2
<1>2. /\ h \in Saves /\ live' = got[h] /\ booted' = FALSE /\ shown' = shown
      /\ serial' = Append(serial, Apply(Last(serial), body[h]))
  BY DEF Configure
<1>3. \A s \in Requests \ {h} : Left(s)' = Left(s) BY <1>1, TurnLeft
<1>4. /\ Sav' = Sav \ {h} /\ Tok' = Tok \ {h}
      /\ TokenWritten' = TokenWritten \ {h} /\ ChatWritten' = ChatWritten \ {h}
      /\ calls'[h] = <<>> /\ \A r \in Requests \ {h} : calls'[r] = <<>> <=> Idle(r)
      /\ \A r \in Sav \ {h} : NewTokens'[r] = NewTokens[r] /\ NewChats'[r] = NewChats[r]
      /\ \A r, s \in Sav \ {h} : r # s => (<<r, s>> \in Order' <=> <<r, s>> \in Order)
      /\ \A p \in Pages \ {h} : ~Idle(p) => Seen(p)' = Seen(p) \ {h}
      /\ \A m \in Sav \ {h} : UpTo(m)' = UpTo(m) \ {h}
      /\ \A m \in Sav \ {h} : Newest(m)' => Newest(m)
  BY <1>1, TurnLeaves
<1>5. h \in Sav
  <2>1. ~Idle(h) BY <1>1, HeadTurn DEF Sound
  <2>2. QED BY <1>2, <2>1 DEF Sav
<1>6. /\ h \in ChatWritten /\ (h \in Tok <=> h \in TokenWritten) /\ UpTo(h) = {h}
      /\ \A r \in Sav \ {h} : <<r, h>> \notin Order
      /\ \A p \in Pages : ~Idle(p) => h \in Seen(p)
      /\ \A m \in Sav : h \in UpTo(m)
      /\ Sav = {h} => Newest(h)
  BY <1>1, <1>5, LeaverFirst
<1>7. /\ \A s \in Sav : s \in Requests /\ s \in Saves
      /\ TokenWritten \subseteq Sav /\ ChatWritten \subseteq Sav /\ Tok \subseteq Sav
      /\ \A p \in Pages : p \in Requests /\ p \notin Saves
  BY SavPending
\* The rows it leaves.
<1> DEFINE left == Apply(Last(serial), body[h])
<1>8. /\ Last(serial') = left /\ left \in Rows /\ ToSet(serial') = ToSet(serial) \cup {left}
      /\ left.chat = NewChats[h]
      /\ left.token = IF h \in Tok THEN NewTokens[h] ELSE Last(serial).token
  <2>1. body[h] \in Bodies BY <1>1 DEF Sound, SettingsTypeOK, Requests
  <2>2. /\ left \in Rows /\ left.chat = body[h].chat
        /\ left.token = IF EntersToken(body[h].token) THEN body[h].token ELSE Last(serial).token
        /\ Last(Append(serial, left)) = left
        /\ ToSet(Append(serial, left)) = ToSet(serial) \cup {left}
    BY <2>1, LastRow
  <2>3. NewChats[h] = body[h].chat /\ NewTokens[h] = body[h].token
        /\ (h \in Tok <=> EntersToken(body[h].token))
    BY <1>1, <1>5 DEF NewChats, NewTokens, Tok
  <2>4. QED BY <1>2, <2>2, <2>3
<1> HIDE DEF left
<1>9. ASSUME NEW v, NEW R \in SUBSET Sav
      PROVE  /\ TokenOf(v, R) /\ (h \in R <=> h \in Tok)
                  => Stored(v, R \ {h}, Order', Last(serial').token, NewTokens')
             /\ ChatOf(v, R) /\ h \in R
                  => Stored(v, R \ {h}, Order', Last(serial').chat, NewChats')
  <2>1. /\ \A r, s \in R \ {h} : r # s /\ <<r, s>> \in Order => <<r, s>> \in Order'
        /\ \A r \in R \ {h} : NewTokens'[r] = NewTokens[r] /\ NewChats'[r] = NewChats[r]
        /\ \A r \in R \ {h} : <<r, h>> \notin Order
    BY <1>4, <1>6
  <2>2. ASSUME TokenOf(v, R), h \in R <=> h \in Tok
        PROVE  Stored(v, R \ {h}, Order', Last(serial').token, NewTokens')
    <3>1. /\ h \in R => Last(serial').token = NewTokens[h]
          /\ h \notin R => Last(serial').token = Last(serial).token
      BY <1>8, <2>2
    <3>2. Stored(v, R, Order, Last(serial).token, NewTokens) BY <2>2 DEF TokenOf
    <3>3. QED BY <2>1, <3>1, <3>2, StoredKept
  <2>3. ASSUME ChatOf(v, R), h \in R
        PROVE  Stored(v, R \ {h}, Order', Last(serial').chat, NewChats')
    <3>1. Last(serial').chat = NewChats[h] BY <1>8
    <3>2. Stored(v, R, Order, Last(serial).chat, NewChats) BY <2>3 DEF ChatOf
    <3>3. QED BY <2>1, <2>3, <3>1, <3>2, StoredKept
  <2>4. QED BY <2>2, <2>3
<1>10. ViewInv'
  <2>1. TokenOf(view.token, TokenWritten) /\ ChatOf(view.chat, ChatWritten)
    BY DEF Overlap, ViewInv
  <2>2. /\ Stored(view.token, TokenWritten \ {h}, Order', Last(serial').token, NewTokens')
        /\ Stored(view.chat, ChatWritten \ {h}, Order', Last(serial').chat, NewChats')
    BY <1>6, <1>7, <1>9, <2>1
  <2>3. QED BY <1>1, <1>4, <2>2 DEF ViewInv, TokenOf, ChatOf
<1>11. CommitInv'
  <2>1. Left(h) \notin {5, 7} BY <1>0, <1>1
  <2>2. \A s \in Sav : Left(s) \in {5, 7} => s \in Sav' /\ Left(s)' \in {5, 7}
    BY <1>3, <1>4, <1>7, <2>1
  <2>3. QED BY <1>1, <2>2 DEF Overlap, CommitInv
<1>12. ASSUME NEW p \in Pages, ~Idle(p)
       PROVE  /\ Left(p)' <= 3 => TokenOf(got[p].token, Tok \cap Seen(p))'
              /\ Left(p)' <= 1 => ChatOf(got[p].chat, Seen(p))'
  <2>1. /\ p # h /\ Left(p)' = Left(p) /\ got'[p] = got[p]
        /\ Seen(p)' = Seen(p) \ {h} /\ h \in Seen(p)
    BY <1>1, <1>2, <1>3, <1>4, <1>6, <1>7, <1>12
  <2>2. Tok \cap Seen(p) \subseteq Sav /\ Seen(p) \subseteq Sav BY DEF Seen
  <2>3. (Tok \cap Seen(p))' = (Tok \cap Seen(p)) \ {h} BY <1>4, <2>1
  <2>4. ASSUME Left(p) <= 3 PROVE TokenOf(got[p].token, Tok \cap Seen(p))'
    <3>1. TokenOf(got[p].token, Tok \cap Seen(p)) BY <1>12, <2>4 DEF Overlap, PageInv
    <3>2. Stored(got[p].token, (Tok \cap Seen(p)) \ {h}, Order', Last(serial').token, NewTokens')
      BY <1>9, <2>1, <2>2, <3>1
    <3>3. QED BY <2>1, <2>3, <3>2 DEF TokenOf
  <2>5. ASSUME Left(p) <= 1 PROVE ChatOf(got[p].chat, Seen(p))'
    <3>1. ChatOf(got[p].chat, Seen(p)) BY <1>12, <2>5 DEF Overlap, PageInv
    <3>2. Stored(got[p].chat, Seen(p) \ {h}, Order', Last(serial').chat, NewChats')
      BY <1>9, <2>1, <2>2, <3>1
    <3>3. QED BY <2>1, <3>2 DEF ChatOf
  <2>6. QED BY <2>1, <2>4, <2>5
<1>13. PageInv'
  <2>1. \A p \in Pages : Idle(p)' <=> Idle(p) BY <1>2, <1>4, <1>7 DEF Idle
  <2>2. QED BY <1>12, <2>1 DEF PageInv
<1>14. ShownInv'
  <2> SUFFICES ASSUME NEW x \in shown, x \notin ToSet(serial)
               PROVE  x \in ToSet(serial') \/ Foreseen(x)'
    BY <1>2, <1>8 DEF ShownInv
  <2>1. PICK m \in Sav : x.chat = body[m].chat /\ TokenOf(x.token, Tok \cap UpTo(m))
    BY DEF Overlap, ShownInv, Foreseen
  <2>2. CASE m = h
    <3>1. x.chat = left.chat BY <1>1, <1>8, <2>1, <2>2 DEF NewChats
    <3>2. Tok \cap UpTo(m) = IF h \in Tok THEN {h} ELSE {} BY <1>6, <2>2
    <3>3. x.token = left.token BY <1>8, <2>1, <3>2 DEF TokenOf, Stored
    <3>4. x \in Rows BY DEF Sound, SettingsTypeOK
    <3>5. x = left BY <1>8, <3>1, <3>3, <3>4, RowsEqual
    <3>6. QED BY <1>8, <3>5
  <2>3. CASE m # h
    <3>1. /\ m \in Sav' /\ body'[m] = body[m] /\ UpTo(m)' = UpTo(m) \ {h} /\ h \in UpTo(m)
      BY <1>1, <1>4, <1>6, <1>7, <2>3
    <3>2. Tok \cap UpTo(m) \subseteq Sav BY DEF UpTo
    <3>3. (Tok \cap UpTo(m))' = (Tok \cap UpTo(m)) \ {h} BY <1>4, <3>1
    <3>4. Stored(x.token, (Tok \cap UpTo(m)) \ {h}, Order', Last(serial').token, NewTokens')
      BY <1>9, <2>1, <3>1, <3>2
    <3>5. TokenOf(x.token, Tok \cap UpTo(m))' BY <3>3, <3>4 DEF TokenOf
    <3>6. x.chat = body'[m].chat BY <2>1, <3>1
    <3>7. QED BY <3>1, <3>5, <3>6 DEF Foreseen
  <2>4. QED BY <2>2, <2>3
<1>15. LiveInv'
  <2>1. ASSUME Sav' = {} PROVE live' = IF booted' THEN WithEnv(view') ELSE view'
    <3>1. Newest(h) BY <1>4, <1>5, <1>6, <2>1
    <3>2. got[h].token = view.token /\ got[h].chat = view.chat
      BY <1>0, <1>1, <1>5, <3>1 DEF Overlap, LiveInv
    <3>3. got[h] \in Rows /\ view \in Rows BY <1>1 DEF Sound, SettingsTypeOK, Requests
    <3>4. got[h] = view BY <3>2, <3>3, RowsEqual
    <3>5. QED BY <1>1, <1>2, <3>4
  <2>2. ASSUME NEW r \in Sav', Newest(r)'
        PROVE  /\ Left(r)' <= 3 => got'[r].token = view'.token
               /\ Left(r)' <= 1 => got'[r].chat = view'.chat
    <3>1. r \in Sav \ {h} BY <1>4
    <3>2. /\ Newest(r) /\ Left(r)' = Left(r) /\ got'[r] = got[r]
      BY <1>1, <1>3, <1>4, <1>7, <2>2, <3>1
    <3>3. QED BY <1>1, <3>1, <3>2 DEF Overlap, LiveInv
  <2>3. QED BY <2>1, <2>2 DEF LiveInv
<1>16. QED BY <1>10, <1>11, <1>13, <1>14, <1>15 DEF Overlap

\* A page is answered: what it has read is in the table, or will be, in one piece.
LEMMA OverlapShown ==
  ASSUME Sound, Overlap, Call, NEW h, h = Head(sqlq), Left(h) = 1, Display(h)
  PROVE  Overlap'
<1>0. PICK n : n = Left(h) OBVIOUS
<1>1. /\ Turn(h) /\ h \in Requests /\ n = 1
      /\ view' = view /\ committed' = committed
      /\ \A r \in Requests \ {h} : got'[r] = got[r] /\ body'[r] = body[r]
  <2>1. /\ Turn(h) /\ h \in Requests
        /\ n \notin {6, 8} => view' = view
        /\ committed' = IF n \in {5, 7} THEN view ELSE committed
        /\ \A r \in Requests \ {h} : got'[r] = got[r] /\ body'[r] = body[r]
    BY <1>0, CallEffect
  <2>2. n = 1 BY <1>0
  <2>3. QED BY <2>1, <2>2
<1>2. h \in Pages /\ shown' = shown \cup {got[h]} /\ UNCHANGED <<live, booted, serial>>
  BY DEF Display
<1>3. \A s \in Requests \ {h} : Left(s)' = Left(s) BY <1>1, TurnLeft
<1>4. /\ \A s \in Sav : s \in Requests /\ s \in Saves /\ s \in Pending /\ s # h
                        /\ Left(s) \in 1..8
      /\ TokenWritten \subseteq Sav /\ ChatWritten \subseteq Sav /\ Tok \subseteq Sav
      /\ \A p \in Pages : p \in Requests
  BY <1>2, SavPending
<1>5. h \notin Sav /\ h \notin Tok /\ h \notin TokenWritten /\ h \notin ChatWritten BY <1>4
<1>6. /\ Sav' = Sav /\ Tok' = Tok
      /\ TokenWritten' = TokenWritten /\ ChatWritten' = ChatWritten
      /\ calls'[h] = <<>> /\ \A r \in Requests \ {h} : calls'[r] = <<>> <=> Idle(r)
      /\ \A r \in Sav : NewTokens'[r] = NewTokens[r] /\ NewChats'[r] = NewChats[r]
      /\ \A r, s \in Sav : r # s => (<<r, s>> \in Order' <=> <<r, s>> \in Order)
      /\ \A p \in Pages \ {h} : ~Idle(p) => Seen(p)' = Seen(p)
      /\ \A m \in Sav : UpTo(m)' = UpTo(m)
      /\ \A m \in Sav : Newest(m)' => Newest(m)
  <2>1. \A p : h \notin Seen(p) /\ h \notin UpTo(p) BY <1>5 DEF Seen, UpTo
  <2>2. /\ Sav \ {h} = Sav /\ Tok \ {h} = Tok
        /\ TokenWritten \ {h} = TokenWritten /\ ChatWritten \ {h} = ChatWritten
        /\ \A p : Seen(p) \ {h} = Seen(p) /\ UpTo(p) \ {h} = UpTo(p)
    BY <1>5, <2>1
  <2>3. /\ Sav' = Sav \ {h} /\ Tok' = Tok \ {h}
        /\ TokenWritten' = TokenWritten \ {h} /\ ChatWritten' = ChatWritten \ {h}
        /\ calls'[h] = <<>> /\ \A r \in Requests \ {h} : calls'[r] = <<>> <=> Idle(r)
        /\ \A r \in Sav \ {h} : NewTokens'[r] = NewTokens[r] /\ NewChats'[r] = NewChats[r]
        /\ \A r, s \in Sav \ {h} : r # s => (<<r, s>> \in Order' <=> <<r, s>> \in Order)
        /\ \A p \in Pages \ {h} : ~Idle(p) => Seen(p)' = Seen(p) \ {h}
        /\ \A m \in Sav \ {h} : UpTo(m)' = UpTo(m) \ {h}
        /\ \A m \in Sav \ {h} : Newest(m)' => Newest(m)
    BY <1>1, TurnLeaves
  <2>4. QED BY <2>2, <2>3
<1>7. ASSUME NEW v, NEW R \in SUBSET Sav
      PROVE  /\ TokenOf(v, R) => Stored(v, R, Order', Last(serial).token, NewTokens')
             /\ ChatOf(v, R) => Stored(v, R, Order', Last(serial).chat, NewChats')
  <2>1. ASSUME TokenOf(v, R)
        PROVE  Stored(v, R, Order', Last(serial).token, NewTokens')
    BY <1>6, <2>1, StoredSame DEF TokenOf
  <2>2. ASSUME ChatOf(v, R)
        PROVE  Stored(v, R, Order', Last(serial).chat, NewChats')
    BY <1>6, <2>2, StoredSame DEF ChatOf
  <2>3. QED BY <2>1, <2>2
<1>8. ViewInv'
  <2>1. Stored(view.token, TokenWritten, Order', Last(serial).token, NewTokens')
        /\ Stored(view.chat, ChatWritten, Order', Last(serial).chat, NewChats')
    BY <1>4, <1>7 DEF Overlap, ViewInv
  <2>2. QED BY <1>1, <1>2, <1>6, <2>1 DEF ViewInv, TokenOf, ChatOf
<1>9. CommitInv'
  <2>1. \A s \in Sav : s \in Sav' /\ Left(s)' = Left(s) BY <1>3, <1>4, <1>6
  <2>2. QED BY <1>1, <2>1 DEF Overlap, CommitInv
<1>10. PageInv'
  <2> SUFFICES ASSUME NEW p \in Pages, ~Idle(p)'
               PROVE  /\ Left(p)' <= 3 => TokenOf(got[p].token, Tok \cap Seen(p))'
                      /\ Left(p)' <= 1 => ChatOf(got[p].chat, Seen(p))'
    BY DEF PageInv
  <2>1. p # h /\ ~Idle(p) BY <1>4, <1>6 DEF Idle
  <2>2. /\ Left(p)' = Left(p) /\ got'[p] = got[p] /\ Seen(p)' = Seen(p)
        /\ (Tok \cap Seen(p))' = Tok \cap Seen(p)
    BY <1>1, <1>3, <1>4, <1>6, <2>1
  <2>3. Tok \cap Seen(p) \subseteq Sav /\ Seen(p) \subseteq Sav BY DEF Seen
  <2>4. ASSUME Left(p) <= 3 PROVE TokenOf(got[p].token, Tok \cap Seen(p))'
    <3>1. Stored(got[p].token, Tok \cap Seen(p), Order', Last(serial).token, NewTokens')
      BY <1>7, <2>1, <2>3, <2>4 DEF Overlap, PageInv
    <3>2. QED BY <1>2, <2>2, <3>1 DEF TokenOf
  <2>5. ASSUME Left(p) <= 1 PROVE ChatOf(got[p].chat, Seen(p))'
    <3>1. Stored(got[p].chat, Seen(p), Order', Last(serial).chat, NewChats')
      BY <1>7, <2>1, <2>3, <2>5 DEF Overlap, PageInv
    <3>2. QED BY <1>2, <2>2, <3>1 DEF ChatOf
  <2>6. QED BY <2>2, <2>4, <2>5
<1>11. ASSUME NEW x, Foreseen(x) PROVE Foreseen(x)'
  <2>1. PICK m \in Sav : x.chat = body[m].chat /\ TokenOf(x.token, Tok \cap UpTo(m))
    BY <1>11 DEF Foreseen
  <2>2. Tok \cap UpTo(m) \subseteq Sav BY DEF UpTo
  <2>3. Stored(x.token, Tok \cap UpTo(m), Order', Last(serial).token, NewTokens')
    BY <1>7, <2>1, <2>2
  <2>4. (Tok \cap UpTo(m))' = Tok \cap UpTo(m) BY <1>6
  <2>5. TokenOf(x.token, Tok \cap UpTo(m))' BY <1>2, <2>3, <2>4 DEF TokenOf
  <2>6. m \in Sav' /\ x.chat = body'[m].chat BY <1>1, <1>4, <1>6, <2>1
  <2>7. QED BY <2>5, <2>6 DEF Foreseen
\* What the page shows: the old rows, or those of the newest save it has seen.
<1>12. got[h] \in ToSet(serial) \/ Foreseen(got[h])
  <2>1. ~Idle(h) BY <1>1, HeadTurn DEF Sound
  <2>2. TokenOf(got[h].token, Tok \cap Seen(h)) /\ ChatOf(got[h].chat, Seen(h))
    BY <1>0, <1>1, <1>2, <2>1 DEF Overlap, PageInv
  <2>3. \A s \in Sav : Before(s, h, 4) <=> Left(s) < 5
    <3>1. \A s \in Pending \ {h} : Before(s, h, 4) <=> Left(s) < n + 4
      BY <1>0, <1>1, HeadBefore
    <3>2. QED BY <1>1, <1>4, <3>1
  <2>4. CASE Seen(h) = {}
    <3>1. got[h].token = Last(serial).token /\ got[h].chat = Last(serial).chat
      BY <2>2, <2>4 DEF TokenOf, ChatOf, Stored
    <3>2. got[h] \in Rows BY <1>1 DEF Sound, SettingsTypeOK, Requests
    <3>3. Last(serial) \in Rows /\ Last(serial) \in ToSet(serial) BY LastRow
    <3>4. got[h] = Last(serial) BY <3>1, <3>2, <3>3, RowsEqual
    <3>5. QED BY <3>3, <3>4
  <2>5. CASE Seen(h) # {}
    <3>1. PICK m \in Seen(h) : /\ got[h].chat = NewChats[m]
                               /\ \A r \in Seen(h) \ {m} : <<r, m>> \in Order
      BY <2>2, <2>5 DEF ChatOf, Stored
    <3>2. m \in Sav /\ got[h].chat = body[m].chat /\ Left(m) < 5
      BY <1>4, <2>3, <3>1 DEF Seen, NewChats
    <3>3. \A r \in Seen(h) : r \in Sav /\ (r = m \/ Before(r, m, 0))
      BY <1>4, <3>1, <3>2, OrderPairs DEF Seen
    <3>4. \A r \in Sav : Before(r, m, 0) => Left(r) <= Left(m)
      <4>1. Left(m) \in Nat /\ \A r \in Sav : Left(r) \in Nat BY <1>4, <3>2
      <4>2. QED BY <4>1 DEF Before
    <3>5. \A r \in Sav : Before(r, m, 0) => Left(r) < 5 BY <1>4, <3>2, <3>4
    <3>6. Seen(h) = UpTo(m) BY <2>3, <3>1, <3>2, <3>3, <3>5 DEF Seen, UpTo
    <3>7. QED BY <2>2, <3>2, <3>6 DEF Foreseen
  <2>6. QED BY <2>4, <2>5
<1>13. ShownInv' BY <1>2, <1>11, <1>12 DEF Overlap, ShownInv
<1>14. LiveInv'
  <2>1. \A r \in Sav : Left(r)' = Left(r) /\ got'[r] = got[r] BY <1>1, <1>3, <1>4
  <2>2. QED BY <1>1, <1>2, <1>6, <2>1 DEF Overlap, LiveInv
<1>15. QED BY <1>8, <1>9, <1>10, <1>13, <1>14 DEF Overlap

\* A restart that cuts no save off finds everything that was written committed.
LEMMA OverlapRestart ==
  ASSUME Overlap, Restart, \A r \in Saves : Idle(r)
  PROVE  Overlap'
<1>1. Sav = {} BY DEF Sav
<1>2. committed = view BY <1>1 DEF Overlap, CommitInv
<1>3. calls' = [r \in Requests |-> <<>>] BY DEF Restart, Requests
<1>4. Sav' = {} /\ \A p \in Pages : Idle(p)' BY <1>3 DEF Sav, Idle, Requests
<1>5. TokenWritten = {} /\ ChatWritten = {} /\ TokenWritten' = {} /\ ChatWritten' = {}
  BY <1>1, <1>4 DEF TokenWritten, ChatWritten, Tok
<1>6. view' = view /\ committed' = view' /\ UNCHANGED <<serial, shown>>
      /\ live' = WithEnv(view') /\ booted' = TRUE
  BY <1>2 DEF Restart
<1>7. ViewInv'
  BY <1>5, <1>6 DEF Overlap, ViewInv, TokenOf, ChatOf, Stored
<1>8. CommitInv' /\ PageInv' /\ LiveInv'
  BY <1>4, <1>6 DEF CommitInv, PageInv, LiveInv
<1>9. ShownInv' BY <1>1, <1>6 DEF Overlap, ShownInv, Foreseen
<1>10. QED BY <1>7, <1>8, <1>9 DEF Overlap

\* A commit of another coroutine, and a step that changes nothing.
LEMMA OverlapSame ==
  ASSUME Overlap,
         UNCHANGED <<view, live, calls, body, got, sqlq, serial, shown, booted>>,
         committed' \in {view, committed}
  PROVE  Overlap'
<1>1. /\ Sav' = Sav /\ Tok' = Tok /\ \A r : Left(r)' = Left(r) /\ (Idle(r)' <=> Idle(r))
      /\ \A r, s : /\ Before(r, s, 0)' <=> Before(r, s, 0)
                   /\ Before(r, s, 4)' <=> Before(r, s, 4)
  BY DEF Sav, Tok, Left, Idle, Before
<1>2. /\ TokenWritten' = TokenWritten /\ ChatWritten' = ChatWritten
      /\ Order' = Order /\ NewTokens' = NewTokens /\ NewChats' = NewChats
  BY <1>1 DEF TokenWritten, ChatWritten, Order, NewTokens, NewChats
<1>3. \A r : Seen(r)' = Seen(r) /\ UpTo(r)' = UpTo(r) /\ (Newest(r)' <=> Newest(r))
  BY <1>1 DEF Seen, UpTo, Newest
<1>4. ViewInv' BY <1>2 DEF Overlap, ViewInv, TokenOf, ChatOf
<1>5. CommitInv' BY <1>1 DEF Overlap, CommitInv
<1>6. PageInv' BY <1>1, <1>2, <1>3 DEF Overlap, PageInv, TokenOf, ChatOf
<1>7. ShownInv' BY <1>1, <1>2, <1>3 DEF Overlap, ShownInv, Foreseen, TokenOf
<1>8. LiveInv' BY <1>1, <1>3 DEF Overlap, LiveInv
<1>9. QED BY <1>4, <1>5, <1>6, <1>7, <1>8 DEF Overlap

LEMMA OverlapStep ==
  ASSUME Sound, OverlapInv, [SettingsNext]_settingsVars
  PROVE  OverlapInv'
<1> SUFFICES ASSUME clean' PROVE Overlap' BY DEF OverlapInv
<1>1. ASSUME NEW r \in Saves, NEW b \in Bodies, Save(r, b) PROVE Overlap'
  <2>1. Overlap BY <1>1 DEF OverlapInv, Save, Arrive
  <2> DEFINE list == SaveCalls(b.token)
             n == IF EntersToken(b.token) THEN 8 ELSE 6
  <2>2. /\ body'[r] = b /\ Left(r)' = n
        /\ \A s \in Requests \ {r} : Left(s)' = Left(s) /\ body'[s] = body[s]
        /\ Arrive(r, list) /\ list \in Seq(CallNames) /\ list # <<>>
    BY <1>1, SaveEffect
  <2>3. r \in Requests /\ n \in 4..8 BY DEF Requests
  <2>4. n = IF EntersToken(body'[r].token) THEN 8 ELSE 6 BY <2>2
  <2> HIDE DEF list, n
  <2>5. QED BY <2>1, <2>2, <2>3, <2>4, OverlapArrive
<1>2. ASSUME NEW r \in Pages, Show(r) PROVE Overlap'
  <2>1. Overlap BY <1>2 DEF OverlapInv, Show, Arrive
  <2>2. /\ Left(r)' = 4 /\ UNCHANGED body
        /\ \A s \in Requests \ {r} : Left(s)' = Left(s)
        /\ Arrive(r, ReadCalls) /\ ReadCalls \in Seq(CallNames) /\ ReadCalls # <<>>
    BY <1>2, ShowEffect
  <2>3. r \in Requests /\ r \notin Saves BY TelegramConfigAssumption DEF Requests
  <2>4. PICK n : n = 4 OBVIOUS
  <2>5. n \in 4..8 /\ Left(r)' = n BY <2>2, <2>4
  <2>6. QED BY <2>1, <2>2, <2>3, <2>5, OverlapArrive
<1>3. ASSUME Call PROVE Overlap'
  <2>1. Overlap BY <1>3 DEF OverlapInv, Call
  <2>2. PICK h : h = Head(sqlq) OBVIOUS
  <2>3. PICK n : n = Left(h) OBVIOUS
  <2>4. n \in 1..8 /\ (n = 1 => Configure(h) \/ Display(h))
    BY <1>3, <2>2, <2>3, CallEffect
  <2>5. CASE n > 1 BY <1>3, <2>1, <2>2, <2>3, <2>5, OverlapTurn
  <2>6. CASE n = 1
    <3>1. Left(h) = 1 /\ (Configure(h) \/ Display(h)) BY <2>3, <2>4, <2>6
    <3>2. QED BY <1>3, <2>1, <2>2, <3>1, OverlapSaved, OverlapShown
  <2>7. QED BY <2>4, <2>5, <2>6
<1>4. ASSUME CallFails PROVE Overlap' BY <1>4 DEF CallFails
<1>5. ASSUME OtherCommits PROVE Overlap'
  BY <1>5, OverlapSame DEF OtherCommits, OverlapInv
<1>6. ASSUME Restart PROVE Overlap'
  BY <1>6, OverlapRestart DEF OverlapInv, Restart
<1>7. ASSUME UNCHANGED settingsVars PROVE Overlap'
  BY <1>7, OverlapSame DEF settingsVars, OverlapInv
<1>8. QED BY <1>1, <1>2, <1>3, <1>4, <1>5, <1>6, <1>7 DEF SettingsNext

\* Whatever overlaps, the rows and what the pages and the newest save have read
\* are those of a save and of the saves answered before it.
THEOREM OverlapCorrect == SettingsSpec => [](Sound /\ OverlapInv)
<1>1. SettingsInit => Sound /\ OverlapInv BY SoundInit, OverlapInit DEF OverlapInv
<1>2. Sound /\ OverlapInv /\ [SettingsNext]_settingsVars => (Sound /\ OverlapInv)'
  BY SoundStep, OverlapStep
<1>3. QED BY <1>1, <1>2, PTL DEF SettingsSpec
-----------------------------------------------------------------------------
(* The theorems.                                                           *)
\* With no request in progress the rows are those of the last save answered.
LEMMA QuietRows ==
  ASSUME Sound, Overlap, Quiet
  PROVE  Sav = {} /\ committed = view /\ view = Last(serial)
<1>1. \A r \in Requests : Idle(r)
  <2>1. \A r \in Requests : In(sqlq, r) <=> ~Idle(r) BY Shape DEF Sound
  <2>2. QED BY <2>1 DEF Quiet, In
<1>2. Sav = {} BY <1>1 DEF Sav, Requests
<1>3. committed = view BY <1>2 DEF Overlap, CommitInv
<1>4. TokenWritten = {} /\ ChatWritten = {} BY <1>2 DEF TokenWritten, ChatWritten, Tok
<1>5. view.token = Last(serial).token /\ view.chat = Last(serial).chat
  BY <1>4 DEF Overlap, ViewInv, TokenOf, ChatOf, Stored
<1>6. view \in Rows /\ Last(serial) \in Rows BY LastRow DEF Sound, SettingsTypeOK
<1>7. view = Last(serial) BY <1>5, <1>6, RowsEqual
<1>8. QED BY <1>2, <1>3, <1>7

\* app.py:122: any number of saves that overlap store what they would have stored
\* one after the other, in the order they were answered.
THEOREM OverlappingSaves == SettingsSpec => []SavesInAnswerOrder
<1>1. Sound /\ OverlapInv => SavesInAnswerOrder
  BY QuietRows DEF OverlapInv, SavesInAnswerOrder
<1>2. QED BY <1>1, OverlapCorrect, PTL

\* app.py:128: the notifier ends with the settings that are stored.
THEOREM NotifierFollows == SettingsSpec => []LiveFollowsTable
<1>1. Sound /\ OverlapInv => LiveFollowsTable
  <2> SUFFICES ASSUME Sound, Overlap, clean, Quiet
               PROVE  live = IF booted THEN WithEnv(committed) ELSE committed
    BY DEF OverlapInv, LiveFollowsTable
  <2>1. Sav = {} /\ committed = view BY QuietRows
  <2>2. QED BY <2>1 DEF Overlap, LiveInv
<1>2. QED BY <1>1, OverlapCorrect, PTL

\* app.py:111: a page never shows the token of one state of the settings with the
\* chat id of another.
THEOREM PagesWhole == SettingsSpec => []PageNeverTorn
<1>1. Sound /\ OverlapInv => PageNeverTorn
  <2> SUFFICES ASSUME Sound, Overlap, clean, Quiet
               PROVE  shown \subseteq ToSet(serial)
    BY DEF OverlapInv, PageNeverTorn
  <2>1. Sav = {} BY QuietRows
  <2>2. QED BY <2>1 DEF Overlap, ShownInv, Foreseen
<1>2. QED BY <1>1, OverlapCorrect, PTL
=============================================================================
