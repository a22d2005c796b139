---------------------------- MODULE ShellSession ----------------------------
(***************************************************************************)
(* The two interactive honeypots: SSH (app/honeypots/ssh.py, over          *)
(* asyncssh) and telnet (app/honeypots/telnet.py, over telnetlib3).  A     *)
(* peer connects to one of them, logs in and types; the honeypot turns the *)
(* stream of characters into lines and the lines into events that it emits *)
(* to the bus.  An SSH peer may open several channels, each a _FakeShell   *)
(* of its own; a telnet peer is served by one coroutine, _shell, which     *)
(* reads lines from a StreamReader.  A text is a sequence of characters    *)
(* from Chars; only the newline and the blank matter.  "\r" is a blank.    *)
(***************************************************************************)
EXTENDS Naturals, Sequences, SequencesExt

CONSTANTS Peers,        \* remote ends, one connection each
          Channels,     \* channels an SSH peer may open; telnet uses one
          Shell,        \* the channel that stands for a telnet connection
          Chars,        \* the alphabet
          NL, Blank,    \* the newline and a character that strip() removes
          MaxChunk,     \* bound: characters that arrive together
          MaxChars,     \* bound: characters all peers type together
          MaxKeys       \* bound: public keys a peer offers

ASSUME ShellSessionAssumption ==
  /\ Shell \in Channels
  /\ {NL, Blank} \subseteq Chars /\ NL # Blank
  /\ {MaxChunk, MaxChars, MaxKeys} \subseteq Nat

VARIABLES service,  \* service[p]: the honeypot that serves the peer
          phase,    \* phase[p]: how far the peer has come
          link,     \* link[p]: the connection as the server sees it
          chan,     \* chan[p][c]: state of a channel
          buf,      \* buf[p][c]: _buf of a _FakeShell, or the StreamReader
          cmds,     \* cmds[p][c]: _commands of a _FakeShell, commands of _shell
          name,     \* name[p]: username of the coroutine _shell
          emitted,  \* emitted[p]: the events about the peer, in order
          typed     \* typed[p][c]: history, everything that arrived
vars == <<service, phase, link, chan, buf, cmds, name, emitted, typed>>

Text == Seq(Chars)
Connection == [type |-> "connection"]
Key == [type |-> "publickey"]
Password == [type |-> "password"]
Login(user, secret) == [type |-> "credential", user |-> user, secret |-> secret]
Command(cmd) == [type |-> "command", cmd |-> cmd]
Session(list) == [type |-> "session", commands |-> list]

Init ==
  /\ service = [p \in Peers |-> "none"]
  /\ phase = [p \in Peers |-> "idle"]
  /\ link = [p \in Peers |-> "open"]
  /\ chan = [p \in Peers |-> [c \in Channels |-> "free"]]
  /\ buf = [p \in Peers |-> [c \in Channels |-> <<>>]]
  /\ cmds = [p \in Peers |-> [c \in Channels |-> <<>>]]
  /\ name = [p \in Peers |-> <<>>]
  /\ emitted = [p \in Peers |-> <<>>]
  /\ typed = [p \in Peers |-> [c \in Channels |-> <<>>]]

---------------------------------------------------------------------------
(* Lines and commands of a text.                                           *)

HasLine(s) == \E i \in DOMAIN s : s[i] = NL

\* One more character of a text: a newline ends the line that was begun.
NextChar(read, c) ==
  IF c = NL THEN [lines |-> Append(read.lines, read.rest), rest |-> <<>>]
  ELSE [lines |-> read.lines, rest |-> Append(read.rest, c)]

\* The lines of a text that a newline ends, and what follows the last one.
Split(s) ==
  LET read[k \in 0..Len(s)] ==
        IF k = 0 THEN [lines |-> <<>>, rest |-> <<>>] ELSE NextChar(read[k-1], s[k])
  IN read[Len(s)]
Lines(s) == Split(s).lines
Rest(s) == Split(s).rest

\* line.strip()
Strip(line) ==
  LET ink == {i \in DOMAIN line : line[i] # Blank} IN
  IF ink = {} THEN <<>> ELSE SubSeq(line, Min(ink), Max(ink))

\* The commands some lines give: the stripped lines, blank ones left out.
Commands(lines) ==
  FlattenSeq([k \in DOMAIN lines |->
    IF Strip(lines[k]) = <<>> THEN <<>> ELSE <<Strip(lines[k])>>])

\* The first line of a text and what is left without it.
Line(s) == IF HasLine(s) THEN Head(Lines(s)) ELSE s
AfterLine(s) == IF HasLine(s) THEN SubSeq(s, Len(Line(s)) + 2, Len(s)) ELSE <<>>

Rows(list) == [k \in DOMAIN list |-> Command(list[k])]

Emit(p, rows) == emitted' = [emitted EXCEPT ![p] = @ \o rows]

TypedChars == FoldSet(LAMBDA pc, n : n + Len(typed[pc[1]][pc[2]]), 0, Peers \X Channels)
Chunks == {s \in BoundedSeq(Chars, MaxChunk) : s # <<>>}

---------------------------------------------------------------------------
(* SSH.  asyncssh calls the handlers, which never suspend.                 *)

\* connection_made
SshConnect(p) ==
  /\ phase[p] = "idle"
  /\ service' = [service EXCEPT ![p] = "ssh"]
  /\ phase' = [phase EXCEPT ![p] = "auth"]
  /\ Emit(p, <<Connection>>)
  /\ UNCHANGED <<link, chan, buf, cmds, name, typed>>

\* validate_public_key: recorded and refused; the peer may go on.
OfferKey(p) ==
  /\ service[p] = "ssh" /\ phase[p] = "auth"
  /\ Cardinality({i \in DOMAIN emitted[p] : emitted[p][i] = Key}) < MaxKeys
  /\ Emit(p, <<Key>>)
  /\ UNCHANGED <<service, phase, link, chan, buf, cmds, name, typed>>

\* validate_password: recorded and accepted, whatever it is.
OfferPassword(p) ==
  /\ service[p] = "ssh" /\ phase[p] = "auth"
  /\ phase' = [phase EXCEPT ![p] = "shell"]
  /\ Emit(p, <<Password>>)
  /\ UNCHANGED <<service, link, chan, buf, cmds, name, typed>>

\* session_requested, connection_made of the _FakeShell, shell_requested.
OpenChannel(p, c) ==
  /\ service[p] = "ssh" /\ phase[p] = "shell"
  /\ chan[p][c] = "free"
  /\ chan' = [chan EXCEPT ![p][c] = "open"]
  /\ UNCHANGED <<service, phase, link, buf, cmds, name, emitted, typed>>

\* Mutant: `if` for `while` in data_received, one line per call.
HandleLinesOnce(p, c, text) ==
  LET new == IF HasLine(text) THEN Commands(<<Line(text)>>) ELSE <<>> IN
  /\ buf' = [buf EXCEPT ![p][c] = IF HasLine(text) THEN AfterLine(text) ELSE text]
  /\ cmds' = [cmds EXCEPT ![p][c] = @ \o new]
  /\ Emit(p, Rows(new))

\* Mutant: _buf is emptied after the lines.
HandleLinesDropsRest(p, c, text) ==
  LET new == Commands(Lines(text)) IN
  /\ buf' = [buf EXCEPT ![p][c] = <<>>]
  /\ cmds' = [cmds EXCEPT ![p][c] = @ \o new]
  /\ Emit(p, Rows(new))

\* Mutant: _commands is an attribute of the class.
HandleLinesShared(p, c, text) ==
  LET new == Commands(Lines(text)) IN
  /\ buf' = [buf EXCEPT ![p][c] = Rest(text)]
  /\ cmds' = [cmds EXCEPT ![p] = [d \in Channels |-> cmds[p][d] \o new]]
  /\ Emit(p, Rows(new))

\* The lines of a channel's buffer are handled, the rest stays in it.
HandleLines(p, c, text) ==
  LET new == Commands(Lines(text)) IN
  /\ buf' = [buf EXCEPT ![p][c] = Rest(text)]
  /\ cmds' = [cmds EXCEPT ![p][c] = @ \o new]
  /\ Emit(p, Rows(new))

\* data_received: every line the buffer now holds, in one call.
DataReceived(p, c, chunk) ==
  /\ service[p] = "ssh" /\ chan[p][c] = "open"
  /\ TypedChars + Len(chunk) <= MaxChars
  /\ typed' = [typed EXCEPT ![p][c] = @ \o chunk]
  /\ HandleLines(p, c, buf[p][c] \o chunk)
  /\ UNCHANGED <<service, phase, link, chan, name>>

\* eof_received: the session is recorded; exit(0) closes the channel.
EofReceived(p, c) ==
  /\ service[p] = "ssh" /\ chan[p][c] = "open"
  /\ chan' = [chan EXCEPT ![p][c] = "ended"]
  /\ Emit(p, <<Session(cmds[p][c])>>)
  /\ UNCHANGED <<service, phase, link, buf, cmds, name, typed>>

\* The peer closes a channel without EOF: _FakeShell has no handler for it.
ChannelClosed(p, c) ==
  /\ service[p] = "ssh" /\ chan[p][c] = "open"
  /\ chan' = [chan EXCEPT ![p][c] = "lost"]
  /\ UNCHANGED <<service, phase, link, buf, cmds, name, emitted, typed>>

\* The connection ends, and with it its channels; no handler either.
SshDisconnect(p) ==
  /\ service[p] = "ssh" /\ phase[p] # "done"
  /\ phase' = [phase EXCEPT ![p] = "done"]
  /\ link' = [link EXCEPT ![p] = "eof"]
  /\ chan' = [chan EXCEPT ![p] =
       [c \in Channels |-> IF @[c] = "open" THEN "lost" ELSE @[c]]]
  /\ UNCHANGED <<service, buf, cmds, name, emitted, typed>>

---------------------------------------------------------------------------
(* Telnet.  The coroutine _shell, from one readline to the next.           *)

\* _shell up to the first readline.
TelnetConnect(p) ==
  /\ phase[p] = "idle"
  /\ service' = [service EXCEPT ![p] = "telnet"]
  /\ phase' = [phase EXCEPT ![p] = "login"]
  /\ chan' = [chan EXCEPT ![p][Shell] = "open"]
  /\ Emit(p, <<Connection>>)
  /\ UNCHANGED <<link, buf, cmds, name, typed>>

\* The reader is fed.
FeedReader(p, chunk) ==
  /\ service[p] = "telnet" /\ link[p] = "open" /\ phase[p] # "done"
  /\ TypedChars + Len(chunk) <= MaxChars
  /\ typed' = [typed EXCEPT ![p][Shell] = @ \o chunk]
  /\ buf' = [buf EXCEPT ![p][Shell] = @ \o chunk]
  /\ UNCHANGED <<service, phase, link, chan, cmds, name, emitted>>

\* The connection ends: by EOF, or by an error that readline will raise.
Hangup(p, how) ==
  /\ service[p] = "telnet" /\ link[p] = "open"
  /\ link' = [link EXCEPT ![p] = how]
  /\ UNCHANGED <<service, phase, chan, buf, cmds, name, emitted, typed>>

\* _readline returns a line: up to a newline, or what EOF left over.
LineReady(p) ==
  LET s == buf[p][Shell] IN
  link[p] # "error" /\ (HasLine(s) \/ (link[p] = "eof" /\ s # <<>>))

\* Mutant: a line is tested after the newline is stripped, `if not line`.
NoneReadyBlank(p) ==
  \/ link[p] = "error" \/ (link[p] = "eof" /\ buf[p][Shell] = <<>>)
  \/ HasLine(buf[p][Shell]) /\ Line(buf[p][Shell]) = <<>>

\* Mutant: an empty read at EOF is taken for an empty line.
NoneReadyOnError(p) == link[p] = "error"

\* _readline returns None: nothing is left, or the reader has raised.
NoneReady(p) == link[p] = "error" \/ (link[p] = "eof" /\ buf[p][Shell] = <<>>)

TakeLine(p) == buf' = [buf EXCEPT ![p][Shell] = AfterLine(@)]

GotUser(p) ==
  /\ phase[p] = "login" /\ LineReady(p) /\ TakeLine(p)
  /\ name' = [name EXCEPT ![p] = Line(buf[p][Shell])]
  /\ phase' = [phase EXCEPT ![p] = "password"]
  /\ UNCHANGED <<service, link, chan, cmds, emitted, typed>>

GotPassword(p) ==
  /\ phase[p] = "password" /\ LineReady(p) /\ TakeLine(p)
  /\ Emit(p, <<Login(name[p], Line(buf[p][Shell]))>>)
  /\ phase' = [phase EXCEPT ![p] = "shell"]
  /\ UNCHANGED <<service, link, chan, cmds, name, typed>>

GotLine(p) ==
  LET new == Commands(<<Line(buf[p][Shell])>>) IN
  /\ service[p] = "telnet" /\ phase[p] = "shell" /\ LineReady(p) /\ TakeLine(p)
  /\ cmds' = [cmds EXCEPT ![p][Shell] = @ \o new]
  /\ Emit(p, Rows(new))
  /\ UNCHANGED <<service, phase, link, chan, name, typed>>

\* None before the password: _shell returns and records nothing more.
GivesUp(p) ==
  /\ phase[p] \in {"login", "password"} /\ NoneReady(p)
  /\ phase' = [phase EXCEPT ![p] = "done"]
  /\ chan' = [chan EXCEPT ![p][Shell] = "lost"]
  /\ UNCHANGED <<service, link, buf, cmds, name, emitted, typed>>

\* None at the prompt: the loop ends and the session is recorded.
LogsOut(p) ==
  /\ service[p] = "telnet" /\ phase[p] = "shell" /\ NoneReady(p)
  /\ phase' = [phase EXCEPT ![p] = "done"]
  /\ chan' = [chan EXCEPT ![p][Shell] = "ended"]
  /\ Emit(p, <<Session(cmds[p][Shell])>>)
  /\ UNCHANGED <<service, link, buf, cmds, name, typed>>

\* A resumption of the coroutine _shell of a peer.
ShellStep(p) == GotUser(p) \/ GotPassword(p) \/ GotLine(p) \/ GivesUp(p) \/ LogsOut(p)

---------------------------------------------------------------------------
Ssh(p) ==
  \/ SshConnect(p) \/ OfferKey(p) \/ OfferPassword(p) \/ SshDisconnect(p)
  \/ \E c \in Channels :
       \/ OpenChannel(p, c) \/ EofReceived(p, c) \/ ChannelClosed(p, c)
       \/ \E chunk \in Chunks : DataReceived(p, c, chunk)

Telnet(p) ==
  \/ TelnetConnect(p) \/ ShellStep(p)
  \/ \E how \in {"eof", "error"} : Hangup(p, how)
  \/ \E chunk \in Chunks : FeedReader(p, chunk)

Next == \E p \in Peers : Ssh(p) \/ Telnet(p)

\* The event loop resumes a coroutine that can go on.  No peer has to type,
\* and none has to hang up.
Fairness == \A p \in Peers : WF_vars(ShellStep(p))

Spec == Init /\ [][Next]_vars /\ Fairness

---------------------------------------------------------------------------
(* Properties.                                                             *)

\* Every variable keeps its type; what a channel holds unread never contains a
\* whole line on SSH, where data_received handles all of them at once.
TypeOK ==
  /\ service \in [Peers -> {"none", "ssh", "telnet"}]
  /\ phase \in [Peers -> {"idle", "auth", "login", "password", "shell", "done"}]
  /\ link \in [Peers -> {"open", "eof", "error"}]
  /\ chan \in [Peers -> [Channels -> {"free", "open", "ended", "lost"}]]
  /\ {buf, typed} \subseteq [Peers -> [Channels -> Text]]
  /\ cmds \in [Peers -> [Channels -> Seq(Text)]]
  /\ name \in [Peers -> Text]
  /\ \A p \in Peers : service[p] = "ssh" => \A c \in Channels : ~HasLine(buf[p][c])

\* ssh.py:103: however the stream was cut into chunks, the commands of a
\* channel are those of the stream as a whole, each stripped, in order and
\* once, and the beginning of an unfinished line is kept for later.
SshCommandsExact ==
  \A p \in Peers, c \in Channels : service[p] = "ssh" =>
    /\ cmds[p][c] = Commands(Lines(typed[p][c]))
    /\ buf[p][c] = Rest(typed[p][c])

\* The lines of a text that ends: an unfinished one counts.
AllLines(s) == Lines(s) \o (IF Rest(s) = <<>> THEN <<>> ELSE <<Rest(s)>>)

\* What a telnet peer that typed these lines and left is recorded as.
Transcript(lines) ==
  LET list == Commands(SubSeq(lines, 3, Len(lines))) IN
  IF Len(lines) < 2 THEN <<Connection>>
  ELSE <<Connection, Login(lines[1], lines[2])>> \o Rows(list) \o <<Session(list)>>

\* telnet.py:33: when _shell has returned, its events are the transcript of a
\* number of the lines the peer typed, and of all of them, the unfinished last
\* one included, if the connection ended without an error.
TelnetTranscript ==
  \A p \in Peers : service[p] = "telnet" /\ phase[p] = "done" =>
    LET lines == AllLines(typed[p][Shell]) IN
    \E n \in 0..Len(lines) :
      /\ emitted[p] = Transcript(SubSeq(lines, 1, n))
      /\ link[p] = "eof" => n = Len(lines)

Places(list, x) == {i \in DOMAIN list : list[i] = x}
SessionsOf(p) == {i \in DOMAIN emitted[p] : emitted[p][i].type = "session"}

\* Where the sessions of a peer list a command.
Listed(p, cmd) == UNION {{i} \X Places(emitted[p][i].commands, cmd) : i \in SessionsOf(p)}

\* What a peer's channels or its sessions have as a command.
Commanded(p) ==
  UNION {ToSet(cmds[p][c]) : c \in Channels}
    \union UNION {ToSet(emitted[p][i].commands) : i \in SessionsOf(p)}

\* ssh.py:97: a peer's channels interleave their events under one address and
\* port; once all of them have ended in order, every command row belongs to
\* exactly one session, and the sessions list nothing else.
SessionsAccountForCommands ==
  \A p \in Peers : (\A c \in Channels : chan[p][c] \in {"free", "ended"}) =>
    \A cmd \in Commanded(p) :
      Cardinality(Places(emitted[p], Command(cmd))) = Cardinality(Listed(p, cmd))

\* telnet.py:87: a peer that has logged in and is gone leaves a session, also
\* when the connection broke in the middle of a line.
TelnetSessionRecorded ==
  \A p \in Peers :
    (service[p] = "telnet" /\ phase[p] = "shell" /\ link[p] # "open")
      ~> (SessionsOf(p) # {})

\* README.md:60, "every shell command and session duration": a shell that is
\* over has left its session.
EverySessionRecorded ==
  \A p \in Peers :
    Cardinality(SessionsOf(p)) = Cardinality({c \in Channels :
      chan[p][c] = "ended" \/ (service[p] = "ssh" /\ chan[p][c] = "lost")})

=============================================================================
