------------------------------ MODULE MCSessions ------------------------------
(* A peer on any of the eight services: a shell (ShellSession) or a wire        *)
(* protocol (WireSession).  A connection is served by one handler and peers     *)
(* share nothing, neither in the code nor in the model: one peer is enough.     *)
(* Six characters make a telnet login and a command, or two SSH commands, in    *)
(* every cut into chunks of one or two; three items make a handshake with one   *)
(* packet too many, or a GET and a POST with its form.                          *)
EXTENDS ShellSession, WireSession

CONSTANTS p1, c1, c2

MCPeers == {p1}
MCChannels == {c1, c2}
MCChars == {"x", " ", "nl"}
MCNames == {"", " ", "sa", "FTP"}

\* No password, a letter, and a byte none of whose bits has its mirror image.
MCPasswords == {<<>>, << <<1, 0, 0, 0, 0, 1, 1, 0>> >>, << <<0, 1, 1, 0, 1, 0, 0, 1>> >>}
Bits(s) == [k \in DOMAIN s |-> [i \in 0..7 |-> s[k][i + 1]]]
MCBytes == {Bits(s) : s \in MCPasswords}

---------------------------------------------------------------------------
SessionVars == <<vars, wireVars>>

SessionsInit == Init /\ WireInit

\* A connection is accepted by one service and stays with it.
SessionsNext ==
  \E p \in Peers :
    \/ served[p] = "none" /\ (Ssh(p) \/ Telnet(p)) /\ UNCHANGED wireVars
    \/ service[p] = "none" /\ Wire(p) /\ UNCHANGED vars

SessionsSpec ==
  SessionsInit /\ [][SessionsNext]_SessionVars /\ Fairness /\ WireFairness
===============================================================================
