------------------------------- MODULE StartUp -------------------------------
(***************************************************************************)
(* What a start of the process finds and leaves on disk: the certificate   *)
(* and its key (app/utils/certs.py), the SSH host key (app/honeypots/      *)
(* ssh.py), the decoy files (app/honeypots/decoy.py) and the two rows of   *)
(* the administrator (ensure_admin of app/main.py).  Everything is made on *)
(* the first start and kept if it exists.  A file is written in place:     *)
(* opened, which truncates it, and filled; the process may end between the *)
(* two.  A row is committed in one step.  What is written holds the number *)
(* of the start that made it; a row of the administrator, what .env said.  *)
(***************************************************************************)
EXTENDS Naturals, FiniteSets

CONSTANTS Envs,      \* contents of .env: user and password of the administrator
          MaxStarts  \* bound: starts of the process

\* A user name or password that is empty in .env counts as missing.
ASSUME StartUpAssumption ==
  /\ MaxStarts \in Nat
  /\ \A e \in Envs : e.user # "" /\ e.password # ""

VARIABLES pc,        \* where run() stands
          writing,   \* a file is open for writing
          file,      \* file[f]: 0 where it does not exist, Torn, or who made it
          admin,     \* admin[r]: the row, or ""
          env,       \* .env as this start has read it
          wanted,    \* services that are to be started
          up,        \* services that listen
          starts,    \* starts of the process so far
          hurt,      \* history: files whose writing was cut off
          served,    \* history: served[s], the keys a service has shown
          accepted   \* history: the logins the dashboard has accepted
vars == <<pc, writing, file, admin, env, wanted, up, starts, hurt, served, accepted>>
history == <<hurt, served, accepted>>

Files == {"cert", "key", "decoy", "host"}
KeyServices == {"ssh", "https"}
Torn == MaxStarts + 1
Places == {"down", "certs", "cert", "key", "decoy", "user", "hash", "host", "ssh",
           "https", "serving"}

Init ==
  /\ pc = "down" /\ writing = FALSE
  /\ file = [f \in Files |-> 0]
  /\ admin = [r \in {"user", "hash"} |-> ""]
  /\ env \in Envs
  /\ wanted = {} /\ up = {}
  /\ starts = 0
  /\ hurt = {}
  /\ served = [s \in KeyServices |-> {}]
  /\ accepted = {}

Exists(f) == file[f] # 0

\* The process starts; .env and the switches may have been edited meanwhile.
Start ==
  /\ pc = "down" /\ starts < MaxStarts
  /\ starts' = starts + 1
  /\ env' \in Envs
  /\ wanted' \in SUBSET KeyServices
  /\ pc' = "certs"
  /\ UNCHANGED <<writing, file, admin, up, history>>

\* The process ends; a file it was writing stays as it is.
Crash ==
  /\ pc # "down"
  /\ pc' = "down" /\ writing' = FALSE /\ up' = {}
  /\ hurt' = IF writing THEN hurt \union {pc} ELSE hurt
  /\ UNCHANGED <<file, admin, env, wanted, starts, served, accepted>>

---------------------------------------------------------------------------
\* write_bytes or write_text of the file run() is at: open, which truncates it ...
OpenFile(f) ==
  /\ pc = f /\ ~writing
  /\ writing' = TRUE
  /\ file' = [file EXCEPT ![f] = Torn]
  /\ UNCHANGED <<pc, admin, env, wanted, up, starts, history>>

\* Mutant: the process goes on before the file has its content.
FillFileLater(f, next) ==
  /\ pc = f /\ writing
  /\ writing' = FALSE
  /\ pc' = next
  /\ UNCHANGED <<file, admin, env, wanted, up, starts, history>>

\* ... and its content.
FillFile(f, next) ==
  /\ pc = f /\ writing
  /\ writing' = FALSE
  /\ file' = [file EXCEPT ![f] = starts]
  /\ pc' = next
  /\ UNCHANGED <<admin, env, wanted, up, starts, history>>

WriteFile(f, next) == OpenFile(f) \/ FillFile(f, next)

GoTo(from, next) ==
  /\ pc = from /\ ~writing
  /\ pc' = next
  /\ UNCHANGED <<writing, file, admin, env, wanted, up, starts, history>>

\* Mutant: only the certificate is looked for.
EnsureCertsOne == GoTo("certs", IF Exists("cert") THEN "decoy" ELSE "cert")

\* ensure_certs: kept only as a pair.
EnsureCerts ==
  GoTo("certs", IF Exists("cert") /\ Exists("key") THEN "decoy" ELSE "cert")

\* generate_self_signed: the certificate first, then its key.
GenerateSelfSigned == WriteFile("cert", "key") \/ WriteFile("key", "decoy")

\* ensure_decoy_fs, one file for all of them.
EnsureDecoy ==
  IF Exists("decoy") /\ ~writing THEN GoTo("decoy", "user") ELSE WriteFile("decoy", "user")

\* Mutant: a row is stored on every start.
EnsureRowAlways(row, value, next) ==
  /\ pc = row
  /\ admin' = [admin EXCEPT ![row] = value]
  /\ pc' = next
  /\ UNCHANGED <<writing, file, env, wanted, up, starts, history>>

\* One half of ensure_admin: a row that is missing (or empty) is stored.
EnsureRow(row, value, next) ==
  /\ pc = row
  /\ admin' = IF admin[row] = "" THEN [admin EXCEPT ![row] = value] ELSE admin
  /\ pc' = next
  /\ UNCHANGED <<writing, file, env, wanted, up, starts, history>>

EnsureAdmin == EnsureRow("user", env.user, "hash") \/ EnsureRow("hash", env.password, "host")

\* start of the SSH honeypot, as start_all calls it, up to create_server.
EnsureHostKey ==
  \/ "ssh" \notin wanted /\ GoTo("host", "https")
  \/ "ssh" \in wanted /\ Exists("host") /\ ~writing /\ GoTo("host", "ssh")
  \/ "ssh" \in wanted /\ (writing \/ ~Exists("host")) /\ WriteFile("host", "ssh")

\* The host key cannot be written: _start logs it and start_all goes on.
HostKeyFails ==
  /\ pc = "host" /\ writing
  /\ writing' = FALSE /\ pc' = "https"
  /\ hurt' = hurt \union {"host"}
  /\ UNCHANGED <<file, admin, env, wanted, up, starts, served, accepted>>

\* A service listens with a key that could be loaded, or start_all goes on.
Listen(s, ok, key, next) ==
  /\ pc' = next
  /\ up' = IF ok THEN up \union {s} ELSE up
  /\ served' = IF ok THEN [served EXCEPT ![s] = @ \union {key}] ELSE served
  /\ UNCHANGED <<writing, file, admin, env, wanted, starts, hurt, accepted>>

\* asyncssh.create_server reads the host key.
StartSsh == pc = "ssh" /\ Listen("ssh", file["host"] # Torn, file["host"], "https")

\* ssl_context: load_cert_chain refuses a key that is torn or not the
\* certificate's.
StartHttps ==
  /\ pc = "https"
  /\ Listen("https",
            "https" \in wanted /\ file["cert"] # Torn /\ file["cert"] = file["key"],
            file["cert"], "serving")

\* POST /login: the stored name, or the one in .env, and the stored hash.
Login(user, password) ==
  /\ pc = "serving"
  /\ admin["hash"] # "" /\ password = admin["hash"]
  /\ user = IF admin["user"] # "" THEN admin["user"] ELSE env.user
  /\ accepted' = accepted \union {<<user, password>>}
  /\ UNCHANGED <<pc, writing, file, admin, env, wanted, up, starts, hurt, served>>

Run ==
  \/ EnsureCerts \/ GenerateSelfSigned \/ EnsureDecoy \/ EnsureAdmin
  \/ EnsureHostKey \/ HostKeyFails \/ StartSsh \/ StartHttps

Next ==
  \/ Start \/ Crash \/ Run
  \/ \E e, f \in Envs : Login(e.user, f.password)

Spec == Init /\ [][Next]_vars

---------------------------------------------------------------------------
(* Properties.                                                             *)

\* Every variable keeps its type; a file is open only where run() writes one,
\* it is then torn, and so is a file whose writing was cut off and never redone.
TypeOK ==
  /\ pc \in Places /\ writing \in BOOLEAN /\ starts \in 0..MaxStarts
  /\ file \in [Files -> 0..Torn]
  /\ env \in Envs /\ hurt \subseteq Files
  /\ up \subseteq wanted /\ wanted \subseteq KeyServices
  /\ writing => pc \in Files /\ file[pc] = Torn
  /\ \A f \in Files : file[f] = Torn => f \in hurt \/ (writing /\ f = pc)

\* certs.py:60, ssh.py:146: a crash or a failed write between any two steps of
\* a start is repaired by the next start, except one in the middle of the key
\* or of the host key: a service that was to be started and is not listening
\* was hit exactly there.
RepairedByNextStart ==
  pc = "serving" =>
    /\ "https" \in wanted \ up => "key" \in hurt
    /\ "ssh" \in wanted \ up => "host" \in hurt
    /\ file["cert"] # Torn /\ (file["decoy"] = Torn => "decoy" \in hurt)

\* README.md:195, ssh.py:146, certs.py:60: the first start decides.  However
\* often the process starts and whatever .env says then, the dashboard accepts
\* one login only, and a service shows its clients one key only.
FirstStartDecides ==
  /\ Cardinality(accepted) <= 1
  /\ \A s \in KeyServices : Cardinality(served[s]) <= 1

=============================================================================
