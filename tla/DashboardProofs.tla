--------------------------- MODULE DashboardProofs ---------------------------
(***************************************************************************)
(* Theorems about two parts of the dashboard process.                      *)
(*                                                                         *)
(* StartUp, for any number of starts, any contents of .env and any         *)
(* crashes.  The invariant says in which order the files of a pair come to *)
(* exist (Certs), what the start has already made sure of where it stands  *)
(* (Reached), why a service is not up (Down), and that nothing that was    *)
(* shown or accepted once can still change (Keys, Logins).                 *)
(*                                                                         *)
(* AlertFeed, for any limits, any number of alerts and of requests under   *)
(* way: an answer is as short as it should be and tells of alerts there    *)
(* are.  The Telegram settings have TelegramConfigProofs.                  *)
(***************************************************************************)
EXTENDS StartUp, AlertFeed, SequenceLemmas, FiniteSetTheorems, FunctionTheorems

Values == {""} \cup {e.user : e \in Envs} \cup {e.password : e \in Envs}

\* Where a start stands after the certificate.
Later == {"decoy", "user", "hash", "host", "ssh", "https", "serving"}
AfterUser == {"hash", "host", "ssh", "https", "serving"}
AfterHash == {"host", "ssh", "https", "serving"}

\* Types that TypeOK leaves to the invariant.
Shapes ==
  /\ admin \in [{"user", "hash"} -> Values]
  /\ served \in [KeyServices -> SUBSET (0..Torn)]

\* What holds where the start stands.
Reached ==
  /\ pc = "down" => up = {}
  /\ pc # "down" => starts >= 1
  /\ pc = "ssh" => "ssh" \in wanted /\ Exists("host")

\* The certificate is written before its key, and only if there is no key.
Certs ==
  /\ Exists("key") =>
       Exists("cert") /\ file["cert"] # Torn /\ file["key"] \in {file["cert"], Torn}
  /\ pc = "cert" => ~Exists("key")
  /\ pc = "key" => file["cert"] = starts /\ (writing \/ ~Exists("key"))
  /\ pc \in Later => Exists("cert") /\ Exists("key")

\* Why a service that was wanted is not up.
Down ==
  /\ pc = "serving" /\ "https" \in wanted \ up => file["key"] = Torn
  /\ pc \in {"https", "serving"} /\ "ssh" \in wanted \ up => "host" \in hurt

\* A key that has been shown exists and is not written any more.
Keys ==
  /\ served["https"] # {} =>
       served["https"] = {file["cert"]} /\ Exists("key") /\ pc \notin {"cert", "key"}
  /\ served["ssh"] # {} =>
       served["ssh"] = {file["host"]} /\ Exists("host") /\ ~(pc = "host" /\ writing)

\* A login that has been accepted is the one of the stored rows.
Logins ==
  /\ pc \in AfterUser => admin["user"] # ""
  /\ pc \in AfterHash => admin["hash"] # ""
  /\ accepted \subseteq {<<admin["user"], admin["hash"]>>}
  /\ accepted # {} => admin["user"] # "" /\ admin["hash"] # ""

IInv == TypeOK /\ Shapes /\ Reached /\ Certs /\ Down /\ Keys /\ Logins
\* Numbers are numbers.
LEMMA Numbers ==
  ASSUME TypeOK
  PROVE  /\ MaxStarts \in Nat /\ Torn \in Nat /\ starts \in Nat /\ starts < Torn
         /\ Torn # 0 /\ \A f \in Files : file[f] \in Nat
<1>0. MaxStarts \in Nat
  BY StartUpAssumption, Zenon
<1>1. MaxStarts \in Nat /\ Torn \in Nat /\ Torn = MaxStarts + 1
  BY <1>0 DEF Torn
<1>2. starts \in Nat /\ starts <= MaxStarts
  BY <1>1 DEF TypeOK
<1>3. \A f \in Files : file[f] \in 0..Torn
  BY DEF TypeOK
<1> QED
  BY <1>1, <1>2, <1>3

\* Types are kept where only the place changes.
LEMMA GoToType ==
  ASSUME TypeOK, NEW from, NEW next \in Places, GoTo(from, next)
  PROVE  TypeOK'
BY DEF GoTo, history, TypeOK

\* Types are kept where a file is opened ...
LEMMA OpenType ==
  ASSUME TypeOK, NEW f \in Files, OpenFile(f)
  PROVE  TypeOK'
<1>1. /\ pc = f /\ ~writing /\ writing'
      /\ file' = [file EXCEPT ![f] = Torn]
      /\ UNCHANGED <<pc, admin, env, wanted, up, starts, hurt>>
  BY DEF OpenFile, history
<1>2. file' \in [Files -> 0..Torn]
  BY <1>1, Numbers DEF TypeOK
<1>3. \A g \in Files : file'[g] = Torn => g \in hurt' \/ (writing' /\ g = pc')
  BY <1>1 DEF TypeOK
<1>4. writing' => pc' \in Files /\ file'[pc'] = Torn
  BY <1>1 DEF TypeOK
<1> QED
  BY <1>1, <1>2, <1>3, <1>4 DEF TypeOK, Torn

\* ... and where it gets its content.
LEMMA FillType ==
  ASSUME TypeOK, NEW f \in Files, NEW next \in Places, FillFile(f, next)
  PROVE  TypeOK'
<1>1. /\ pc = f /\ writing /\ writing' = FALSE /\ pc' = next
      /\ file' = [file EXCEPT ![f] = starts]
      /\ UNCHANGED <<admin, env, wanted, up, starts, hurt>>
  BY DEF FillFile, history
<1>2. file' \in [Files -> 0..Torn]
  BY <1>1, Numbers DEF TypeOK
<1>3. \A g \in Files : file'[g] = Torn => g \in hurt'
  BY <1>1, Numbers DEF TypeOK
<1> QED
  BY <1>1, <1>2, <1>3 DEF TypeOK, Torn

\* Types are kept by every step.
LEMMA StepType ==
  ASSUME IInv, [Next]_vars
  PROVE  TypeOK'
<1> {"cert", "key", "decoy", "host"} \subseteq Files /\ Files \subseteq Places
  BY DEF Files, Places
<1>0. TypeOK
  BY DEF IInv
<1>1. CASE Start
  <2>1. /\ starts < MaxStarts /\ starts' = starts + 1 /\ pc = "down" /\ pc' = "certs"
        /\ env' \in Envs /\ wanted' \in SUBSET KeyServices
        /\ UNCHANGED <<writing, file, admin, up, hurt>>
    BY <1>1 DEF Start, history
  <2>2. up = {} /\ ~writing
    BY <2>1, <1>0 DEF IInv, Reached, TypeOK, Files
  <2>3. starts' \in 0..MaxStarts
    BY <2>1, Numbers, <1>0
  <2> QED
    BY <1>0, <2>1, <2>2, <2>3 DEF TypeOK, Torn, Places
<1>2. CASE Crash
  BY <1>0, <1>2 DEF Crash, TypeOK, Torn, Places
<1>3. CASE EnsureCerts
  BY <1>0, <1>3, GoToType DEF EnsureCerts, Places
<1>4. CASE OpenFile("cert") \/ OpenFile("key")
  BY <1>0, <1>4, OpenType
<1>5. CASE FillFile("cert", "key") \/ FillFile("key", "decoy")
  BY <1>0, <1>5, FillType DEF Places
<1>6. CASE EnsureDecoy
  BY <1>0, <1>6, GoToType, OpenType, FillType DEF EnsureDecoy, WriteFile, Places
<1>7. CASE EnsureAdmin
  <2>1. /\ pc \in {"user", "hash"} /\ pc' \in Places
        /\ UNCHANGED <<writing, file, env, wanted, up, starts, hurt>>
    BY <1>7 DEF EnsureAdmin, EnsureRow, history, Places
  <2> QED
    BY <1>0, <2>1 DEF TypeOK, Torn, Files
<1>8. CASE EnsureHostKey
  BY <1>0, <1>8, GoToType, OpenType, FillType DEF EnsureHostKey, WriteFile, Places
<1>9. CASE HostKeyFails
  BY <1>0, <1>9 DEF HostKeyFails, TypeOK, Torn, Places, Files
<1>10. CASE StartSsh
  BY <1>0, <1>10 DEF StartSsh, Listen, history, IInv, Reached, TypeOK, Torn, Places, Files
<1>11. CASE StartHttps
  BY <1>0, <1>11 DEF StartHttps, Listen, history, TypeOK, Torn, Places, Files
<1>12. CASE \E e, f \in Envs : Login(e.user, f.password)
  <2>1. UNCHANGED <<pc, writing, file, env, wanted, up, starts, hurt>>
    BY <1>12 DEF Login
  <2> QED
    BY <1>0, <2>1 DEF TypeOK, Torn
<1>13. CASE UNCHANGED vars
  BY <1>0, <1>13 DEF vars, history, TypeOK, Torn
<1> QED
  BY <1>1, <1>2, <1>3, <1>4, <1>5, <1>6, <1>7, <1>8, <1>9, <1>10, <1>11, <1>12, <1>13
  DEF Next, Run, GenerateSelfSigned, WriteFile

\* So are the shapes of the tables.
LEMMA StepShapes ==
  ASSUME IInv, [Next]_vars
  PROVE  Shapes'
<1>1. CASE Start
  BY <1>1 DEF Start, history, Exists, Torn, Files, KeyServices, Places, IInv, TypeOK, Shapes, Values
<1>2. CASE Crash
  BY <1>2 DEF Crash, history, Exists, Torn, Files, KeyServices, Places, IInv, TypeOK, Shapes, Values
<1>3. CASE EnsureCerts
  BY <1>3 DEF EnsureCerts, GoTo, history, Exists, Torn, Files, KeyServices, Places, IInv, TypeOK, Shapes, Values
<1>4. CASE OpenFile("cert")
  BY <1>4 DEF OpenFile, history, Exists, Torn, Files, KeyServices, Places, IInv, TypeOK, Shapes, Values
<1>5. CASE FillFile("cert", "key")
  BY <1>5 DEF FillFile, history, Exists, Torn, Files, KeyServices, Places, IInv, TypeOK, Shapes, Values
<1>6. CASE OpenFile("key")
  BY <1>6 DEF OpenFile, history, Exists, Torn, Files, KeyServices, Places, IInv, TypeOK, Shapes, Values
<1>7. CASE FillFile("key", "decoy")
  BY <1>7 DEF FillFile, history, Exists, Torn, Files, KeyServices, Places, IInv, TypeOK, Shapes, Values
<1>8. CASE EnsureDecoy
  BY <1>8 DEF EnsureDecoy, GoTo, WriteFile, OpenFile, FillFile, history, Exists, Torn, Files, KeyServices, Places, IInv, TypeOK, Shapes, Values
<1>9. CASE EnsureAdmin
  BY <1>9 DEF EnsureAdmin, EnsureRow, history, Exists, Torn, Files, KeyServices, Places, IInv, TypeOK, Shapes, Values
<1>10. CASE EnsureHostKey
  BY <1>10 DEF EnsureHostKey, GoTo, WriteFile, OpenFile, FillFile, history, Exists, Torn, Files, KeyServices, Places, IInv, TypeOK, Shapes, Values
<1>11. CASE HostKeyFails
  BY <1>11 DEF HostKeyFails, history, Exists, Torn, Files, KeyServices, Places, IInv, TypeOK, Shapes, Values
<1>12. CASE StartSsh
  BY <1>12 DEF StartSsh, Listen, history, Exists, Torn, Files, KeyServices, Places, IInv, TypeOK, Shapes, Values
<1>13. CASE StartHttps
  BY <1>13 DEF StartHttps, Listen, history, Exists, Torn, Files, KeyServices, Places, IInv, TypeOK, Shapes, Values
<1>14. CASE \E e, f \in Envs : Login(e.user, f.password)
  BY <1>14 DEF Login, history, Exists, Torn, Files, KeyServices, Places, IInv, TypeOK, Shapes, Values
<1>15. CASE UNCHANGED vars
  BY <1>15 DEF vars, history, Exists, Torn, Files, KeyServices, Places, IInv, TypeOK, Shapes, Values
<1> QED
  BY <1>1, <1>2, <1>3, <1>4, <1>5, <1>6, <1>7, <1>8, <1>9, <1>10, <1>11, <1>12, <1>13, <1>14, <1>15 DEF Next, Run, GenerateSelfSigned, WriteFile

\* What holds where the start stands, holds where it comes to.
LEMMA StepReached ==
  ASSUME IInv, [Next]_vars
  PROVE  Reached'
<1>0. /\ MaxStarts \in Nat /\ Torn \in Nat /\ starts \in Nat /\ starts < Torn
      /\ Torn # 0 /\ \A f \in Files : file[f] \in Nat
  BY Numbers DEF IInv
<1>1. CASE Start
  <2>1. starts' = starts + 1 /\ pc' = "certs"
    BY <1>1 DEF Start
  <2> QED
    BY <2>1, <1>0 DEF IInv, Reached
<1>2. CASE Crash
  BY <1>2 DEF Crash, history, Exists, Torn, Files, KeyServices, Places, IInv, TypeOK, Reached
<1>3. CASE EnsureCerts
  BY <1>3 DEF EnsureCerts, GoTo, history, Exists, Torn, Files, KeyServices, Places, IInv, TypeOK, Reached
<1>4. CASE OpenFile("cert")
  BY <1>4 DEF OpenFile, history, Exists, Torn, Files, KeyServices, Places, IInv, TypeOK, Reached
<1>5. CASE FillFile("cert", "key")
  BY <1>5 DEF FillFile, history, Exists, Torn, Files, KeyServices, Places, IInv, TypeOK, Reached
<1>6. CASE OpenFile("key")
  BY <1>6 DEF OpenFile, history, Exists, Torn, Files, KeyServices, Places, IInv, TypeOK, Reached
<1>7. CASE FillFile("key", "decoy")
  BY <1>7 DEF FillFile, history, Exists, Torn, Files, KeyServices, Places, IInv, TypeOK, Reached
<1>8. CASE EnsureDecoy
  BY <1>8 DEF EnsureDecoy, GoTo, WriteFile, OpenFile, FillFile, history, Exists, Torn, Files, KeyServices, Places, IInv, TypeOK, Reached
<1>9. CASE EnsureAdmin
  BY <1>9 DEF EnsureAdmin, EnsureRow, history, Exists, Torn, Files, KeyServices, Places, IInv, TypeOK, Reached
<1>10. CASE EnsureHostKey
  <2>1. starts >= 1 /\ starts' = starts /\ wanted' = wanted /\ pc' # "down"
    BY <1>10 DEF EnsureHostKey, GoTo, WriteFile, OpenFile, FillFile, history, IInv, Reached
  <2>2. pc' = "ssh" => "ssh" \in wanted /\ ((file' = file /\ Exists("host")) \/ FillFile("host", "ssh"))
    BY <1>10 DEF EnsureHostKey, GoTo, WriteFile, OpenFile, FillFile
  <2>3. FillFile("host", "ssh") => file'["host"] = starts
    BY DEF FillFile, IInv, TypeOK, Files
  <2> QED
    BY <2>1, <2>2, <2>3, <1>0 DEF Reached, Exists, IInv
<1>11. CASE HostKeyFails
  BY <1>11 DEF HostKeyFails, history, Exists, Torn, Files, KeyServices, Places, IInv, TypeOK, Reached
<1>12. CASE StartSsh
  BY <1>12 DEF StartSsh, Listen, history, Exists, Torn, Files, KeyServices, Places, IInv, TypeOK, Reached
<1>13. CASE StartHttps
  BY <1>13 DEF StartHttps, Listen, history, Exists, Torn, Files, KeyServices, Places, IInv, TypeOK, Reached
<1>14. CASE \E e, f \in Envs : Login(e.user, f.password)
  BY <1>14 DEF Login, history, Exists, Torn, Files, KeyServices, Places, IInv, TypeOK, Reached
<1>15. CASE UNCHANGED vars
  BY <1>15 DEF vars, history, Exists, Torn, Files, KeyServices, Places, IInv, TypeOK, Reached
<1> QED
  BY <1>1, <1>2, <1>3, <1>4, <1>5, <1>6, <1>7, <1>8, <1>9, <1>10, <1>11, <1>12, <1>13, <1>14, <1>15 DEF Next, Run, GenerateSelfSigned, WriteFile

\* The certificate stays ahead of its key.
LEMMA StepCerts ==
  ASSUME IInv, [Next]_vars
  PROVE  Certs'
<1>0. /\ MaxStarts \in Nat /\ Torn \in Nat /\ starts \in Nat /\ starts < Torn
      /\ Torn # 0 /\ \A f \in Files : file[f] \in Nat
  BY Numbers DEF IInv
<1>1. CASE Start
  BY <1>1 DEF Start, history, Exists, Torn, Files, KeyServices, Places, IInv, TypeOK, Reached, Certs, Later
<1>2. CASE Crash
  BY <1>2 DEF Crash, history, Exists, Torn, Files, KeyServices, Places, IInv, TypeOK, Reached, Certs, Later
<1>3. CASE EnsureCerts
  BY <1>3 DEF EnsureCerts, GoTo, history, Exists, Torn, Files, KeyServices, Places, IInv, TypeOK, Reached, Certs, Later
<1>4. CASE OpenFile("cert")
  BY <1>4 DEF OpenFile, history, Exists, Torn, Files, KeyServices, Places, IInv, TypeOK, Reached, Certs, Later
<1>5. CASE FillFile("cert", "key")
  BY <1>5 DEF FillFile, history, Exists, Torn, Files, KeyServices, Places, IInv, TypeOK, Reached, Certs, Later
<1>6. CASE OpenFile("key")
  <2>1. /\ pc = "key" /\ ~writing /\ pc' = pc /\ writing' = TRUE /\ starts' = starts
        /\ file' = [file EXCEPT !["key"] = Torn]
    BY <1>6 DEF OpenFile, history
  <2>2. file'["key"] = Torn /\ file'["cert"] = file["cert"]
    BY <2>1 DEF IInv, TypeOK, Files
  <2>3. file["cert"] = starts /\ starts >= 1
    BY <2>1 DEF IInv, Certs, Reached
  <2> QED
    BY <2>1, <2>2, <2>3, <1>0 DEF Certs, Exists, Later, IInv
<1>7. CASE FillFile("key", "decoy")
  <2>1. /\ pc = "key" /\ pc' = "decoy" /\ starts' = starts
        /\ file' = [file EXCEPT !["key"] = starts]
    BY <1>7 DEF FillFile, history
  <2>2. file'["key"] = starts /\ file'["cert"] = file["cert"]
    BY <2>1 DEF IInv, TypeOK, Files
  <2>3. file["cert"] = starts /\ starts >= 1
    BY <2>1 DEF IInv, Certs, Reached
  <2> QED
    BY <2>1, <2>2, <2>3, <1>0 DEF Certs, Exists, Later, IInv
<1>8. CASE EnsureDecoy
  BY <1>8 DEF EnsureDecoy, GoTo, WriteFile, OpenFile, FillFile, history, Exists, Torn, Files, KeyServices, Places, IInv, TypeOK, Reached, Certs, Later
<1>9. CASE EnsureAdmin
  BY <1>9 DEF EnsureAdmin, EnsureRow, history, Exists, Torn, Files, KeyServices, Places, IInv, TypeOK, Reached, Certs, Later
<1>10. CASE EnsureHostKey
  BY <1>10 DEF EnsureHostKey, GoTo, WriteFile, OpenFile, FillFile, history, Exists, Torn, Files, KeyServices, Places, IInv, TypeOK, Reached, Certs, Later
<1>11. CASE HostKeyFails
  BY <1>11 DEF HostKeyFails, history, Exists, Torn, Files, KeyServices, Places, IInv, TypeOK, Reached, Certs, Later
<1>12. CASE StartSsh
  BY <1>12 DEF StartSsh, Listen, history, Exists, Torn, Files, KeyServices, Places, IInv, TypeOK, Reached, Certs, Later
<1>13. CASE StartHttps
  BY <1>13 DEF StartHttps, Listen, history, Exists, Torn, Files, KeyServices, Places, IInv, TypeOK, Reached, Certs, Later
<1>14. CASE \E e, f \in Envs : Login(e.user, f.password)
  BY <1>14 DEF Login, history, Exists, Torn, Files, KeyServices, Places, IInv, TypeOK, Reached, Certs, Later
<1>15. CASE UNCHANGED vars
  BY <1>15 DEF vars, history, Exists, Torn, Files, KeyServices, Places, IInv, TypeOK, Reached, Certs, Later
<1> QED
  BY <1>1, <1>2, <1>3, <1>4, <1>5, <1>6, <1>7, <1>8, <1>9, <1>10, <1>11, <1>12, <1>13, <1>14, <1>15 DEF Next, Run, GenerateSelfSigned, WriteFile

\* A service stays down for a reason.
LEMMA StepDown ==
  ASSUME IInv, [Next]_vars
  PROVE  Down'
<1>1. CASE Start
  BY <1>1 DEF Start, history, Exists, Torn, Files, KeyServices, Places, IInv, TypeOK, Reached, Certs, Later, Down
<1>2. CASE Crash
  BY <1>2 DEF Crash, history, Exists, Torn, Files, KeyServices, Places, IInv, TypeOK, Reached, Certs, Later, Down
<1>3. CASE EnsureCerts
  BY <1>3 DEF EnsureCerts, GoTo, history, Exists, Torn, Files, KeyServices, Places, IInv, TypeOK, Reached, Certs, Later, Down
<1>4. CASE OpenFile("cert")
  BY <1>4 DEF OpenFile, history, Exists, Torn, Files, KeyServices, Places, IInv, TypeOK, Reached, Certs, Later, Down
<1>5. CASE FillFile("cert", "key")
  BY <1>5 DEF FillFile, history, Exists, Torn, Files, KeyServices, Places, IInv, TypeOK, Reached, Certs, Later, Down
<1>6. CASE OpenFile("key")
  BY <1>6 DEF OpenFile, history, Exists, Torn, Files, KeyServices, Places, IInv, TypeOK, Reached, Certs, Later, Down
<1>7. CASE FillFile("key", "decoy")
  BY <1>7 DEF FillFile, history, Exists, Torn, Files, KeyServices, Places, IInv, TypeOK, Reached, Certs, Later, Down
<1>8. CASE EnsureDecoy
  BY <1>8 DEF EnsureDecoy, GoTo, WriteFile, OpenFile, FillFile, history, Exists, Torn, Files, KeyServices, Places, IInv, TypeOK, Reached, Certs, Later, Down
<1>9. CASE EnsureAdmin
  BY <1>9 DEF EnsureAdmin, EnsureRow, history, Exists, Torn, Files, KeyServices, Places, IInv, TypeOK, Reached, Certs, Later, Down
<1>10. CASE EnsureHostKey
  BY <1>10 DEF EnsureHostKey, GoTo, WriteFile, OpenFile, FillFile, history, Exists, Torn, Files, KeyServices, Places, IInv, TypeOK, Reached, Certs, Later, Down
<1>11. CASE HostKeyFails
  BY <1>11 DEF HostKeyFails, history, Exists, Torn, Files, KeyServices, Places, IInv, TypeOK, Reached, Certs, Later, Down
<1>12. CASE StartSsh
  BY <1>12 DEF StartSsh, Listen, history, Exists, Torn, Files, KeyServices, Places, IInv, TypeOK, Reached, Certs, Later, Down
<1>13. CASE StartHttps
  BY <1>13 DEF StartHttps, Listen, history, Exists, Torn, Files, KeyServices, Places, IInv, TypeOK, Reached, Certs, Later, Down
<1>14. CASE \E e, f \in Envs : Login(e.user, f.password)
  BY <1>14 DEF Login, history, Exists, Torn, Files, KeyServices, Places, IInv, TypeOK, Reached, Certs, Later, Down
<1>15. CASE UNCHANGED vars
  BY <1>15 DEF vars, history, Exists, Torn, Files, KeyServices, Places, IInv, TypeOK, Reached, Certs, Later, Down
<1> QED
  BY <1>1, <1>2, <1>3, <1>4, <1>5, <1>6, <1>7, <1>8, <1>9, <1>10, <1>11, <1>12, <1>13, <1>14, <1>15 DEF Next, Run, GenerateSelfSigned, WriteFile

\* A key that was shown stays.
LEMMA StepKeys ==
  ASSUME IInv, [Next]_vars
  PROVE  Keys'
<1>1. CASE Start
  BY <1>1 DEF Start, history, Exists, Torn, Files, KeyServices, Places, IInv, TypeOK, Shapes, Reached, Certs, Later, Keys
<1>2. CASE Crash
  BY <1>2 DEF Crash, history, Exists, Torn, Files, KeyServices, Places, IInv, TypeOK, Shapes, Reached, Certs, Later, Keys
<1>3. CASE EnsureCerts
  BY <1>3 DEF EnsureCerts, GoTo, history, Exists, Torn, Files, KeyServices, Places, IInv, TypeOK, Shapes, Reached, Certs, Later, Keys
<1>4. CASE OpenFile("cert")
  BY <1>4 DEF OpenFile, history, Exists, Torn, Files, KeyServices, Places, IInv, TypeOK, Shapes, Reached, Certs, Later, Keys
<1>5. CASE FillFile("cert", "key")
  BY <1>5 DEF FillFile, history, Exists, Torn, Files, KeyServices, Places, IInv, TypeOK, Shapes, Reached, Certs, Later, Keys
<1>6. CASE OpenFile("key")
  BY <1>6 DEF OpenFile, history, Exists, Torn, Files, KeyServices, Places, IInv, TypeOK, Shapes, Reached, Certs, Later, Keys
<1>7. CASE FillFile("key", "decoy")
  BY <1>7 DEF FillFile, history, Exists, Torn, Files, KeyServices, Places, IInv, TypeOK, Shapes, Reached, Certs, Later, Keys
<1>8. CASE EnsureDecoy
  BY <1>8 DEF EnsureDecoy, GoTo, WriteFile, OpenFile, FillFile, history, Exists, Torn, Files, KeyServices, Places, IInv, TypeOK, Shapes, Reached, Certs, Later, Keys
<1>9. CASE EnsureAdmin
  <2>1. pc' \in {"hash", "host"} /\ UNCHANGED <<writing, file, served>>
    BY <1>9 DEF EnsureAdmin, EnsureRow, history
  <2>2. ~writing
    BY <1>9 DEF EnsureAdmin, EnsureRow, IInv, TypeOK, Files
  <2> QED
    BY <2>1, <2>2 DEF IInv, Keys, Exists
<1>10. CASE EnsureHostKey
  BY <1>10 DEF EnsureHostKey, GoTo, WriteFile, OpenFile, FillFile, history, Exists, Torn, Files, KeyServices, Places, IInv, TypeOK, Shapes, Reached, Certs, Later, Keys
<1>11. CASE HostKeyFails
  BY <1>11 DEF HostKeyFails, history, Exists, Torn, Files, KeyServices, Places, IInv, TypeOK, Shapes, Reached, Certs, Later, Keys
<1>12. CASE StartSsh
  BY <1>12 DEF StartSsh, Listen, history, Exists, Torn, Files, KeyServices, Places, IInv, TypeOK, Shapes, Reached, Certs, Later, Keys
<1>13. CASE StartHttps
  BY <1>13 DEF StartHttps, Listen, history, Exists, Torn, Files, KeyServices, Places, IInv, TypeOK, Shapes, Reached, Certs, Later, Keys
<1>14. CASE \E e, f \in Envs : Login(e.user, f.password)
  BY <1>14 DEF Login, history, Exists, Torn, Files, KeyServices, Places, IInv, TypeOK, Shapes, Reached, Certs, Later, Keys
<1>15. CASE UNCHANGED vars
  BY <1>15 DEF vars, history, Exists, Torn, Files, KeyServices, Places, IInv, TypeOK, Shapes, Reached, Certs, Later, Keys
<1> QED
  BY <1>1, <1>2, <1>3, <1>4, <1>5, <1>6, <1>7, <1>8, <1>9, <1>10, <1>11, <1>12, <1>13, <1>14, <1>15 DEF Next, Run, GenerateSelfSigned, WriteFile

\* A login that was accepted stays.
LEMMA StepLogins ==
  ASSUME IInv, [Next]_vars
  PROVE  Logins'
<1> USE StartUpAssumption
<1>1. CASE Start
  BY <1>1 DEF Start, history, Exists, Torn, Files, KeyServices, Places, IInv, TypeOK, Shapes, Values, Logins, AfterUser, AfterHash
<1>2. CASE Crash
  BY <1>2 DEF Crash, history, Exists, Torn, Files, KeyServices, Places, IInv, TypeOK, Shapes, Values, Logins, AfterUser, AfterHash
<1>3. CASE EnsureCerts
  BY <1>3 DEF EnsureCerts, GoTo, history, Exists, Torn, Files, KeyServices, Places, IInv, TypeOK, Shapes, Values, Logins, AfterUser, AfterHash
<1>4. CASE OpenFile("cert")
  BY <1>4 DEF OpenFile, history, Exists, Torn, Files, KeyServices, Places, IInv, TypeOK, Shapes, Values, Logins, AfterUser, AfterHash
<1>5. CASE FillFile("cert", "key")
  BY <1>5 DEF FillFile, history, Exists, Torn, Files, KeyServices, Places, IInv, TypeOK, Shapes, Values, Logins, AfterUser, AfterHash
<1>6. CASE OpenFile("key")
  BY <1>6 DEF OpenFile, history, Exists, Torn, Files, KeyServices, Places, IInv, TypeOK, Shapes, Values, Logins, AfterUser, AfterHash
<1>7. CASE FillFile("key", "decoy")
  BY <1>7 DEF FillFile, history, Exists, Torn, Files, KeyServices, Places, IInv, TypeOK, Shapes, Values, Logins, AfterUser, AfterHash
<1>8. CASE EnsureDecoy
  BY <1>8 DEF EnsureDecoy, GoTo, WriteFile, OpenFile, FillFile, history, Exists, Torn, Files, KeyServices, Places, IInv, TypeOK, Shapes, Values, Logins, AfterUser, AfterHash
<1>9. CASE EnsureAdmin
  BY <1>9 DEF EnsureAdmin, EnsureRow, history, Exists, Torn, Files, KeyServices, Places, IInv, TypeOK, Shapes, Values, Logins, AfterUser, AfterHash
<1>10. CASE EnsureHostKey
  BY <1>10 DEF EnsureHostKey, GoTo, WriteFile, OpenFile, FillFile, history, Exists, Torn, Files, KeyServices, Places, IInv, TypeOK, Shapes, Values, Logins, AfterUser, AfterHash
<1>11. CASE HostKeyFails
  BY <1>11 DEF HostKeyFails, history, Exists, Torn, Files, KeyServices, Places, IInv, TypeOK, Shapes, Values, Logins, AfterUser, AfterHash
<1>12. CASE StartSsh
  BY <1>12 DEF StartSsh, Listen, history, Exists, Torn, Files, KeyServices, Places, IInv, TypeOK, Shapes, Values, Logins, AfterUser, AfterHash
<1>13. CASE StartHttps
  BY <1>13 DEF StartHttps, Listen, history, Exists, Torn, Files, KeyServices, Places, IInv, TypeOK, Shapes, Values, Logins, AfterUser, AfterHash
<1>14. CASE \E e, f \in Envs : Login(e.user, f.password)
  BY <1>14 DEF Login, history, Exists, Torn, Files, KeyServices, Places, IInv, TypeOK, Shapes, Values, Logins, AfterUser, AfterHash
<1>15. CASE UNCHANGED vars
  BY <1>15 DEF vars, history, Exists, Torn, Files, KeyServices, Places, IInv, TypeOK, Shapes, Values, Logins, AfterUser, AfterHash
<1> QED
  BY <1>1, <1>2, <1>3, <1>4, <1>5, <1>6, <1>7, <1>8, <1>9, <1>10, <1>11, <1>12, <1>13, <1>14, <1>15 DEF Next, Run, GenerateSelfSigned, WriteFile

---------------------------------------------------------------------------
\* The invariant holds at the beginning.
LEMMA InitInv ==
  ASSUME Init
  PROVE  IInv
<1>0. MaxStarts \in Nat
  BY StartUpAssumption, Zenon
<1>1. Torn \in Nat /\ Torn # 0 /\ Torn = MaxStarts + 1
  BY <1>0 DEF Torn
<1>2. TypeOK
  <2>0. 0 \in 0..Torn /\ 0 \in 0..MaxStarts
    BY <1>0, <1>1
  <2>1. file \in [Files -> 0..Torn] /\ starts \in 0..MaxStarts
    <3>1. file = [f \in Files |-> 0] /\ starts = 0
      BY Zenon DEF Init
    <3> QED
      BY <2>0, <3>1
  <2>2. /\ pc = "down" /\ writing = FALSE /\ env \in Envs /\ hurt = {} /\ up = {} /\ wanted = {}
        /\ \A f \in Files : file[f] = 0
    BY DEF Init
  <2> QED
    BY <1>1, <2>1, <2>2 DEF TypeOK, Places
<1>3. Shapes
  BY <1>1 DEF Init, Shapes, Values
<1> QED
  BY <1>1, <1>2, <1>3 DEF Init, IInv, Reached, Certs, Down, Keys, Logins, Exists, Files,
    KeyServices, Later, AfterUser, AfterHash

\* The invariant is inductive.
THEOREM StartUpInvariant == Spec => []IInv
<1>1. Init => IInv
  BY InitInv
<1>2. IInv /\ [Next]_vars => IInv'
  BY StepType, StepShapes, StepReached, StepCerts, StepDown, StepKeys, StepLogins DEF IInv
<1> QED
  BY <1>1, <1>2, PTL DEF Spec

\* Every variable keeps its type, and a file is torn only while it is being
\* written or after its writing was cut off.
THEOREM TypeCorrect == Spec => []TypeOK
<1>1. IInv => TypeOK
  BY DEF IInv
<1> QED
  BY <1>1, StartUpInvariant, PTL

\* A service that was to be started and is not listening was hit by a crash or
\* a failed write in the middle of its key; everything else has been repaired.
THEOREM NextStartRepairs == Spec => []RepairedByNextStart
<1>1. ASSUME IInv, pc = "serving"
      PROVE  /\ "https" \in wanted \ up => "key" \in hurt
             /\ "ssh" \in wanted \ up => "host" \in hurt
             /\ file["cert"] # Torn /\ (file["decoy"] = Torn => "decoy" \in hurt)
  <2>1. \A f \in Files : file[f] = Torn => f \in hurt
    BY <1>1 DEF IInv, TypeOK, Files
  <2> QED
    BY <1>1, <2>1 DEF IInv, Certs, Down, Later, Files
<1>2. IInv => RepairedByNextStart
  BY <1>1 DEF RepairedByNextStart
<1> QED
  BY <1>2, StartUpInvariant, PTL

\* A set within one element has one element at most.
LEMMA AtMostOne ==
  ASSUME NEW S, NEW x, S \subseteq {x}
  PROVE  Cardinality(S) <= 1
<1>1. CASE S = {}
  BY <1>1, FS_EmptySet
<1>2. CASE S = {x}
  BY <1>2, FS_Singleton
<1> QED
  BY <1>1, <1>2

\* Whatever .env says and wherever earlier starts ended: one login is accepted
\* at most, and a service shows one key at most.
THEOREM FirstStartStays == Spec => []FirstStartDecides
<1>1. ASSUME IInv PROVE FirstStartDecides
  <2>1. Cardinality(accepted) <= 1
    BY <1>1, AtMostOne DEF IInv, Logins
  <2>2. ASSUME NEW s \in KeyServices PROVE Cardinality(served[s]) <= 1
    <3>1. served[s] \subseteq {file["cert"]} \/ served[s] \subseteq {file["host"]}
      BY <1>1, <2>2 DEF IInv, Keys, KeyServices
    <3> QED
      BY <3>1, AtMostOne
  <2> QED
    BY <2>1, <2>2 DEF FirstStartDecides
<1> QED
  BY <1>1, StartUpInvariant, PTL

---------------------------------------------------------------------------
(* The alerts table.                                                       *)

\* Rows that the table of alerts has.
Known(result) == \A row \in result : row[1] <= rows

\* The invariant: an answer tells of alerts there are, wherever it is on its
\* way, so that no acknowledgement is for one that there is not.
FeedInv ==
  /\ FeedTypeOK /\ Known(table)
  /\ \A s \in Slots : list[s].at = "answered" => Known(list[s].result)
  /\ ackAll.at = "answered" => Known(ackAll.result)
  /\ page = "login" => ackAll = Free

\* LIMIT gives no more than it says: all but the oldest of the rows it gives
\* are newer than that one, and of those there are fewer than the limit.
LEMMA NewestBounded ==
  ASSUME NEW ids, IsFiniteSet(ids), ids \subseteq Nat, NEW limit \in Nat
  PROVE  /\ IsFiniteSet(Newest(ids, limit)) /\ Newest(ids, limit) \subseteq ids
         /\ Cardinality(Newest(ids, limit)) <= limit
<1> DEFINE N == Newest(ids, limit)
           newer(i) == {j \in ids : j > i}
<1>1. N \subseteq ids /\ \A i \in N : Cardinality(newer(i)) < limit BY DEF Newest
<1> HIDE DEF N
<1>2. IsFiniteSet(N) BY <1>1, FS_Subset
<1>3. CASE N = {} BY <1>1, <1>2, <1>3, FS_EmptySet DEF N
<1>4. CASE N # {}
  <2>1. PICK m \in N : \A j \in N : m <= j
    <3>1. N \in SUBSET Nat BY <1>1
    <3>2. QED BY <1>4, <3>1, LeastElement
  <2>2. m \in Nat /\ \A j \in N \ {m} : j \in newer(m) BY <1>1, <2>1
  <2>3. IsFiniteSet(newer(m)) /\ Cardinality(newer(m)) \in Nat
    <3>1. newer(m) \in SUBSET ids OBVIOUS
    <3>2. IsFiniteSet(newer(m)) BY <3>1, FS_Subset
    <3>3. QED BY <3>2, FS_CardinalityType
  <2>4. Cardinality(newer(m)) < limit BY <1>1, <2>1
  <2> HIDE DEF newer
  <2>5. Cardinality(N \ {m}) <= Cardinality(newer(m))
    <3>1. N \ {m} \in SUBSET newer(m) BY <2>2
    <3>2. QED BY <2>3, <3>1, FS_Subset
  <2>6. Cardinality(N \ {m}) = Cardinality(N) - 1 /\ Cardinality(N) \in Nat
    BY <1>2, <2>1, FS_RemoveElement, FS_CardinalityType
  <2>7. Cardinality(N) <= limit BY <2>3, <2>4, <2>5, <2>6
  <2>8. QED BY <1>1, <1>2, <2>7 DEF N
<1>5. QED BY <1>3, <1>4

\* The answer to a request for the list.
LEMMA ListAlertsTyped ==
  ASSUME rows \in 0..MaxAlerts, NEW unacked \in BOOLEAN
  PROVE  ListAlerts(Limit, unacked) \in Result /\ Known(ListAlerts(Limit, unacked))
<1> DEFINE limit == IF Limit < Cap THEN Limit ELSE Cap
           all == {i \in 1..rows : unacked => i \notin acked}
           ids == Newest(all, limit)
           answer == {<<i, i \in acked>> : i \in ids}
<1>1. ListAlerts(Limit, unacked) = answer BY DEF ListAlerts
<1>2. limit \in Int /\ (Limit >= 0 => limit \in Nat /\ limit <= Limit) BY AlertFeedAssumption
<1>3. rows \in Nat /\ MaxAlerts \in Nat /\ rows <= MaxAlerts BY AlertFeedAssumption
<1>4. all \subseteq 1..rows /\ all \subseteq Nat /\ IsFiniteSet(all)
  <2>1. IsFiniteSet(1..rows) BY <1>3, FS_Interval
  <2>2. all \in SUBSET (1..rows) OBVIOUS
  <2>3. QED BY <1>3, <2>1, <2>2, FS_Subset
<1> HIDE DEF limit, all
<1>5. ids \subseteq all BY DEF Newest
<1>6. IsFiniteSet(ids)
  <2>1. ids \in SUBSET all BY <1>5
  <2>2. QED BY <1>4, <2>1, FS_Subset
<1>7. Limit >= 0 => Cardinality(ids) <= Limit
  <2> SUFFICES ASSUME Limit >= 0 PROVE Cardinality(ids) <= Limit OBVIOUS
  <2>1. Cardinality(ids) <= limit BY <1>2, <1>4, NewestBounded
  <2>2. Cardinality(ids) \in Nat BY <1>6, FS_CardinalityType
  <2>3. QED BY <1>2, <2>1, <2>2, AlertFeedAssumption
<1>8. \A i \in ids : i \in Nat /\ 1 <= i /\ i <= rows /\ i \in Ids
  <2> SUFFICES ASSUME NEW i \in ids PROVE i \in Nat /\ 1 <= i /\ i <= rows /\ i \in Ids OBVIOUS
  <2> HIDE DEF ids
  <2>1. i \in 1..rows BY <1>4, <1>5
  <2>2. QED BY <1>3, <2>1 DEF Ids
<1> HIDE DEF ids
<1>9. Cardinality(answer) = Cardinality(ids)
  <2> DEFINE f == [i \in ids |-> <<i, i \in acked>>]
  <2>1. f \in [ids -> answer] OBVIOUS
  <2>2. \A i, j \in ids : f[i] = f[j] => i = j OBVIOUS
  <2>3. \A a \in answer : \E i \in ids : f[i] = a OBVIOUS
  <2> HIDE DEF f, answer
  <2>4. f \in Bijection(ids, answer) BY <2>1, <2>2, <2>3, Fun_IsBij
  <2>5. QED BY <1>6, <2>4, FS_Bijection DEF ExistsBijection
<1>10. \A row \in answer : row \in Ids \X BOOLEAN /\ row[1] <= rows
  <2> SUFFICES ASSUME NEW row \in answer PROVE row \in Ids \X BOOLEAN /\ row[1] <= rows OBVIOUS
  <2>1. PICK i \in ids : row = <<i, i \in acked>> OBVIOUS
  <2>2. i \in Ids /\ i <= rows BY <1>8
  <2>3. row[1] = i /\ (i \in acked) \in BOOLEAN BY <2>1
  <2> HIDE DEF ids
  <2>4. row \in Ids \X BOOLEAN BY <2>1, <2>2, <2>3
  <2>5. QED BY <2>2, <2>3, <2>4
<1> HIDE DEF answer
<1>11. answer \subseteq Ids \X BOOLEAN BY <1>10
<1>12. answer \in Result BY <1>7, <1>9, <1>11 DEF Result
<1>13. QED BY <1>1, <1>10, <1>12 DEF Known

\* Every step keeps the invariant.
THEOREM FeedStepCorrect == FeedInv /\ [FeedNext]_feedVars => FeedInv'
<1> SUFFICES ASSUME FeedInv, [FeedNext]_feedVars PROVE FeedInv' OBVIOUS
<1>1. /\ rows \in Nat /\ rows <= MaxAlerts /\ MaxAlerts \in Nat /\ MaxClicks \in Nat /\ MaxLosses \in Nat
      /\ rows \in 0..MaxAlerts /\ clicks \in Nat /\ losses \in Nat
  BY AlertFeedAssumption DEF FeedInv, FeedTypeOK
<1>2. /\ FeedTypeOK /\ Known(table)
      /\ \A s \in Slots : list[s].at = "answered" => Known(list[s].result)
      /\ ackAll.at = "answered" => Known(ackAll.result)
      /\ page = "login" => ackAll = Free
  BY DEF FeedInv
<1>3. /\ Free.at = "free" /\ Denied.at = "denied"
      /\ \A u : Asked(u).at = "asked" /\ Asked(u).unacked = u
      /\ \A r : Answered(r).at = "answered" /\ Answered(r).result = r
  BY DEF Free, Denied, Asked, Answered
<1>4. /\ Free \in Request /\ Denied \in Request
      /\ \A u \in BOOLEAN : Asked(u) \in Request
      /\ \A r \in Result : Answered(r) \in Request
  BY DEF Request
<1>5. \A q \in Request : /\ q.at = "asked" => \E u \in BOOLEAN : q = Asked(u)
                         /\ q.at = "answered" => \E r \in Result : q = Answered(r)
                         /\ q.at = "free" => q = Free
                         /\ q.at = "denied" => q = Denied
  BY <1>3 DEF Request
\* An answer, given to any request.
<1>6. ASSUME NEW q \in Request, q.at = "asked"
      PROVE  Respond(q) \in Request /\ (Respond(q).at = "answered" => Known(Respond(q).result))
  <2>1. PICK u \in BOOLEAN : q = Asked(u) BY <1>5, <1>6
  <2>2. q.unacked = u BY <1>3, <2>1
  <2>3. ListAlerts(Limit, u) \in Result /\ Known(ListAlerts(Limit, u)) BY <1>1, ListAlertsTyped
  <2>4. Respond(q) = IF signed THEN Answered(ListAlerts(Limit, u)) ELSE Denied BY <2>2 DEF Respond
  <2>5. QED BY <1>3, <1>4, <2>3, <2>4
\* Rows of an answer have been inserted.
<1>7. ASSUME NEW r \in Result, Known(r) PROVE {row[1] : row \in r} \subseteq 1..rows
  <2> SUFFICES ASSUME NEW row \in r PROVE row[1] \in 1..rows OBVIOUS
  <2>1. row \in Ids \X BOOLEAN BY DEF Result
  <2>2. row[1] \in 1..MaxAlerts /\ row[1] <= rows BY <1>7, <2>1 DEF Ids, Known
  <2>3. QED BY <1>1, <2>2
<1>8. CASE UNCHANGED feedVars BY <1>2, <1>8 DEF FeedInv, FeedTypeOK, Known, feedVars
<1>9. CASE InsertAlert
  <2>1. rows' = rows + 1 /\ rows' <= MaxAlerts BY <1>1, <1>9 DEF InsertAlert
  <2>2. UNCHANGED <<acked, signed, browser, clicks, losses>> BY <1>9 DEF InsertAlert
  <2>3. \A r : Known(r) /\ r \in Result => \A row \in r : row[1] <= rows + 1
    <3> SUFFICES ASSUME NEW r \in Result, Known(r), NEW row \in r PROVE row[1] <= rows + 1 OBVIOUS
    <3>1. row[1] \in 1..rows BY <1>7
    <3>2. QED BY <1>1, <3>1
  <2>4. 1..rows \subseteq 1..rows + 1 /\ rows + 1 \in 0..MaxAlerts BY <1>1, <2>1
  <2>5. FeedTypeOK' BY <1>2, <2>1, <2>2, <2>4 DEF FeedTypeOK, browser
  <2>6. Known(table)' BY <1>2, <2>1, <2>2, <2>3 DEF Known, browser, FeedTypeOK
  <2>7. ASSUME NEW s \in Slots, list'[s].at = "answered" PROVE Known(list[s].result)'
    <3>1. list' = list BY <2>2 DEF browser
    <3>2. list[s] \in Request /\ Known(list[s].result) BY <1>2, <2>7, <3>1 DEF FeedTypeOK
    <3>3. list[s].result \in Result BY <1>3, <1>5, <2>7, <3>1, <3>2
    <3>4. QED BY <2>1, <2>3, <3>1, <3>2, <3>3 DEF Known
  <2>8. ackAll'.at = "answered" => Known(ackAll.result)'
    <3> SUFFICES ASSUME ackAll'.at = "answered" PROVE Known(ackAll.result)' OBVIOUS
    <3>1. ackAll' = ackAll BY <2>2 DEF browser
    <3>2. ackAll \in Request /\ Known(ackAll.result) BY <1>2, <3>1 DEF FeedTypeOK
    <3>3. ackAll.result \in Result BY <1>3, <1>5, <3>1, <3>2
    <3>4. QED BY <2>1, <2>3, <3>1, <3>2, <3>3 DEF Known
  <2>9. QED BY <1>2, <2>2, <2>5, <2>6, <2>7, <2>8 DEF FeedInv, browser
<1>10. CASE SessionExpires
  <2>1. clicks' \in 0..MaxClicks BY <1>1, <1>10 DEF SessionExpires
  <2>2. signed' = FALSE /\ UNCHANGED <<rows, acked, browser, losses>> BY <1>10 DEF SessionExpires
  <2>3. QED BY <1>2, <2>1, <2>2 DEF FeedInv, FeedTypeOK, Known, browser
\* A request for the list moves on.
<1>11. ASSUME NEW s \in Slots, NEW q \in Request, list' = [list EXCEPT ![s] = q],
              q.at = "answered" => Known(q.result), page = "login" => q = Free,
              UNCHANGED <<rows, acked, signed, page, ackAll, posts, losses>>,
              filter' \in BOOLEAN, clicks' \in 0..MaxClicks, seen' \subseteq 1..rows,
              table' \in Result, Known(table'), page = "login" => table' = {}
       PROVE  FeedInv'
  <2>1. list \in [Slots -> Request] BY <1>2 DEF FeedTypeOK
  <2>2. list' \in [Slots -> Request] /\ \A t \in Slots : list'[t] = IF t = s THEN q ELSE list[t]
    BY <1>11, <2>1
  <2>3. \A t \in Slots : list'[t].at = "answered" => Known(list'[t].result) BY <1>2, <1>11, <2>2
  <2>4. page' = "login" => \A t \in Slots : list'[t] = Free BY <1>2, <1>11, <2>2 DEF FeedTypeOK
  <2>5. FeedTypeOK' BY <1>2, <1>11, <2>2, <2>4 DEF FeedTypeOK
  <2>6. \A r : Known(r)' <=> Known(r') BY <1>11 DEF Known
  <2>7. QED BY <1>2, <1>11, <2>3, <2>5 DEF FeedInv, Known
<1>12. /\ filter \in BOOLEAN /\ clicks \in 0..MaxClicks /\ seen \subseteq 1..rows
       /\ table \in Result /\ Known(table) /\ (page = "login" => table = {})
       /\ \A s \in Slots : list[s] \in Request /\ (page = "login" => list[s].at = "free")
  BY <1>2, <1>3 DEF FeedTypeOK
<1>13. ASSUME NEW s \in Slots, AnswerList(s) PROVE FeedInv'
  <2>1. list[s].at = "asked" /\ list' = [list EXCEPT ![s] = Respond(list[s])]
    BY <1>13 DEF AnswerList
  <2>2. UNCHANGED <<rows, acked, signed, page, ackAll, posts, losses, filter, clicks, seen, table>>
    BY <1>13 DEF AnswerList, server
  <2>3. Respond(list[s]) \in Request /\ (Respond(list[s]).at = "answered" => Known(Respond(list[s]).result))
    BY <1>6, <1>12, <2>1
  <2>4. page # "login" BY <1>12, <2>1
  <2> DEFINE q == Respond(list[s])
  <2> HIDE DEF q
  <2>5. QED BY <1>11, <1>12, <2>1, <2>2, <2>3, <2>4 DEF q
<1>14. ASSUME NEW s \in Slots, RefreshAlerts(s) PROVE FeedInv'
  <2>1. page = "index" /\ list' = [list EXCEPT ![s] = Asked(filter)]
    BY <1>14 DEF RefreshAlerts, FreeSlot
  <2>2. UNCHANGED <<rows, acked, signed, page, ackAll, posts, losses, filter, clicks, seen, table>>
    BY <1>14 DEF RefreshAlerts, server
  <2>3. Asked(filter) \in Request /\ Asked(filter).at = "asked" BY <1>3, <1>4, <1>12
  <2>4. QED BY <1>11, <1>12, <2>1, <2>2, <2>3
<1>15. ASSUME Click PROVE page = "index" /\ clicks' \in 0..MaxClicks BY <1>1, <1>15 DEF Click
<1>16. ASSUME NEW s \in Slots, ClickFilter(s) PROVE FeedInv'
  <2> DEFINE u == ~filter
  <2>1. u \in BOOLEAN OBVIOUS
  <2>2. Click /\ list' = [list EXCEPT ![s] = Asked(u)] /\ filter' = u BY <1>16 DEF ClickFilter
  <2>3. UNCHANGED <<rows, acked, signed, page, ackAll, posts, losses, seen, table>>
    BY <1>16 DEF ClickFilter, server
  <2> HIDE DEF u
  <2>4. Asked(u) \in Request /\ Asked(u).at = "asked" BY <1>3, <1>4, <2>1
  <2>5. QED BY <1>11, <1>12, <1>15, <2>1, <2>2, <2>3, <2>4
<1>17. ASSUME NEW s \in Slots, RenderAlerts(s) PROVE FeedInv'
  <2>1. /\ list[s].at = "answered" /\ list' = [list EXCEPT ![s] = Free]
        /\ table' = list[s].result /\ seen' = seen \union {row[1] : row \in list[s].result}
    BY <1>17 DEF RenderAlerts
  <2>2. UNCHANGED <<rows, acked, signed, page, ackAll, posts, losses, filter, clicks>>
    BY <1>17 DEF RenderAlerts, server
  <2>3. PICK r \in Result : list[s] = Answered(r) BY <1>5, <1>12, <2>1
  <2>4. list[s].result = r /\ Known(r) BY <1>2, <1>3, <2>1, <2>3
  <2>5. seen' \subseteq 1..rows BY <1>7, <1>12, <2>1, <2>4
  <2>6. page # "login" BY <1>3, <1>12, <2>1
  <2>7. table' \in Result /\ Known(table') BY <2>1, <2>2, <2>4 DEF Known
  <2>8. QED BY <1>3, <1>4, <1>11, <1>12, <2>1, <2>2, <2>5, <2>6, <2>7
\* The request behind "Acknowledge visible", and the acknowledgements.
<1>18. ASSUME NEW q \in Request, ackAll' = q, q.at = "answered" => Known(q.result),
              page = "login" => q = Free /\ posts' = {}, posts' \subseteq 1..rows,
              UNCHANGED <<rows, signed, page, filter, table, list, seen, losses>>,
              acked' \subseteq 1..rows, clicks' \in 0..MaxClicks
       PROVE  FeedInv'
  <2>1. FeedTypeOK' BY <1>2, <1>18 DEF FeedTypeOK
  <2>2. QED BY <1>2, <1>18, <2>1 DEF FeedInv, Known
<1>19. /\ ackAll \in Request /\ acked \subseteq 1..rows /\ posts \subseteq 1..rows
       /\ (page = "login" => posts = {})
       /\ (ackAll.at = "answered" => Known(ackAll.result)) /\ (page = "login" => ackAll = Free)
  BY <1>2 DEF FeedTypeOK
<1>20. CASE AnswerAckAll
  <2>1. ackAll.at = "asked" /\ ackAll' = Respond(ackAll) BY <1>20 DEF AnswerAckAll
  <2>2. UNCHANGED <<rows, acked, signed, page, filter, table, list, posts, seen, losses, clicks>>
    BY <1>20 DEF AnswerAckAll, server
  <2>3. /\ Respond(ackAll) \in Request
        /\ Respond(ackAll).at = "answered" => Known(Respond(ackAll).result)
    BY <1>6, <1>19, <2>1
  <2>4. page # "login" BY <1>3, <1>19, <2>1
  <2> DEFINE q == Respond(ackAll)
  <2> HIDE DEF q
  <2>5. QED BY <1>12, <1>18, <1>19, <2>1, <2>2, <2>3, <2>4 DEF q
<1>21. ASSUME NEW id \in Ids, AckAlert(id) PROVE FeedInv'
  <2>1. id \in posts /\ acked' = acked \union {id} /\ posts' = posts \ {id} BY <1>21 DEF AckAlert
  <2>2. UNCHANGED <<rows, signed, page, filter, table, list, ackAll, seen, losses, clicks>>
    BY <1>21 DEF AckAlert
  <2>3. QED BY <1>12, <1>18, <1>19, <2>1, <2>2
<1>22. ASSUME NEW id \in Ids, ClickAck(id) PROVE FeedInv'
  <2>1. Click /\ <<id, FALSE>> \in table /\ posts' = posts \union {id} BY <1>22 DEF ClickAck
  <2>2. UNCHANGED <<rows, acked, signed, page, filter, table, list, ackAll, seen, losses>>
    BY <1>22 DEF ClickAck, server
  <2>3. id <= rows BY <1>12, <2>1 DEF Known
  <2>4. id \in 1..rows BY <1>1, <2>3 DEF Ids
  <2>5. QED BY <1>12, <1>15, <1>18, <1>19, <2>1, <2>2, <2>4
<1>23. CASE ClickAckAll
  <2>1. Click /\ ackAll' = Asked(TRUE) BY <1>23 DEF ClickAckAll
  <2>2. UNCHANGED <<rows, acked, signed, page, filter, table, list, posts, seen, losses>>
    BY <1>23 DEF ClickAckAll, server
  <2>3. Asked(TRUE) \in Request /\ Asked(TRUE).at = "asked" BY <1>3, <1>4
  <2>4. QED BY <1>15, <1>18, <1>19, <2>1, <2>2, <2>3
<1>24. CASE PostAckAll
  <2>1. /\ ackAll.at = "answered" /\ ackAll' = Free
        /\ posts' = posts \union {row[1] : row \in ackAll.result}
    BY <1>24 DEF PostAckAll
  <2>2. UNCHANGED <<rows, acked, signed, page, filter, table, list, seen, losses, clicks>>
    BY <1>24 DEF PostAckAll, server
  <2>3. PICK r \in Result : ackAll = Answered(r) BY <1>5, <1>19, <2>1
  <2>4. ackAll.result = r /\ Known(r) BY <1>3, <1>19, <2>1, <2>3
  <2>5. posts' \subseteq 1..rows BY <1>7, <1>19, <2>1, <2>4
  <2>6. page # "login" BY <1>3, <1>19, <2>1
  <2>7. QED BY <1>3, <1>4, <1>12, <1>18, <1>19, <2>1, <2>2, <2>5, <2>6
\* The page goes and comes; a request is lost.
<1>25. CASE Redirect
  <2>1. /\ page' = "login" /\ list' = [s \in Slots |-> Free] /\ ackAll' = Free /\ posts' = {}
        /\ filter' = FALSE /\ table' = {}
        /\ UNCHANGED <<rows, acked, signed, seen, clicks, losses>>
    BY <1>25 DEF Redirect, server
  <2>2. {} \in Result
    <3>1. Cardinality({}) = 0 BY FS_EmptySet
    <3>2. QED BY <3>1, AlertFeedAssumption DEF Result
  <2>3. FeedTypeOK' BY <1>2, <1>4, <2>1, <2>2 DEF FeedTypeOK
  <2>4. QED BY <1>3, <2>1, <2>3 DEF FeedInv, Known
<1>26. CASE LogIn
  <2>1. /\ page' = "index" /\ signed' = TRUE
        /\ UNCHANGED <<rows, acked, filter, table, list, ackAll, posts, clicks, losses, seen>>
    BY <1>26 DEF LogIn
  <2>2. FeedTypeOK' BY <1>2, <2>1 DEF FeedTypeOK
  <2>3. QED BY <1>2, <2>1, <2>2 DEF FeedInv, Known
<1>27. CASE Fails
  <2>1. losses' \in 0..MaxLosses BY <1>1, <1>27 DEF Fails
  <2>2. UNCHANGED <<rows, acked, signed, page, filter, table, seen, clicks>> BY <1>27 DEF Fails, server
  <2>3. /\ list' \in [Slots -> Request]
        /\ \A s \in Slots : list'[s] = list[s] \/ list'[s] = Free
    BY <1>2, <1>4, <1>27 DEF Fails, FeedTypeOK
  <2>4. ackAll' = ackAll \/ ackAll' = Free BY <1>27 DEF Fails
  <2>5. posts' \subseteq posts BY <1>27 DEF Fails
  <2>6. FeedTypeOK' BY <1>2, <1>4, <2>1, <2>2, <2>3, <2>4, <2>5 DEF FeedTypeOK
  <2>7. \A s \in Slots : list'[s].at = "answered" => Known(list'[s].result) BY <1>2, <1>3, <2>3
  <2>8. ackAll'.at = "answered" => Known(ackAll'.result) BY <1>2, <1>3, <2>4
  <2>9. QED BY <1>2, <2>2, <2>4, <2>6, <2>7, <2>8 DEF FeedInv, Known
<1>28. QED
  BY <1>8, <1>9, <1>10, <1>13, <1>14, <1>16, <1>17, <1>20, <1>21, <1>22, <1>23, <1>24, <1>25,
     <1>26, <1>27
  DEF FeedNext, Server, Browser

\* Every variable of the alerts table keeps its type; above all no answer is
\* longer than the page asked for, and no alert is acknowledged, shown or
\* remembered that was not inserted: for any limits, slots and alerts.
THEOREM FeedTypeCorrect == FeedSpec => []FeedTypeOK
<1>1. FeedInit => FeedInv
  <2> SUFFICES ASSUME FeedInit PROVE FeedInv OBVIOUS
  <2>1. {} \in Result
    <3>1. Cardinality({}) = 0 BY FS_EmptySet
    <3>2. QED BY <3>1, AlertFeedAssumption DEF Result
  <2>2. Free \in Request /\ Free.at = "free" BY DEF Request, Free
  <2>3. 0 \in 0..MaxAlerts /\ 0 \in 0..MaxClicks /\ 0 \in 0..MaxLosses BY AlertFeedAssumption
  <2>4. list \in [Slots -> Request] /\ ackAll \in Request /\ \A s \in Slots : list[s] = Free
    BY <2>2 DEF FeedInit
  <2>5. signed \in BOOLEAN /\ filter \in BOOLEAN BY DEF FeedInit
  <2>6. FeedTypeOK BY <2>1, <2>3, <2>4, <2>5 DEF FeedInit, FeedTypeOK
  <2>7. QED BY <2>2, <2>4, <2>6 DEF FeedInv, FeedInit, Known
<1>2. FeedInv /\ [FeedNext]_feedVars => FeedInv' BY FeedStepCorrect
<1>3. FeedInv => FeedTypeOK BY DEF FeedInv
<1>4. QED BY <1>1, <1>2, <1>3, PTL DEF FeedSpec

=============================================================================
