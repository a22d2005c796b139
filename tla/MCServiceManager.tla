-------------------------- MODULE MCServiceManager --------------------------
(* One service of each kind where a run can afford it, and three requests: *)
(* two that overlap and one that meets what they left behind.              *)
EXTENDS ServiceManager, TLC

CONSTANTS ftp, ssh, http

AllKinds == (ftp :> "thread") @@ (ssh :> "server") @@ (http :> "web")
AllOrder == <<ftp, ssh, http>>

MCKind == [s \in Services |-> AllKinds[s]]
MCOrder == SelectSeq(AllOrder, LAMBDA s : s \in Services)
MCDefault == [s \in Services |-> s # http]

=============================================================================
