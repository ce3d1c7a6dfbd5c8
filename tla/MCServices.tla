----------------------------- MODULE MCServices -----------------------------
(* The backend's services that share no state, side by side for TLC: a     *)
(* behaviour is one of a single service, chosen at the start, while the    *)
(* others rest in one state.                                               *)
EXTENDS ClusterSessions, Accounts, GitOpsPRs, AuditChain

VARIABLE part

vars == <<part, clusterVars, accountVars, repoVars, spanVars, auditVars>>

Init ==
    /\ part \in {"cluster", "accounts", "gitops", "spans", "audit"}
    /\ ClusterInit /\ AccountsInit /\ RepoInit /\ SpanInit /\ AuditInit
    /\ part # "gitops" => ~overlay
    /\ part # "spans" => /\ \A k \in FieldNames : doc[Root][k] = NoNode
                         /\ anchored = {}
                         /\ field = <<CHOOSE k \in FieldNames : TRUE>>

Next ==
    \/ /\ part = "cluster" /\ ClusterNext
       /\ UNCHANGED <<part, accountVars, repoVars, spanVars, auditVars>>
    \/ /\ part = "accounts" /\ AccountsNext
       /\ UNCHANGED <<part, clusterVars, repoVars, spanVars, auditVars>>
    \/ /\ part = "gitops" /\ RepoNext
       /\ UNCHANGED <<part, clusterVars, accountVars, spanVars, auditVars>>
    \/ /\ part = "spans" /\ Grow
       /\ UNCHANGED <<part, clusterVars, accountVars, repoVars, auditVars>>
    \/ /\ part = "audit" /\ AuditNext
       /\ UNCHANGED <<part, clusterVars, accountVars, repoVars, spanVars>>

Spec == Init /\ [][Next]_vars

\* Every variable of the services keeps its type.
ServicesTypeOK == ClusterTypeOK /\ AccountsTypeOK /\ RepoTypeOK /\ AuditTypeOK

\* A link resets one password, a change of it ends the logins before it, and the limiter holds
\* its rate within the shortest window, and a key's own while no cleanup cut it short, whatever
\* handlers run at once.
AccountsHold == LinkWorksOnce /\ OutdatedLoginsEnd /\ RateHeld

\* A preview becomes one pull request, the hourly count is overrun by no more than the handlers
\* at work, and an edit finds exactly the text of the field it names.
ManifestsHold == PreviewOpensOnce /\ PullsCapWithinConcurrency /\ SpanIsExact

\* The services' state is typed and the audit trail breaks only where it was pruned.
TrailHolds == ServicesTypeOK /\ BreaksOnlyWherePruned

\* Instance sizes that a configuration file cannot write down.
UploadA == [x \in Contexts |-> "A"]
UploadB == [x \in Contexts |-> "B"]
BothUploads == {UploadA, UploadB}
TheLocalConfig == [x \in Contexts |-> "L"]
Windows == [k \in Keys |-> IF k = "forgot" THEN 1 ELSE 2]
Limits == [k \in Keys |-> 1]
Branches == [p \in Previews |-> IF p = "p3" THEN "b2" ELSE "b1"]
=============================================================================
