------------------------ MODULE RemediationExecution ------------------------
(***************************************************************************)
(* The path from a remediation proposal to a change in a cluster:          *)
(* routers/remediation.py (propose, decide, execute), the proposal rows    *)
(* and the cluster registry of db.py, and remediation_executor.py.         *)
(*                                                                         *)
(* The execute route is a plain `def` handler, so FastAPI runs each call   *)
(* on a thread of its pool: an Executor here is one such thread, and every *)
(* database call of execute_proposal is a separate SQLite transaction, so  *)
(* a separate action.  A restart of the process drops the threads, keeps   *)
(* the tables and may bring a different policy (get_settings is cached for *)
(* the life of the process).                                               *)
(***************************************************************************)
EXTENDS Integers, FiniteSets

CONSTANTS
    Proposals,      \* proposal ids
    Executors,      \* threads serving POST /proposals/{id}/execute
    Actions,        \* PROPOSABLE_ACTIONS
    Namespaces,     \* namespaces a proposal may name
    Clusters,       \* cluster ids an alert can carry
    NoCluster,      \* the empty cluster_id of a single-cluster proposal
    None,           \* no job, no target
    ApprovalTTL,    \* alert_remediation_approval_ttl_seconds
    Window,         \* the 60 minutes of the rate cap
    MaxPerWindow,   \* alert_remediation_max_per_hour
    MaxTime,        \* bound: the clock stops here
    MaxRestarts,    \* bound: restarts of the process
    MaxLosses       \* bound: writes of an outcome that the database refuses

ASSUME BoundsAssumption ==
    /\ ApprovalTTL \in Nat \ {0}
    /\ Window \in Nat
    /\ MaxPerWindow \in Nat
    /\ MaxTime \in Nat
    /\ MaxRestarts \in Nat
    /\ MaxLosses \in Nat

ASSUME NamesAssumption ==
    /\ NoCluster \notin Clusters
    /\ None \notin Clusters \cup {NoCluster}
    /\ None \notin Proposals
    /\ IsFiniteSet(Executors)
    /\ IsFiniteSet(Proposals)

\* The thread pool has a thread.
ASSUME ThreadsAssumption == Executors # {}

VARIABLES
    \* SQLite
    proposal,    \* remediation_proposals rows
    registry,    \* cluster_registry: status of each id, "absent" without a row
    notes,       \* the outcomes record_remediation_result appended, per proposal
    audits,      \* the outcomes of the MUTATION_EXECUTED events, per proposal
    \* the process
    policy,      \* allowed actions and namespaces, fixed until a restart
    pc,          \* where each executor thread is in execute_proposal
    job,         \* the proposal it is executing
    target,      \* the cluster row it read: an id, or None for get_cluster = None
    outcome,     \* what its attempt came to, before it is recorded
    \* the world
    now,
    restarts,
    effects,     \* how often each proposal's action reached a cluster
    refused,     \* proposals whose confirmed command kubectl refused without an exception
    consumedAt,  \* when its approval was consumed
    interrupted, \* proposals a restart caught between consume and the last record
    unnoted,     \* proposals whose outcome the database did not take onto the row
    unaudited    \* ... nor into the audit trail

dbVars    == <<proposal, registry, notes, audits>>
procVars  == <<policy, pc, job, target, outcome>>
lostVars  == <<unnoted, unaudited>>
worldVars == <<now, restarts, effects, refused, consumedAt, interrupted, lostVars>>
vars      == <<dbVars, procVars, worldVars>>

Statuses == {"absent", "pending", "approved", "rejected", "executed"}
Outcomes == {"executed", "failed", "unreachable"}

PCs == {"idle", "checked", "underCap", "located", "consumed", "routed",
        "previewed", "attempted", "recorded"}

\* The thread has consumed the approval and not yet emitted the audit event.
Committed == {"consumed", "routed", "previewed", "attempted", "recorded"}

\* ... and has not sent the confirmed command yet.
BeforeAct == {"consumed", "routed", "previewed"}

ProposalRow ==
    [status : Statuses, action : Actions \cup {None},
     namespace : Namespaces \cup {None}, cluster : Clusters \cup {NoCluster},
     expiresAt : Nat, decidedAt : Nat]

NoRow == [status |-> "absent", action |-> None, namespace |-> None,
          cluster |-> NoCluster, expiresAt |-> 0, decidedAt |-> 0]

Policies == [actions : SUBSET Actions, namespaces : SUBSET Namespaces]

TypeOK ==
    /\ proposal \in [Proposals -> ProposalRow]
    /\ registry \in [Clusters -> {"absent", "active", "disabled"}]
    /\ notes \in [Proposals -> SUBSET Outcomes]
    /\ audits \in [Proposals -> SUBSET Outcomes]
    /\ policy \in Policies
    /\ pc \in [Executors -> PCs]
    /\ job \in [Executors -> Proposals \cup {None}]
    /\ target \in [Executors -> Clusters \cup {None}]
    /\ outcome \in [Executors -> Outcomes \cup {None}]
    /\ now \in Nat
    /\ restarts \in Nat
    /\ effects \in [Proposals -> Nat]
    /\ consumedAt \in [Proposals -> Nat]
    /\ {interrupted, refused, unnoted, unaudited} \subseteq SUBSET Proposals
    /\ \A e \in Executors :
         /\ pc[e] # "idle" => job[e] \in Proposals
         /\ pc[e] \in {"attempted", "recorded"} => outcome[e] \in Outcomes

-----------------------------------------------------------------------------
(* Reads *)

\* _row_to_proposal: expiry is computed on every read, no sweeper writes it.
Expired(p) ==
    /\ proposal[p].status \in {"pending", "approved"}
    /\ proposal[p].expiresAt <= now

ReadStatus(p) == IF Expired(p) THEN "expired" ELSE proposal[p].status

\* Bug: the executor trusts the checks made when the proposal was created.
BugPermitted(p) == proposal[p].action \in Actions

\* alert_remediation.check and check_namespace under the policy of this process.
Permitted(p) ==
    /\ proposal[p].action \in policy.actions
    /\ proposal[p].namespace \in policy.namespaces

\* count_recent_remediations: executed rows whose *decision* is in the window.
Recent == {p \in Proposals : /\ proposal[p].status = "executed"
                             /\ proposal[p].decidedAt >= now - Window}

\* Bug: the cap lets one more through.
BugCapReached == Cardinality(Recent) > MaxPerWindow

CapReached == Cardinality(Recent) >= MaxPerWindow

\* get_cluster(proposal["cluster_id"] or ""): None without an id or without a row.
ClusterRow(p) ==
    IF proposal[p].cluster \in Clusters /\ registry[proposal[p].cluster] # "absent"
    THEN proposal[p].cluster
    ELSE None

-----------------------------------------------------------------------------
(* People: proposing, deciding, and editing the cluster registry *)

CreateProposal(p) ==
    /\ proposal[p].status = "absent"
    /\ \E a \in policy.actions, n \in Namespaces, c \in Clusters \cup {NoCluster} :
         proposal' = [proposal EXCEPT ![p] =
             [status |-> "pending", action |-> a, namespace |-> n, cluster |-> c,
              expiresAt |-> now + ApprovalTTL, decidedAt |-> 0]]
    /\ UNCHANGED <<registry, notes, audits, procVars, worldVars>>

\* Bug: a decision is accepted whatever was decided before.
BugDecidable(p) == proposal[p].status # "absent" /\ proposal[p].expiresAt > now

Decidable(p) == proposal[p].status = "pending" /\ proposal[p].expiresAt > now

\* decide_remediation_proposal: one UPDATE guarded on pending and unexpired.
Decide(p) ==
    /\ Decidable(p)
    /\ \E verdict \in {"approved", "rejected"} :
         proposal' = [proposal EXCEPT ![p] =
                         [@ EXCEPT !.status = verdict, !.decidedAt = now]]
    /\ UNCHANGED <<registry, notes, audits, procVars, worldVars>>

\* register_cluster upserts a row with either status; remove_cluster deletes it.
EditRegistry(c) ==
    /\ \E s \in {"absent", "active", "disabled"} :
         /\ s # registry[c]
         /\ registry' = [registry EXCEPT ![c] = s]
    /\ UNCHANGED <<proposal, notes, audits, procVars, worldVars>>

-----------------------------------------------------------------------------
(* execute_proposal, one action per transaction or outside call *)

Goto(e, label) == pc' = [pc EXCEPT ![e] = label]

\* A refusal: the request ends with a 403 and nothing has changed.
Refuse(e) ==
    /\ Goto(e, "idle")
    /\ job' = [job EXCEPT ![e] = None]
    /\ target' = [target EXCEPT ![e] = None]
    /\ UNCHANGED outcome

\* Read the row, require "approved", re-check policy, arguments and namespace.
Begin(e, p) ==
    /\ pc[e] = "idle"
    /\ ReadStatus(p) = "approved"
    /\ Permitted(p)
    /\ Goto(e, "checked")
    /\ job' = [job EXCEPT ![e] = p]
    /\ UNCHANGED <<dbVars, policy, target, outcome, worldVars>>

CheckCap(e) ==
    /\ pc[e] = "checked"
    /\ IF CapReached
       THEN Refuse(e)
       ELSE Goto(e, "underCap") /\ UNCHANGED <<job, target, outcome>>
    /\ UNCHANGED <<dbVars, policy, worldVars>>

Locate(e) ==
    /\ pc[e] = "underCap"
    /\ Goto(e, "located")
    /\ target' = [target EXCEPT ![e] = ClusterRow(job[e])]
    /\ UNCHANGED <<dbVars, policy, job, outcome, worldVars>>

\* Bugs: the approval is not one-shot; it is consumed after it expired.
BugConsumableAgain(p) ==
    proposal[p].status \in {"approved", "executed"} /\ proposal[p].expiresAt > now
BugConsumableStale(p) == proposal[p].status = "approved"

\* mark_remediation_executed: compare-and-set on approved and unexpired.
Consumable(p) == proposal[p].status = "approved" /\ proposal[p].expiresAt > now

\* Bug: the row takes the status the read path computes, which is never stored.
BugConsumeUntyped(e) ==
    /\ pc[e] = "located"
    /\ proposal' = [proposal EXCEPT ![job[e]].status =
                        IF Consumable(job[e]) THEN "executed" ELSE ReadStatus(job[e])]
    /\ consumedAt' = [consumedAt EXCEPT ![job[e]] = now]
    /\ Goto(e, "consumed")
    /\ UNCHANGED <<registry, notes, audits, policy, job, target, outcome,
                   now, restarts, effects, refused, interrupted, lostVars>>

Consume(e) ==
    /\ pc[e] = "located"
    /\ Consumable(job[e])
    /\ proposal' = [proposal EXCEPT ![job[e]].status = "executed"]
    /\ consumedAt' = [consumedAt EXCEPT ![job[e]] = now]
    /\ Goto(e, "consumed")
    /\ UNCHANGED <<registry, notes, audits, policy, job, target, outcome,
                   now, restarts, effects, refused, interrupted, lostVars>>

ConsumeFails(e) ==
    /\ pc[e] = "located"
    /\ ~ Consumable(job[e])
    /\ Refuse(e)
    /\ UNCHANGED <<dbVars, policy, worldVars>>

\* Bug: ClusterUnreachable is re-raised without recording the attempt.
BugAttempted(e, result) ==
    IF result = "unreachable"
    THEN Refuse(e)
    ELSE /\ Goto(e, "attempted")
         /\ outcome' = [outcome EXCEPT ![e] = result]
         /\ UNCHANGED <<job, target>>

\* The attempt is over: the thread will record what it came to.
Attempted(e, result) ==
    /\ Goto(e, "attempted")
    /\ outcome' = [outcome EXCEPT ![e] = result]
    /\ UNCHANGED <<job, target>>

\* routed_execution: no row installs nothing and the default runner applies; a
\* row builds an SSH runner, or raises ClusterUnreachable.
Route(e) ==
    /\ pc[e] = "consumed"
    /\ \/ Goto(e, "routed") /\ UNCHANGED <<job, target, outcome>>
       \/ target[e] # None /\ Attempted(e, "unreachable")
    /\ UNCHANGED <<dbVars, policy, worldVars>>

\* _run, first half: the wrapper's own dry run mints the confirmation token.
Preview(e) ==
    /\ pc[e] = "routed"
    /\ \/ Goto(e, "previewed") /\ UNCHANGED <<job, target, outcome>>
       \/ Attempted(e, "failed")
    /\ UNCHANGED <<dbVars, policy, worldVars>>

\* _run, second half: the confirmed call.  No runner raises when kubectl exits non-zero, and the
\* wrapper then answers success, so a command the cluster refused is "executed" with nothing
\* done.  What raises (a timeout, a token or a verb refused) fails before or after the effect.
Act(e) ==
    /\ pc[e] = "previewed"
    /\ \E result \in {"executed", "failed"} :
         /\ Attempted(e, result)
         /\ \/ effects' = [effects EXCEPT ![job[e]] = @ + 1] /\ UNCHANGED refused
            \/ /\ refused' = IF result = "executed" THEN refused \cup {job[e]} ELSE refused
               /\ UNCHANGED effects
    /\ UNCHANGED <<dbVars, policy, now, restarts, consumedAt, interrupted, lostVars>>

\* Bug: the result of the action is not looked at.
BugRecordResult(e) ==
    /\ pc[e] = "attempted"
    /\ notes' = [notes EXCEPT ![job[e]] = @ \cup {"executed"}]
    /\ Goto(e, "recorded")
    /\ UNCHANGED <<proposal, registry, audits, policy, job, target, outcome, worldVars>>

\* record_remediation_result, on every exit.
RecordResult(e) ==
    /\ pc[e] = "attempted"
    /\ notes' = [notes EXCEPT ![job[e]] = @ \cup {outcome[e]}]
    /\ Goto(e, "recorded")
    /\ UNCHANGED <<proposal, registry, audits, policy, job, target, outcome, worldVars>>

\* The request ends.
Finish(e) ==
    /\ Goto(e, "idle")
    /\ job' = [job EXCEPT ![e] = None]
    /\ target' = [target EXCEPT ![e] = None]
    /\ outcome' = [outcome EXCEPT ![e] = None]

\* The database does not take a write: it is locked, full or gone.
MayLose == Cardinality(unnoted) + Cardinality(unaudited) < MaxLosses

\* The UPDATE raises out of execute_proposal, so that nothing is emitted either.
RecordRaises(e) ==
    /\ pc[e] = "attempted"
    /\ MayLose
    /\ unnoted' = unnoted \cup {job[e]}
    /\ Finish(e)
    /\ UNCHANGED <<dbVars, policy, now, restarts, effects, refused, consumedAt,
                   interrupted, unaudited>>

\* audit.emit(MUTATION_EXECUTED) appends the event or, when that fails, logs it and returns "";
\* the request ends either way.
EmitAudit(e) ==
    /\ pc[e] = "recorded"
    /\ \/ /\ audits' = [audits EXCEPT ![job[e]] = @ \cup {outcome[e]}]
          /\ UNCHANGED unaudited
       \/ /\ MayLose
          /\ unaudited' = unaudited \cup {job[e]}
          /\ UNCHANGED audits
    /\ Finish(e)
    /\ UNCHANGED <<proposal, registry, notes, policy, now, restarts, effects, refused,
                   consumedAt, interrupted, unnoted>>

-----------------------------------------------------------------------------
(* The world *)

Tick ==
    /\ now < MaxTime
    /\ now' = now + 1
    /\ UNCHANGED <<dbVars, procVars, restarts, effects, refused, consumedAt, interrupted, lostVars>>

\* The pod dies and comes back, possibly with another policy.
Restart ==
    /\ restarts < MaxRestarts
    /\ restarts' = restarts + 1
    /\ policy' \in Policies
    /\ pc' = [e \in Executors |-> "idle"]
    /\ job' = [e \in Executors |-> None]
    /\ target' = [e \in Executors |-> None]
    /\ outcome' = [e \in Executors |-> None]
    /\ interrupted' = interrupted \cup {job[e] : e \in {x \in Executors : pc[x] \in Committed}}
    /\ UNCHANGED <<dbVars, now, effects, refused, consumedAt, lostVars>>

Init ==
    /\ proposal = [p \in Proposals |-> NoRow]
    /\ registry = [c \in Clusters |-> "active"]
    /\ notes = [p \in Proposals |-> {}]
    /\ audits = [p \in Proposals |-> {}]
    /\ policy = [actions |-> Actions, namespaces |-> Namespaces]
    /\ pc = [e \in Executors |-> "idle"]
    /\ job = [e \in Executors |-> None]
    /\ target = [e \in Executors |-> None]
    /\ outcome = [e \in Executors |-> None]
    /\ now = 0
    /\ restarts = 0
    /\ effects = [p \in Proposals |-> 0]
    /\ consumedAt = [p \in Proposals |-> 0]
    /\ interrupted = {}
    /\ refused = {}
    /\ unnoted = {}
    /\ unaudited = {}

Proceed(e) ==
    \/ CheckCap(e) \/ Locate(e) \/ Consume(e) \/ ConsumeFails(e) \/ Route(e)
    \/ Preview(e) \/ Act(e) \/ RecordResult(e) \/ RecordRaises(e) \/ EmitAudit(e)

Next ==
    \/ \E p \in Proposals : CreateProposal(p) \/ Decide(p)
    \/ \E c \in Clusters : EditRegistry(c)
    \/ \E e \in Executors, p \in Proposals : Begin(e, p)
    \/ \E e \in Executors : Proceed(e)
    \/ Tick
    \/ Restart

Spec == Init /\ [][Next]_vars

\* A thread the pool has started runs to the end of its request.
FairSpec == Spec /\ \A e \in Executors : WF_vars(Proceed(e))

-----------------------------------------------------------------------------
(* Safety *)

\* However many requests race on one approval, and however the process dies
\* and restarts, the action of a proposal reaches a cluster at most once: the
\* approval is consumed before kubectl runs, and consuming it is one-shot.
AtMostOnce == \A p \in Proposals : effects[p] <= 1

\* Why: between consuming an approval and the end of the request exactly one
\* thread holds the proposal, and nothing has reached a cluster on its behalf
\* until that thread acts.  With AtMostOnce this is inductive.
SoleHolder ==
    /\ \A e \in Executors :
         /\ pc[e] \in Committed => proposal[job[e]].status = "executed"
         /\ pc[e] \in BeforeAct => effects[job[e]] = 0
    /\ \A e, f \in Executors :
         pc[e] \in Committed /\ pc[f] \in Committed /\ job[e] = job[f] => e = f
    /\ \A p \in Proposals : effects[p] > 0 => proposal[p].status = "executed"

\* Whatever reached a cluster was approved by a person first, and the approval
\* was still fresh when it was consumed (the read in Begin is only advisory:
\* the approval can expire between that read and the consuming UPDATE).
ActsOnFreshApproval ==
    \A p \in Proposals : effects[p] > 0 =>
        /\ proposal[p].status = "executed"
        /\ proposal[p].decidedAt <= consumedAt[p]
        /\ consumedAt[p] < proposal[p].expiresAt

\* "Recorded on every exit": a consumed approval that no thread is working on and no restart
\* caught has its outcome on the row, unless the database refused it there, and the same outcome
\* in the audit trail, unless it refused it there.  The trail never says more than the row.
Accounted ==
    /\ \A p \in Proposals :
        \/ proposal[p].status # "executed"
        \/ p \in interrupted
        \/ \E e \in Executors : pc[e] \in Committed /\ job[e] = p
        \/ /\ notes[p] # {} \/ p \in unnoted
           /\ audits[p] = notes[p] \/ p \in unaudited
    /\ \A p \in Proposals : audits[p] \subseteq notes[p]

\* What an outcome says of the one command that was sent: "executed", that it took effect or that
\* kubectl refused it, one of the two; "unreachable", that none was sent.
CameTo(p, result) ==
    /\ result = "executed" => effects[p] = IF p \in refused THEN 0 ELSE 1
    /\ result = "unreachable" => effects[p] = 0
    /\ p \in refused => effects[p] = 0 /\ result = "executed"

\* The row says what became of the command.
NotesAreTrue == \A p \in Proposals : \A result \in notes[p] : CameTo(p, result)

\* Threads that have passed the rate cap and have not consumed their approval.
PassedCap == {e \in Executors : pc[e] \in {"underCap", "located"}}

\* The rate cap as the code keeps it.  The count is read in one transaction
\* and the approval consumed in a later one, so concurrent requests overrun the
\* cap; they can do so by at most one per thread beyond the first.
CapWithinConcurrency ==
    Cardinality(Recent) + Cardinality(PassedCap)
        <= MaxPerWindow + Cardinality(Executors) - 1

\* One approval, one action: the thread that consumed it holds it alone.
ActsOnce == TypeOK /\ SoleHolder /\ AtMostOnce

\* An approval is spent only while it is fresh and within the cap, and whatever
\* came of it is on the row and in the audit trail, as far as the database took it, and says what
\* became of the command.
ApprovalsAreHonoured ==
    ActsOnFreshApproval /\ Accounted /\ NotesAreTrue /\ CapWithinConcurrency

\* "The approval says a human agreed - it does not say the action is still
\* permitted": what reaches a cluster is permitted by the policy in force then,
\* not by the one under which it was proposed or approved.
PolicyInForce ==
    [][\A p \in Proposals : effects'[p] # effects[p] =>
            /\ proposal[p].action \in policy.actions
            /\ proposal[p].namespace \in policy.namespaces]_vars

-----------------------------------------------------------------------------
(* Refinement: the rows and effects implement ApprovedActions *)

Decision(p) ==
    CASE proposal[p].status = "absent"   -> "none"
      [] proposal[p].status = "executed" -> "spent"
      [] OTHER                           -> proposal[p].status

Abstract == INSTANCE ApprovedActions WITH
    decision <- [p \in Proposals |-> Decision(p)],
    done     <- {p \in Proposals : effects[p] > 0}

\* A proposal is decided once, spent once, and acted on only after that, once.
ImplementsApprovedActions == Abstract!Spec

-----------------------------------------------------------------------------
(* Liveness *)

\* A consumed approval does not vanish: its outcome reaches the audit trail, unless a restart
\* interrupts the thread that consumed it or the database refuses the outcome.
ConsumedIsAccounted ==
    \A p \in Proposals :
        proposal[p].status = "executed"
            ~> (audits[p] # {} \/ p \in interrupted \cup unnoted \cup unaudited)

-----------------------------------------------------------------------------
(* What the repository says and the code does not do *)

\* settings.py: "Ceiling on executed remediations per hour, across everything".
CapNeverExceeded == Cardinality(Recent) <= MaxPerWindow

=============================================================================
