-------------------------- MODULE RemediationProofs --------------------------
(***************************************************************************)
(* Theorems about RemediationExecution, for every set of proposals,        *)
(* threads and clusters, every TTL, window and cap.                        *)
(***************************************************************************)
EXTENDS RemediationExecution, FiniteSetTheorems, TLAPS

\* Deciding or consuming rewrites a row into a row.
LEMMA RowUpdate ==
    ASSUME NEW r \in ProposalRow, NEW s \in Statuses, NEW d \in Nat
    PROVE  /\ [r EXCEPT !.status = s] \in ProposalRow
           /\ [r EXCEPT !.status = s, !.decidedAt = d] \in ProposalRow
  BY DEF ProposalRow

\* Every variable keeps its type: rows stay well formed, a refusal leaves no
\* half-filled thread, a restart clears all of them.
THEOREM TypeCorrect == Spec => []TypeOK
<1> USE NamesAssumption, BoundsAssumption
        DEF TypeOK, ProposalRow, Statuses, Outcomes, PCs, Policies
<1>1. Init => TypeOK
  BY DEF Init, NoRow
<1>2. TypeOK /\ [Next]_vars => TypeOK'
  <2> SUFFICES ASSUME TypeOK, [Next]_vars
               PROVE  TypeOK'
    OBVIOUS
  <2> USE DEF dbVars, procVars, worldVars, lostVars, Goto
  <2>1. ASSUME NEW p \in Proposals, CreateProposal(p)
        PROVE  TypeOK'
    BY <2>1 DEF CreateProposal
  <2>2. ASSUME NEW p \in Proposals, Decide(p)
        PROVE  TypeOK'
    <3> PICK verdict \in {"approved", "rejected"} :
           proposal' = [proposal EXCEPT ![p] =
                           [@ EXCEPT !.status = verdict, !.decidedAt = now]]
      BY <2>2 DEF Decide
    <3> HIDE DEF ProposalRow
    <3>1. [proposal[p] EXCEPT !.status = verdict, !.decidedAt = now] \in ProposalRow
      BY RowUpdate
    <3> QED
      BY <2>2, <3>1 DEF Decide
  <2>3. ASSUME NEW c \in Clusters, EditRegistry(c)
        PROVE  TypeOK'
    BY <2>3 DEF EditRegistry
  <2>4. ASSUME NEW e \in Executors, NEW p \in Proposals, Begin(e, p)
        PROVE  TypeOK'
    BY <2>4 DEF Begin
  <2>5. ASSUME NEW e \in Executors, Proceed(e)
        PROVE  TypeOK'
    <3>1. CASE CheckCap(e)
      BY <3>1 DEF CheckCap, Refuse
    <3>2. CASE Locate(e)
      BY <3>2 DEF Locate, ClusterRow
    <3>3. CASE Consume(e)
      <4>1. [proposal[job[e]] EXCEPT !.status = "executed"] \in ProposalRow
        BY <3>3, RowUpdate DEF Consume
      <4> HIDE DEF ProposalRow
      <4> QED
        BY <3>3, <4>1 DEF Consume
    <3>4. CASE ConsumeFails(e)
      BY <3>4 DEF ConsumeFails, Refuse
    <3>5. CASE Route(e)
      BY <3>5 DEF Route, Attempted
    <3>6. CASE Preview(e)
      BY <3>6 DEF Preview, Attempted
    <3>7. CASE Act(e)
      <4>1. job[e] \in Proposals
        BY <3>7 DEF Act
      <4>2. PICK result \in {"executed", "failed"} : Attempted(e, result)
        BY <3>7 DEF Act
      <4>3. effects' \in [Proposals -> Nat]
        BY <3>7, <4>1 DEF Act
      <4>4. refused' \in SUBSET Proposals
        BY <3>7, <4>1 DEF Act
      <4> QED
        BY <3>7, <4>2, <4>3, <4>4 DEF Act, Attempted
    <3>8. CASE RecordResult(e)
      <4>1. notes' \in [Proposals -> SUBSET Outcomes]
        BY <3>8 DEF RecordResult
      <4> QED
        BY <3>8, <4>1 DEF RecordResult
    <3>9. CASE EmitAudit(e)
      <4>1. audits' \in [Proposals -> SUBSET Outcomes] /\ unaudited' \in SUBSET Proposals
        BY <3>9 DEF EmitAudit
      <4> QED
        BY <3>9, <4>1 DEF EmitAudit, Finish
    <3>10. CASE RecordRaises(e)
      <4>1. unnoted' \in SUBSET Proposals
        BY <3>10 DEF RecordRaises
      <4> QED
        BY <3>10, <4>1 DEF RecordRaises, Finish
    <3> QED
      BY <2>5, <3>1, <3>2, <3>3, <3>4, <3>5, <3>6, <3>7, <3>8, <3>9, <3>10 DEF Proceed
  <2>6. CASE Tick
    BY <2>6 DEF Tick
  <2>7. CASE Restart
    <3>1. interrupted' \in SUBSET Proposals
      BY <2>7 DEF Restart, Committed
    <3> QED
      BY <2>7, <3>1 DEF Restart
  <2>8. CASE UNCHANGED vars
    BY <2>8 DEF vars
  <2> QED
    BY <2>1, <2>2, <2>3, <2>4, <2>5, <2>6, <2>7, <2>8 DEF Next
<1> QED
  BY <1>1, <1>2, PTL DEF Spec

-----------------------------------------------------------------------------
\* The steps of a thread that leave the rows and the effects alone can only
\* move it out of the committed region or forward inside it.
LEMMA QuietStep ==
    ASSUME TypeOK, SoleHolder, AtMostOnce,
           NEW e \in Executors, NEW to \in PCs, NEW j \in Proposals \cup {None},
           pc' = [pc EXCEPT ![e] = to],
           job' = [job EXCEPT ![e] = j],
           UNCHANGED <<proposal, effects>>,
           to \in Committed => pc[e] \in Committed /\ j = job[e],
           to \in BeforeAct => pc[e] \in BeforeAct
    PROVE  SoleHolder' /\ AtMostOnce'
  BY DEF TypeOK, SoleHolder, AtMostOnce, Committed, BeforeAct

\* The inductive invariant: whoever is between consuming an approval and
\* recording its outcome is alone with that proposal, and has not acted yet
\* before the confirmed command.  AtMostOnce alone is not inductive: it says
\* nothing of a thread that is about to act.
THEOREM SoleHolderHolds == Spec => [](SoleHolder /\ AtMostOnce)
<1>1. Init => SoleHolder /\ AtMostOnce
  BY DEF Init, SoleHolder, AtMostOnce, Committed, BeforeAct
<1>2. TypeOK /\ SoleHolder /\ AtMostOnce /\ [Next]_vars => SoleHolder' /\ AtMostOnce'
  <2> SUFFICES ASSUME TypeOK, SoleHolder, AtMostOnce, [Next]_vars
               PROVE  SoleHolder' /\ AtMostOnce'
    OBVIOUS
  <2> USE DEF dbVars, procVars, worldVars, lostVars, Goto
  <2>1. ASSUME NEW p \in Proposals, CreateProposal(p) \/ Decide(p)
        PROVE  SoleHolder' /\ AtMostOnce'
    <3>1. /\ proposal[p].status # "executed"
          /\ \A q \in Proposals : q # p => proposal'[q] = proposal[q]
          /\ UNCHANGED <<pc, job, effects>>
      BY <2>1 DEF CreateProposal, Decide, Decidable, TypeOK
    <3> QED
      BY <3>1 DEF SoleHolder, AtMostOnce, TypeOK, Committed, BeforeAct
  <2>2. ASSUME NEW c \in Clusters, EditRegistry(c)
        PROVE  SoleHolder' /\ AtMostOnce'
    BY <2>2 DEF EditRegistry, SoleHolder, AtMostOnce
  <2>3. ASSUME NEW e \in Executors, NEW p \in Proposals, Begin(e, p)
        PROVE  SoleHolder' /\ AtMostOnce'
    BY <2>3, QuietStep DEF Begin, PCs, Committed, BeforeAct
  <2>4. ASSUME NEW e \in Executors, Proceed(e)
        PROVE  SoleHolder' /\ AtMostOnce'
    <3> USE DEF PCs, Committed, BeforeAct
    <3>1. job[e] \in Proposals \cup {None} /\ job = [job EXCEPT ![e] = job[e]]
      BY DEF TypeOK
    <3>2. CASE CheckCap(e) \/ Locate(e) \/ ConsumeFails(e)
      BY <3>1, <3>2, QuietStep DEF CheckCap, Locate, ConsumeFails, Refuse
    <3>3. CASE Consume(e)
      <4>1. /\ job[e] \in Proposals
            /\ proposal[job[e]].status = "approved"
            /\ proposal' = [proposal EXCEPT ![job[e]].status = "executed"]
            /\ pc' = [pc EXCEPT ![e] = "consumed"]
            /\ UNCHANGED <<job, effects>>
        BY <3>3 DEF Consume, Consumable, TypeOK
      <4>2. effects[job[e]] = 0
        BY <4>1 DEF SoleHolder, TypeOK
      <4>3. \A p \in Proposals :
               proposal'[p].status = IF p = job[e] THEN "executed" ELSE proposal[p].status
        BY <4>1 DEF TypeOK, ProposalRow
      <4> QED
        BY <4>1, <4>2, <4>3 DEF SoleHolder, AtMostOnce, TypeOK
    <3>4. CASE Route(e) \/ Preview(e) \/ RecordResult(e) \/ RecordRaises(e) \/ EmitAudit(e)
      BY <3>1, <3>4, QuietStep DEF Route, Preview, RecordResult, RecordRaises, EmitAudit, Attempted, Finish
    <3>5. CASE Act(e)
      <4>1. /\ pc[e] = "previewed"
            /\ pc' = [pc EXCEPT ![e] = "attempted"]
            /\ UNCHANGED <<job, proposal>>
            /\ \/ UNCHANGED effects
               \/ effects' = [effects EXCEPT ![job[e]] = @ + 1]
        BY <3>5 DEF Act, Attempted
      <4>2. job[e] \in Proposals /\ effects[job[e]] = 0
        BY <4>1 DEF SoleHolder, TypeOK
      <4> QED
        BY <4>1, <4>2 DEF SoleHolder, AtMostOnce, TypeOK
    <3> QED
      BY <2>4, <3>2, <3>3, <3>4, <3>5 DEF Proceed
  <2>5. CASE Tick
    BY <2>5 DEF Tick, SoleHolder, AtMostOnce
  <2>6. CASE Restart
    BY <2>6 DEF Restart, SoleHolder, AtMostOnce, Committed, BeforeAct
  <2>7. CASE UNCHANGED vars
    BY <2>7 DEF vars, SoleHolder, AtMostOnce
  <2> QED
    BY <2>1, <2>2, <2>3, <2>4, <2>5, <2>6, <2>7 DEF Next
<1> QED
  BY <1>1, <1>2, TypeCorrect, PTL DEF Spec

\* One approval, at most one action on a cluster, for any number of threads,
\* restarts and proposals.
THEOREM AtMostOnceHolds == Spec => []AtMostOnce
  BY SoleHolderHolds, PTL

\* One approval, one action, on behalf of one thread.
THEOREM ActsOnceHolds == Spec => []ActsOnce
<1>1. TypeOK /\ SoleHolder /\ AtMostOnce => ActsOnce
  BY DEF ActsOnce
<1> QED
  BY <1>1, TypeCorrect, SoleHolderHolds, PTL

-----------------------------------------------------------------------------
\* RemediationExecution implements ApprovedActions: a proposal is decided once,
\* its approval spent once, and only a spent approval reaches a cluster, once.
THEOREM Implements == Spec => ImplementsApprovedActions
<1>1. Init => Abstract!Init
  BY DEF Init, NoRow, Abstract!Init, Decision
<1>2. TypeOK /\ SoleHolder /\ AtMostOnce /\ [Next]_vars => [Abstract!Next]_Abstract!vars
  <2> SUFFICES ASSUME TypeOK, SoleHolder, AtMostOnce, [Next]_vars
               PROVE  [Abstract!Next]_Abstract!vars
    OBVIOUS
  <2> USE DEF dbVars, procVars, worldVars, lostVars, Abstract!vars
  <2>0. ASSUME UNCHANGED <<proposal, effects>>
        PROVE  UNCHANGED Abstract!vars
    BY <2>0 DEF Decision
  <2>1. ASSUME NEW p \in Proposals, CreateProposal(p)
        PROVE  Abstract!Propose(p)
    <3>1. \A q \in Proposals :
             proposal'[q].status = IF q = p THEN "pending" ELSE proposal[q].status
      BY <2>1 DEF CreateProposal, TypeOK
    <3>2. proposal[p].status = "absent" /\ UNCHANGED effects
      BY <2>1 DEF CreateProposal
    <3> QED
      BY <3>1, <3>2 DEF Decision, Abstract!Propose, Abstract!Settle
  <2>2. ASSUME NEW p \in Proposals, Decide(p)
        PROVE  Abstract!Approve(p) \/ Abstract!Reject(p)
    <3> PICK verdict \in {"approved", "rejected"} :
           proposal' = [proposal EXCEPT ![p] =
                           [@ EXCEPT !.status = verdict, !.decidedAt = now]]
      BY <2>2 DEF Decide
    <3>1. \A q \in Proposals :
             proposal'[q].status = IF q = p THEN verdict ELSE proposal[q].status
      BY DEF TypeOK, ProposalRow
    <3>2. proposal[p].status = "pending" /\ UNCHANGED effects
      BY <2>2 DEF Decide, Decidable
    <3>3. CASE verdict = "approved"
      BY <3>1, <3>2, <3>3 DEF Decision, Abstract!Approve, Abstract!Settle
    <3>4. CASE verdict = "rejected"
      BY <3>1, <3>2, <3>4 DEF Decision, Abstract!Reject, Abstract!Settle
    <3> QED
      BY <3>3, <3>4
  <2>3. ASSUME NEW e \in Executors, NEW p \in Proposals, p = job[e], Consume(e)
        PROVE  Abstract!Spend(p)
    <3>1. proposal[p].status = "approved" /\ UNCHANGED effects
      BY <2>3 DEF Consume, Consumable
    <3>2. \A q \in Proposals :
             proposal'[q].status = IF q = p THEN "executed" ELSE proposal[q].status
      BY <2>3, <3>1 DEF Consume, TypeOK, ProposalRow
    <3> QED
      BY <3>1, <3>2 DEF Decision, Abstract!Spend, Abstract!Settle
  <2>4. ASSUME NEW e \in Executors, NEW p \in Proposals, p = job[e], Act(e)
        PROVE  UNCHANGED Abstract!vars \/ Abstract!Act(p)
    <3>1. /\ proposal[p].status = "executed"
          /\ effects[p] = 0
          /\ UNCHANGED proposal
      BY <2>4 DEF Act, SoleHolder, TypeOK, Committed, BeforeAct
    <3>2. CASE effects' = [effects EXCEPT ![p] = @ + 1]
      <4>1. {q \in Proposals : effects'[q] > 0}
              = {q \in Proposals : effects[q] > 0} \cup {p}
        BY <3>1, <3>2 DEF TypeOK
      <4> QED
        BY <3>1, <4>1 DEF Abstract!Act, Decision
    <3>3. CASE UNCHANGED effects
      BY <2>0, <3>1, <3>3
    <3> QED
      BY <2>4, <3>2, <3>3 DEF Act
  <2>5. ASSUME NEW e \in Executors, Proceed(e), ~ Consume(e), ~ Act(e)
        PROVE  UNCHANGED <<proposal, effects>>
    BY <2>5 DEF Proceed, CheckCap, Locate, ConsumeFails, Route, Preview,
                RecordResult, RecordRaises, EmitAudit
  <2>6. ASSUME \/ \E c \in Clusters : EditRegistry(c)
               \/ \E e \in Executors, p \in Proposals : Begin(e, p)
               \/ Tick
               \/ Restart
               \/ UNCHANGED vars
        PROVE  UNCHANGED <<proposal, effects>>
    BY <2>6 DEF EditRegistry, Begin, Tick, Restart, vars
  <2>7. CASE \E p \in Proposals : CreateProposal(p) \/ Decide(p)
    BY <2>1, <2>2, <2>7 DEF Abstract!Next
  <2>8. ASSUME NEW e \in Executors, Proceed(e)
        PROVE  [Abstract!Next]_Abstract!vars
    <3> HIDE DEF Abstract!vars, dbVars, procVars, worldVars
    <3>0. pc[e] # "idle" => \E p \in Proposals : p = job[e]
      BY DEF TypeOK
    <3>1. CASE Consume(e)
      BY <2>3, <3>0, <3>1 DEF Abstract!Next, Consume
    <3>2. CASE Act(e)
      BY <2>4, <3>0, <3>2 DEF Abstract!Next, Act
    <3>3. CASE ~ Consume(e) /\ ~ Act(e)
      BY <2>0, <2>5, <2>8, <3>3
    <3> QED
      BY <3>1, <3>2, <3>3
  <2> HIDE DEF Abstract!vars, dbVars, procVars, worldVars
  <2> QED
    BY <2>0, <2>6, <2>7, <2>8 DEF Next
<1> QED
  BY <1>1, <1>2, TypeCorrect, SoleHolderHolds, PTL
     DEF Spec, ImplementsApprovedActions, Abstract!Spec

-----------------------------------------------------------------------------
\* What a decision on a row leaves behind: no row is decided in the future, and
\* an approval was fresh when it was consumed.  ActsOnFreshApproval speaks of
\* rows with an effect; a row is consumed before it has one.
DecisionsStand ==
    \A p \in Proposals :
        /\ proposal[p].decidedAt <= now
        /\ proposal[p].status = "executed" =>
               proposal[p].decidedAt <= consumedAt[p] /\ consumedAt[p] < proposal[p].expiresAt

\* A thread at work keeps to a proposal the policy permits: the row keeps its
\* action and namespace, and the policy lasts as long as the process.
Entitled ==
    \A e \in Executors : pc[e] # "idle" =>
        proposal[job[e]].status # "absent" /\ Permitted(job[e])

\* An approval is consumed after it was given and before it expires, and a
\* thread at work keeps to what the policy in force permits.
THEOREM DecisionsStandHolds == Spec => [](DecisionsStand /\ Entitled)
<1> USE BoundsAssumption, NamesAssumption
<1>1. Init => DecisionsStand /\ Entitled
  BY DEF Init, NoRow, DecisionsStand, Entitled
<1>2. TypeOK /\ DecisionsStand /\ Entitled /\ [Next]_vars => DecisionsStand' /\ Entitled'
  <2> SUFFICES ASSUME TypeOK, DecisionsStand, Entitled, [Next]_vars
               PROVE  DecisionsStand' /\ Entitled'
    OBVIOUS
  <2> USE DEF dbVars, procVars, worldVars, lostVars, Goto, Permitted
  <2>0. /\ \A p \in Proposals : /\ proposal[p] \in ProposalRow /\ proposal[p].decidedAt \in Nat
                                /\ proposal[p].expiresAt \in Nat /\ consumedAt[p] \in Nat
        /\ now \in Nat
        /\ proposal \in [Proposals -> ProposalRow] /\ consumedAt \in [Proposals -> Nat]
        /\ pc \in [Executors -> PCs] /\ job \in [Executors -> Proposals \cup {None}]
        /\ \A e \in Executors : pc[e] # "idle" => job[e] \in Proposals
    BY DEF TypeOK, ProposalRow
  <2>1. ASSUME NEW p \in Proposals, CreateProposal(p)
        PROVE  DecisionsStand' /\ Entitled'
    <3>1. PICK a \in policy.actions, n \in Namespaces, c \in Clusters \cup {NoCluster} :
              proposal' = [proposal EXCEPT ![p] =
                  [status |-> "pending", action |-> a, namespace |-> n, cluster |-> c,
                   expiresAt |-> now + ApprovalTTL, decidedAt |-> 0]]
      BY <2>1 DEF CreateProposal
    <3>2. /\ proposal'[p].status = "pending" /\ proposal'[p].decidedAt = 0
          /\ \A q \in Proposals \ {p} : proposal'[q] = proposal[q]
          /\ proposal[p].status = "absent"
          /\ UNCHANGED <<pc, job, policy, now, consumedAt>>
      BY <2>0, <2>1, <3>1 DEF CreateProposal
    <3>3. DecisionsStand'
      BY <2>0, <3>2 DEF DecisionsStand
    <3>4. Entitled'
      BY <2>0, <3>2 DEF Entitled
    <3> QED
      BY <3>3, <3>4
  <2>2. ASSUME NEW p \in Proposals, Decide(p)
        PROVE  DecisionsStand' /\ Entitled'
    <3>1. PICK v \in {"approved", "rejected"} :
              proposal' = [proposal EXCEPT ![p] = [@ EXCEPT !.status = v, !.decidedAt = now]]
      BY <2>2 DEF Decide
    <3>2. /\ proposal'[p] = [proposal[p] EXCEPT !.status = v, !.decidedAt = now]
          /\ \A q \in Proposals \ {p} : proposal'[q] = proposal[q]
          /\ proposal[p].status = "pending"
          /\ UNCHANGED <<pc, job, policy, now, consumedAt>>
      BY <2>0, <2>2, <3>1 DEF Decide, Decidable
    <3>3. /\ proposal'[p].status # "executed" /\ proposal'[p].status # "absent"
          /\ proposal'[p].decidedAt = now
          /\ proposal'[p].action = proposal[p].action /\ proposal'[p].namespace = proposal[p].namespace
      BY <2>0, <3>2 DEF ProposalRow
    <3>4. DecisionsStand'
      <4>1. \A q \in Proposals : proposal'[q].decidedAt <= now
        <5>1. now <= now
          BY <2>0
        <5>2. ASSUME NEW q \in Proposals \ {p}
              PROVE  proposal'[q].decidedAt <= now
          BY <3>2 DEF DecisionsStand
        <5> QED
          BY <3>3, <5>1, <5>2
      <4>2. ASSUME NEW q \in Proposals, proposal'[q].status = "executed"
            PROVE  q # p /\ proposal'[q] = proposal[q]
        BY <3>2, <3>3, <4>2
      <4> QED
        BY <3>2, <4>1, <4>2 DEF DecisionsStand
    <3>5. Entitled'
      BY <2>0, <3>2, <3>3 DEF Entitled
    <3> QED
      BY <3>4, <3>5
  <2>3. ASSUME NEW c \in Clusters, EditRegistry(c)
        PROVE  DecisionsStand' /\ Entitled'
    BY <2>3 DEF EditRegistry, DecisionsStand, Entitled
  <2>4. ASSUME NEW e \in Executors, NEW p \in Proposals, Begin(e, p)
        PROVE  DecisionsStand' /\ Entitled'
    <3>1. proposal[p].status = "approved"
      BY <2>4 DEF Begin, ReadStatus, Expired
    <3> QED
      BY <2>0, <2>4, <3>1 DEF Begin, DecisionsStand, Entitled
  <2>5. ASSUME NEW e \in Executors, Consume(e)
        PROVE  DecisionsStand' /\ Entitled'
    <3> DEFINE p == job[e]
    <3>1. /\ p \in Proposals /\ pc[e] = "located"
          /\ proposal[p].status = "approved" /\ proposal[p].expiresAt > now
          /\ proposal' = [proposal EXCEPT ![p] = [proposal[p] EXCEPT !.status = "executed"]]
          /\ consumedAt' = [consumedAt EXCEPT ![p] = now]
          /\ pc' = [pc EXCEPT ![e] = "consumed"]
          /\ UNCHANGED <<job, policy, now>>
      BY <2>0, <2>5 DEF Consume, Consumable
    <3>2. /\ proposal'[p] = [proposal[p] EXCEPT !.status = "executed"] /\ consumedAt'[p] = now
          /\ \A q \in Proposals \ {p} : proposal'[q] = proposal[q] /\ consumedAt'[q] = consumedAt[q]
      BY <2>0, <3>1
    <3>3. /\ proposal'[p].status = "executed"
          /\ proposal'[p].decidedAt = proposal[p].decidedAt /\ proposal'[p].expiresAt = proposal[p].expiresAt
          /\ proposal'[p].action = proposal[p].action /\ proposal'[p].namespace = proposal[p].namespace
      BY <2>0, <3>1, <3>2 DEF ProposalRow
    <3> HIDE DEF p
    <3>4. DecisionsStand'
      BY <2>0, <3>1, <3>2, <3>3 DEF DecisionsStand
    <3>5. Entitled'
      BY <2>0, <3>1, <3>2, <3>3 DEF Entitled
    <3> QED
      BY <3>4, <3>5
  <2>6. ASSUME NEW e \in Executors, Proceed(e), ~Consume(e)
        PROVE  DecisionsStand' /\ Entitled'
    <3>1. /\ pc[e] # "idle" /\ UNCHANGED <<proposal, policy, now, consumedAt>>
          /\ \A f \in Executors \ {e} : pc'[f] = pc[f] /\ job'[f] = job[f]
          /\ pc'[e] # "idle" => job'[e] = job[e]
      BY <2>0, <2>6 DEF Proceed, CheckCap, Locate, ConsumeFails, Route, Preview, Act, RecordResult, RecordRaises,
                        EmitAudit, Attempted, Refuse, Finish
    <3> QED
      BY <3>1 DEF DecisionsStand, Entitled
  <2>7. CASE Tick
    <3>1. now' = now + 1 /\ UNCHANGED <<proposal, policy, pc, job, consumedAt>>
      BY <2>7 DEF Tick
    <3> QED
      BY <2>0, <3>1 DEF DecisionsStand, Entitled
  <2>8. CASE Restart
    BY <2>8 DEF Restart, DecisionsStand, Entitled
  <2>9. CASE UNCHANGED vars
    BY <2>9 DEF vars, DecisionsStand, Entitled
  <2> QED
    BY <2>1, <2>2, <2>3, <2>4, <2>5, <2>6, <2>7, <2>8, <2>9 DEF Next
<1> QED
  BY <1>1, <1>2, TypeCorrect, PTL DEF Spec

\* "The approval says a human agreed - it does not say the action is still
\* permitted": what reaches a cluster is permitted by the policy in force then.
THEOREM PolicyInForceHolds == Spec => PolicyInForce
<1> DEFINE Obeyed == \A p \in Proposals : effects'[p] # effects[p] =>
                         /\ proposal[p].action \in policy.actions
                         /\ proposal[p].namespace \in policy.namespaces
<1>1. TypeOK /\ Entitled /\ [Next]_vars => [Obeyed]_vars
  <2> SUFFICES ASSUME TypeOK, Entitled, Next
               PROVE  Obeyed
    OBVIOUS
  <2>1. CASE UNCHANGED effects
    BY <2>1
  <2>2. ASSUME NEW e \in Executors, Act(e)
        PROVE  Obeyed
    <3>1. \A p \in Proposals : effects'[p] # effects[p] => p = job[e]
      BY <2>2 DEF Act, TypeOK
    <3>2. Permitted(job[e])
      BY <2>2 DEF Act, Entitled
    <3> QED
      BY <3>1, <3>2 DEF Permitted
  <2> QED
    BY <2>1, <2>2 DEF Next, CreateProposal, Decide, EditRegistry, Begin, Proceed, CheckCap, Locate, Consume,
        ConsumeFails, Route, Preview, RecordResult, RecordRaises, EmitAudit, Tick, Restart,
        worldVars
<1> QED
  BY <1>1, TypeCorrect, DecisionsStandHolds, PTL DEF Spec, PolicyInForce

-----------------------------------------------------------------------------
\* What is written of a thread's proposal at each point of its execution: nothing until the
\* thread has acted, then what that came to.
WrittenBy(e) ==
    /\ audits[job[e]] = {}
    /\ pc[e] # "recorded" => notes[job[e]] = {}
    /\ pc[e] = "recorded" => notes[job[e]] = {outcome[e]}
    /\ pc[e] \in BeforeAct => job[e] \notin refused
    /\ pc[e] = "attempted" => CameTo(job[e], outcome[e])

\* ... and of a proposal that was not consumed, nothing.
Unwritten(p) == notes[p] = {} /\ audits[p] = {} /\ p \notin refused

WrittenSoFar ==
    /\ \A p \in Proposals : proposal[p].status # "executed" => Unwritten(p)
    /\ \A e \in Executors : pc[e] \in Committed => WrittenBy(e)

RecordsHold == WrittenSoFar /\ Accounted /\ NotesAreTrue

\* A thread that stays where it is, over a proposal nobody touches, has written what it had.
LEMMA WrittenStill ==
    ASSUME NEW f \in Executors, WrittenBy(f),
           pc'[f] = pc[f], job'[f] = job[f], outcome'[f] = outcome[f],
           notes'[job[f]] = notes[job[f]], audits'[job[f]] = audits[job[f]],
           effects'[job[f]] = effects[job[f]], (job[f] \in refused' <=> job[f] \in refused)
    PROVE  WrittenBy(f)'
<1>1. pc[f] = "attempted" => CameTo(job[f], outcome[f])'
  BY DEF WrittenBy, CameTo
<1> QED
  BY <1>1 DEF WrittenBy

\* What is written of a proposal nobody touches is as true as it was.
LEMMA TrueStill ==
    ASSUME NEW p, notes'[p] = notes[p], effects'[p] = effects[p], (p \in refused' <=> p \in refused),
           \A result \in notes[p] : CameTo(p, result)
    PROVE  \A result \in notes'[p] : CameTo(p, result)'
  BY DEF CameTo

\* A proposal that was accounted for still is, if its thread goes on and no record shrinks.
LEMMA AccountedStill ==
    ASSUME Accounted, NEW p \in Proposals,
           proposal'[p].status = "executed" => proposal[p].status = "executed",
           notes'[p] = notes[p], audits'[p] = audits[p],
           interrupted \subseteq interrupted', unnoted \subseteq unnoted', unaudited \subseteq unaudited',
           \A e \in Executors : pc[e] \in Committed /\ job[e] = p =>
               (pc'[e] \in Committed /\ job'[e] = p) \/ p \in interrupted'
    PROVE  /\ \/ proposal'[p].status # "executed"
              \/ p \in interrupted'
              \/ \E e \in Executors : pc'[e] \in Committed /\ job'[e] = p
              \/ /\ notes'[p] # {} \/ p \in unnoted'
                 /\ audits'[p] = notes'[p] \/ p \in unaudited'
           /\ audits'[p] \subseteq notes'[p]
  BY DEF Accounted

\* A step of a thread that neither consumes, acts nor writes.
LEMMA QuietRecords ==
    ASSUME TypeOK, RecordsHold, NEW e \in Executors,
           \A f \in Executors \ {e} : pc'[f] = pc[f] /\ job'[f] = job[f] /\ outcome'[f] = outcome[f],
           pc'[e] \in Committed <=> pc[e] \in Committed,
           pc[e] \in Committed => pc[e] # "recorded" /\ pc'[e] # "recorded" /\ job'[e] = job[e],
           pc'[e] \in BeforeAct => pc[e] \in BeforeAct,
           pc'[e] = "attempted" => CameTo(job[e], outcome[e])',
           UNCHANGED <<proposal, effects, refused, notes, audits, interrupted, unnoted, unaudited>>
    PROVE  RecordsHold'
<1>1. WrittenSoFar'
  <2>1. ASSUME NEW f \in Executors, pc'[f] \in Committed
        PROVE  WrittenBy(f)'
    <3>1. pc[f] \in Committed /\ WrittenBy(f)
      BY <2>1 DEF RecordsHold, WrittenSoFar
    <3>2. CASE f = e
      BY <2>1, <3>1, <3>2 DEF WrittenBy
    <3>3. CASE f # e
      BY <3>1, <3>3, WrittenStill
    <3> QED
      BY <3>2, <3>3
  <2> QED
    BY <2>1 DEF RecordsHold, WrittenSoFar, Unwritten
<1>2. Accounted'
  <2>1. \A f \in Executors : pc[f] \in Committed => pc'[f] \in Committed /\ job'[f] = job[f]
    OBVIOUS
  <2> QED
    BY <2>1, AccountedStill DEF RecordsHold, Accounted
<1>3. NotesAreTrue'
  BY TrueStill DEF RecordsHold, NotesAreTrue
<1> QED
  BY <1>1, <1>2, <1>3 DEF RecordsHold

\* A step on one proposal that leaves the others, and their threads, alone.
LEMMA OthersStill ==
    ASSUME TypeOK, RecordsHold, NEW e \in Executors, NEW p \in Proposals,
           \A f \in Executors \ {e} : /\ pc'[f] = pc[f] /\ job'[f] = job[f] /\ outcome'[f] = outcome[f]
                                      /\ pc[f] \in Committed => job[f] # p,
           \A q \in Proposals \ {p} : /\ proposal'[q] = proposal[q] /\ effects'[q] = effects[q]
                                      /\ notes'[q] = notes[q] /\ audits'[q] = audits[q]
                                      /\ (q \in refused' <=> q \in refused),
           pc[e] \in Committed => job[e] = p,
           interrupted \subseteq interrupted', unnoted \subseteq unnoted', unaudited \subseteq unaudited',
           proposal'[p].status = "executed", pc'[e] \in Committed => WrittenBy(e)',
           \A result \in notes'[p] : CameTo(p, result)', audits'[p] \subseteq notes'[p],
           \/ pc'[e] \in Committed /\ job'[e] = p
           \/ (notes'[p] # {} \/ p \in unnoted') /\ (audits'[p] = notes'[p] \/ p \in unaudited')
    PROVE  RecordsHold'
<1>1. WrittenSoFar'
  <2>1. ASSUME NEW f \in Executors \ {e}, pc'[f] \in Committed
        PROVE  WrittenBy(f)'
    <3>1. pc[f] \in Committed /\ WrittenBy(f) /\ job[f] # p
      BY <2>1 DEF RecordsHold, WrittenSoFar
    <3>2. pc[f] # "idle"
      BY <3>1 DEF Committed
    <3>3. job[f] \in Proposals \ {p}
      BY <3>1, <3>2 DEF TypeOK
    <3>4. /\ notes'[job[f]] = notes[job[f]] /\ audits'[job[f]] = audits[job[f]]
          /\ effects'[job[f]] = effects[job[f]] /\ (job[f] \in refused' <=> job[f] \in refused)
      BY <3>3
    <3> QED
      BY <3>1, <3>4, WrittenStill
  <2>2. ASSUME NEW q \in Proposals, proposal'[q].status # "executed"
        PROVE  Unwritten(q)'
    <3>1. q # p
      BY <2>2
    <3> QED
      BY <2>2, <3>1 DEF RecordsHold, WrittenSoFar, Unwritten
  <2> QED
    BY <2>1, <2>2 DEF WrittenSoFar
<1>2. Accounted'
  <2>1. ASSUME NEW q \in Proposals \ {p}
        PROVE  /\ \/ proposal'[q].status # "executed"
                  \/ q \in interrupted'
                  \/ \E f \in Executors : pc'[f] \in Committed /\ job'[f] = q
                  \/ /\ notes'[q] # {} \/ q \in unnoted'
                     /\ audits'[q] = notes'[q] \/ q \in unaudited'
               /\ audits'[q] \subseteq notes'[q]
    <3>1. \A f \in Executors : pc[f] \in Committed /\ job[f] = q => pc'[f] \in Committed /\ job'[f] = q
      <4>1. ASSUME NEW f \in Executors, pc[f] \in Committed, job[f] = q
            PROVE  pc'[f] \in Committed /\ job'[f] = q
        <5>1. f # e /\ q # p
          BY <4>1
        <5> QED
          BY <4>1, <5>1
      <4> QED
        BY <4>1
    <3> QED
      BY <2>1, <3>1, AccountedStill DEF RecordsHold
  <2> QED
    BY <2>1 DEF Accounted
<1>3. NotesAreTrue'
  <2>1. ASSUME NEW q \in Proposals \ {p}
        PROVE  \A result \in notes'[q] : CameTo(q, result)'
    BY <2>1, TrueStill DEF RecordsHold, NotesAreTrue
  <2> QED
    BY <2>1 DEF NotesAreTrue
<1> QED
  BY <1>1, <1>2, <1>3 DEF RecordsHold

\* "Recorded on every exit": a consumed approval no thread works on has its outcome on the row and
\* in the audit trail, unless the database refused it there or a restart came, and what they say
\* became of the command is what became of it.
THEOREM RecordsHoldForever == Spec => []RecordsHold
<1> USE NamesAssumption
<1>1. Init => RecordsHold
  BY DEF Init, NoRow, RecordsHold, WrittenSoFar, Unwritten, Accounted, NotesAreTrue, Committed
<1>2. TypeOK /\ SoleHolder /\ RecordsHold /\ [Next]_vars => RecordsHold'
  <2> SUFFICES ASSUME TypeOK, SoleHolder, RecordsHold, [Next]_vars
               PROVE  RecordsHold'
    OBVIOUS
  <2> USE DEF dbVars, procVars, worldVars, lostVars, Goto
  <2>0. /\ proposal \in [Proposals -> ProposalRow] /\ effects \in [Proposals -> Nat]
        /\ notes \in [Proposals -> SUBSET Outcomes] /\ audits \in [Proposals -> SUBSET Outcomes]
        /\ pc \in [Executors -> PCs] /\ job \in [Executors -> Proposals \cup {None}]
        /\ outcome \in [Executors -> Outcomes \cup {None}]
        /\ \A e \in Executors : pc[e] # "idle" => job[e] \in Proposals
    BY DEF TypeOK
  <2>1. ASSUME NEW p \in Proposals, CreateProposal(p) \/ Decide(p)
        PROVE  RecordsHold'
    <3>1. /\ proposal[p].status # "executed" /\ proposal'[p].status # "executed"
          /\ \A q \in Proposals \ {p} : proposal'[q] = proposal[q]
          /\ UNCHANGED <<pc, job, outcome, effects, refused, notes, audits, interrupted, unnoted, unaudited>>
      <4>1. CASE CreateProposal(p)
        BY <2>0, <4>1 DEF CreateProposal
      <4>2. CASE Decide(p)
        BY <2>0, <4>2 DEF Decide, Decidable, ProposalRow
      <4> QED
        BY <2>1, <4>1, <4>2
    <3>2. WrittenSoFar'
      BY <3>1, WrittenStill DEF RecordsHold, WrittenSoFar, Unwritten
    <3>3. Accounted'
      BY <3>1, AccountedStill DEF RecordsHold, Accounted
    <3>4. NotesAreTrue'
      BY <3>1, TrueStill DEF RecordsHold, NotesAreTrue
    <3> QED
      BY <3>2, <3>3, <3>4 DEF RecordsHold
  <2>2. ASSUME UNCHANGED <<proposal, pc, job, outcome, effects, refused, notes, audits, interrupted, unnoted, unaudited>>
        PROVE  RecordsHold'
    <3>1. WrittenSoFar'
      BY <2>2, WrittenStill DEF RecordsHold, WrittenSoFar, Unwritten
    <3>2. Accounted'
      BY <2>2, AccountedStill DEF RecordsHold, Accounted
    <3>3. NotesAreTrue'
      BY <2>2, TrueStill DEF RecordsHold, NotesAreTrue
    <3> QED
      BY <3>1, <3>2, <3>3 DEF RecordsHold
  <2>3. ASSUME NEW e \in Executors, NEW p \in Proposals, Begin(e, p)
        PROVE  RecordsHold'
    BY <2>0, <2>3, QuietRecords DEF Begin, Committed, BeforeAct
  <2>4. ASSUME NEW e \in Executors, CheckCap(e) \/ Locate(e) \/ ConsumeFails(e)
        PROVE  RecordsHold'
    BY <2>0, <2>4, QuietRecords DEF CheckCap, Locate, ConsumeFails, Refuse, Committed, BeforeAct
  <2>5. ASSUME NEW e \in Executors, Route(e) \/ Preview(e)
        PROVE  RecordsHold'
    <3>1. /\ pc[e] \in BeforeAct /\ pc'[e] \in {"routed", "previewed", "attempted"}
          /\ pc'[e] = "attempted" => outcome'[e] \in {"failed", "unreachable"}
          /\ job' = job
          /\ \A f \in Executors \ {e} : pc'[f] = pc[f] /\ outcome'[f] = outcome[f]
          /\ UNCHANGED <<proposal, effects, refused, notes, audits, interrupted, unnoted, unaudited>>
      BY <2>0, <2>5 DEF Route, Preview, Attempted, BeforeAct
    <3>2. effects[job[e]] = 0 /\ job[e] \notin refused
      BY <3>1 DEF SoleHolder, RecordsHold, WrittenSoFar, WrittenBy, BeforeAct, Committed
    <3>3. pc'[e] = "attempted" => CameTo(job[e], outcome[e])'
      BY <3>1, <3>2 DEF CameTo
    <3>4. pc[e] # "recorded" /\ pc'[e] # "recorded" /\ pc[e] \in Committed /\ pc'[e] \in Committed
      BY <3>1 DEF Committed, BeforeAct
    <3> QED
      BY <3>1, <3>3, <3>4, QuietRecords
  <2>6. ASSUME NEW e \in Executors, Consume(e)
        PROVE  RecordsHold'
    <3>1. /\ pc[e] = "located" /\ job[e] \in Proposals /\ proposal[job[e]].status = "approved"
          /\ proposal'[job[e]].status = "executed"
          /\ \A q \in Proposals \ {job[e]} : proposal'[q] = proposal[q]
          /\ pc'[e] = "consumed" /\ \A f \in Executors \ {e} : pc'[f] = pc[f]
          /\ UNCHANGED <<job, outcome, effects, refused, notes, audits, interrupted, unnoted, unaudited>>
      BY <2>0, <2>6 DEF Consume, Consumable, ProposalRow
    <3>2. Unwritten(job[e])
      BY <3>1 DEF RecordsHold, WrittenSoFar
    <3>3. /\ WrittenBy(e)' /\ \A result \in notes'[job[e]] : CameTo(job[e], result)'
          /\ audits'[job[e]] \subseteq notes'[job[e]]
      BY <3>1, <3>2 DEF WrittenBy, Unwritten
    <3>4. \A f \in Executors \ {e} : pc[f] \in Committed => job[f] # job[e]
      BY <3>1 DEF SoleHolder
    <3>5. pc'[e] \in Committed /\ pc[e] \notin Committed
      BY <3>1 DEF Committed
    <3> QED
      BY <3>1, <3>3, <3>4, <3>5, OthersStill
  <2>7. ASSUME NEW e \in Executors, Act(e) \/ RecordResult(e) \/ RecordRaises(e) \/ EmitAudit(e)
        PROVE  /\ pc[e] \in Committed /\ job[e] \in Proposals
               /\ proposal[job[e]].status = "executed" /\ UNCHANGED <<proposal, interrupted>>
               /\ unnoted \subseteq unnoted' /\ unaudited \subseteq unaudited'
               /\ \A f \in Executors \ {e} : /\ pc'[f] = pc[f] /\ job'[f] = job[f] /\ outcome'[f] = outcome[f]
                                             /\ pc[f] \in Committed => job[f] # job[e]
               /\ \A q \in Proposals \ {job[e]} : /\ notes'[q] = notes[q] /\ audits'[q] = audits[q]
                                                   /\ effects'[q] = effects[q] /\ (q \in refused' <=> q \in refused)
    <3>1. pc[e] \in Committed
      BY <2>7 DEF Act, RecordResult, RecordRaises, EmitAudit, Committed
    <3>2. /\ job[e] \in Proposals /\ proposal[job[e]].status = "executed"
          /\ \A f \in Executors \ {e} : pc[f] \in Committed => job[f] # job[e]
      BY <2>0, <3>1 DEF SoleHolder, Committed
    <3>3. /\ \A f \in Executors \ {e} : pc'[f] = pc[f] /\ job'[f] = job[f] /\ outcome'[f] = outcome[f]
          /\ UNCHANGED <<proposal, interrupted>> /\ unnoted \subseteq unnoted' /\ unaudited \subseteq unaudited'
      BY <2>0, <2>7 DEF Act, RecordResult, RecordRaises, EmitAudit, Attempted, Finish
    <3>4. \A q \in Proposals \ {job[e]} : notes'[q] = notes[q] /\ audits'[q] = audits[q] /\ effects'[q] = effects[q]
      BY <2>0, <2>7 DEF Act, RecordResult, RecordRaises, EmitAudit
    <3>5. \A q \in Proposals \ {job[e]} : (q \in refused' <=> q \in refused)
      BY <2>7 DEF Act, RecordResult, RecordRaises, EmitAudit
    <3> QED
      BY <3>1, <3>2, <3>3, <3>4, <3>5
  <2>8. ASSUME NEW e \in Executors, Act(e)
        PROVE  RecordsHold'
    <3>1. /\ pc[e] = "previewed" /\ pc'[e] = "attempted" /\ job' = job
          /\ UNCHANGED <<notes, audits>> /\ outcome'[e] \in {"executed", "failed"}
      BY <2>0, <2>8 DEF Act, Attempted
    <3>2. effects[job[e]] = 0 /\ job[e] \notin refused /\ notes[job[e]] = {} /\ audits[job[e]] = {}
      BY <3>1 DEF SoleHolder, RecordsHold, WrittenSoFar, WrittenBy, Committed, BeforeAct
    <3>3. \/ effects'[job[e]] = 1 /\ job[e] \notin refused'
          \/ effects'[job[e]] = 0 /\ (job[e] \in refused' <=> outcome'[e] = "executed")
      BY <2>0, <2>7, <2>8, <3>2 DEF Act, Attempted
    <3>4. CameTo(job[e], outcome[e])'
      BY <3>1, <3>3 DEF CameTo
    <3>5. /\ WrittenBy(e)' /\ audits'[job[e]] \subseteq notes'[job[e]]
          /\ \A result \in notes'[job[e]] : CameTo(job[e], result)'
      BY <3>1, <3>2, <3>4 DEF WrittenBy, BeforeAct
    <3>6. pc'[e] \in Committed
      BY <3>1 DEF Committed
    <3> QED
      BY <2>7, <2>8, <3>1, <3>5, <3>6, OthersStill
  <2>9. ASSUME NEW e \in Executors, RecordResult(e)
        PROVE  RecordsHold'
    <3>1. /\ pc[e] = "attempted" /\ pc'[e] = "recorded"
          /\ UNCHANGED <<job, outcome, audits, effects, refused>>
          /\ notes'[job[e]] = notes[job[e]] \cup {outcome[e]}
      BY <2>0, <2>7, <2>9 DEF RecordResult
    <3>2. notes[job[e]] = {} /\ audits[job[e]] = {} /\ CameTo(job[e], outcome[e])
      BY <3>1 DEF RecordsHold, WrittenSoFar, WrittenBy, Committed
    <3>3. \A result \in notes'[job[e]] : CameTo(job[e], result)'
      BY <3>1, <3>2 DEF CameTo
    <3>4. WrittenBy(e)' /\ audits'[job[e]] \subseteq notes'[job[e]]
      BY <3>1, <3>2 DEF WrittenBy, BeforeAct
    <3>5. pc'[e] \in Committed
      BY <3>1 DEF Committed
    <3> QED
      BY <2>7, <2>9, <3>1, <3>3, <3>4, <3>5, OthersStill
  <2>10. ASSUME NEW e \in Executors, RecordRaises(e) \/ EmitAudit(e)
         PROVE  RecordsHold'
    <3>1. /\ pc[e] \in {"attempted", "recorded"} /\ pc'[e] \notin Committed /\ UNCHANGED <<notes, effects, refused>>
          /\ pc[e] = "attempted" => audits' = audits /\ job[e] \in unnoted'
          /\ pc[e] = "recorded" => \/ audits'[job[e]] = audits[job[e]] \cup {outcome[e]}
                                   \/ audits' = audits /\ job[e] \in unaudited'
      BY <2>0, <2>7, <2>10 DEF RecordRaises, EmitAudit, Finish, Committed
    <3>2. /\ audits[job[e]] = {}
          /\ pc[e] = "attempted" => notes[job[e]] = {}
          /\ pc[e] = "recorded" => notes[job[e]] = {outcome[e]}
      BY <3>1 DEF RecordsHold, WrittenSoFar, WrittenBy, Committed
    <3>3. PICK p \in Proposals : p = job[e]
      BY <2>7, <2>10
    <3>4. \A result \in notes'[p] : CameTo(p, result)'
      BY <3>1, TrueStill DEF RecordsHold, NotesAreTrue
    <3>5. /\ audits'[p] \subseteq notes'[p]
          /\ notes'[p] # {} \/ p \in unnoted'
          /\ audits'[p] = notes'[p] \/ p \in unaudited'
      BY <3>1, <3>2, <3>3
    <3>6. /\ pc[e] \in Committed /\ proposal'[p].status = "executed"
          /\ interrupted \subseteq interrupted' /\ unnoted \subseteq unnoted' /\ unaudited \subseteq unaudited'
          /\ \A f \in Executors \ {e} : /\ pc'[f] = pc[f] /\ job'[f] = job[f] /\ outcome'[f] = outcome[f]
                                        /\ pc[f] \in Committed => job[f] # p
          /\ \A q \in Proposals \ {p} : /\ proposal'[q] = proposal[q] /\ effects'[q] = effects[q]
                                        /\ notes'[q] = notes[q] /\ audits'[q] = audits[q]
                                        /\ (q \in refused' <=> q \in refused)
      BY <2>7, <2>10, <3>3
    <3> QED
      BY <3>1, <3>3, <3>4, <3>5, <3>6, OthersStill
  <2>11. CASE Restart
    <3>1. /\ UNCHANGED <<proposal, effects, refused, notes, audits, unnoted, unaudited>>
          /\ \A e \in Executors : pc'[e] = "idle"
          /\ interrupted \subseteq interrupted'
          /\ \A e \in Executors : pc[e] \in Committed => job[e] \in interrupted'
      BY <2>11 DEF Restart
    <3>2. WrittenSoFar'
      BY <3>1 DEF RecordsHold, WrittenSoFar, Unwritten, Committed
    <3>3. Accounted'
      BY <3>1, AccountedStill DEF RecordsHold, Accounted
    <3>4. NotesAreTrue'
      BY <3>1, TrueStill DEF RecordsHold, NotesAreTrue
    <3> QED
      BY <3>2, <3>3, <3>4 DEF RecordsHold
  <2>12. CASE (\E c \in Clusters : EditRegistry(c)) \/ Tick \/ UNCHANGED vars
    BY <2>2, <2>12 DEF EditRegistry, Tick, vars
  <2> QED
    BY <2>1, <2>3, <2>4, <2>5, <2>6, <2>8, <2>9, <2>10, <2>11, <2>12 DEF Next, Proceed
<1> QED
  BY <1>1, <1>2, TypeCorrect, SoleHolderHolds, PTL DEF Spec

-----------------------------------------------------------------------------
\* The rate cap.
LEMMA CapSets ==
    /\ IsFiniteSet(Recent) /\ IsFiniteSet(PassedCap) /\ IsFiniteSet(Executors)
    /\ Cardinality(Recent) \in Nat /\ Cardinality(PassedCap) \in Nat
    /\ Cardinality(Executors) \in Nat /\ Cardinality(Executors) >= 1
    /\ Cardinality(PassedCap) <= Cardinality(Executors)
<1>1. Recent \subseteq Proposals /\ PassedCap \subseteq Executors
  BY DEF Recent, PassedCap
<1>2. Cardinality(Executors) # 0
  BY NamesAssumption, ThreadsAssumption, FS_EmptySet
<1> QED
  BY <1>1, <1>2, NamesAssumption, FS_Subset, FS_CardinalityType

\* Rows leave the window and threads end; neither lifts the count.
LEMMA CapShrinks ==
    ASSUME CapWithinConcurrency, Recent' \subseteq Recent, PassedCap' \subseteq PassedCap
    PROVE  CapWithinConcurrency'
<1>1. /\ Cardinality(Recent') <= Cardinality(Recent) /\ Cardinality(Recent') \in Nat
      /\ Cardinality(PassedCap') <= Cardinality(PassedCap) /\ Cardinality(PassedCap') \in Nat
  BY CapSets, FS_Subset, FS_CardinalityType
<1> QED
  BY <1>1, CapSets, BoundsAssumption DEF CapWithinConcurrency

\* The rate cap is overrun by at most one change per thread beyond the first,
\* however the count of one thread and the consumption of another interleave.
THEOREM CapHolds == Spec => []CapWithinConcurrency
<1> USE BoundsAssumption, NamesAssumption
<1>1. Init => CapWithinConcurrency
  <2> SUFFICES ASSUME Init
               PROVE  CapWithinConcurrency
    OBVIOUS
  <2>1. Recent = {} /\ PassedCap = {}
    BY DEF Init, NoRow, Recent, PassedCap
  <2> QED
    BY <2>1, CapSets, FS_EmptySet DEF CapWithinConcurrency
<1>2. TypeOK /\ CapWithinConcurrency /\ [Next]_vars => CapWithinConcurrency'
  <2> SUFFICES ASSUME TypeOK, CapWithinConcurrency, [Next]_vars
               PROVE  CapWithinConcurrency'
    OBVIOUS
  <2> USE DEF dbVars, procVars, worldVars, lostVars, Goto
  <2>0. /\ proposal \in [Proposals -> ProposalRow] /\ now \in Nat
        /\ \A p \in Proposals : proposal[p].decidedAt \in Nat
        /\ pc \in [Executors -> PCs]
        /\ \A e \in Executors : pc[e] # "idle" => job[e] \in Proposals
    BY DEF TypeOK, ProposalRow
  <2>1. ASSUME NEW p \in Proposals, CreateProposal(p) \/ Decide(p)
        PROVE  CapWithinConcurrency'
    <3>1. /\ proposal'[p].status # "executed" /\ UNCHANGED <<pc, now>>
          /\ \A q \in Proposals \ {p} : proposal'[q] = proposal[q]
      <4>1. CASE CreateProposal(p)
        BY <2>0, <4>1 DEF CreateProposal
      <4>2. CASE Decide(p)
        BY <2>0, <4>2 DEF Decide, Decidable, ProposalRow
      <4> QED
        BY <2>1, <4>1, <4>2
    <3> QED
      BY <3>1, CapShrinks DEF Recent, PassedCap
  <2>2. ASSUME NEW c \in Clusters, EditRegistry(c)
        PROVE  CapWithinConcurrency'
    BY <2>2, CapShrinks DEF EditRegistry, Recent, PassedCap
  <2>3. ASSUME NEW e \in Executors, NEW p \in Proposals, Begin(e, p)
        PROVE  CapWithinConcurrency'
    <3>1. UNCHANGED <<proposal, now>> /\ pc' = [pc EXCEPT ![e] = "checked"]
      BY <2>3 DEF Begin
    <3> QED
      BY <2>0, <3>1, CapShrinks DEF Recent, PassedCap
  <2>4. ASSUME NEW e \in Executors, CheckCap(e)
        PROVE  CapWithinConcurrency'
    <3>1. UNCHANGED <<proposal, now>> /\ Recent' = Recent
      BY <2>4 DEF CheckCap, Recent
    <3>2. CASE CapReached
      <4>1. pc' = [pc EXCEPT ![e] = "idle"]
        BY <2>4, <3>2 DEF CheckCap, Refuse
      <4> QED
        BY <2>0, <3>1, <4>1, CapShrinks DEF PassedCap
    <3>3. CASE ~CapReached
      <4>1. PassedCap' \subseteq Executors
        BY DEF PassedCap
      <4>2. Cardinality(PassedCap') <= Cardinality(Executors) /\ Cardinality(PassedCap') \in Nat
        BY <4>1, CapSets, FS_Subset, FS_CardinalityType
      <4>3. Cardinality(Recent) < MaxPerWindow
        BY <3>3, CapSets DEF CapReached
      <4> QED
        BY <3>1, <4>2, <4>3, CapSets DEF CapWithinConcurrency
    <3> QED
      BY <3>2, <3>3
  <2>5. ASSUME NEW e \in Executors, Consume(e)
        PROVE  CapWithinConcurrency'
    <3>1. /\ pc[e] = "located" /\ job[e] \in Proposals /\ UNCHANGED now
          /\ \A q \in Proposals \ {job[e]} : proposal'[q] = proposal[q]
          /\ pc'[e] = "consumed" /\ \A f \in Executors \ {e} : pc'[f] = pc[f]
      BY <2>0, <2>5 DEF Consume
    <3>2. PassedCap' = PassedCap \ {e} /\ e \in PassedCap
      BY <3>1 DEF PassedCap
    <3>3. Cardinality(PassedCap') = Cardinality(PassedCap) - 1
      BY <3>2, CapSets, FS_RemoveElement
    <3>4. Recent' \subseteq Recent \cup {job[e]}
      BY <3>1 DEF Recent
    <3>5. Cardinality(Recent') <= Cardinality(Recent) + 1 /\ Cardinality(Recent') \in Nat
      <4>1. /\ IsFiniteSet(Recent \cup {job[e]})
            /\ Cardinality(Recent \cup {job[e]}) <= Cardinality(Recent) + 1
            /\ Cardinality(Recent \cup {job[e]}) \in Nat
        <5>1. IsFiniteSet(Recent \cup {job[e]})
          BY CapSets, FS_AddElement
        <5>2. Cardinality(Recent \cup {job[e]}) = Cardinality(Recent)
                \/ Cardinality(Recent \cup {job[e]}) = Cardinality(Recent) + 1
          BY CapSets, FS_AddElement
        <5> QED
          BY <5>1, <5>2, CapSets, FS_CardinalityType
      <4>2. /\ Cardinality(Recent') <= Cardinality(Recent \cup {job[e]})
            /\ Cardinality(Recent') \in Nat
        BY <3>4, <4>1, FS_Subset, FS_CardinalityType
      <4> QED
        BY <4>1, <4>2, CapSets
    <3> QED
      BY <3>3, <3>5, CapSets DEF CapWithinConcurrency
  <2>6. ASSUME NEW e \in Executors, Proceed(e), ~CheckCap(e), ~Consume(e)
        PROVE  CapWithinConcurrency'
    <3>1. /\ UNCHANGED <<proposal, now>>
          /\ \A f \in Executors \ {e} : pc'[f] = pc[f]
          /\ pc'[e] \in {"underCap", "located"} => pc[e] \in {"underCap", "located"}
      BY <2>0, <2>6 DEF Proceed, Locate, ConsumeFails, Route, Preview, Act, RecordResult, RecordRaises,
                        EmitAudit, Attempted, Refuse, Finish
    <3> QED
      BY <3>1, CapShrinks DEF Recent, PassedCap
  <2>7. CASE Tick
    <3>1. now' = now + 1 /\ UNCHANGED <<proposal, pc>>
      BY <2>7 DEF Tick
    <3>2. Recent' \subseteq Recent
      BY <2>0, <3>1 DEF Recent
    <3> QED
      BY <3>1, <3>2, CapShrinks DEF PassedCap
  <2>8. CASE Restart
    <3>1. UNCHANGED <<proposal, now>> /\ PassedCap' = {}
      BY <2>8 DEF Restart, PassedCap
    <3> QED
      BY <3>1, CapShrinks DEF Recent
  <2>9. CASE UNCHANGED vars
    BY <2>9, CapShrinks DEF vars, Recent, PassedCap
  <2> QED
    BY <2>1, <2>2, <2>3, <2>4, <2>5, <2>6, <2>7, <2>8, <2>9 DEF Next
<1> QED
  BY <1>1, <1>2, TypeCorrect, PTL DEF Spec

\* An approval is spent only while it is fresh and within the cap, and whatever
\* came of it is on the row and in the audit trail, as far as the database took it, and says what
\* became of the command.
THEOREM ApprovalsAreHonouredHolds == Spec => []ApprovalsAreHonoured
<1>1. TypeOK /\ SoleHolder /\ DecisionsStand => ActsOnFreshApproval
  BY DEF SoleHolder, DecisionsStand, ActsOnFreshApproval
<1>2. ActsOnFreshApproval /\ RecordsHold /\ CapWithinConcurrency => ApprovalsAreHonoured
  BY DEF RecordsHold, ApprovalsAreHonoured
<1> QED
  BY <1>1, <1>2, TypeCorrect, SoleHolderHolds, DecisionsStandHolds, RecordsHoldForever, CapHolds, PTL
=============================================================================
