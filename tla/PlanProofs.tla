----------------------------- MODULE PlanProofs -----------------------------
(***************************************************************************)
(* Theorems about PlanExecution, for every set of callers, plans, steps    *)
(* and tokens, every lifetime of a plan and of a token, and any number of  *)
(* restarts; and about the plans of an upgrade and the other answers of    *)
(* UpgradePilot, for questions of every size.                              *)
(***************************************************************************)
EXTENDS PlanExecution, MCTools, SequenceTheorems, FiniteSetTheorems, WellFoundedInduction, TLAPS

-----------------------------------------------------------------------------
(* The token store.                                                        *)

LEMMA PurgedStore ==
    ASSUME NEW store \in TokenStore, NEW now \in Nat
    PROVE  /\ Purged(store, now) \in TokenStore
           /\ \A t \in Tokens : Purged(store, now)[t] \in {store[t], None}
  BY DEF Purged, TokenStore

LEMMA IssuedStore ==
    ASSUME NEW store \in TokenStore, NEW now \in Nat, NEW t \in Tokens, NEW a \in Actions
    PROVE  /\ Issued(store, t, a, now) \in TokenStore
           /\ \A u \in Tokens \ {t} : Issued(store, t, a, now)[u] \in {store[u], None}
           /\ Issued(store, t, a, now)[t] # None => Issued(store, t, a, now)[t].action = a
<1> DEFINE rec == [action |-> a, expires |-> now + TokenTtl]
           new == [store EXCEPT ![t] = rec]
<1>1. rec \in TokenRecord /\ rec.action = a
  BY TokenAssumption DEF TokenRecord
<1>2. new \in TokenStore /\ new[t] = rec /\ \A u \in Tokens \ {t} : new[u] = store[u]
  BY <1>1 DEF TokenStore
<1>3. Issued(store, t, a, now) = Purged(new, now)
  BY DEF Issued
<1> HIDE DEF new, rec
<1> QED
  BY <1>1, <1>2, <1>3, PurgedStore

LEMMA LeftStore ==
    ASSUME NEW store \in TokenStore, NEW now \in Nat, NEW t \in Tokens \cup {None}
    PROVE  /\ Left(store, t, now) \in TokenStore
           /\ \A u \in Tokens : Left(store, t, now)[u] \in {store[u], None}
           /\ t \in Tokens => Left(store, t, now)[t] = None
  BY PurgedStore DEF Left, TokenStore

LEMMA PoppedRecord ==
    ASSUME NEW store \in TokenStore, NEW now \in Nat, NEW t \in Tokens \cup {None}
    PROVE  /\ Popped(store, t, now) \in TokenRecord \cup {None}
           /\ Popped(store, t, now) # None => t \in Tokens /\ Popped(store, t, now) = store[t]
  BY PurgedStore DEF Popped, TokenStore

LEMMA EmptyStoreTyped == EmptyStore \in TokenStore /\ \A t \in Tokens : EmptyStore[t] = None
  BY DEF EmptyStore, TokenStore

-----------------------------------------------------------------------------
(* The plans.                                                              *)

LEMMA LivePlansTyped ==
    ASSUME plans \in [Plans -> Plan \cup {None}]
    PROVE  /\ LivePlans \in [Plans -> Plan \cup {None}]
           /\ \A p \in Plans : LivePlans[p] \in {plans[p], None}
  BY DEF LivePlans

(* A plan with one step's status changed is a plan. *)
LEMMA StatusSet ==
    ASSUME NEW r \in Plan, NEW s \in Steps, NEW st \in Statuses
    PROVE  /\ [r EXCEPT !.status[s] = st] \in Plan
           /\ \A u \in Steps :
                  [r EXCEPT !.status[s] = st].status[u] = IF u = s THEN st ELSE r.status[u]
  BY DEF Plan

LEMMA ActionsTyped == \A s \in Steps : StepAction[s] \in Actions
  BY PlanAssumption

-----------------------------------------------------------------------------
(* A caller that is at work knows what it was asked to do, and from the    *)
(* claim to the answer a step has its plan.                                *)
AtWork ==
    \A c \in Callers :
        /\ pc[c] # "idle" => job[c] \in Job
        /\ pc[c] # "idle" => (job[c].plan # None => job[c].step \in Steps)
        /\ pc[c] \in {"found", "done", "failed", "raised", "answering"} => job[c].plan # None

Typed == TypeOK /\ AtWork

(* Every variable keeps its type, and every call its arguments.            *)
THEOREM TypeCorrect == Spec => []Typed
<1> USE PlanAssumption, TokenAssumption
<1>1. Init => Typed
  BY EmptyStoreTyped DEF Init, Typed, TypeOK, AtWork, Locations
<1>2. Typed /\ [Next]_vars => Typed'
  <2> SUFFICES ASSUME Typed, [Next]_vars
               PROVE  Typed'
    OBVIOUS
  <2> USE DEF Typed, TypeOK, AtWork, storeVars, callerVars, history, world
  <2>1. ASSUME NEW p \in Plans, Propose(p)
        PROVE  Typed'
    <3>1. [expires |-> clock + PlanTtl, status |-> [s \in Steps |-> "pending"]] \in Plan
      BY DEF Plan, Statuses
    <3>2. LivePlans \in [Plans -> Plan \cup {None}]
      BY LivePlansTyped
    <3>3. plans' \in [Plans -> Plan \cup {None}]
      BY <2>1, <3>1, <3>2 DEF Propose
    <3> QED
      BY <2>1, <3>3 DEF Propose
  <2>2. CASE GetPlan
    BY <2>2, LivePlansTyped DEF GetPlan
  <2>3. ASSUME NEW a \in Actions, NEW t \in Tokens, Preview(a, t)
        PROVE  Typed'
    BY <2>3, IssuedStore DEF Preview
  <2>4. ASSUME NEW c \in Callers, NEW p \in Plans, NEW s \in Steps, NEW t \in Tokens \cup {None},
               Find(c, p, s, t)
        PROVE  Typed'
    <3>1. [plan |-> p, step |-> s, action |-> StepAction[s], token |-> t] \in Job
      BY ActionsTyped DEF Job
    <3> QED
      BY <2>4, <3>1, LivePlansTyped DEF Find, Goto, Locations
  <2>5. ASSUME NEW c \in Callers, NEW a \in Actions, NEW t \in Tokens \cup {None}, Call(c, a, t)
        PROVE  Typed'
    <3>1. [plan |-> None, step |-> None, action |-> a, token |-> t] \in Job
      BY DEF Job
    <3> QED
      BY <2>5, <3>1 DEF Call, Goto, Locations
  <2>6. ASSUME NEW c \in Callers, Work(c)
        PROVE  Typed'
    <3> USE DEF Goto, Return, Locations
    <3>1. pc[c] # "idle" /\ job[c] \in Job
      BY <2>6 DEF Work, Claim, TurnAway, Invalid, Redeem, Authorise, Refuse, Succeed, Fail, Record, Answer
    <3>2. /\ job[c].plan \in Plans \cup {None} /\ job[c].action \in Actions
          /\ job[c].token \in Tokens \cup {None}
          /\ job[c].plan # None => job[c].plan \in Plans /\ job[c].step \in Steps
      BY <3>1 DEF Job
    <3>3. CASE Claim(c)
      <4> DEFINE r == plans[job[c].plan]
      <4>1. /\ job[c].plan \in Plans /\ job[c].step \in Steps /\ r \in Plan
            /\ plans' = [plans EXCEPT ![job[c].plan] = [r EXCEPT !.status[job[c].step] = "running"]]
        BY <3>2, <3>3 DEF Claim, Claimable
      <4> HIDE DEF r
      <4>2. plans' \in [Plans -> Plan \cup {None}]
        BY <4>1, StatusSet DEF Statuses
      <4> QED
        BY <3>3, <4>2 DEF Claim
    <3>4. CASE TurnAway(c)
      BY <3>4 DEF TurnAway
    <3>5. ASSUME NEW o \in {"done", "failed", "raised"}, ToolReturns(c, o), UNCHANGED storeVars
          PROVE  /\ pc' \in [Callers -> Locations] /\ job' \in [Callers -> Job \cup {None}]
                 /\ held' \in [Callers -> TokenRecord \cup {None}] /\ AtWork'
      BY <3>1, <3>2, <3>5 DEF ToolReturns
    <3>6. CASE Invalid(c)
      BY <3>5, <3>6 DEF Invalid
    <3>7. CASE Redeem(c)
      <4>1. /\ Popped(tokens, job[c].token, clock) \in TokenRecord \cup {None}
            /\ Left(tokens, job[c].token, clock) \in TokenStore
        BY <3>2, LeftStore, PoppedRecord
      <4>2. tokens' \in TokenStore /\ held' \in [Callers -> TokenRecord \cup {None}]
        BY <3>7, <4>1 DEF Redeem
      <4> QED
        BY <3>1, <3>7, <4>2 DEF Redeem
    <3>8. CASE Authorise(c)
      BY <3>1, <3>8 DEF Authorise
    <3>9. CASE Refuse(c)
      BY <3>5, <3>9 DEF Refuse
    <3>10. Effect(c) => /\ did' \in [Tokens \cup {None} -> [Actions -> Nat]]
                        /\ changed' \in SUBSET (Plans \X Steps)
      BY <3>2 DEF Effect, StepOf
    <3>11. CASE Succeed(c)
      <4>1. ran' \in [Plans -> [Steps -> Nat]]
        BY <3>2, <3>11 DEF Succeed
      <4>2. refused' \in SUBSET (Plans \X Steps)
        BY <3>2, <3>11 DEF Succeed, StepOf
      <4> QED
        BY <3>5, <3>10, <3>11, <4>1, <4>2 DEF Succeed
    <3>12. CASE Fail(c)
      BY <3>5, <3>10, <3>12 DEF Fail
    <3>13. CASE Record(c)
      <4> DEFINE r == plans[job[c].plan]
                 st == StatusAfter(pc[c])
      <4>1. /\ job[c].plan \in Plans /\ job[c].step \in Steps /\ st \in Statuses
            /\ plans' = IF r = None THEN plans
                        ELSE [plans EXCEPT ![job[c].plan] = [r EXCEPT !.status[job[c].step] = st]]
        BY <3>2, <3>13 DEF Record, Recorded, StatusAfter, Statuses
      <4>2. r \in Plan \cup {None}
        BY <4>1
      <4> HIDE DEF r, st
      <4>3. plans' \in [Plans -> Plan \cup {None}]
        BY <4>1, <4>2, StatusSet
      <4> QED
        BY <3>1, <3>2, <3>13, <4>3 DEF Record
    <3>14. CASE Answer(c)
      BY <3>14, LivePlansTyped DEF Answer
    <3> QED
      BY <2>6, <3>3, <3>4, <3>6, <3>7, <3>8, <3>9, <3>11, <3>12, <3>13, <3>14 DEF Work
  <2>7. CASE Tick
    BY <2>7 DEF Tick
  <2>8. CASE Restart
    BY <2>8, EmptyStoreTyped DEF Restart, Locations
  <2>9. CASE UNCHANGED vars
    BY <2>9 DEF vars
  <2> QED
    BY <2>1, <2>2, <2>3, <2>4, <2>5, <2>6, <2>7, <2>8, <2>9 DEF Next
<1> QED
  BY <1>1, <1>2, PTL DEF Spec

-----------------------------------------------------------------------------
(* What a token allows.                                                    *)

(* A token is spent from the moment it is popped: whoever popped it and    *)
(* has not acted yet holds it.                                             *)
Holds(c, t) ==
    /\ pc[c] \in {"checking", "acting"}
    /\ pc[c] = "checking" => held[c] # None
    /\ job[c].token = t

Unused(t) == \A a \in Actions : did[t][a] = 0

(* The inductive invariant behind OnlyAsPreviewed, in strict mode: a token *)
(* is in the store, or with one caller, or spent, and as long as it is not *)
(* spent it has changed nothing and says what was previewed.               *)
StoredTokensAreFresh ==
    \A t \in Tokens : tokens[t] # None =>
        /\ tokens[t].action = bound[t]
        /\ Unused(t)
        /\ \A c \in Callers : ~Holds(c, t)

HeldTokensAreFresh ==
    \A c \in Callers, t \in Tokens : Holds(c, t) =>
        /\ bound[t] = IF pc[c] = "acting" THEN job[c].action ELSE held[c].action
        /\ Unused(t)
        /\ \A d \in Callers : Holds(d, t) => c = d

ActsOnAToken ==
    \A c \in Callers :
        /\ pc[c] = "acting" => job[c].token \in Tokens
        /\ pc[c] = "checking" /\ held[c] # None => job[c].token \in Tokens

TokensInv ==
    strict => StoredTokensAreFresh /\ HeldTokensAreFresh /\ ActsOnAToken

Spends == TokensInv /\ OnlyAsPreviewed

(* A token that is held or stored is bound to something.                   *)
LEMMA FreshIsBound ==
    ASSUME Typed, TokensInv, strict, NEW t \in Tokens,
           tokens[t] # None \/ \E c \in Callers : Holds(c, t)
    PROVE  bound[t] \in Actions
<1> USE DEF Typed, TypeOK, AtWork, TokensInv
<1>1. CASE tokens[t] # None
  BY <1>1 DEF StoredTokensAreFresh, TokenStore, TokenRecord
<1>2. ASSUME NEW c \in Callers, Holds(c, t)
      PROVE  bound[t] \in Actions
  BY <1>2 DEF HeldTokensAreFresh, Holds, TokenRecord, Job
<1> QED
  BY <1>1, <1>2

(* A step that takes no token out of the store's hands: some tokens leave  *)
(* the store for good, callers keep or drop the token they hold, and       *)
(* nothing reaches the cluster.                                            *)
LEMMA TokensDrop ==
    ASSUME Typed, Spends,
           UNCHANGED <<strict, bound, did>>,
           \A t \in Tokens : tokens'[t] \in {tokens[t], None},
           \A c \in Callers : pc'[c] \in {"checking", "acting"} =>
               /\ pc[c] \in {"checking", "acting"}
               /\ pc[c] = "acting" => pc'[c] = "acting"
               /\ pc'[c] = "acting" /\ pc[c] = "checking" => held[c] # None /\ held[c].action = job[c].action
               /\ pc'[c] = "checking" => held'[c] = held[c]
               /\ job'[c] = job[c]
    PROVE  Spends'
<1> USE DEF Spends, TokensInv
<1>1. CASE ~strict
  BY <1>1 DEF OnlyAsPreviewed
<1>2. CASE strict
  <2>1. \A c \in Callers, t \in Tokens : Holds(c, t)' => Holds(c, t)
    BY DEF Holds
  <2>2. StoredTokensAreFresh'
    BY <1>2, <2>1 DEF StoredTokensAreFresh, Unused
  <2>3. HeldTokensAreFresh'
    BY <1>2, <2>1 DEF HeldTokensAreFresh, Unused, Holds
  <2>4. ActsOnAToken'
    BY <1>2 DEF ActsOnAToken
  <2>5. OnlyAsPreviewed'
    BY DEF OnlyAsPreviewed
  <2> QED
    BY <2>2, <2>3, <2>4, <2>5
<1> QED
  BY <1>1, <1>2

(* In strict mode the cluster changes only as previewed, and once for each *)
(* preview.  That a token which has not acted is fresh is needed for it: a *)
(* caller about to act must find nothing done on its token.                *)
THEOREM OnlyAsPreviewedHolds == Spec => []OnlyAsPreviewed
<1> USE TokenAssumption
<1>1. Init => Spends
  BY EmptyStoreTyped DEF Init, Spends, TokensInv, OnlyAsPreviewed, StoredTokensAreFresh,
     HeldTokensAreFresh, ActsOnAToken, Holds
<1>2. Typed /\ Typed' /\ Spends /\ [Next]_vars => Spends'
  <2> SUFFICES ASSUME Typed, Typed', Spends, [Next]_vars
               PROVE  Spends'
    OBVIOUS
  <2> USE DEF storeVars, callerVars, history, world
  <2>1. CASE (\E p \in Plans : Propose(p)) \/ GetPlan
    BY <2>1, TokensDrop DEF Propose, GetPlan
  <2>2. ASSUME NEW a \in Actions, NEW t \in Tokens, Preview(a, t)
        PROVE  Spends'
    <3>1. /\ strict /\ bound[t] = None /\ bound' = [bound EXCEPT ![t] = a]
          /\ tokens' = Issued(tokens, t, a, clock)
          /\ UNCHANGED <<strict, pc, job, held, did>>
      BY <2>2 DEF Preview
    <3>2. \A c \in Callers, u \in Tokens : Holds(c, u)' <=> Holds(c, u)
      BY <3>1 DEF Holds
    <3>3. Unused(t) /\ \A c \in Callers : ~Holds(c, t)
      <4>1. \A c \in Callers : ~Holds(c, t)
        BY <3>1, FreshIsBound DEF Spends
      <4>2. Unused(t)
        BY <3>1 DEF Spends, OnlyAsPreviewed, Unused, Typed, TypeOK
      <4> QED
        BY <4>1, <4>2
    <3>4. /\ tokens'[t] # None => tokens'[t].action = a
          /\ \A u \in Tokens \ {t} : tokens'[u] \in {tokens[u], None}
      BY <3>1, IssuedStore DEF Typed, TypeOK
    <3>5. \A u \in Tokens : bound'[u] = IF u = t THEN a ELSE bound[u]
      BY <3>1 DEF Typed, TypeOK
    <3>6. StoredTokensAreFresh'
      BY <3>1, <3>2, <3>3, <3>4, <3>5 DEF Spends, TokensInv, StoredTokensAreFresh, Unused
    <3>7. HeldTokensAreFresh'
      BY <3>1, <3>2, <3>3, <3>5 DEF Spends, TokensInv, HeldTokensAreFresh, Unused
    <3>8. ActsOnAToken'
      BY <3>1 DEF Spends, TokensInv, ActsOnAToken
    <3>9. OnlyAsPreviewed'
      BY <3>1, <3>3, <3>5 DEF Spends, OnlyAsPreviewed, Unused, Typed, TypeOK
    <3> QED
      BY <3>6, <3>7, <3>8, <3>9 DEF Spends, TokensInv
  <2>3. ASSUME NEW c \in Callers, NEW p \in Plans, NEW s \in Steps, NEW t \in Tokens \cup {None},
               Find(c, p, s, t)
        PROVE  Spends'
    BY <2>3, TokensDrop DEF Find, Goto, Typed, TypeOK
  <2>4. ASSUME NEW c \in Callers, NEW a \in Actions, NEW t \in Tokens \cup {None}, Call(c, a, t)
        PROVE  Spends'
    BY <2>4, TokensDrop DEF Call, Goto, Typed, TypeOK
  <2>5. ASSUME NEW c \in Callers, Work(c)
        PROVE  Spends'
    <3> USE DEF Goto, Return, ToolReturns
    <3>0. /\ pc \in [Callers -> Locations] /\ job \in [Callers -> Job \cup {None}]
          /\ held \in [Callers -> TokenRecord \cup {None}]
      BY DEF Typed, TypeOK
    <3>1. CASE Claim(c) \/ TurnAway(c) \/ Invalid(c) \/ Authorise(c) \/ Refuse(c) \/ Record(c) \/ Answer(c)
      <4>1. UNCHANGED <<strict, bound, did, tokens>>
        BY <3>1 DEF Claim, TurnAway, Invalid, Authorise, Refuse, Record, Answer
      <4>2. \A d \in Callers \ {c} : pc'[d] = pc[d] /\ job'[d] = job[d] /\ held'[d] = held[d]
        BY <3>0, <3>1 DEF Claim, TurnAway, Invalid, Authorise, Refuse, Record, Answer
      <4>3. pc'[c] \in {"checking", "acting"} =>
               /\ pc[c] = "checking" /\ pc'[c] = "acting" /\ job'[c] = job[c]
               /\ held[c] # None /\ held[c].action = job[c].action
        BY <3>0, <3>1 DEF Claim, TurnAway, Invalid, Authorise, Refuse, Record, Answer, Authorises
      <4> QED
        BY <4>1, <4>2, <4>3, TokensDrop
    <3>2. CASE Redeem(c)
      <4>1. CASE ~strict
        BY <3>2, <4>1 DEF Redeem, Spends, TokensInv, OnlyAsPreviewed
      <4>2. CASE strict
        <5> DEFINE tok == job[c].token
        <5>0. tok \in Tokens \cup {None}
          BY <3>2 DEF Redeem, Typed, AtWork, Job
        <5>1. /\ pc[c] = "calling" /\ pc' = [pc EXCEPT ![c] = "checking"]
              /\ held' = [held EXCEPT ![c] = Popped(tokens, tok, clock)]
              /\ tokens' = Left(tokens, tok, clock)
              /\ UNCHANGED <<strict, bound, job, did>>
          BY <3>2, <4>2 DEF Redeem
        <5>2. /\ \A u \in Tokens : tokens'[u] \in {tokens[u], None}
              /\ tok \in Tokens => tokens'[tok] = None
              /\ held'[c] # None => tok \in Tokens /\ held'[c] = tokens[tok]
          <6>1. tokens \in TokenStore /\ clock \in Nat
            BY DEF Typed, TypeOK
          <6> HIDE DEF tok
          <6>2. held'[c] = Popped(tokens, tok, clock)
            BY <3>0, <5>1
          <6> QED
            BY <5>0, <5>1, <6>1, <6>2, LeftStore, PoppedRecord
        <5>3. \A d \in Callers \ {c} : pc'[d] = pc[d] /\ held'[d] = held[d]
          BY <3>0, <5>1
        <5> HIDE DEF tok
        <5>4. \A d \in Callers \ {c}, u \in Tokens : Holds(d, u)' <=> Holds(d, u)
          BY <5>1, <5>3 DEF Holds
        <5>5. \A u \in Tokens : Holds(c, u)' => u = tok /\ held'[c] # None /\ tokens[u] # None /\ pc'[c] = "checking"
          BY <3>0, <5>1, <5>2 DEF Holds, tok
        <5>6. StoredTokensAreFresh'
          BY <4>2, <5>1, <5>2, <5>4, <5>5 DEF Spends, TokensInv, StoredTokensAreFresh, Unused
        <5>7. \A u \in Tokens : tokens[u] # None =>
                 /\ tokens[u].action = bound[u] /\ Unused(u)
                 /\ \A d \in Callers : ~Holds(d, u)
          BY <4>2 DEF Spends, TokensInv, StoredTokensAreFresh
        <5>8. HeldTokensAreFresh'
          <6> SUFFICES ASSUME NEW d \in Callers, NEW u \in Tokens, Holds(d, u)'
                       PROVE  /\ bound'[u] = IF pc'[d] = "acting" THEN job'[d].action ELSE held'[d].action
                              /\ Unused(u)'
                              /\ \A e \in Callers : Holds(e, u)' => d = e
            BY DEF HeldTokensAreFresh
          <6>1. CASE d = c
            BY <5>1, <5>2, <5>4, <5>5, <5>7, <6>1 DEF Unused
          <6>2. CASE d # c
            <7>1. Holds(d, u)
              BY <5>4, <6>2
            <7>2. ~Holds(c, u)'
              BY <5>5, <5>7, <7>1
            <7> QED
              BY <4>2, <5>1, <5>3, <5>4, <6>2, <7>1, <7>2 DEF Spends, TokensInv, HeldTokensAreFresh, Unused
          <6> QED
            BY <6>1, <6>2
        <5>9. ActsOnAToken'
          BY <3>0, <4>2, <5>1, <5>2, <5>3 DEF Spends, TokensInv, ActsOnAToken, tok
        <5>10. OnlyAsPreviewed'
          BY <5>1 DEF Spends, OnlyAsPreviewed
        <5> QED
          BY <5>6, <5>8, <5>9, <5>10 DEF Spends, TokensInv
      <4> QED
        BY <4>1, <4>2
    <3>3. CASE Succeed(c) \/ Fail(c)
      <4>1. /\ pc[c] = "acting" /\ pc'[c] \notin {"checking", "acting"}
            /\ UNCHANGED <<strict, bound, tokens>>
        BY <3>0, <3>3 DEF Succeed, Fail
      <4>5. \/ UNCHANGED did
            \/ strict /\ did' = [did EXCEPT ![job[c].token][job[c].action] = @ + 1]
        BY <3>3 DEF Succeed, Fail, Effect
      <4>2. \A d \in Callers \ {c} : pc'[d] = pc[d] /\ job'[d] = job[d] /\ held'[d] = held[d]
        BY <3>0, <3>3 DEF Succeed, Fail
      <4>3. CASE UNCHANGED did
        BY <4>1, <4>2, <4>3, TokensDrop
      <4>4. CASE strict /\ did' = [did EXCEPT ![job[c].token][job[c].action] = @ + 1]
        <5>1. PICK t \in Tokens, a \in Actions : t = job[c].token /\ a = job[c].action
          BY <4>1, <4>4 DEF Spends, TokensInv, ActsOnAToken, Typed, AtWork, Job
        <5>2. Holds(c, t)
          BY <4>1, <5>1 DEF Holds
        <5>3. bound[t] = a /\ Unused(t) /\ tokens[t] = None /\ \A d \in Callers : Holds(d, t) => c = d
          BY <4>1, <4>4, <5>1, <5>2 DEF Spends, TokensInv, HeldTokensAreFresh, StoredTokensAreFresh
        <5>4. \A u \in Tokens \cup {None}, b \in Actions :
                 did'[u][b] = IF u = t /\ b = a THEN did[u][b] + 1 ELSE did[u][b]
          BY <4>4, <5>1 DEF Typed, TypeOK
        <5>5. \A d \in Callers, u \in Tokens : Holds(d, u)' => Holds(d, u) /\ d # c
          BY <4>1, <4>2 DEF Holds
        <5>6. \A u \in Tokens : u # t /\ Unused(u) => Unused(u)'
          BY <5>4 DEF Unused
        <5>7. StoredTokensAreFresh'
          BY <4>1, <4>4, <5>3, <5>5, <5>6 DEF Spends, TokensInv, StoredTokensAreFresh
        <5>8. HeldTokensAreFresh'
          <6> SUFFICES ASSUME NEW d \in Callers, NEW u \in Tokens, Holds(d, u)'
                       PROVE  /\ bound'[u] = IF pc'[d] = "acting" THEN job'[d].action ELSE held'[d].action
                              /\ Unused(u)'
                              /\ \A e \in Callers : Holds(e, u)' => d = e
            BY DEF HeldTokensAreFresh
          <6>1. Holds(d, u) /\ d # c /\ u # t
            BY <5>3, <5>5
          <6> QED
            BY <4>1, <4>2, <4>4, <5>5, <5>6, <6>1 DEF Spends, TokensInv, HeldTokensAreFresh
        <5>9. ActsOnAToken'
          BY <4>1, <4>2, <4>4 DEF Spends, TokensInv, ActsOnAToken
        <5>10. OnlyAsPreviewed'
          BY <4>1, <4>4, <5>1, <5>3, <5>4 DEF Spends, OnlyAsPreviewed, Unused
        <5> QED
          BY <5>7, <5>8, <5>9, <5>10 DEF Spends, TokensInv
      <4> QED
        BY <4>3, <4>4, <4>5
    <3> QED
      BY <2>5, <3>1, <3>2, <3>3 DEF Work
  <2>6. CASE Tick
    BY <2>6, TokensDrop DEF Tick
  <2>7. CASE Restart
    BY <2>7, TokensDrop, EmptyStoreTyped DEF Restart
  <2>8. CASE UNCHANGED vars
    BY <2>8, TokensDrop DEF vars
  <2> QED
    BY <2>1, <2>2, <2>3, <2>4, <2>5, <2>6, <2>7, <2>8 DEF Next
<1>3. Spends => OnlyAsPreviewed
  BY DEF Spends
<1> QED
  BY <1>1, <1>2, <1>3, TypeCorrect, PTL DEF Spec

-----------------------------------------------------------------------------
(* What a plan says of its steps.                                          *)

(* The inductive invariant behind SoleRunner and StepsTellTheTruth: while  *)
(* a caller is past the claim of a step, the step is marked running, and   *)
(* has succeeded exactly if that caller's tool has just said so.           *)
Runs(c) == pc[c] \in {"calling", "checking", "acting", "done", "failed", "raised"} /\ job[c].plan # None

RunnersAreMarked ==
    \A c \in Callers : Runs(c) =>
        /\ plans[job[c].plan] # None => plans[job[c].plan].status[job[c].step] = "running"
        /\ ran[job[c].plan][job[c].step] = IF pc[c] = "done" THEN 1 ELSE 0

DraftedOnce ==
    /\ \A p \in Plans \ drafted :
           plans[p] = None /\ \A s \in Steps : ran[p][s] = 0 /\ <<p, s>> \notin changed
    /\ \A c \in Callers : pc[c] # "idle" /\ job[c].plan # None => job[c].plan \in drafted

(* What StepsTellTheTruth says of one step. *)
StepIsTold(p, s) ==
    /\ ran[p][s] <= 1
    /\ ran[p][s] = 1 => <<p, s>> \in changed \cup refused
    /\ <<p, s>> \in refused => ran[p][s] = 1
    /\ plans[p] # None =>
          /\ plans[p].status[s] = "done" => ran[p][s] = 1
          /\ plans[p].status[s] \in {"pending", "failed"} => ran[p][s] = 0
          /\ plans[p].status[s] = "pending" => <<p, s>> \notin changed

StepsInv == SoleRunner /\ StepsTellTheTruth /\ RunnersAreMarked /\ DraftedOnce

(* A step in which no caller becomes a runner or hears of a success,       *)
(* plans change at most by going, and the cluster at most for a step that  *)
(* is marked running.                                                      *)
LEMMA RunnersStay ==
    ASSUME Typed, Typed', StepsInv,
           \A d \in Callers : Runs(d)' => Runs(d) /\ job'[d] = job[d] /\ (pc'[d] = "done" <=> pc[d] = "done"),
           \A d \in Callers : pc'[d] # "idle" /\ job'[d].plan # None => job'[d].plan \in drafted,
           \A p \in Plans : plans'[p] \in {plans[p], None},
           \A p \in Plans, s \in Steps : <<p, s>> \in changed => <<p, s>> \in changed',
           \A p \in Plans, s \in Steps : <<p, s>> \in changed' =>
               \/ <<p, s>> \in changed
               \/ p \in drafted /\ (plans[p] # None => plans[p].status[s] = "running"),
           UNCHANGED <<drafted, ran, refused>>
    PROVE  StepsInv'
<1> USE DEF StepsInv
<1>1. SoleRunner'
  <2> SUFFICES ASSUME NEW d \in Callers, NEW e \in Callers, d # e, Runs(d)', Runs(e)',
                      job'[d].plan = job'[e].plan, job'[d].step = job'[e].step
               PROVE  FALSE
    BY DEF SoleRunner, Runs, Typed, TypeOK, Locations
  <2> QED
    BY DEF SoleRunner, Runs
<1>2. StepsTellTheTruth'
  <2> SUFFICES ASSUME NEW p \in Plans, NEW s \in Steps
               PROVE  StepIsTold(p, s)'
    BY DEF StepsTellTheTruth, StepIsTold
  <2>1. StepIsTold(p, s)
    BY DEF StepsTellTheTruth, StepIsTold
  <2>2. plans'[p] # None => plans'[p] = plans[p]
    OBVIOUS
  <2> QED
    BY <2>1, <2>2 DEF StepIsTold
<1>3. RunnersAreMarked'
  <2> SUFFICES ASSUME NEW d \in Callers, Runs(d)'
               PROVE  /\ plans'[job'[d].plan] # None => plans'[job'[d].plan].status[job'[d].step] = "running"
                      /\ ran'[job'[d].plan][job'[d].step] = IF pc'[d] = "done" THEN 1 ELSE 0
    BY DEF RunnersAreMarked
  <2>1. job[d].plan \in Plans /\ plans'[job[d].plan] \in {plans[job[d].plan], None}
    BY DEF Runs, Typed, AtWork, Job
  <2> QED
    BY <2>1 DEF RunnersAreMarked
<1>4. DraftedOnce'
  BY DEF DraftedOnce
<1> QED
  BY <1>1, <1>2, <1>3, <1>4

(* A runner's step has no other runner.                                    *)
LEMMA SoleRun ==
    ASSUME Typed, SoleRunner, NEW c \in Callers, NEW d \in Callers, Runs(c), Runs(d),
           job[c].plan = job[d].plan, job[c].step = job[d].step
    PROVE  c = d
  BY DEF SoleRunner, Runs

(* A step of a plan has one runner, and a stored plan says of its steps    *)
(* what happened to them.  A runner must find its step marked running and  *)
(* without a success: SoleRunner and StepsTellTheTruth alone would let a   *)
(* second success be recorded.                                             *)
THEOREM StepsAreSoundHolds == Spec => []StepsAreSound
<1> USE PlanAssumption
<1>1. Init => StepsInv
  <2> SUFFICES ASSUME Init
               PROVE  StepsInv
    OBVIOUS
  <2>1. \A c \in Callers : pc[c] = "idle"
    BY DEF Init
  <2>2. SoleRunner
    BY <2>1 DEF SoleRunner
  <2>3. StepsTellTheTruth /\ DraftedOnce
    BY <2>1 DEF Init, StepsTellTheTruth, DraftedOnce
  <2>4. RunnersAreMarked
    BY <2>1 DEF RunnersAreMarked, Runs
  <2> QED
    BY <2>2, <2>3, <2>4 DEF StepsInv
<1>2. Typed /\ Typed' /\ StepsInv /\ [Next]_vars => StepsInv'
  <2> SUFFICES ASSUME Typed, Typed', StepsInv, [Next]_vars
               PROVE  StepsInv'
    OBVIOUS
  <2> USE DEF storeVars, callerVars, history, world
  <2>0. /\ pc \in [Callers -> Locations] /\ job \in [Callers -> Job \cup {None}]
        /\ plans \in [Plans -> Plan \cup {None}] /\ plans' \in [Plans -> Plan \cup {None}]
        /\ ran \in [Plans -> [Steps -> Nat]]
        /\ \A p \in Plans : LivePlans[p] \in {plans[p], None}
    BY LivePlansTyped DEF Typed, TypeOK
  <2>1. ASSUME NEW p \in Plans, Propose(p)
        PROVE  StepsInv'
    <3>1. /\ p \notin drafted /\ drafted' = drafted \cup {p}
          /\ UNCHANGED <<pc, job, ran, changed, refused>>
      BY <2>1 DEF Propose
    <3>2. \A q \in Plans \ {p} : plans'[q] \in {plans[q], None}
      BY <2>0, <2>1 DEF Propose, LivePlans
    <3>3. \A s \in Steps : plans'[p].status[s] = "pending" /\ ran[p][s] = 0 /\ <<p, s>> \notin changed
      BY <2>1, <3>1 DEF Propose, LivePlans, StepsInv, DraftedOnce
    <3>4. \A d \in Callers : Runs(d)' => Runs(d) /\ job[d].plan \in Plans \ {p}
      BY <3>1 DEF Runs, StepsInv, DraftedOnce, Typed, AtWork, Job
    <3>5. SoleRunner'
      BY <3>1 DEF StepsInv, SoleRunner
    <3>6. StepsTellTheTruth'
      BY <3>1, <3>2, <3>3 DEF StepsInv, StepsTellTheTruth
    <3>7. RunnersAreMarked'
      BY <3>1, <3>2, <3>4 DEF StepsInv, RunnersAreMarked
    <3>8. DraftedOnce'
      BY <3>1, <3>2 DEF StepsInv, DraftedOnce
    <3> QED
      BY <3>5, <3>6, <3>7, <3>8 DEF StepsInv
  <2>2. CASE GetPlan \/ (\E a \in Actions, t \in Tokens : Preview(a, t)) \/ Tick \/ UNCHANGED vars
    <3>1. UNCHANGED <<pc, job, ran, drafted, changed, refused>> /\ \A p \in Plans : plans'[p] \in {plans[p], None}
      BY <2>0, <2>2 DEF GetPlan, Preview, Tick, vars
    <3> QED
      BY <3>1, RunnersStay DEF Runs, StepsInv, DraftedOnce
  <2>3. ASSUME NEW c \in Callers, NEW p \in Plans, NEW s \in Steps, NEW t \in Tokens \cup {None},
               Find(c, p, s, t)
        PROVE  StepsInv'
    <3>1. p \in drafted /\ UNCHANGED <<drafted, ran, changed, refused>> /\ \A q \in Plans : plans'[q] \in {plans[q], None}
      BY <2>0, <2>3 DEF Find, StepsInv, DraftedOnce
    <3>2. pc'[c] = "found" /\ job'[c].plan = p /\ \A d \in Callers \ {c} : pc'[d] = pc[d] /\ job'[d] = job[d]
      BY <2>0, <2>3 DEF Find, Goto
    <3> QED
      BY <3>1, <3>2, RunnersStay DEF Runs, StepsInv, DraftedOnce
  <2>4. ASSUME NEW c \in Callers, NEW a \in Actions, NEW t \in Tokens \cup {None}, Call(c, a, t)
        PROVE  StepsInv'
    <3>1. UNCHANGED <<drafted, ran, plans, changed, refused>>
      BY <2>4 DEF Call
    <3>2. job'[c].plan = None /\ \A d \in Callers \ {c} : pc'[d] = pc[d] /\ job'[d] = job[d]
      BY <2>0, <2>4 DEF Call, Goto
    <3> QED
      BY <3>1, <3>2, RunnersStay DEF Runs, StepsInv, DraftedOnce
  <2>5. ASSUME NEW c \in Callers, Work(c)
        PROVE  StepsInv'
    <3> USE DEF Goto, Return, ToolReturns
    <3> DEFINE p == job[c].plan
               s == job[c].step
    <3>1. /\ \A d \in Callers \ {c} : pc'[d] = pc[d] /\ job'[d] = job[d]
          /\ UNCHANGED drafted
      BY <2>0, <2>5 DEF Work, Claim, TurnAway, Invalid, Redeem, Authorise, Refuse, Succeed, Fail, Record, Answer
    <3>2. /\ pc[c] # "idle" /\ (pc'[c] # "idle" => job'[c] = job[c])
          /\ p # None => p \in Plans /\ s \in Steps /\ p \in drafted
      BY <2>0, <2>5 DEF Work, Claim, TurnAway, Invalid, Redeem, Authorise, Refuse, Succeed, Fail, Record, Answer,
         Typed, AtWork, Job, StepsInv, DraftedOnce
    <3>3. \A d \in Callers : pc'[d] # "idle" /\ job'[d].plan # None => job'[d].plan \in drafted
      BY <3>1, <3>2 DEF StepsInv, DraftedOnce
    <3> HIDE DEF p, s
    <3>4. CASE TurnAway(c) \/ Invalid(c) \/ Redeem(c) \/ Authorise(c) \/ Refuse(c) \/ Fail(c) \/ Answer(c)
      <4>1. UNCHANGED <<ran, refused>> /\ \A q \in Plans : plans'[q] \in {plans[q], None}
        BY <2>0, <3>4 DEF TurnAway, Invalid, Redeem, Authorise, Refuse, Fail, Answer
      <4>3. changed' = changed \/ (changed' = changed \cup StepOf(c) /\ pc[c] = "acting")
        BY <3>4 DEF TurnAway, Invalid, Redeem, Authorise, Refuse, Fail, Answer, Effect
      <4>4. \A q \in Plans, u \in Steps : <<q, u>> \in StepOf(c) /\ pc[c] = "acting" =>
               q \in drafted /\ (plans[q] # None => plans[q].status[u] = "running")
        BY <3>2 DEF StepOf, Runs, StepsInv, RunnersAreMarked, p, s
      <4>2. Runs(c)' => Runs(c) /\ pc[c] # "done" /\ pc'[c] # "done"
        BY <2>0, <3>2, <3>4 DEF TurnAway, Invalid, Redeem, Authorise, Refuse, Fail, Answer, Runs
      <4> QED
        BY <3>1, <3>2, <3>3, <4>1, <4>2, <4>3, <4>4, RunnersStay DEF Runs
    <3>5. CASE Claim(c)
      <4>1. /\ pc[c] = "found" /\ plans[p] # None /\ plans[p].status[s] \in {"pending", "failed"}
            /\ p # None /\ job' = job /\ UNCHANGED <<ran, changed, refused>> /\ pc'[c] = "calling"
        BY <2>0, <3>5 DEF Claim, Claimable, Typed, AtWork, p, s
      <4>2. /\ plans' = [plans EXCEPT ![p] = [plans[p] EXCEPT !.status[s] = "running"]]
            /\ plans[p] \in Plan
        BY <2>0, <3>2, <3>5, <4>1 DEF Claim, Claimable, p, s
      <4>3. \A q \in Plans : plans'[q] = IF q = p THEN [plans[p] EXCEPT !.status[s] = "running"] ELSE plans[q]
        BY <2>0, <4>2
      <4>4. \A u \in Steps : plans'[p].status[u] = IF u = s THEN "running" ELSE plans[p].status[u]
        <5> DEFINE r == [plans[p] EXCEPT !.status[s] = "running"]
        <5>1. "running" \in Statuses /\ p \in Plans /\ s \in Steps
          BY <3>2, <4>1 DEF Statuses
        <5>2. \A u \in Steps : r.status[u] = IF u = s THEN "running" ELSE plans[p].status[u]
          BY <4>2, <5>1, StatusSet
        <5>3. plans'[p] = r
          BY <4>3, <5>1
        <5> HIDE DEF r
        <5> QED
          BY <5>2, <5>3
      <4>5. ran[p][s] = 0
        BY <3>2, <4>1 DEF StepsInv, StepsTellTheTruth
      <4>6. \A d \in Callers : Runs(d) => ~(job[d].plan = p /\ job[d].step = s)
        BY <4>1 DEF StepsInv, RunnersAreMarked
      <4>7. \A d \in Callers : Runs(d)' <=> d = c \/ Runs(d)
        BY <3>1, <4>1 DEF Runs, p
      <4>8. SoleRunner'
        <5> SUFFICES ASSUME NEW d \in Callers, NEW e \in Callers, d # e, Runs(d)', Runs(e)',
                            job'[d].plan = job'[e].plan, job'[d].step = job'[e].step
                     PROVE  FALSE
          BY DEF SoleRunner, Runs, Typed, TypeOK, Locations
        <5> QED
          BY <4>1, <4>6, <4>7, SoleRun DEF p, s, StepsInv
      <4>9. StepsTellTheTruth'
        BY <3>2, <4>1, <4>3, <4>4 DEF StepsInv, StepsTellTheTruth
      <4>10. RunnersAreMarked'
        <5> SUFFICES ASSUME NEW d \in Callers, Runs(d)'
                     PROVE  /\ plans'[job[d].plan] # None => plans'[job[d].plan].status[job[d].step] = "running"
                            /\ ran[job[d].plan][job[d].step] = IF pc'[d] = "done" THEN 1 ELSE 0
          BY <4>1 DEF RunnersAreMarked
        <5>1. CASE d = c
          BY <3>2, <4>1, <4>4, <4>5, <5>1 DEF p, s
        <5>2. CASE d # c
          <6>1. Runs(d) /\ pc'[d] = pc[d] /\ job[d].plan \in Plans /\ job[d].step \in Steps
            BY <3>1, <4>7, <5>2 DEF Runs, Typed, AtWork, Job
          <6>2. /\ plans[job[d].plan] # None => plans[job[d].plan].status[job[d].step] = "running"
                /\ ran[job[d].plan][job[d].step] = IF pc'[d] = "done" THEN 1 ELSE 0
            BY <6>1 DEF StepsInv, RunnersAreMarked
          <6>3. CASE job[d].plan = p
            BY <4>1, <4>4, <6>1, <6>2, <6>3
          <6>4. CASE job[d].plan # p
            BY <4>3, <6>1, <6>2, <6>4
          <6> QED
            BY <6>2, <6>3, <6>4
        <5> QED
          BY <5>1, <5>2
      <4>11. DraftedOnce'
        BY <3>1, <3>2, <3>3, <4>1, <4>3 DEF StepsInv, DraftedOnce
      <4> QED
        BY <4>8, <4>9, <4>10, <4>11 DEF StepsInv
    <3>6. CASE Succeed(c)
      <4>1. CASE p = None
        <5>1. UNCHANGED <<ran, plans, changed, refused>> /\ ~Runs(c)'
          BY <2>0, <3>2, <3>6, <4>1 DEF Succeed, Runs, Effect, StepOf, p
        <5> QED
          BY <3>1, <3>3, <5>1, RunnersStay DEF Runs
      <4>2. CASE p # None
        <5>1. /\ pc[c] = "acting" /\ pc'[c] = "done" /\ job' = job /\ plans' = plans
              /\ ran' = [ran EXCEPT ![p][s] = @ + 1]
          BY <2>0, <3>6, <4>2 DEF Succeed, p, s
        <5>10. \/ changed' = changed \cup {<<p, s>>} /\ refused' = refused
               \/ refused' = refused \cup {<<p, s>>} /\ changed' = changed
          BY <3>6, <4>2 DEF Succeed, Effect, StepOf, p, s
        <5>2. p \in Plans /\ s \in Steps /\ Runs(c)
          BY <3>2, <4>2, <5>1 DEF Runs, p
        <5>3. /\ ran[p][s] = 0
              /\ plans[p] # None => plans[p].status[s] = "running"
          BY <5>1, <5>2 DEF StepsInv, RunnersAreMarked, p, s
        <5>4. \A q \in Plans, u \in Steps : ran'[q][u] = IF q = p /\ u = s THEN 1 ELSE ran[q][u]
          BY <2>0, <5>1, <5>2, <5>3
        <5>5. \A d \in Callers : Runs(d)' <=> Runs(d)
          BY <3>1, <5>1, <5>2 DEF Runs, p
        <5>6. SoleRunner'
          <6> SUFFICES ASSUME NEW d \in Callers, NEW e \in Callers, d # e, Runs(d)', Runs(e)',
                              job'[d].plan = job'[e].plan, job'[d].step = job'[e].step
                       PROVE  FALSE
            BY DEF SoleRunner, Runs, Typed, TypeOK, Locations
          <6> QED
            BY <5>1, <5>5, SoleRun DEF StepsInv
        <5>7. StepsTellTheTruth'
          <6> SUFFICES ASSUME NEW q \in Plans, NEW u \in Steps
                       PROVE  StepIsTold(q, u)'
            BY DEF StepsTellTheTruth, StepIsTold
          <6>1. StepIsTold(q, u)
            BY DEF StepsInv, StepsTellTheTruth, StepIsTold
          <6>2. CASE q = p /\ u = s
            BY <5>1, <5>3, <5>4, <5>10, <6>2 DEF StepIsTold
          <6>3. CASE ~(q = p /\ u = s)
            <7>1. /\ <<q, u>> \in changed' <=> <<q, u>> \in changed
                  /\ <<q, u>> \in refused' <=> <<q, u>> \in refused
                  /\ ran'[q][u] = ran[q][u] /\ plans' = plans
              BY <5>1, <5>4, <5>10, <6>3
            <7> QED
              BY <6>1, <7>1 DEF StepIsTold
          <6> QED
            BY <6>2, <6>3
        <5>8. RunnersAreMarked'
          <6> SUFFICES ASSUME NEW d \in Callers, Runs(d)'
                       PROVE  /\ plans[job[d].plan] # None => plans[job[d].plan].status[job[d].step] = "running"
                              /\ ran'[job[d].plan][job[d].step] = IF pc'[d] = "done" THEN 1 ELSE 0
            BY <5>1 DEF RunnersAreMarked
          <6>1. Runs(d) /\ job[d].plan \in Plans /\ job[d].step \in Steps
            BY <5>5 DEF Runs, Typed, AtWork, Job
          <6>2. CASE d = c
            BY <5>1, <5>2, <5>3, <5>4, <6>2 DEF p, s
          <6>3. CASE d # c
            <7>1. ~(job[d].plan = p /\ job[d].step = s)
              BY <5>2, <6>1, <6>3, SoleRun DEF p, s, StepsInv
            <7> QED
              BY <3>1, <5>4, <6>1, <6>3, <7>1 DEF StepsInv, RunnersAreMarked
          <6> QED
            BY <6>2, <6>3
        <5>9. DraftedOnce'
          BY <3>1, <3>2, <3>3, <4>2, <5>1, <5>4, <5>10 DEF StepsInv, DraftedOnce
        <5> QED
          BY <5>6, <5>7, <5>8, <5>9 DEF StepsInv
      <4> QED
        BY <4>1, <4>2
    <3>7. CASE Record(c)
      <4>1. /\ pc[c] \in {"done", "failed", "raised"} /\ p # None /\ Runs(c) /\ ~Runs(c)'
            /\ UNCHANGED <<ran, changed, refused>>
            /\ plans' = Recorded(c)
        BY <2>0, <3>7 DEF Record, Typed, AtWork, p, Runs
      <4>2. CASE plans[p] = None
        <5>1. plans' = plans
          BY <4>1, <4>2 DEF Recorded, p
        <5> QED
          BY <3>1, <3>3, <4>1, <5>1, RunnersStay DEF Runs
      <4>3. CASE plans[p] # None
        <5> DEFINE st == StatusAfter(pc[c])
        <5>1. /\ plans' = [plans EXCEPT ![p] = [plans[p] EXCEPT !.status[s] = st]]
              /\ plans[p] \in Plan /\ p \in Plans /\ s \in Steps
              /\ st = IF pc[c] = "done" THEN "done" ELSE "failed"
          BY <2>0, <3>2, <4>1, <4>3 DEF Recorded, StatusAfter, p, s
        <5> HIDE DEF st
        <5>2. \A q \in Plans : plans'[q] = IF q = p THEN [plans[p] EXCEPT !.status[s] = st] ELSE plans[q]
          BY <2>0, <5>1
        <5>3. \A u \in Steps : plans'[p].status[u] = IF u = s THEN st ELSE plans[p].status[u]
          <6> DEFINE r == [plans[p] EXCEPT !.status[s] = st]
          <6>1. st \in Statuses
            BY <5>1 DEF Statuses
          <6>2. \A u \in Steps : r.status[u] = IF u = s THEN st ELSE plans[p].status[u]
            BY <5>1, <6>1, StatusSet, ZenonT(40)
          <6>3. plans'[p] = r
            BY <5>1, <5>2
          <6> HIDE DEF r
          <6> QED
            BY <6>2, <6>3
        <5>4. ran[p][s] = IF pc[c] = "done" THEN 1 ELSE 0
          BY <4>1 DEF StepsInv, RunnersAreMarked, p, s
        <5>5. \A d \in Callers : Runs(d)' => Runs(d) /\ d # c /\ pc'[d] = pc[d] /\ job'[d] = job[d]
          BY <3>1, <4>1 DEF Runs
        <5>6. SoleRunner'
          <6> SUFFICES ASSUME NEW d \in Callers, NEW e \in Callers, d # e, Runs(d)', Runs(e)',
                              job'[d].plan = job'[e].plan, job'[d].step = job'[e].step
                       PROVE  FALSE
            BY DEF SoleRunner, Runs, Typed, TypeOK, Locations
          <6> QED
            BY <5>5, SoleRun DEF StepsInv
        <5>7. StepsTellTheTruth'
          <6> SUFFICES ASSUME NEW q \in Plans, NEW u \in Steps
                       PROVE  StepIsTold(q, u)'
            BY DEF StepsTellTheTruth, StepIsTold
          <6>1. StepIsTold(q, u)
            BY DEF StepsInv, StepsTellTheTruth, StepIsTold
          <6>2. CASE q = p /\ u = s
            BY <4>1, <4>3, <5>1, <5>2, <5>3, <5>4, <6>1, <6>2 DEF StepIsTold
          <6>3. CASE q = p /\ u # s
            <7>1. plans'[q] # None => plans'[q].status[u] = plans[q].status[u]
              BY <4>3, <5>1, <5>3, <6>3
            <7> QED
              BY <4>1, <4>3, <6>1, <6>3, <7>1 DEF StepIsTold
          <6>4. CASE q # p
            BY <4>1, <5>2, <6>1, <6>4 DEF StepIsTold
          <6> QED
            BY <6>2, <6>3, <6>4
        <5>8. RunnersAreMarked'
          <6> SUFFICES ASSUME NEW d \in Callers, Runs(d)'
                       PROVE  /\ plans'[job[d].plan] # None => plans'[job[d].plan].status[job[d].step] = "running"
                              /\ ran[job[d].plan][job[d].step] = IF pc'[d] = "done" THEN 1 ELSE 0
            BY <4>1, <5>5 DEF RunnersAreMarked
          <6>1. Runs(d) /\ d # c /\ job[d].plan \in Plans /\ job[d].step \in Steps
            BY <5>5 DEF Runs, Typed, AtWork, Job
          <6>2. ~(job[d].plan = p /\ job[d].step = s)
            BY <4>1, <6>1, SoleRun DEF p, s, StepsInv
          <6> QED
            BY <4>3, <5>2, <5>3, <5>5, <6>1, <6>2 DEF StepsInv, RunnersAreMarked
        <5>9. DraftedOnce'
          BY <3>1, <3>2, <3>3, <4>1, <5>2 DEF StepsInv, DraftedOnce
        <5> QED
          BY <5>6, <5>7, <5>8, <5>9 DEF StepsInv
      <4> QED
        BY <4>2, <4>3
    <3> QED
      BY <2>5, <3>4, <3>5, <3>6, <3>7 DEF Work
  <2>6. CASE Restart
    <3>1. /\ \A d \in Callers : pc'[d] = "idle"
          /\ \A p \in Plans : plans'[p] = None
          /\ UNCHANGED <<drafted, ran, changed, refused>>
      BY <2>6 DEF Restart
    <3> QED
      BY <3>1, RunnersStay DEF Runs
  <2> QED
    BY <2>1, <2>2, <2>3, <2>4, <2>5, <2>6 DEF Next
<1>3. Typed /\ StepsInv => StepsAreSound
  BY DEF Typed, StepsInv, StepsAreSound
<1> QED
  BY <1>1, <1>2, <1>3, TypeCorrect, PTL DEF Spec

-----------------------------------------------------------------------------
(* The runner of an approved upgrade (RunStep and RunPlan, in UpgradePilot).*)

(* A set of numbers that is not empty has a least one.                     *)
LEMMA MinIs ==
    ASSUME NEW I, I \subseteq Nat, I # {}
    PROVE  Min(I) \in I /\ \A i \in I : Min(I) <= i
<1>1. PICK n \in I : \A m \in I : <<m, n>> \notin OpToRel(<, Nat)
  BY WFMin, NatLessThanWellFounded
<1>2. \A m \in I : ~(m < n)
  BY <1>1 DEF OpToRel
<1>3. n \in I /\ \A m \in I : n <= m
  BY <1>2
<1> QED BY <1>3 DEF Min

(* A bounded set of numbers that is not empty has a greatest one.          *)
LEMMA MaxIs ==
    ASSUME NEW n \in Nat, NEW I, I \subseteq 1..n, I # {}
    PROVE  Max(I) \in I /\ \A i \in I : i <= Max(I)
<1> DEFINE J == {j \in Nat : n - j \in I}
           j == Min(J)
<1>1. J # {} /\ J \subseteq Nat
  <2>1. PICK i \in I : TRUE
    OBVIOUS
  <2>2. n - i \in Nat /\ n - (n - i) = i
    BY <2>1
  <2> QED BY <2>1, <2>2
<1>2. j \in J /\ \A k \in J : j <= k
  BY <1>1, MinIs
<1>3. ASSUME NEW i \in I PROVE i <= n - j
  <2>1. n - i \in J
    <3>1. n - i \in Nat /\ n - (n - i) = i
      OBVIOUS
    <3> QED BY <3>1
  <2> HIDE DEF J, j
  <2>2. j <= n - i /\ j \in Nat
    BY <1>2, <2>1 DEF J
  <2> QED BY <2>2
<1>4. n - j \in I
  BY <1>2
<1> HIDE DEF j
<1>5. \E x \in I : \A y \in I : x >= y
  <2>1. n - j \in I /\ \A i \in I : n - j >= i
    <3>1. \A i \in I : i \in Int /\ n - j \in Int
      BY <1>2
    <3> QED BY <1>3, <1>4, <3>1
  <2> QED BY <2>1
<1>6. Max(I) \in I /\ \A y \in I : Max(I) >= y
  BY <1>5 DEF Max
<1> QED BY <1>6

(* One move of S for each of n steps.                                      *)
Moves(n, S) == [1..n -> [S -> S]]

(* What S went through: its value at the start and after each step.        *)
HasHistory(n, S, start, next) ==
    \E r \in [0..n -> S] : r[0] = start /\ \A k \in 1..n : r[k] = next[k][r[k - 1]]

(* A function that is defined from its value before has a value at each    *)
(* step: the first step without a history would be the step after one      *)
(* that has a history, which the move of that step continues.              *)
LEMMA Iterates ==
    ASSUME NEW n \in Nat, NEW S, NEW start \in S, NEW next \in Moves(n, S)
    PROVE  HasHistory(n, S, start, next)
<1> SUFFICES \E r \in [0..n -> S] : r[0] = start /\ \A k \in 1..n : r[k] = next[k][r[k - 1]]
  BY DEF HasHistory
<1> USE DEF Moves
<1> DEFINE Is(m, r) == r \in [0..m -> S] /\ r[0] = start /\ \A k \in 1..m : r[k] = next[k][r[k - 1]]
           bad == {m \in 0..n : ~\E r : Is(m, r)}
<1>1. Is(0, [k \in 0..0 |-> start])
  OBVIOUS
<1>2. ASSUME NEW m \in 1..n, NEW r, Is(m - 1, r) PROVE \E x : Is(m, x)
  <2> DEFINE new == [k \in 0..m |-> IF k = m THEN next[m][r[m - 1]] ELSE r[k]]
  <2>1. m - 1 \in 0..(m - 1) /\ r \in [0..(m - 1) -> S]
    BY <1>2
  <2>2. next[m][r[m - 1]] \in S
    <3>1. r[m - 1] \in S
      BY <2>1
    <3> QED BY <3>1
  <2>3. new \in [0..m -> S]
    <3> HIDE DEF Is
    <3>1. ASSUME NEW k \in 0..m PROVE (IF k = m THEN next[m][r[m - 1]] ELSE r[k]) \in S
      BY <2>1, <2>2
    <3> QED BY <3>1
  <2>4. new[0] = start
    BY <1>2
  <2>5. ASSUME NEW k \in 1..m PROVE new[k] = next[k][new[k - 1]]
    <3>1. new[k - 1] = r[k - 1] /\ k \in 0..m /\ k - 1 \in 0..m
      BY <2>5
    <3>2. CASE k = m
      BY <3>1, <3>2
    <3>3. CASE k # m
      <4>1. k \in 1..(m - 1) /\ new[k] = r[k]
        BY <3>1, <3>3
      <4> QED BY <3>1, <4>1, <1>2
    <3> QED BY <3>2, <3>3
  <2> QED BY <2>3, <2>4, <2>5
<1> HIDE DEF Is
<1>3. SUFFICES ASSUME bad # {} PROVE FALSE
  <2>1. n \notin bad => \E r : Is(n, r)
    BY n \in 0..n
  <2> HIDE DEF bad
  <2>2. \E r : Is(n, r)
    BY <1>3, <2>1
  <2> QED BY <2>2 DEF Is
<1>4. Min(bad) \in bad /\ \A k \in bad : Min(bad) <= k
  <2>1. bad \subseteq Nat
    OBVIOUS
  <2> QED BY <1>3, <2>1, MinIs
<1> DEFINE m == Min(bad)
<1> HIDE DEF m
<1>5. m \in 0..n /\ (~\E r : Is(m, r)) /\ \A k \in bad : m <= k
  BY <1>4 DEF m
<1>6. m # 0
  BY <1>1, <1>5
<1>7. m \in 1..n /\ m - 1 \in 0..n /\ m - 1 \notin bad
  <2> HIDE DEF bad
  <2> QED BY <1>5, <1>6
<1>8. \E r : Is(m - 1, r)
  BY <1>7
<1> QED BY <1>2, <1>5, <1>7, <1>8

(* The steps a run carries out itself.                                     *)
Automatic(s) == ~s.advisory /\ s.kind # "control_plane"

(* The approval that a step's risk asks for.                               *)
May(s, approved) == s.id \in (IF s.risk = "high" THEN approved.individual ELSE approved.plan)

(* The runs of a plan whose steps are of T.                                *)
RunsOf(T) == [status : {"", "blocked", "raised", "halted", "done", "locked"}, done : SUBSET T,
            log : Seq(T \X {"advisory", "verified", "pending", "applied", "failed"})]

(* A run with one field changed.                                           *)
LEMMA Changed ==
    ASSUME NEW run, NEW a, NEW b, NEW c, run = [status |-> a, done |-> b, log |-> c], NEW x
    PROVE  /\ [run EXCEPT !.log = x] = [status |-> a, done |-> b, log |-> x]
           /\ [run EXCEPT !.status = x] = [status |-> x, done |-> b, log |-> c]
           /\ [run EXCEPT !.done = x] = [status |-> a, done |-> x, log |-> c]
<1>1. [run EXCEPT !.log = x] = [status |-> a, done |-> b, log |-> x]
  OBVIOUS
<1>2. [run EXCEPT !.status = x] = [status |-> x, done |-> b, log |-> c]
  OBVIOUS
<1>3. [run EXCEPT !.done = x] = [status |-> a, done |-> x, log |-> c]
  OBVIOUS
<1> QED BY <1>1, <1>2, <1>3

(* The ways one step ends.                                                 *)
LEMMA StepTaken ==
    ASSUME NEW T, NEW run \in RunsOf(T), NEW s, NEW approved, NEW does
    PROVE  LET out == RunStep(run, s, approved, does)
               Is(status, done, log) == out = [status |-> status, done |-> done, log |-> log]
               Log(how) == Append(run.log, <<s, how>>) IN
           \/ run.status # "" /\ out = run
           \/ run.status = "" /\ ~Automatic(s) /\ Is("", run.done, Log("advisory"))
           \/ run.status = "" /\ Automatic(s) /\ s \in run.done /\ Is("", run.done, Log("verified"))
           \/ /\ run.status = "" /\ Automatic(s) /\ s \notin run.done
              /\ \/ Is("blocked", run.done, Log("pending"))
                 \/ May(s, approved) /\ Is("raised", run.done, run.log)
                 \/ May(s, approved) /\ Is("", run.done \cup {s}, Log("applied"))
                 \/ May(s, approved) /\ Is("halted", run.done, Log("failed"))
<1> DEFINE Emit(how, r) == [r EXCEPT !.log = Append(@, <<s, how>>)]
           Stop(status, r) == [r EXCEPT !.status = status]
           Rec(status, done, log) == [status |-> status, done |-> done, log |-> log]
           Log(how) == Append(run.log, <<s, how>>)
<1>1. run = Rec(run.status, run.done, run.log)
  BY DEF RunsOf
<1>2. ASSUME NEW how PROVE Emit(how, run) = Rec(run.status, run.done, Log(how))
  <2> DEFINE lg == Log(how)
  <2> HIDE DEF lg
  <2>1. [run EXCEPT !.log = lg] = Rec(run.status, run.done, lg)
    BY <1>1, Changed
  <2> QED BY <2>1 DEF lg
<1>3. Stop("raised", run) = Rec("raised", run.done, run.log)
  BY <1>1, Changed
<1>4. Stop("blocked", Emit("pending", run)) = Rec("blocked", run.done, Log("pending"))
  <2>1. Emit("pending", run) = Rec(run.status, run.done, Log("pending"))
    BY <1>2
  <2> HIDE DEF Emit, Log
  <2> QED BY <2>1, Changed
<1>5. Stop("halted", Emit("failed", run)) = Rec("halted", run.done, Log("failed"))
  <2>1. Emit("failed", run) = Rec(run.status, run.done, Log("failed"))
    BY <1>2
  <2> HIDE DEF Emit, Log
  <2> QED BY <2>1, Changed
<1>6. Emit("applied", [run EXCEPT !.done = @ \cup {s}]) = Rec(run.status, run.done \cup {s}, Log("applied"))
  <2> DEFINE more == run.done \cup {s}
             got == [run EXCEPT !.done = more]
             lg == Append(got.log, <<s, "applied">>)
  <2> HIDE DEF more
  <2>1. got = Rec(run.status, more, run.log)
    BY <1>1, Changed
  <2>2. got.log = run.log
    BY <2>1
  <2> HIDE DEF got, lg
  <2>3. [got EXCEPT !.log = lg] = Rec(run.status, more, lg)
    BY <2>1, Changed
  <2> QED BY <2>2, <2>3 DEF got, more, lg
<1>7. RunStep(run, s, approved, does) =
          CASE run.status # "" -> run
            [] run.status = "" /\ ~Automatic(s) -> Emit("advisory", run)
            [] run.status = "" /\ Automatic(s) /\ s \in run.done -> Emit("verified", run)
            [] OTHER -> CASE ~May(s, approved) -> Stop("blocked", Emit("pending", run))
                          [] May(s, approved) /\ does[s] = "raises" -> Stop("raised", run)
                          [] May(s, approved) /\ does[s] = "works" -> Emit("applied", [run EXCEPT !.done = @ \cup {s}])
                          [] OTHER -> Stop("halted", Emit("failed", run))
  <2> HIDE DEF Emit, Stop
  <2> QED BY DEF RunStep, Automatic, May, Emit, Stop
<1>8. /\ Emit("advisory", run) = Rec(run.status, run.done, Log("advisory"))
      /\ Emit("verified", run) = Rec(run.status, run.done, Log("verified"))
  BY <1>2
<1> HIDE DEF Emit, Stop, Rec, Log
<1>9. LET out == RunStep(run, s, approved, does) IN
      \/ run.status # "" /\ out = run
      \/ run.status = "" /\ ~Automatic(s) /\ out = Rec("", run.done, Log("advisory"))
      \/ run.status = "" /\ Automatic(s) /\ s \in run.done /\ out = Rec("", run.done, Log("verified"))
      \/ /\ run.status = "" /\ Automatic(s) /\ s \notin run.done
         /\ \/ out = Rec("blocked", run.done, Log("pending"))
            \/ May(s, approved) /\ out = Rec("raised", run.done, run.log)
            \/ May(s, approved) /\ out = Rec("", run.done \cup {s}, Log("applied"))
            \/ May(s, approved) /\ out = Rec("halted", run.done, Log("failed"))
  BY <1>3, <1>4, <1>5, <1>6, <1>7, <1>8
<1> QED
  BY <1>9 DEF Rec, Log

(* A step of T leaves a run of T.                                          *)
LEMMA StepTyped ==
    ASSUME NEW T, NEW run \in RunsOf(T), NEW s \in T, NEW approved, NEW does
    PROVE  RunStep(run, s, approved, does) \in RunsOf(T)
<1> DEFINE H == {"advisory", "verified", "pending", "applied", "failed"}
           E == T \X H
           out == RunStep(run, s, approved, does)
           log(how) == Append(run.log, <<s, how>>)
<1>1. /\ run.log \in Seq(E) /\ run.done \in SUBSET T
      /\ run.status \in {"", "blocked", "raised", "halted", "done", "locked"}
  BY DEF RunsOf
<1>2. \A status, done, lg : /\ status \in {"", "blocked", "raised", "halted", "done", "locked"}
                            /\ done \in SUBSET T /\ lg \in Seq(E)
                            => [status |-> status, done |-> done, log |-> lg] \in RunsOf(T)
  BY DEF RunsOf
<1>3. ASSUME NEW how \in H PROVE log(how) \in Seq(E)
  <2>1. <<s, how>> \in E
    OBVIOUS
  <2> HIDE DEF E
  <2> QED BY <1>1, <2>1, AppendProperties
<1>4. \/ out = run
      \/ out = [status |-> "", done |-> run.done, log |-> log("advisory")]
      \/ out = [status |-> "", done |-> run.done, log |-> log("verified")]
      \/ out = [status |-> "blocked", done |-> run.done, log |-> log("pending")]
      \/ out = [status |-> "raised", done |-> run.done, log |-> run.log]
      \/ out = [status |-> "", done |-> run.done \cup {s}, log |-> log("applied")]
      \/ out = [status |-> "halted", done |-> run.done, log |-> log("failed")]
  <2> HIDE DEF log
  <2>1. \A how : log(how) = Append(run.log, <<s, how>>)
    BY DEF log
  <2> HIDE DEF out
  <2>2. out = RunStep(run, s, approved, does)
    BY DEF out
  <2> QED BY <2>1, <2>2, StepTaken, ZenonT(60)
<1>5. \A how \in H : log(how) \in Seq(E)
  BY <1>3
<1> HIDE DEF E
<1>6. \A how \in {"advisory", "verified", "pending", "applied", "failed"} : log(how) \in Seq(E)
  BY <1>5
<1> HIDE DEF H, log
<1>7. /\ [status |-> "", done |-> run.done, log |-> log("advisory")] \in RunsOf(T)
      /\ [status |-> "", done |-> run.done, log |-> log("verified")] \in RunsOf(T)
      /\ [status |-> "blocked", done |-> run.done, log |-> log("pending")] \in RunsOf(T)
      /\ [status |-> "raised", done |-> run.done, log |-> run.log] \in RunsOf(T)
      /\ [status |-> "", done |-> run.done \cup {s}, log |-> log("applied")] \in RunsOf(T)
      /\ [status |-> "halted", done |-> run.done, log |-> log("failed")] \in RunsOf(T)
  BY <1>1, <1>2, <1>6
<1> HIDE DEF out
<1>8. out \in RunsOf(T)
  BY <1>4, <1>7
<1> QED BY <1>8 DEF out

(* The run after each of its steps.                                        *)
LEMMA ProgressIs ==
    ASSUME NEW T, NEW steps \in Seq(T), NEW approved, NEW does, NEW done \in SUBSET T
    PROVE  LET run == Progress(steps, approved, does, done) IN
           /\ run \in [0..Len(steps) -> RunsOf(T)] /\ run[0] = RunStart(done)
           /\ \A k \in 1..Len(steps) : run[k] = RunStep(run[k - 1], steps[k], approved, does)
<1> DEFINE n == Len(steps)
           next == [k \in 1..n |-> [r \in RunsOf(T) |-> RunStep(r, steps[k], approved, does)]]
           By(r) == r = [k \in 0..n |-> IF k = 0 THEN RunStart(done) ELSE RunStep(r[k - 1], steps[k], approved, does)]
<1>1. n \in Nat /\ \A k \in 1..n : steps[k] \in T
  BY LenProperties, ElementOfSeq
<1>2. RunStart(done) \in RunsOf(T)
  <2>1. <<>> \in Seq(T \X {"advisory", "verified", "pending", "applied", "failed"})
    BY EmptySeq
  <2> QED BY <2>1 DEF RunStart, RunsOf
<1>3. next \in [1..n -> [RunsOf(T) -> RunsOf(T)]]
  <2>1. ASSUME NEW k \in 1..n, NEW r \in RunsOf(T) PROVE RunStep(r, steps[k], approved, does) \in RunsOf(T)
    BY <1>1, StepTyped
  <2> QED BY <2>1
<1> HIDE DEF n
<1>4. PICK r \in [0..n -> RunsOf(T)] : r[0] = RunStart(done) /\ \A k \in 1..n : r[k] = next[k][r[k - 1]]
  <2>1. next \in Moves(n, RunsOf(T))
    BY <1>3 DEF Moves
  <2> HIDE DEF next
  <2>2. HasHistory(n, RunsOf(T), RunStart(done), next)
    BY <1>1, <1>2, <2>1, Iterates
  <2> QED BY <2>2 DEF HasHistory
<1>5. ASSUME NEW k \in 1..n PROVE r[k] = RunStep(r[k - 1], steps[k], approved, does)
  <2>1. k - 1 \in 0..n
    BY <1>1
  <2>2. r[k - 1] \in RunsOf(T)
    BY <2>1
  <2> QED BY <1>4, <2>2
<1>6. By(r)
  BY <1>1, <1>4, <1>5
<1>7. Progress(steps, approved, does, done) = CHOOSE x : By(x)
  BY DEF Progress, n
<1> DEFINE run == Progress(steps, approved, does, done)
<1>8. By(run)
  BY <1>6, <1>7
<1> HIDE DEF run
<1>9. run[0] = RunStart(done) /\ \A k \in 1..n : run[k] = RunStep(run[k - 1], steps[k], approved, does)
  BY <1>1, <1>8
<1> DEFINE bad == {k \in 0..n : run[k] \notin RunsOf(T)}
<1>10. bad = {}
  <2>1. SUFFICES ASSUME bad # {} PROVE FALSE
    OBVIOUS
  <2> DEFINE m == Min(bad)
  <2>2. m \in bad /\ \A k \in bad : m <= k
    <3>1. bad \subseteq Nat
      BY <1>1
    <3> QED BY <2>1, <3>1, MinIs
  <2> HIDE DEF m
  <2>3. m # 0
    BY <1>2, <1>9, <2>2
  <2>4. m \in 1..n /\ m - 1 \in 0..n /\ m - 1 \notin bad
    BY <1>1, <2>2, <2>3
  <2>5. run[m] \in RunsOf(T)
    BY <1>1, <1>9, <2>4, StepTyped
  <2> QED BY <2>2, <2>5
<1>11. run \in [0..n -> RunsOf(T)]
  BY <1>8, <1>10
<1> QED BY <1>9, <1>11 DEF run, n

(* The entries of a log that got one more.                                 *)
LEMMA Appended ==
    ASSUME NEW E, NEW log \in Seq(E), NEW x
    PROVE  ToSet(Append(log, x)) = ToSet(log) \cup {x}
<1>1. /\ DOMAIN Append(log, x) = 1..(Len(log) + 1)
      /\ Append(log, x)[Len(log) + 1] = x
      /\ \A i \in 1..Len(log) : Append(log, x)[i] = log[i]
      /\ DOMAIN log = 1..Len(log) /\ Len(log) \in Nat
  <2> DEFINE F == E \cup {x}
  <2>1. log \in Seq(F) /\ x \in F
    OBVIOUS
  <2> HIDE DEF F
  <2> QED BY <2>1, AppendProperties, LenProperties
<1> QED BY <1>1 DEF ToSet

(* What an entry that something was tried says of the first k steps: the   *)
(* step was approved, was not done before the run, and all before it are.  *)
EntryTells(e, steps, approved, done, k, r) ==
    e[2] \in {"applied", "failed"} =>
        \E j \in 1..k : /\ e[1] = steps[j] /\ Automatic(steps[j]) /\ May(steps[j], approved) /\ steps[j] \notin done
                        /\ \A i \in 1..(j - 1) : Automatic(steps[i]) => steps[i] \in r.done

(* What holds of a run after its first k steps: this is the inductive      *)
(* invariant of the runner's loop.                                         *)
Far(steps, approved, done, k, r) ==
    /\ done \subseteq r.done
    /\ r.status \in {"", "blocked", "halted", "raised"}
    /\ r.status = "" => \A j \in 1..k : Automatic(steps[j]) => steps[j] \in r.done
    /\ r.status # "" => \E j \in 1..k : Automatic(steps[j]) /\ steps[j] \notin r.done
    /\ \A e \in ToSet(r.log) : EntryTells(e, steps, approved, done, k, r)

(* The loop keeps it (run_plan, upgrade_runner.py 75-102).                 *)
LEMMA FarStep ==
    ASSUME NEW T, NEW steps \in Seq(T), NEW approved, NEW does, NEW done, NEW k \in 1..Len(steps),
           NEW r \in RunsOf(T), Far(steps, approved, done, k - 1, r)
    PROVE  Far(steps, approved, done, k, RunStep(r, steps[k], approved, does))
<1> DEFINE s == steps[k]
           out == RunStep(r, s, approved, does)
           Log(how) == Append(r.log, <<s, how>>)
           E == T \X {"advisory", "verified", "pending", "applied", "failed"}
<1>1. r.log \in Seq(E) /\ k \in Nat /\ k # 0 /\ 1..(k - 1) \subseteq 1..k
  <2>1. r.log \in Seq(E)
    BY DEF RunsOf
  <2>2. Len(steps) \in Nat
    BY LenProperties
  <2>3. k \in Nat /\ k # 0
    BY <2>2
  <2> QED BY <2>1, <2>3
<1>2. \A j \in 1..k : j \in 1..(k - 1) \/ j = k
  BY <1>1
<1>3. \A how : ToSet(Log(how)) = ToSet(r.log) \cup {<<s, how>>}
  BY <1>1, Appended
<1>4. ASSUME NEW e \in ToSet(r.log), NEW q, r.done \subseteq q.done
      PROVE  EntryTells(e, steps, approved, done, k, q)
  <2>1. EntryTells(e, steps, approved, done, k - 1, r)
    BY DEF Far
  <2> QED BY <1>1, <2>1, <1>4 DEF EntryTells
<1> HIDE DEF E
<1>5. CASE r.status # ""
  <2>1. out = r
    BY <1>5, StepTaken
  <2>2. \E j \in 1..k : Automatic(steps[j]) /\ steps[j] \notin r.done
    <3>1. \E j \in 1..(k - 1) : Automatic(steps[j]) /\ steps[j] \notin r.done
      BY <1>5 DEF Far
    <3> HIDE DEF s
    <3> QED BY <1>1, <3>1
  <2> HIDE DEF out
  <2> QED BY <1>4, <1>5, <2>1, <2>2 DEF Far, out
<1>6. ASSUME NEW how \in {"advisory", "verified", "pending"}, NEW st, NEW q, q = [status |-> st, done |-> r.done, log |-> Log(how)],
             NEW e \in ToSet(q.log)
      PROVE  EntryTells(e, steps, approved, done, k, q)
  <2>1. q.log = Log(how) /\ q.done = r.done
    BY <1>6
  <2> HIDE DEF Log
  <2>2. e \in ToSet(r.log) \/ e = <<s, how>>
    BY <1>3, <2>1
  <2>3. CASE e \in ToSet(r.log)
    BY <1>4, <2>1, <2>3
  <2>4. CASE e = <<s, how>>
    BY <2>4 DEF EntryTells
  <2> QED BY <2>2, <2>3, <2>4
<1>7. ASSUME NEW how \in {"applied", "failed"}, NEW st, NEW dn, NEW q, q = [status |-> st, done |-> dn, log |-> Log(how)],
             r.done \subseteq dn, r.status = "", Automatic(s), May(s, approved), s \notin r.done,
             NEW e \in ToSet(q.log)
      PROVE  EntryTells(e, steps, approved, done, k, q)
  <2>1. q.log = Log(how) /\ q.done = dn
    BY <1>7
  <2> HIDE DEF Log
  <2>2. e \in ToSet(r.log) \/ e = <<s, how>>
    BY <1>3, <2>1
  <2>3. CASE e \in ToSet(r.log)
    BY <1>4, <1>7, <2>1, <2>3
  <2>4. CASE e = <<s, how>>
    <3>1. \A i \in 1..(k - 1) : Automatic(steps[i]) => steps[i] \in q.done
      BY <1>7, <2>1 DEF Far
    <3>2. s \notin done
      BY <1>7 DEF Far
    <3>3. e[1] = steps[k] /\ k \in 1..k
      BY <1>1, <2>4
    <3> QED BY <1>7, <3>1, <3>2, <3>3 DEF EntryTells
  <2> QED BY <2>2, <2>3, <2>4
<1>8. CASE r.status = "" /\ ~Automatic(s) /\ out = [status |-> "", done |-> r.done, log |-> Log("advisory")]
  <2>1. \A e \in ToSet(out.log) : EntryTells(e, steps, approved, done, k, out)
    <3> HIDE DEF out, Log
    <3> QED BY <1>6, <1>8
  <2>2. out.status = "" /\ out.done = r.done
    <3> HIDE DEF out, Log, s
    <3> QED BY <1>8
  <2> HIDE DEF out
  <2> QED BY <1>2, <1>8, <2>1, <2>2 DEF Far, out
<1>9. CASE r.status = "" /\ Automatic(s) /\ s \in r.done /\ out = [status |-> "", done |-> r.done, log |-> Log("verified")]
  <2>1. \A e \in ToSet(out.log) : EntryTells(e, steps, approved, done, k, out)
    <3> HIDE DEF out, Log
    <3> QED BY <1>6, <1>9
  <2>2. out.status = "" /\ out.done = r.done
    <3> HIDE DEF out, Log, s
    <3> QED BY <1>9
  <2> HIDE DEF out
  <2> QED BY <1>2, <1>9, <2>1, <2>2 DEF Far, out
<1>10. CASE r.status = "" /\ Automatic(s) /\ s \notin r.done /\ out = [status |-> "blocked", done |-> r.done, log |-> Log("pending")]
  <2>1. \A e \in ToSet(out.log) : EntryTells(e, steps, approved, done, k, out)
    <3> HIDE DEF out, Log
    <3> QED BY <1>6, <1>10
  <2>2. out.status = "blocked" /\ out.done = r.done
    <3> HIDE DEF out, Log, s
    <3> QED BY <1>10
  <2>3. k \in 1..k
    BY <1>1
  <2> HIDE DEF out
  <2> QED BY <1>10, <2>1, <2>2, <2>3 DEF Far, out
<1>11. CASE r.status = "" /\ Automatic(s) /\ s \notin r.done /\ out = [status |-> "raised", done |-> r.done, log |-> r.log]
  <2>1. out.status = "raised" /\ out.done = r.done /\ out.log = r.log
    <3> HIDE DEF out, Log, s
    <3> QED BY <1>11
  <2>2. k \in 1..k
    BY <1>1
  <2> HIDE DEF out
  <2>3. \A e \in ToSet(out.log) : EntryTells(e, steps, approved, done, k, out)
    BY <1>4, <2>1
  <2> QED BY <1>11, <2>1, <2>2, <2>3 DEF Far, out
<1>12. CASE /\ r.status = "" /\ Automatic(s) /\ s \notin r.done /\ May(s, approved)
            /\ out = [status |-> "", done |-> r.done \cup {s}, log |-> Log("applied")]
  <2>1. \A e \in ToSet(out.log) : EntryTells(e, steps, approved, done, k, out)
    <3>1. r.done \subseteq r.done \cup {s}
      OBVIOUS
    <3> HIDE DEF out, Log
    <3> QED BY <1>7, <1>12, <3>1
  <2>2. out.status = "" /\ out.done = r.done \cup {s}
    <3> HIDE DEF out, Log, s
    <3> QED BY <1>12
  <2> HIDE DEF out
  <2> QED BY <1>2, <1>12, <2>1, <2>2 DEF Far, out
<1>13. CASE /\ r.status = "" /\ Automatic(s) /\ s \notin r.done /\ May(s, approved)
            /\ out = [status |-> "halted", done |-> r.done, log |-> Log("failed")]
  <2>1. \A e \in ToSet(out.log) : EntryTells(e, steps, approved, done, k, out)
    <3> HIDE DEF out, Log
    <3> QED BY <1>7, <1>13
  <2>2. out.status = "halted" /\ out.done = r.done
    <3> HIDE DEF out, Log, s
    <3> QED BY <1>13
  <2>3. k \in 1..k
    BY <1>1
  <2> HIDE DEF out
  <2> QED BY <1>13, <2>1, <2>2, <2>3 DEF Far, out
<1>14. \/ r.status # ""
       \/ r.status = "" /\ ~Automatic(s) /\ out = [status |-> "", done |-> r.done, log |-> Log("advisory")]
       \/ r.status = "" /\ Automatic(s) /\ s \in r.done /\ out = [status |-> "", done |-> r.done, log |-> Log("verified")]
       \/ r.status = "" /\ Automatic(s) /\ s \notin r.done /\ out = [status |-> "blocked", done |-> r.done, log |-> Log("pending")]
       \/ r.status = "" /\ Automatic(s) /\ s \notin r.done /\ out = [status |-> "raised", done |-> r.done, log |-> r.log]
       \/ /\ r.status = "" /\ Automatic(s) /\ s \notin r.done /\ May(s, approved)
          /\ out = [status |-> "", done |-> r.done \cup {s}, log |-> Log("applied")]
       \/ /\ r.status = "" /\ Automatic(s) /\ s \notin r.done /\ May(s, approved)
          /\ out = [status |-> "halted", done |-> r.done, log |-> Log("failed")]
  <2> HIDE DEF Log, s
  <2>1. \A how : Log(how) = Append(r.log, <<s, how>>)
    BY DEF Log
  <2> HIDE DEF out
  <2>2. out = RunStep(r, s, approved, does)
    BY DEF out
  <2> QED BY <2>1, <2>2, StepTaken
<1> HIDE DEF out, Log, s
<1> QED BY <1>5, <1>8, <1>9, <1>10, <1>11, <1>12, <1>13, <1>14

(* So it holds at the end of the loop.                                     *)
LEMMA RunFar ==
    ASSUME NEW T, NEW steps \in Seq(T), NEW approved, NEW does, NEW done \in SUBSET T
    PROVE  LET end == Progress(steps, approved, does, done)[Len(steps)]
           IN  end \in RunsOf(T) /\ Far(steps, approved, done, Len(steps), end)
<1> DEFINE n == Len(steps)
           run == Progress(steps, approved, does, done)
           bad == {k \in 0..n : ~Far(steps, approved, done, k, run[k])}
<1>1. n \in Nat
  BY LenProperties
<1>2. /\ run \in [0..n -> RunsOf(T)] /\ run[0] = RunStart(done)
      /\ \A k \in 1..n : run[k] = RunStep(run[k - 1], steps[k], approved, does)
  BY ProgressIs
<1> HIDE DEF run
<1>3. Far(steps, approved, done, 0, run[0])
  <2> DEFINE r == RunStart(done)
  <2>1. r.status = "" /\ r.done = done /\ r.log = <<>>
    BY DEF RunStart
  <2>2. ToSet(<<>>) = {}
    BY DEF ToSet
  <2> HIDE DEF r
  <2>3. Far(steps, approved, done, 0, r)
    <3>1. \A j \in 1..0 : FALSE
      OBVIOUS
    <3>2. \A e : e \notin ToSet(r.log)
      BY <2>1, <2>2
    <3> HIDE DEF Automatic
    <3> QED BY <2>1, <3>1, <3>2 DEF Far
  <2> QED BY <1>2, <2>3 DEF r
<1>4. bad = {}
  <2>1. SUFFICES ASSUME bad # {} PROVE FALSE
    OBVIOUS
  <2> DEFINE m == Min(bad)
  <2>2. m \in bad /\ \A k \in bad : m <= k
    <3>1. bad \subseteq Nat
      BY <1>1
    <3> QED BY <2>1, <3>1, MinIs
  <2> HIDE DEF m
  <2>3. m # 0
    BY <1>3, <2>2
  <2>4. m \in 1..n /\ m - 1 \in 0..n /\ m - 1 \notin bad
    BY <1>1, <2>2, <2>3
  <2>5. run[m - 1] \in RunsOf(T) /\ Far(steps, approved, done, m - 1, run[m - 1])
    BY <1>2, <2>4
  <2> HIDE DEF bad
  <2>6. Far(steps, approved, done, m, run[m])
    <3>1. run[m] = RunStep(run[m - 1], steps[m], approved, does) /\ m \in 1..Len(steps)
      BY <1>2, <2>4
    <3> HIDE DEF run
    <3>2. Far(steps, approved, done, m, RunStep(run[m - 1], steps[m], approved, does))
      BY <2>5, <3>1, FarStep, ZenonT(60)
    <3> QED BY <3>1, <3>2
  <2> QED BY <2>2, <2>6 DEF bad
<1>5. n \in 0..n
  BY <1>1
<1>6. run[n] \in RunsOf(T) /\ Far(steps, approved, done, n, run[n])
  BY <1>2, <1>4, <1>5
<1> QED BY <1>6 DEF run

(* What RunPlan's record says, whether the cluster was locked or not.      *)
LEMMA RunIs ==
    ASSUME NEW T, NEW steps \in Seq(T), NEW approved, NEW does, NEW done \in SUBSET T, NEW lockOk
    PROVE  LET run == RunPlan(steps, approved, does, done, lockOk) IN
           /\ run.done \in SUBSET T /\ done \subseteq run.done
           /\ run.status = "done" => \A j \in DOMAIN steps : Automatic(steps[j]) => steps[j] \in run.done
           /\ run.status \in {"blocked", "halted", "raised"} => \E j \in DOMAIN steps : Automatic(steps[j]) /\ steps[j] \notin run.done
           /\ \A e \in ToSet(run.log) : EntryTells(e, steps, approved, done, Len(steps), run)
<1> DEFINE end == Progress(steps, approved, does, done)[Len(steps)]
           run == RunPlan(steps, approved, does, done, lockOk)
           start == [RunStart(done) EXCEPT !.status = "locked"]
           whole == [end EXCEPT !.status = "done"]
<1>1. end \in RunsOf(T) /\ Far(steps, approved, done, Len(steps), end)
  BY RunFar
<1>2. run = IF ~lockOk THEN start ELSE IF end.status = "" THEN whole ELSE end
  BY DEF RunPlan
<1>3. DOMAIN steps = 1..Len(steps)
  BY LenProperties
<1> HIDE DEF end, run
<1>4. start.status = "locked" /\ start.done = done /\ start.log = <<>>
  BY DEF RunStart
<1>5. whole.status = "done" /\ whole.done = end.done /\ whole.log = end.log
  BY <1>1 DEF RunsOf
<1> HIDE DEF start, whole
<1>6. CASE run = start
  BY <1>4, <1>6 DEF run, ToSet
<1>7. CASE run = whole /\ end.status = ""
  <2>1. end.done \in SUBSET T
    BY <1>1 DEF RunsOf
  <2>2. \A e \in ToSet(run.log) : EntryTells(e, steps, approved, done, Len(steps), run)
    BY <1>1, <1>5, <1>7 DEF Far, EntryTells
  <2> QED BY <1>1, <1>3, <1>5, <1>7, <2>1, <2>2 DEF run, Far
<1>8. CASE run = end /\ end.status # ""
  <2>1. end.done \in SUBSET T
    BY <1>1 DEF RunsOf
  <2> QED BY <1>1, <1>3, <1>8, <2>1 DEF run, Far
<1> QED BY <1>2, <1>6, <1>7, <1>8

(* A plan that is run, and run again with more approved, is run as         *)
(* approved (upgrade_runner.py 39-104).                                    *)
LEMMA RunHolds ==
    ASSUME NEW T, NEW steps \in Seq(T), IsInjective(steps), NEW approved, NEW more, NEW does, NEW done \in SUBSET T, NEW lockOk,
           approved.plan \subseteq more.plan, approved.individual \subseteq more.individual
    PROVE  LET first == RunPlan(steps, approved, does, done, TRUE)
               second == RunPlan(steps, more, does, first.done, lockOk)
           IN  RunsAsApproved(steps, more, does, first, second)
<1> DEFINE first == RunPlan(steps, approved, does, done, TRUE)
           second == RunPlan(steps, more, does, first.done, lockOk)
           Tried(run) == {e[1] : e \in {x \in ToSet(run.log) : x[2] \in {"applied", "failed"}}}
           Todo  == {s \in ToSet(steps) : ~s.advisory /\ s.kind # "control_plane"}
           Settled(run) ==
                /\ \A s \in Tried(run) :
                      /\ s \in Todo
                      /\ s.id \in (IF s.risk = "high" THEN more.individual ELSE more.plan)
                      /\ \A i, j \in DOMAIN steps : i < j /\ steps[j] = s /\ steps[i] \in Todo => steps[i] \in run.done
                /\ run.status = "done" => Todo \subseteq run.done
                /\ run.status \in {"blocked", "halted", "raised"} => ~(Todo \subseteq run.done)
<1>1. DOMAIN steps = 1..Len(steps) /\ Len(steps) \in Nat
  BY LenProperties
<1>2. \A j \in DOMAIN steps : Automatic(steps[j]) <=> steps[j] \in Todo
  BY DEF Automatic, ToSet
<1>3. \A s \in Todo : \E j \in DOMAIN steps : s = steps[j]
  BY DEF ToSet
<1>4. \A i, j \in DOMAIN steps : steps[i] = steps[j] => i = j
  BY DEF IsInjective
<1> HIDE DEF Todo
<1>5. ASSUME NEW given, NEW before, NEW run, given.plan \subseteq more.plan, given.individual \subseteq more.individual,
             run.status = "done" => \A j \in DOMAIN steps : Automatic(steps[j]) => steps[j] \in run.done,
             run.status \in {"blocked", "halted", "raised"} => \E j \in DOMAIN steps : Automatic(steps[j]) /\ steps[j] \notin run.done,
             \A e \in ToSet(run.log) : EntryTells(e, steps, given, before, Len(steps), run)
      PROVE  Settled(run) /\ Tried(run) \cap before = {}
  <2>1. ASSUME NEW s \in Tried(run)
        PROVE  /\ s \in Todo /\ s \notin before
               /\ s.id \in (IF s.risk = "high" THEN more.individual ELSE more.plan)
               /\ \A i, j \in DOMAIN steps : i < j /\ steps[j] = s /\ steps[i] \in Todo => steps[i] \in run.done
    <3>1. PICK e \in ToSet(run.log) : e[2] \in {"applied", "failed"} /\ e[1] = s
      BY <2>1
    <3>2. PICK j \in 1..Len(steps) : /\ s = steps[j] /\ Automatic(steps[j]) /\ May(steps[j], given) /\ steps[j] \notin before
                                    /\ \A i \in 1..(j - 1) : Automatic(steps[i]) => steps[i] \in run.done
      BY <1>5, <3>1 DEF EntryTells
    <3>3. s \in Todo /\ s \notin before
      BY <1>1, <1>2, <3>2
    <3>4. s.id \in (IF s.risk = "high" THEN more.individual ELSE more.plan)
      BY <1>5, <3>2 DEF May
    <3>5. ASSUME NEW i \in DOMAIN steps, NEW k \in DOMAIN steps, i < k, steps[k] = s, steps[i] \in Todo
          PROVE  steps[i] \in run.done
      <4>1. k = j
        BY <1>1, <1>4, <3>2, <3>5
      <4>2. i \in 1..(j - 1)
        BY <1>1, <3>5, <4>1
      <4> QED BY <1>2, <3>2, <3>5, <4>2
    <3> QED BY <3>3, <3>4, <3>5
  <2>2. run.status = "done" => Todo \subseteq run.done
    BY <1>2, <1>3, <1>5
  <2>3. run.status \in {"blocked", "halted", "raised"} => ~(Todo \subseteq run.done)
    BY <1>2, <1>5
  <2> HIDE DEF Tried
  <2> QED BY <2>1, <2>2, <2>3
<1>6. Settled(first)
  <2>1. /\ first.status = "done" => \A j \in DOMAIN steps : Automatic(steps[j]) => steps[j] \in first.done
        /\ first.status \in {"blocked", "halted", "raised"} => \E j \in DOMAIN steps : Automatic(steps[j]) /\ steps[j] \notin first.done
        /\ \A e \in ToSet(first.log) : EntryTells(e, steps, approved, done, Len(steps), first)
    BY RunIs
  <2> HIDE DEF first, Settled
  <2> QED BY <1>5, <2>1
<1>7. Settled(second) /\ Tried(second) \cap first.done = {}
  <2>1. first.done \in SUBSET T
    BY RunIs
  <2> HIDE DEF first
  <2>2. /\ second.status = "done" => \A j \in DOMAIN steps : Automatic(steps[j]) => steps[j] \in second.done
        /\ second.status \in {"blocked", "halted", "raised"} => \E j \in DOMAIN steps : Automatic(steps[j]) /\ steps[j] \notin second.done
        /\ \A e \in ToSet(second.log) : EntryTells(e, steps, more, first.done, Len(steps), second)
    BY <2>1, RunIs
  <2> HIDE DEF second, Settled, Tried
  <2> QED BY <1>5, <2>2
<1> HIDE DEF first, second
<1>8. \A run \in {first, second} : Settled(run) /\ Tried(second) \cap first.done = {}
  BY <1>6, <1>7
<1>9. RunsAsApproved(steps, more, does, first, second)
  BY <1>8 DEF RunsAsApproved, Todo
<1> QED BY <1>9 DEF first, second

-----------------------------------------------------------------------------
(* What the upgrade planner finds (ScanManifests, ScanCluster, Blocking).    *)

(* Of the places where objects were read one is the first.                 *)
LEMMA FirstPlace ==
    ASSUME NEW I, I \subseteq Nat \X Nat, I # {}
    PROVE  \E p \in I : \A q \in I : ~Before(q, p)
<1> DEFINE A == {p[1] : p \in I}
           a == Min(A)
           B == {p[2] : p \in {x \in I : x[1] = a}}
           b == Min(B)
<1>1. a \in A /\ \A x \in A : a <= x
  <2>1. A \subseteq Nat /\ A # {}
    OBVIOUS
  <2> HIDE DEF A
  <2> QED BY <2>1, MinIs
<1> HIDE DEF a
<1>2. b \in B /\ \A x \in B : b <= x
  <2>1. B \subseteq Nat /\ B # {}
    BY <1>1
  <2> HIDE DEF B
  <2> QED BY <2>1, MinIs
<1> HIDE DEF b
<1>3. PICK p \in I : p[1] = a /\ p[2] = b
  BY <1>2
<1>4. ASSUME NEW q \in I PROVE ~Before(q, p)
  <2>1. q[1] \in Nat /\ q[2] \in Nat /\ a \in Nat /\ b \in Nat
    BY <1>3
  <2>2. a <= q[1] /\ (q[1] = a => b <= q[2])
    BY <1>1, <1>2
  <2> QED BY <1>3, <2>1, <2>2 DEF Before
<1> QED BY <1>4

(* The map of deprecations names an API once.                              *)
Apart(deps) == \A i, j \in DOMAIN deps : deps[i].api = deps[j].api /\ deps[i].kind = deps[j].kind => i = j

(* The target has removed the API.                                         *)
Gone(deps, target, api, kind) == \E d \in ToSet(deps) : d.api = api /\ d.kind = kind /\ d.removed <= target

(* The entry that is looked up for an object is the one of its API.        *)
LEMMA DeprecationIs ==
    ASSUME NEW D, NEW deps \in Seq(D), Apart(deps), NEW o, NEW target
    PROVE  (\E d \in ToSet(DeprecationOf(deps, o)) : d.removed <= target) <=> Gone(deps, target, o.api, o.kind)
<1> DEFINE hits == {i \in DOMAIN deps : deps[i].api = o.api /\ deps[i].kind = o.kind}
<1>1. DOMAIN deps = 1..Len(deps) /\ Len(deps) \in Nat
  BY LenProperties
<1>2. CASE hits = {}
  <2>1. ToSet(DeprecationOf(deps, o)) = {}
    <3>1. DeprecationOf(deps, o) = <<>>
      BY <1>2 DEF DeprecationOf
    <3> QED BY <3>1 DEF ToSet
  <2> QED BY <1>2, <2>1 DEF Gone, ToSet
<1>3. CASE hits # {}
  <2> DEFINE m == Max(hits)
  <2>1. m \in hits
    BY <1>1, <1>3, MaxIs
  <2>2. ToSet(DeprecationOf(deps, o)) = {deps[m]}
    <3>1. DeprecationOf(deps, o) = <<deps[m]>>
      BY <1>3 DEF DeprecationOf
    <3> HIDE DEF m
    <3> QED BY <3>1 DEF ToSet
  <2> HIDE DEF m
  <2>3. \A i \in hits : i = m
    BY <2>1 DEF Apart
  <2> QED BY <2>1, <2>2, <2>3 DEF Gone, ToSet
<1> QED BY <1>2, <1>3

(* The objects that block are those that use a removed API; each is named  *)
(* once if no two were read in one place (planner.py 58-83).               *)
LEMMA BlockingIs ==
    ASSUME NEW D, NEW deps \in Seq(D), Apart(deps), NEW target, NEW snapshot, \A o \in snapshot.objects : o.at \in Nat \X Nat
    PROVE  LET found == Blocking(snapshot, target, deps)
           IN  /\ {ObjectOf(b) : b \in found} = {ObjectOf(o) : o \in {x \in snapshot.objects : Gone(deps, target, x.api, x.kind)}}
               /\ (\A o, p \in snapshot.objects : o.at = p.at => o = p) => \A a, b \in found : ObjectOf(a) = ObjectOf(b) => a = b
<1> DEFINE S == snapshot.objects
           removed == {o \in S : \E d \in ToSet(DeprecationOf(deps, o)) : d.removed <= target}
           first == {o \in removed : ~\E b \in removed : ObjectOf(b) = ObjectOf(o) /\ Before(b.at, o.at)}
           Once(o) == [api |-> o.api, kind |-> o.kind, ns |-> o.ns, name |-> o.name, source |-> o.source,
                        replacement |-> DeprecationOf(deps, o)[1].replacement]
           found == Blocking(snapshot, target, deps)
<1>1. removed = {x \in S : Gone(deps, target, x.api, x.kind)}
  BY DeprecationIs
<1>2. found = {Once(o) : o \in first}
  BY DEF Blocking
<1>3. \A o : ObjectOf(Once(o)) = ObjectOf(o)
  BY DEF ObjectOf
<1> HIDE DEF removed, Named, found
<1>4. ASSUME NEW o \in removed PROVE \E f \in first : ObjectOf(f) = ObjectOf(o)
  <2> DEFINE alike == {b \in removed : ObjectOf(b) = ObjectOf(o)}
             I == {b.at : b \in alike}
  <2>1. I \subseteq Nat \X Nat /\ I # {}
    BY <1>1
  <2>2. PICK p \in I : \A q \in I : ~Before(q, p)
    <3> HIDE DEF I
    <3> QED BY <2>1, FirstPlace
  <2>3. PICK f \in alike : f.at = p
    OBVIOUS
  <2>4. \A b \in removed : ObjectOf(b) = ObjectOf(f) => ~Before(b.at, f.at)
    BY <2>2, <2>3
  <2> QED BY <2>3, <2>4
<1>5. {ObjectOf(b) : b \in found} = {ObjectOf(o) : o \in removed}
  <2>1. {ObjectOf(b) : b \in found} = {ObjectOf(o) : o \in first}
    <3> HIDE DEF first
    <3>1. ASSUME NEW b \in found PROVE \E o \in first : ObjectOf(b) = ObjectOf(o)
      BY <1>2, <1>3
    <3>2. ASSUME NEW o \in first PROVE \E b \in found : ObjectOf(b) = ObjectOf(o)
      <4>1. Once(o) \in found
        BY <1>2
      <4> QED BY <1>3, <4>1
    <3> QED BY <3>1, <3>2
  <2> QED BY <1>4, <2>1
<1>6. ASSUME \A o, p \in S : o.at = p.at => o = p, NEW a \in found, NEW b \in found, ObjectOf(a) = ObjectOf(b)
      PROVE  a = b
  <2>1. PICK o \in first : a = Once(o)
    BY <1>2
  <2>2. PICK p \in first : b = Once(p)
    BY <1>2
  <2>3. ObjectOf(o) = ObjectOf(p)
    BY <1>3, <1>6, <2>1, <2>2
  <2>4. ~Before(o.at, p.at) /\ ~Before(p.at, o.at)
    BY <2>3
  <2>5. o.at \in Nat \X Nat /\ p.at \in Nat \X Nat /\ o \in S /\ p \in S
    BY <1>1
  <2> HIDE DEF S
  <2>6. o.at = p.at
    BY <2>4, <2>5 DEF Before
  <2> QED BY <1>6, <2>1, <2>2, <2>5, <2>6
<1> QED BY <1>1, <1>5, <1>6 DEF found

(* A scan of manifests finds what was written (scan.py).                   *)
LEMMA StaticFound ==
    ASSUME NEW D, NEW deps \in Seq(D), Apart(deps), NEW target, NEW F, NEW files \in Seq(F),
           \A f \in F : \E E : f.docs \in Seq(E)
    PROVE  LET static == Blocking(ScanManifests(files), target, deps)
               Written == {d \in UNION {ToSet(f.docs) : f \in {g \in ToSet(files) : g.parses}} : Gone(deps, target, d.api, d.kind)}
           IN  /\ {ObjectOf(b) : b \in static} = {ObjectOf(d) : d \in Written}
               /\ \A a, b \in static : ObjectOf(a) = ObjectOf(b) => a = b
<1> DEFINE read == UNION {{i} \X DOMAIN files[i].docs : i \in {f \in DOMAIN files : files[f].parses}}
           Doc(p) == files[p[1]].docs[p[2]]
           Ref(p) == RefOf(Doc(p), Doc(p).api, p)
           S == {Ref(p) : p \in read}
           snapshot == ScanManifests(files)
           static == Blocking(snapshot, target, deps)
           Written == {d \in UNION {ToSet(f.docs) : f \in {g \in ToSet(files) : g.parses}} : Gone(deps, target, d.api, d.kind)}
<1>1. snapshot.objects = S
  BY DEF ScanManifests
<1>2. \A p : /\ Ref(p).at = p /\ ObjectOf(Ref(p)) = ObjectOf(Doc(p))
             /\ Ref(p).api = Doc(p).api /\ Ref(p).kind = Doc(p).kind
  BY DEF RefOf, ObjectOf
<1>3. DOMAIN files = 1..Len(files) /\ Len(files) \in Nat /\ \A i \in DOMAIN files : files[i] \in F
  BY LenProperties, ElementOfSeq
<1>4. ASSUME NEW i \in DOMAIN files PROVE DOMAIN files[i].docs \subseteq Nat
  <2>1. PICK E : files[i].docs \in Seq(E)
    BY <1>3
  <2> QED BY <2>1, LenProperties
<1>5. ASSUME NEW p \in read PROVE p \in Nat \X Nat /\ p[1] \in DOMAIN files /\ files[p[1]].parses /\ p[2] \in DOMAIN files[p[1]].docs
  <2>1. PICK i \in DOMAIN files : files[i].parses /\ p \in {i} \X DOMAIN files[i].docs
    OBVIOUS
  <2>2. i \in Nat /\ DOMAIN files[i].docs \subseteq Nat
    BY <1>3, <1>4
  <2> QED BY <2>1, <2>2
<1>6. \A i \in DOMAIN files : files[i].parses => \A k \in DOMAIN files[i].docs : <<i, k>> \in read
  OBVIOUS
<1> HIDE DEF read, Ref, snapshot
<1>7. \A o \in S : o.at \in Nat \X Nat
  BY <1>2, <1>5
<1>8. \A o, p \in S : o.at = p.at => o = p
  BY <1>2
<1>9. {ObjectOf(o) : o \in {x \in S : Gone(deps, target, x.api, x.kind)}} = {ObjectOf(d) : d \in Written}
  <2>1. ASSUME NEW o \in S, Gone(deps, target, o.api, o.kind) PROVE \E d \in Written : ObjectOf(d) = ObjectOf(o)
    <3>1. PICK p \in read : o = Ref(p)
      OBVIOUS
    <3>2. Doc(p) \in Written
      <4>1. Doc(p) \in ToSet(files[p[1]].docs) /\ files[p[1]] \in ToSet(files) /\ files[p[1]].parses
        BY <1>5 DEF ToSet
      <4>2. Gone(deps, target, Doc(p).api, Doc(p).kind)
        BY <1>2, <2>1, <3>1
      <4> QED BY <4>1, <4>2
    <3> QED BY <1>2, <3>1, <3>2
  <2>2. ASSUME NEW d \in Written PROVE \E o \in S : Gone(deps, target, o.api, o.kind) /\ ObjectOf(d) = ObjectOf(o)
    <3>1. PICK f \in ToSet(files) : f.parses /\ d \in ToSet(f.docs)
      OBVIOUS
    <3>2. PICK i \in DOMAIN files : f = files[i]
      BY DEF ToSet
    <3>3. PICK k \in DOMAIN files[i].docs : d = files[i].docs[k]
      BY <3>1, <3>2 DEF ToSet
    <3>4. <<i, k>> \in read /\ Doc(<<i, k>>) = d
      BY <1>6, <3>1, <3>2, <3>3
    <3> HIDE DEF Doc
    <3> QED BY <1>2, <3>4
  <2> HIDE DEF S, Written
  <2> QED BY <2>1, <2>2
<1> HIDE DEF S
<1>10. \A o \in snapshot.objects : o.at \in Nat \X Nat
  BY <1>1, <1>7
<1>11. /\ {ObjectOf(b) : b \in static} = {ObjectOf(o) : o \in {x \in S : Gone(deps, target, x.api, x.kind)}}
       /\ \A a, b \in static : ObjectOf(a) = ObjectOf(b) => a = b
  BY <1>1, <1>8, <1>10, BlockingIs
<1> HIDE DEF static, Written
<1>12. {ObjectOf(b) : b \in static} = {ObjectOf(d) : d \in Written}
  BY <1>9, <1>11
<1> QED BY <1>11, <1>12 DEF static, Written, snapshot

(* A scan of a cluster finds what it serves, asking for each API once.     *)
LEMMA LiveFound ==
    ASSUME NEW D, NEW deps \in Seq(D), Apart(deps), NEW target, NEW E, NEW cluster, cluster.docs \in Seq(E)
    PROVE  LET live == Blocking(ScanCluster(cluster, deps), target, deps)
               Served == {y \in (cluster.served \ cluster.failed) \X ToSet(cluster.docs) : Gone(deps, target, y[1], y[2].kind)}
           IN  /\ {ObjectOf(b) : b \in live} = {<<y[1], y[2].kind, y[2].ns, y[2].name>> : y \in Served}
               /\ \A a, b \in live : ObjectOf(a) = ObjectOf(b) => a = b
<1> DEFINE Probed(i) == \E j \in 1..(i - 1) : deps[j].api = deps[i].api /\ deps[j].kind = deps[i].kind
           asked == {i \in DOMAIN deps : deps[i].api \notin cluster.failed /\ ~Probed(i)}
           got == UNION {{i} \X ServedDocs(cluster, deps[i]) : i \in asked}
           Ref(p) == RefOf(cluster.docs[p[2]], deps[p[1]].api, p)
           S == {Ref(p) : p \in got}
           snapshot == ScanCluster(cluster, deps)
           live == Blocking(snapshot, target, deps)
           Served == {y \in (cluster.served \ cluster.failed) \X ToSet(cluster.docs) : Gone(deps, target, y[1], y[2].kind)}
           Told(y) == <<y[1], y[2].kind, y[2].ns, y[2].name>>
<1>1. snapshot.objects = S
  BY DEF ScanCluster
<1>0. \A p : Ref(p).at = p
  BY DEF RefOf
<1>2. \A p : /\ ObjectOf(Ref(p)) = <<deps[p[1]].api, cluster.docs[p[2]].kind, cluster.docs[p[2]].ns, cluster.docs[p[2]].name>>
             /\ Ref(p).api = deps[p[1]].api /\ Ref(p).kind = cluster.docs[p[2]].kind
  BY DEF RefOf, ObjectOf
<1>3. DOMAIN deps = 1..Len(deps) /\ Len(deps) \in Nat /\ DOMAIN cluster.docs = 1..Len(cluster.docs) /\ Len(cluster.docs) \in Nat
  BY LenProperties
<1>4. \A i \in DOMAIN deps : deps[i].api \notin cluster.failed => i \in asked
  BY <1>3 DEF Apart
<1>5. ASSUME NEW p \in got
      PROVE  /\ p \in Nat \X Nat /\ p[1] \in DOMAIN deps /\ p[2] \in DOMAIN cluster.docs
             /\ deps[p[1]].api \in cluster.served \ cluster.failed /\ cluster.docs[p[2]].kind = deps[p[1]].kind
  <2>1. PICK i \in asked : p \in {i} \X ServedDocs(cluster, deps[i])
    OBVIOUS
  <2>2. i \in DOMAIN deps /\ deps[i].api \notin cluster.failed
    BY <2>1
  <2>3. p = <<i, p[2]>> /\ p[2] \in ServedDocs(cluster, deps[i])
    BY <2>1
  <2>4. p[2] \in DOMAIN cluster.docs /\ cluster.docs[p[2]].kind = deps[i].kind /\ deps[i].api \in cluster.served
    BY <2>3 DEF ServedDocs
  <2> HIDE DEF got, asked
  <2> QED BY <1>3, <2>2, <2>3, <2>4
<1>6. ASSUME NEW i \in DOMAIN deps, NEW k \in DOMAIN cluster.docs, cluster.docs[k].kind = deps[i].kind, deps[i].api \in cluster.served \ cluster.failed
      PROVE  <<i, k>> \in got
  <2>1. i \in asked
    BY <1>4, <1>6
  <2>2. k \in ServedDocs(cluster, deps[i])
    BY <1>6 DEF ServedDocs
  <2> HIDE DEF asked
  <2> QED BY <2>1, <2>2
<1> HIDE DEF got, Ref, snapshot
<1>7. \A o \in S : o.at \in Nat \X Nat
  BY <1>0, <1>5
<1>8. \A o, p \in S : o.at = p.at => o = p
  BY <1>0
<1>9. {ObjectOf(o) : o \in {x \in S : Gone(deps, target, x.api, x.kind)}} = {Told(y) : y \in Served}
  <2>1. ASSUME NEW o \in S, Gone(deps, target, o.api, o.kind) PROVE \E y \in Served : Told(y) = ObjectOf(o)
    <3>1. PICK p \in got : o = Ref(p)
      OBVIOUS
    <3> DEFINE y == <<deps[p[1]].api, cluster.docs[p[2]]>>
    <3>2. y \in (cluster.served \ cluster.failed) \X ToSet(cluster.docs)
      <4>1. cluster.docs[p[2]] \in ToSet(cluster.docs) /\ deps[p[1]].api \in cluster.served \ cluster.failed
        BY <1>5 DEF ToSet
      <4> QED BY <4>1
    <3>3. Gone(deps, target, y[1], y[2].kind) /\ Told(y) = ObjectOf(o)
      BY <1>2, <2>1, <3>1
    <3> QED BY <3>2, <3>3
  <2>2. ASSUME NEW y \in Served PROVE \E o \in S : Gone(deps, target, o.api, o.kind) /\ Told(y) = ObjectOf(o)
    <3>1. y[1] \in cluster.served \ cluster.failed /\ y[2] \in ToSet(cluster.docs) /\ Gone(deps, target, y[1], y[2].kind)
      OBVIOUS
    <3>2. PICK i \in DOMAIN deps : deps[i].api = y[1] /\ deps[i].kind = y[2].kind
      BY <3>1 DEF Gone, ToSet
    <3>3. PICK k \in DOMAIN cluster.docs : y[2] = cluster.docs[k]
      BY <3>1 DEF ToSet
    <3>4. <<i, k>> \in got
      BY <1>6, <3>1, <3>2, <3>3
    <3> HIDE DEF Served
    <3> DEFINE p == <<i, k>>
    <3>5. p \in got /\ deps[p[1]].api = y[1] /\ cluster.docs[p[2]] = y[2]
      BY <3>2, <3>3, <3>4
    <3> HIDE DEF p
    <3>6. Gone(deps, target, Ref(p).api, Ref(p).kind) /\ Told(y) = ObjectOf(Ref(p))
      BY <1>2, <3>1, <3>5
    <3> HIDE DEF Told
    <3> QED BY <3>5, <3>6
  <2> HIDE DEF S, Served, Told
  <2> QED BY <2>1, <2>2
<1> HIDE DEF S
<1>10. \A o \in snapshot.objects : o.at \in Nat \X Nat
  BY <1>1, <1>7
<1>11. /\ {ObjectOf(b) : b \in live} = {ObjectOf(o) : o \in {x \in S : Gone(deps, target, x.api, x.kind)}}
       /\ \A a, b \in live : ObjectOf(a) = ObjectOf(b) => a = b
  BY <1>1, <1>8, <1>10, BlockingIs
<1> HIDE DEF live, Served
<1>12. {ObjectOf(b) : b \in live} = {Told(y) : y \in Served}
  BY <1>9, <1>11
<1> QED BY <1>11, <1>12 DEF live, Served, snapshot

(* Together: the removals are found in any manifests and any cluster.      *)
LEMMA RemovalsFound ==
    ASSUME NEW D, NEW maps, maps.deps \in Seq(D), Apart(maps.deps), NEW target, NEW F, NEW files \in Seq(F),
           \A f \in F : \E E : f.docs \in Seq(E), NEW G, NEW cluster, cluster.docs \in Seq(G)
    PROVE  RemovalsAreFound(target, maps, files, cluster)
<1> DEFINE deps == maps.deps
           static == Blocking(ScanManifests(files), target, deps)
           live == Blocking(ScanCluster(cluster, deps), target, deps)
           Written == {d \in UNION {ToSet(f.docs) : f \in {g \in ToSet(files) : g.parses}} : Gone(deps, target, d.api, d.kind)}
           Served == {y \in (cluster.served \ cluster.failed) \X ToSet(cluster.docs) : Gone(deps, target, y[1], y[2].kind)}
<1>1. {ObjectOf(b) : b \in static} = {ObjectOf(d) : d \in Written} /\ \A a, b \in static : ObjectOf(a) = ObjectOf(b) => a = b
  BY StaticFound
<1>2. /\ {ObjectOf(b) : b \in live} = {<<y[1], y[2].kind, y[2].ns, y[2].name>> : y \in Served}
      /\ \A a, b \in live : ObjectOf(a) = ObjectOf(b) => a = b
  BY LiveFound
<1> HIDE DEF static, live
<1>3. \A found \in {static, live} : \A a, b \in found : ObjectOf(a) = ObjectOf(b) => a = b
  BY <1>1, <1>2
<1> QED BY <1>1, <1>2, <1>3 DEF RemovalsAreFound, Gone, static, live

-----------------------------------------------------------------------------
(* The order of an upgrade's plan (MakePlan).                                *)

(* The image of a finite set is finite.                                    *)
LEMMA FiniteImage ==
    ASSUME NEW S, IsFiniteSet(S), NEW f, DOMAIN f = S
    PROVE  IsFiniteSet({f[x] : x \in S})
<1> DEFINE T == {f[x] : x \in S}
           g == [x \in S |-> f[x]]
<1>1. g \in Surjection(S, T)
  BY DEF Surjection
<1> HIDE DEF g, T
<1>2. IsFiniteSet(T)
  BY <1>1, FS_Surjection
<1> QED BY <1>2 DEF T

(* A finite set can be listed.                                             *)
LEMMA Listing ==
    ASSUME NEW S, IsFiniteSet(S)
    PROVE  SetToSeq(S) \in Seq(S) /\ IsInjective(SetToSeq(S)) /\ ToSet(SetToSeq(S)) = S
<1> DEFINE n == Cardinality(S)
           q == SetToSeq(S)
<1>1. n \in Nat /\ ExistsBijection(1..n, S)
  BY FS_CardinalityType
<1> HIDE DEF n
<1>2. \E f \in [1..n -> S] : IsInjective(f)
  BY <1>1 DEF ExistsBijection, Bijection, Injection, IsInjective
<1>3. q \in [1..n -> S] /\ IsInjective(q)
  BY <1>2 DEF SetToSeq, n
<1> HIDE DEF q
<1>4. q \in Injection(1..n, S)
  BY <1>3 DEF Injection, IsInjective
<1>5. IsFiniteSet(1..n) /\ Cardinality(1..n) = n
  BY <1>1, FS_Interval
<1>6. q \in Surjection(1..n, S)
  BY <1>4, <1>5, FS_Injection DEF n
<1>7. ToSet(q) = S
  BY <1>3, <1>6 DEF Surjection, ToSet
<1>8. q \in Seq(S)
  BY <1>1, <1>3, SeqDef
<1> QED BY <1>3, <1>7, <1>8 DEF q

(* A list of S, each element once, in the order of the ranks.              *)
Orderly(q, S) ==
    /\ q \in Seq(S) /\ IsInjective(q) /\ ToSet(q) = S
    /\ \A i, j \in DOMAIN q : i < j => StepRank(q[i]) <= StepRank(q[j])

(* There are five ranks.                                                   *)
LEMMA RankIs == \A s : StepRank(s) \in 0..4
  BY DEF StepRank

(* The list of one rank, put behind those of the lower ranks.              *)
LEMMA Joined ==
    ASSUME NEW r \in Nat, NEW A, NEW B, NEW s, NEW t, Orderly(s, A), Orderly(t, B),
           \A a \in A : StepRank(a) < r, \A b \in B : StepRank(b) = r
    PROVE  Orderly(s \o t, A \cup B)
<1> DEFINE q == s \o t
           C == A \cup B
<1>1. s \in Seq(C) /\ t \in Seq(C)
  <2>1. s \in Seq(A) /\ t \in Seq(B)
    BY DEF Orderly
  <2> QED BY <2>1
<1>2. /\ DOMAIN s = 1..Len(s) /\ Len(s) \in Nat /\ DOMAIN t = 1..Len(t) /\ Len(t) \in Nat
      /\ \A i \in DOMAIN s : s[i] \in A
      /\ \A i \in DOMAIN t : t[i] \in B
  <2>1. s \in Seq(A) /\ t \in Seq(B)
    BY DEF Orderly
  <2> QED BY <2>1, LenProperties, ElementOfSeq
<1> HIDE DEF C
<1>3. /\ q \in Seq(C) /\ Len(q) = Len(s) + Len(t)
      /\ \A i \in 1..(Len(s) + Len(t)) : q[i] = IF i <= Len(s) THEN s[i] ELSE t[i - Len(s)]
  BY <1>1, ConcatProperties
<1> HIDE DEF q
<1>4. DOMAIN q = 1..(Len(s) + Len(t))
  BY <1>3, LenProperties
<1>5. \A i \in DOMAIN q : \/ i \in DOMAIN s /\ q[i] = s[i] /\ q[i] \in A
                          \/ i > Len(s) /\ i - Len(s) \in DOMAIN t /\ q[i] = t[i - Len(s)] /\ q[i] \in B
  <2> SUFFICES ASSUME NEW i \in DOMAIN q
               PROVE  \/ i \in DOMAIN s /\ q[i] = s[i] /\ q[i] \in A
                      \/ i > Len(s) /\ i - Len(s) \in DOMAIN t /\ q[i] = t[i - Len(s)] /\ q[i] \in B
    OBVIOUS
  <2>1. CASE i <= Len(s)
    BY <1>2, <1>3, <1>4, <2>1
  <2>2. CASE i > Len(s)
    <3>1. i - Len(s) \in 1..Len(t)
      BY <1>2, <1>4, <2>2
    <3>2. q[i] = t[i - Len(s)]
      BY <1>2, <1>3, <1>4, <2>2
    <3> QED BY <1>2, <2>2, <3>1, <3>2
  <2> QED BY <1>2, <1>4, <2>1, <2>2
<1>6. IsInjective(q)
  <2> SUFFICES ASSUME NEW i \in DOMAIN q, NEW j \in DOMAIN q, q[i] = q[j] PROVE i = j
    BY DEF IsInjective
  <2>1. \A x \in A : x \notin B
    BY RankIs
  <2>2. i \in Int /\ j \in Int /\ Len(s) \in Int
    BY <1>2, <1>4
  <2>3. CASE i \in DOMAIN s /\ j \in DOMAIN s /\ s[i] = s[j]
    BY <2>3 DEF Orderly, IsInjective
  <2>4. CASE i - Len(s) \in DOMAIN t /\ j - Len(s) \in DOMAIN t /\ t[i - Len(s)] = t[j - Len(s)]
    <3>1. i - Len(s) = j - Len(s)
      BY <2>4 DEF Orderly, IsInjective
    <3> QED BY <2>2, <3>1
  <2> QED BY <1>5, <2>1, <2>3, <2>4
<1>7. ToSet(q) = C
  <2>1. \A x \in A : \E i \in DOMAIN q : q[i] = x
    <3> SUFFICES ASSUME NEW x \in A PROVE \E i \in DOMAIN q : q[i] = x
      OBVIOUS
    <3>1. PICK i \in DOMAIN s : s[i] = x
      BY DEF Orderly, ToSet
    <3>2. i \in DOMAIN q /\ q[i] = s[i]
      BY <1>2, <1>3, <1>4
    <3> QED BY <3>1, <3>2
  <2>2. \A x \in B : \E i \in DOMAIN q : q[i] = x
    <3> SUFFICES ASSUME NEW x \in B PROVE \E i \in DOMAIN q : q[i] = x
      OBVIOUS
    <3>1. PICK i \in DOMAIN t : t[i] = x
      BY DEF Orderly, ToSet
    <3>2. i + Len(s) \in DOMAIN q /\ q[i + Len(s)] = t[i]
      <4>1. i + Len(s) \in 1..(Len(s) + Len(t)) /\ ~(i + Len(s) <= Len(s)) /\ (i + Len(s)) - Len(s) = i
        BY <1>2
      <4> QED BY <1>3, <1>4, <4>1
    <3> QED BY <3>1, <3>2
  <2>3. \A i \in DOMAIN q : q[i] \in C
    BY <1>5 DEF C
  <2> QED BY <2>1, <2>2, <2>3 DEF ToSet, C
<1>8. ASSUME NEW i \in DOMAIN q, NEW j \in DOMAIN q, i < j PROVE StepRank(q[i]) <= StepRank(q[j])
  <2>1. StepRank(q[i]) \in Nat /\ StepRank(q[j]) \in Nat
    <3>1. StepRank(q[i]) \in 0..4 /\ StepRank(q[j]) \in 0..4
      BY RankIs
    <3> QED BY <3>1
  <2>2. CASE i \in DOMAIN s /\ q[i] = s[i] /\ j \in DOMAIN s /\ q[j] = s[j]
    BY <1>8, <2>2 DEF Orderly
  <2>3. CASE q[j] \in B
    <3>1. CASE q[i] \in A
      BY <2>1, <2>3, <3>1
    <3>2. CASE q[i] \in B
      BY <2>1, <2>3, <3>2
    <3> QED BY <1>5, <3>1, <3>2
  <2>4. CASE j \in DOMAIN s /\ i > Len(s)
    BY <1>2, <1>4, <1>8, <2>4
  <2> QED BY <1>5, <2>2, <2>3, <2>4
<1>9. Orderly(q, C)
  BY <1>3, <1>6, <1>7, <1>8 DEF Orderly
<1> QED BY <1>9 DEF q, C

(* A plan lists its steps in the order of their ranks and ends with the    *)
(* last rank's.                                                            *)
LEMMA PlanOrderly ==
    ASSUME NEW report, IsFiniteSet(Pending(report))
    PROVE  /\ Orderly(MakePlan(report), Pending(report))
           /\ \E s, t : /\ Orderly(t, {p \in Pending(report) : StepRank(p) = 4}) /\ MakePlan(report) = s \o t
                        /\ s \in Seq(Pending(report))
<1> DEFINE P == Pending(report)
           At(r) == {p \in P : StepRank(p) = r}
           R(r) == Ranked(report, r)
<1>1. ASSUME NEW r PROVE Orderly(R(r), At(r))
  <2>1. IsFiniteSet(At(r))
    BY FS_Subset
  <2>2. R(r) \in Seq(At(r)) /\ IsInjective(R(r)) /\ ToSet(R(r)) = At(r)
    <3>1. R(r) = SetToSeq(At(r))
      BY DEF Ranked
    <3> HIDE DEF At, R
    <3> QED BY <2>1, <3>1, Listing
  <2>3. \A i \in DOMAIN R(r) : StepRank(R(r)[i]) = r
    <3> HIDE DEF R
    <3> QED BY <2>2 DEF ToSet
  <2>4. ASSUME NEW i \in DOMAIN R(r), NEW j \in DOMAIN R(r) PROVE StepRank(R(r)[i]) <= StepRank(R(r)[j])
    <3>1. StepRank(R(r)[i]) = r /\ StepRank(R(r)[j]) = r /\ StepRank(R(r)[i]) \in 0..4
      BY <2>3, RankIs
    <3> HIDE DEF R
    <3> QED BY <3>1
  <2> HIDE DEF R, At
  <2> QED BY <2>2, <2>4 DEF Orderly
<1> DEFINE Upto(r) == {p \in P : StepRank(p) <= r}
<1>2. /\ At(0) = Upto(0) /\ Upto(0) \cup At(1) = Upto(1) /\ Upto(1) \cup At(2) = Upto(2)
      /\ Upto(2) \cup At(3) = Upto(3) /\ Upto(3) \cup At(4) = P
  BY RankIs
<1>3. /\ \A p \in Upto(0) : StepRank(p) < 1
      /\ \A p \in Upto(1) : StepRank(p) < 2
      /\ \A p \in Upto(2) : StepRank(p) < 3
      /\ \A p \in Upto(3) : StepRank(p) < 4
  BY RankIs
<1>4. \A r : \A p \in At(r) : StepRank(p) = r
  OBVIOUS
<1> HIDE DEF At, Upto, R
<1>5. Orderly(R(0), Upto(0))
  BY <1>1, <1>2
<1>6. Orderly(R(0) \o R(1), Upto(1))
  BY <1>1, <1>2, <1>3, <1>4, <1>5, Joined
<1>7. Orderly(R(0) \o R(1) \o R(2), Upto(2))
  BY <1>1, <1>2, <1>3, <1>4, <1>6, Joined
<1>8. Orderly(R(0) \o R(1) \o R(2) \o R(3), Upto(3))
  BY <1>1, <1>2, <1>3, <1>4, <1>7, Joined
<1>9. Orderly(R(0) \o R(1) \o R(2) \o R(3) \o R(4), P)
  BY <1>1, <1>2, <1>3, <1>4, <1>8, Joined
<1>10. MakePlan(report) = R(0) \o R(1) \o R(2) \o R(3) \o R(4)
  BY DEF MakePlan, R
<1> DEFINE s == R(0) \o R(1) \o R(2) \o R(3)
<1>11. s \in Seq(P)
  <2>1. s \in Seq(Upto(3))
    BY <1>8 DEF Orderly
  <2>2. Upto(3) \subseteq P
    BY DEF Upto
  <2> HIDE DEF s
  <2> QED BY <2>1, <2>2
<1>12. Orderly(R(4), {p \in Pending(report) : StepRank(p) = 4})
  BY <1>1 DEF At
<1> QED BY <1>9, <1>10, <1>11, <1>12

(* An object has a kind and an owner.                                      *)
Described(objects) == \A o \in objects : o.kind # "" /\ o.source \in {"operator", "helm", "manifest"}

(* The objects that block are finitely many and described.                 *)
LEMMA BlockingPlanned ==
    ASSUME NEW snapshot, IsFiniteSet(snapshot.objects), IsFiniteSet(snapshot.operators),
           Described(snapshot.objects),
           NEW target, NEW maps
    PROVE  LET report == AssessUpgrade(snapshot, target, maps)
           IN  /\ IsFiniteSet(report.blocking) /\ IsFiniteSet(report.operators)
               /\ Described(report.blocking)
<1> DEFINE deps == maps.deps
           removed == {o \in snapshot.objects : \E d \in ToSet(DeprecationOf(deps, o)) : d.removed <= target}
           first == {o \in removed : ~\E b \in removed : ObjectOf(b) = ObjectOf(o) /\ Before(b.at, o.at)}
           f == [o \in first |-> [api |-> o.api, kind |-> o.kind, ns |-> o.ns, name |-> o.name, source |-> o.source,
                                  replacement |-> DeprecationOf(deps, o)[1].replacement]]
           Known(op) == LET min == MinRequiredForTarget(maps.compat[op.group], target)
                        IN  [name |-> op.group, min |-> min,
                             action |-> CASE min = 0 \/ op.version = 0 -> "unknown"
                                          [] min # 0 /\ op.version >= min -> "ok"
                                          [] OTHER -> "bump"]
           ops == {x \in snapshot.operators : x.group \in DOMAIN maps.compat}
           g == [op \in ops |-> Known(op)]
           report == AssessUpgrade(snapshot, target, maps)
<1>1. /\ report.blocking = Blocking(snapshot, target, deps)
      /\ report.operators = AssessOperators(snapshot, target, maps.compat)
  BY DEF AssessUpgrade
<1> HIDE DEF report
<1>2. report.blocking = {f[o] : o \in first}
  <2> HIDE DEF removed
  <2>1. Blocking(snapshot, target, deps) = {f[o] : o \in first}
    BY DEF Blocking, removed
  <2> QED BY <1>1, <2>1
<1>3. IsFiniteSet(first)
  <2>1. first \in SUBSET snapshot.objects
    OBVIOUS
  <2> HIDE DEF first
  <2> QED BY <2>1, FS_Subset
<1>4. \A o \in first : f[o].kind = o.kind /\ f[o].source = o.source /\ o \in snapshot.objects
  OBVIOUS
<1>5. DOMAIN f = first /\ DOMAIN g = ops
  OBVIOUS
<1> HIDE DEF f, first
<1>6. IsFiniteSet(report.blocking)
  <2> HIDE DEF removed, Known, ops, g
  <2>1. IsFiniteSet({f[o] : o \in first})
    BY <1>3, <1>5, FiniteImage
  <2> QED BY <1>2, <2>1
<1>7. ASSUME NEW b \in report.blocking PROVE b.kind # "" /\ b.source \in {"operator", "helm", "manifest"}
  <2> HIDE DEF removed, Known, ops, g
  <2>1. PICK o \in first : b = f[o]
    BY <1>2
  <2> QED BY <1>4, <2>1 DEF Described
<1>8. IsFiniteSet(report.operators)
  <2>1. report.operators = {} \/ report.operators = {Known(op) : op \in ops}
    BY <1>1 DEF AssessOperators
  <2>2. {Known(op) : op \in ops} = {g[op] : op \in ops}
    <3> HIDE DEF Known
    <3> QED OBVIOUS
  <2>3. IsFiniteSet(ops)
    BY FS_Subset
  <2> HIDE DEF g, Known, ops
  <2>4. IsFiniteSet({g[op] : op \in ops})
    BY <1>5, <2>3, FiniteImage
  <2> QED BY <2>1, <2>2, <2>4, FS_EmptySet
<1>9. Described(report.blocking)
  BY <1>7 DEF Described
<1> QED BY <1>6, <1>8, <1>9 DEF report

(* The plan of what a snapshot of any size needs is in order (planner.py   *)
(* 309-400).                                                               *)
LEMMA PlanOrdered ==
    ASSUME NEW snapshot, IsFiniteSet(snapshot.objects), IsFiniteSet(snapshot.operators),
           Described(snapshot.objects),
           NEW target, NEW maps
    PROVE  LET report == AssessUpgrade(snapshot, target, maps) IN PlanIsOrdered(report, MakePlan(report))
<1> DEFINE report == AssessUpgrade(snapshot, target, maps)
           P == Pending(report)
           bumps == {x \in report.operators : x.action = "bump"}
           plan == MakePlan(report)
<1>1. /\ IsFiniteSet(report.blocking) /\ IsFiniteSet(report.operators)
      /\ Described(report.blocking)
  BY BlockingPlanned
<1> HIDE DEF report
<1>2. P = {OperatorStep(op) : op \in bumps} \cup {ObjectStep(b) : b \in report.blocking} \cup {ControlPlaneStep}
  BY DEF Pending
<1>3. IsFiniteSet(P)
  <2> DEFINE f == [op \in bumps |-> OperatorStep(op)]
             g == [b \in report.blocking |-> ObjectStep(b)]
  <2>1. {f[op] : op \in bumps} = {OperatorStep(op) : op \in bumps} /\ {g[b] : b \in report.blocking} = {ObjectStep(b) : b \in report.blocking}
    OBVIOUS
  <2>2. IsFiniteSet(bumps)
    BY <1>1, FS_Subset
  <2>3. DOMAIN f = bumps /\ DOMAIN g = report.blocking
    OBVIOUS
  <2> HIDE DEF f, g, bumps
  <2>4. IsFiniteSet({f[op] : op \in bumps}) /\ IsFiniteSet({g[b] : b \in report.blocking})
    BY <1>1, <2>2, <2>3, FiniteImage
  <2>5. IsFiniteSet({OperatorStep(op) : op \in bumps}) /\ IsFiniteSet({ObjectStep(b) : b \in report.blocking})
    BY <2>1, <2>4
  <2> HIDE DEF P
  <2>6. IsFiniteSet({OperatorStep(op) : op \in bumps} \cup {ObjectStep(b) : b \in report.blocking})
    BY <2>5, FS_Union
  <2> QED BY <1>2, <2>6, FS_Union, FS_Singleton
<1>4. /\ Orderly(plan, P)
      /\ \E s, t : Orderly(t, {p \in P : StepRank(p) = 4}) /\ plan = s \o t /\ s \in Seq(P)
  BY <1>3, PlanOrderly
<1> HIDE DEF plan
<1>5. \A p \in P : \/ p = ControlPlaneStep
                   \/ \E op \in bumps : p = OperatorStep(op)
                   \/ \E b \in report.blocking : p = ObjectStep(b)
  BY <1>2
<1>6. \A b : /\ ObjectStep(b).of = b /\ ObjectStep(b).kind = RouteBlocking(b).kind
             /\ ObjectStep(b).route = RouteBlocking(b).route
  BY DEF ObjectStep
<1>7. \A op : OperatorStep(op).of = NoObject /\ OperatorStep(op).kind = "operator_bump" /\ OperatorStep(op).route = "remediation"
  BY DEF OperatorStep
<1>8. /\ ControlPlaneStep.of = NoObject /\ ControlPlaneStep.kind = "control_plane" /\ ControlPlaneStep.route = "advisory"
      /\ NoObject.kind = ""
  BY DEF ControlPlaneStep, NoObject
<1>9. \A b \in report.blocking : /\ RouteBlocking(b).kind \in {"helm_bump", "operator_bump", "manifest_pr"}
                                 /\ RouteBlocking(b).route = "gitops_pr" => b.source = "manifest" /\ b.replacement # ""
  BY <1>1 DEF RouteBlocking, Described
<1>10. {p \in P : StepRank(p) = 4} = {ControlPlaneStep}
  <2>1. StepRank(ControlPlaneStep) = 4
    BY <1>8 DEF StepRank
  <2>0. \A s : s.kind \in {"helm_bump", "operator_bump", "manifest_pr"} => StepRank(s) # 4
    <3> SUFFICES ASSUME NEW s, s.kind \in {"helm_bump", "operator_bump", "manifest_pr"} PROVE StepRank(s) # 4
      OBVIOUS
    <3>1. CASE s.kind = "operator_bump"
      BY <3>1 DEF StepRank
    <3>2. CASE s.kind = "helm_bump"
      BY <3>2 DEF StepRank
    <3>3. CASE s.kind = "manifest_pr"
      BY <3>3 DEF StepRank
    <3> QED BY <3>1, <3>2, <3>3
  <2>2. ASSUME NEW op PROVE StepRank(OperatorStep(op)) # 4
    <3> DEFINE s == OperatorStep(op)
    <3>1. s.kind = "operator_bump"
      BY <1>7
    <3> HIDE DEF s
    <3>2. StepRank(s) # 4
      BY <2>0, <3>1
    <3> QED BY <3>2 DEF s
  <2>3. ASSUME NEW b \in report.blocking PROVE StepRank(ObjectStep(b)) # 4
    <3> DEFINE s == ObjectStep(b)
    <3>1. s.kind \in {"helm_bump", "operator_bump", "manifest_pr"}
      BY <1>6, <1>9
    <3> HIDE DEF s
    <3>2. StepRank(s) # 4
      BY <2>0, <3>1
    <3> QED BY <3>2 DEF s
  <2>4. ControlPlaneStep \in P
    BY <1>2
  <2> HIDE DEF P, bumps
  <2> QED BY <1>5, <2>1, <2>2, <2>3, <2>4
<1> HIDE DEF P, bumps
<1>11. DOMAIN plan = 1..Len(plan) /\ Len(plan) \in Nat /\ plan \in Seq(P) /\ \A i \in DOMAIN plan : plan[i] \in P
  <2>1. plan \in Seq(P)
    BY <1>4 DEF Orderly
  <2> QED BY <2>1, LenProperties, ElementOfSeq
<1>12. ASSUME NEW b \in report.blocking PROVE Cardinality({i \in DOMAIN plan : plan[i].of = b}) = 1
  <2>1. ObjectStep(b) \in P
    BY <1>2
  <2>2. PICK i \in DOMAIN plan : plan[i] = ObjectStep(b)
    BY <1>4, <2>1 DEF Orderly, ToSet
  <2>3. b # NoObject
    BY <1>1, <1>8 DEF Described
  <2>4. ASSUME NEW j \in DOMAIN plan, plan[j].of = b PROVE j = i
    <3>1. plan[j] = ObjectStep(b)
      <4> DEFINE p == plan[j]
      <4>1. p \in P /\ p.of = b
        BY <1>11, <2>4
      <4> HIDE DEF p
      <4>2. ASSUME p = ControlPlaneStep PROVE FALSE
        BY <1>8, <2>3, <4>1, <4>2
      <4>3. ASSUME NEW op, p = OperatorStep(op) PROVE FALSE
        <5>1. OperatorStep(op).of = NoObject
          BY <1>7
        <5> QED BY <2>3, <4>1, <4>3, <5>1
      <4>4. ASSUME NEW c, p = ObjectStep(c) PROVE c = b
        <5>1. ObjectStep(c).of = c
          BY <1>6
        <5> QED BY <4>1, <4>4, <5>1
      <4>5. p = ObjectStep(b)
        BY <1>5, <4>1, <4>2, <4>3, <4>4
      <4> QED BY <4>5 DEF p
    <3> QED BY <1>4, <2>2, <3>1 DEF Orderly, IsInjective
  <2>5. {j \in DOMAIN plan : plan[j].of = b} = {i}
    BY <1>6, <2>2, <2>4
  <2> QED BY <2>5, FS_Singleton
<1>13. Last(plan) = ControlPlaneStep
  <2>1. PICK s, t : Orderly(t, {ControlPlaneStep}) /\ plan = s \o t /\ s \in Seq(P)
    BY <1>4, <1>10
  <2>2. t \in Seq({ControlPlaneStep}) /\ ToSet(t) = {ControlPlaneStep}
    BY <2>1 DEF Orderly
  <2>3. Len(t) \in Nat /\ DOMAIN t = 1..Len(t) /\ Len(t) # 0
    <3>1. Len(t) \in Nat /\ DOMAIN t = 1..Len(t)
      BY <2>2, LenProperties
    <3>2. PICK i \in DOMAIN t : t[i] = ControlPlaneStep
      BY <2>2 DEF ToSet
    <3> QED BY <3>1, <3>2
  <2>4. t[Len(t)] = ControlPlaneStep
    <3>1. Len(t) \in 1..Len(t)
      BY <2>3
    <3>2. t[Len(t)] \in {ControlPlaneStep}
      BY <2>2, <3>1, ElementOfSeq
    <3> QED BY <3>2
  <2>5. t \in Seq(P)
    <3>1. {ControlPlaneStep} \subseteq P
      BY <1>10
    <3> QED BY <2>2, <3>1
  <2>6. Len(plan) = Len(s) + Len(t) /\ plan[Len(s) + Len(t)] = t[Len(t)]
    <3>1. Len(s) \in Nat
      BY <2>1, LenProperties
    <3>2. Len(s) + Len(t) \in 1..(Len(s) + Len(t)) /\ ~(Len(s) + Len(t) <= Len(s)) /\ (Len(s) + Len(t)) - Len(s) = Len(t)
      <4> DEFINE a == Len(s)
                 c == Len(t)
      <4>1. a \in Nat /\ c \in Nat /\ c # 0
        BY <2>3, <3>1
      <4> HIDE DEF a, c
      <4>2. a + c \in 1..(a + c) /\ ~(a + c <= a) /\ (a + c) - a = c
        BY <4>1
      <4> QED BY <4>2 DEF a, c
    <3> QED BY <2>1, <2>5, <3>2, ConcatProperties
  <2> QED BY <2>4, <2>6 DEF Last
<1>14. \A i, j \in DOMAIN plan : i < j => StepRank(plan[i]) <= StepRank(plan[j])
  BY <1>4 DEF Orderly
<1>15. ASSUME NEW p \in ToSet(plan), p.route = "gitops_pr" PROVE p.of.source = "manifest" /\ p.of.replacement # ""
  <2>1. p \in P
    BY <1>11 DEF ToSet
  <2>2. p # ControlPlaneStep
    BY <1>8, <1>15
  <2>3. ASSUME NEW op, p = OperatorStep(op) PROVE FALSE
    <3>1. OperatorStep(op).route = "remediation"
      BY <1>7
    <3> QED BY <1>15, <2>3, <3>1
  <2>4. PICK b \in report.blocking : p = ObjectStep(b)
    BY <1>5, <2>1, <2>2, <2>3
  <2>5. ObjectStep(b).of = b /\ ObjectStep(b).route = RouteBlocking(b).route
    BY <1>6
  <2> QED BY <1>9, <1>15, <2>4, <2>5
<1> QED BY <1>12, <1>13, <1>14, <1>15 DEF PlanIsOrdered, plan, report

-----------------------------------------------------------------------------
(* The guarded migration of an object (Rename and PlanMigration).            *)

(* A path is under another that is the beginning of it.                    *)
LEMMA PathUnder ==
    ASSUME NEW W, NEW p \in Seq(W), NEW q \in Seq(W)
    PROVE  Under(p, q) <=> Len(q) <= Len(p) /\ \A i \in 1..Len(q) : q[i] = p[i]
<1> DEFINE n == Len(q)
           s == SubSeq(q, 1, n)
           t == SubSeq(p, 1, n)
<1>1. /\ n \in Nat /\ Len(p) \in Nat
      /\ \A i \in 1..n : q[i] \in W
      /\ \A i \in 1..Len(p) : p[i] \in W
  BY LenProperties, ElementOfSeq
<1>2. Under(p, q) <=> n <= Len(p) /\ s = t
  BY DEF Under, IsPrefix
<1> HIDE DEF n
<1>3. ASSUME n <= Len(p) PROVE s = t <=> \A i \in 1..n : q[i] = p[i]
  <2>1. \A i \in 1..n : p[i] \in W
    BY <1>1, <1>3
  <2>2. /\ s \in Seq(W) /\ Len(s) = n
        /\ \A i \in 1..n : s[i] = q[i]
    <3>1. /\ s \in Seq(W) /\ Len(s) = (IF 1 <= n THEN n - 1 + 1 ELSE 0)
          /\ \A i \in 1..(n - 1 + 1) : s[i] = q[1 + i - 1]
      BY <1>1, SubSeqProperties
    <3> HIDE DEF s
    <3> QED BY <1>1, <3>1
  <2>3. /\ t \in Seq(W) /\ Len(t) = n
        /\ \A i \in 1..n : t[i] = p[i]
    <3>1. /\ t \in Seq(W) /\ Len(t) = (IF 1 <= n THEN n - 1 + 1 ELSE 0)
          /\ \A i \in 1..(n - 1 + 1) : t[i] = p[1 + i - 1]
      BY <1>1, <2>1, SubSeqProperties
    <3> HIDE DEF t
    <3> QED BY <1>1, <3>1
  <2> HIDE DEF s, t
  <2>4. s = t <=> \A i \in 1..n : s[i] = t[i]
    BY <2>2, <2>3, SeqEqual
  <2> QED BY <2>2, <2>3, <2>4
<1> HIDE DEF s, t
<1>4. Under(p, q) <=> n <= Len(p) /\ \A i \in 1..n : q[i] = p[i]
  BY <1>2, <1>3
<1> QED BY <1>4 DEF n

(* Of two paths that lead to one place one leads through the other.        *)
LEMMA PathsCompare ==
    ASSUME NEW W, NEW p \in Seq(W), NEW a \in Seq(W), NEW b \in Seq(W), Under(p, a), Under(p, b)
    PROVE  Under(a, b) \/ Under(b, a)
<1>1. Len(p) \in Nat /\ Len(a) \in Nat /\ Len(b) \in Nat
  BY LenProperties
<1>2. /\ Len(a) <= Len(p) /\ \A i \in 1..Len(a) : a[i] = p[i]
      /\ Len(b) <= Len(p) /\ \A i \in 1..Len(b) : b[i] = p[i]
  BY PathUnder
<1>3. CASE Len(a) <= Len(b)
  <2>1. \A i \in 1..Len(a) : a[i] = b[i]
    BY <1>1, <1>2, <1>3
  <2> QED BY <1>3, <2>1, PathUnder
<1>4. CASE Len(b) <= Len(a)
  <2>1. \A i \in 1..Len(b) : b[i] = a[i]
    BY <1>1, <1>2, <1>4
  <2> QED BY <1>4, <2>1, PathUnder
<1> QED BY <1>1, <1>3, <1>4

(* Where a leaf under src is put when src is moved to dst.                 *)
Put(q, src, dst) == dst \o SubSeq(q, Len(src) + 1, Len(q))

(* The words of that place.                                                *)
IsPut(m, q, src, dst) ==
    /\ Len(m) = Len(dst) + (Len(q) - Len(src))
    /\ \A i \in 1..Len(dst) : m[i] = dst[i]
    /\ \A i \in 1..(Len(q) - Len(src)) : m[Len(dst) + i] = q[Len(src) + i]

(* It is under dst.                                                        *)
LEMMA PutIs ==
    ASSUME NEW W, NEW q \in Seq(W), NEW src \in Seq(W), NEW dst \in Seq(W), Under(q, src)
    PROVE  /\ Put(q, src, dst) \in Seq(W) /\ Under(Put(q, src, dst), dst)
           /\ IsPut(Put(q, src, dst), q, src, dst)
<1> DEFINE a == Len(src)
           n == Len(q)
           d == Len(dst)
           t == SubSeq(q, a + 1, n)
           m == Put(q, src, dst)
<1>1. /\ a \in Nat /\ n \in Nat /\ d \in Nat /\ a <= n
      /\ \A i \in 1..n : q[i] \in W
  BY LenProperties, ElementOfSeq, PathUnder
<1>2. m = dst \o t
  BY DEF Put
<1> HIDE DEF a, n, d, m
<1>3. t \in Seq(W) /\ Len(t) = n - a /\ \A i \in 1..(n - a) : t[i] = q[a + i]
  <2>1. a + 1 \in Int /\ n \in Int /\ \A i \in (a + 1)..n : q[i] \in W
    BY <1>1
  <2>2. /\ t \in Seq(W) /\ Len(t) = (IF a + 1 <= n THEN n - (a + 1) + 1 ELSE 0)
        /\ \A i \in 1..(n - (a + 1) + 1) : t[i] = q[(a + 1) + i - 1]
    BY <2>1, SubSeqProperties
  <2> HIDE DEF t
  <2>3. /\ n - (a + 1) + 1 = n - a /\ \A i \in Int : (a + 1) + i - 1 = a + i
        /\ ~(a + 1 <= n) => n - a = 0
    BY <1>1
  <2>4. Len(t) = n - a
    BY <2>2, <2>3
  <2>5. ASSUME NEW i \in 1..(n - a) PROVE t[i] = q[a + i]
    <3>1. i \in 1..(n - (a + 1) + 1) /\ i \in Int
      BY <1>1, <2>3
    <3>2. t[i] = q[(a + 1) + i - 1] /\ (a + 1) + i - 1 = a + i
      BY <2>2, <2>3, <3>1
    <3> QED BY <3>2
  <2> QED BY <2>2, <2>4, <2>5
<1> HIDE DEF t
<1>4. /\ m \in Seq(W) /\ Len(m) = d + (n - a)
      /\ \A i \in 1..(d + (n - a)) : m[i] = IF i <= d THEN dst[i] ELSE t[i - d]
  <2> DEFINE b == Len(t)
  <2>1. /\ m \in Seq(W) /\ Len(m) = Len(dst) + b
        /\ \A i \in 1..(Len(dst) + b) : m[i] = IF i <= Len(dst) THEN dst[i] ELSE t[i - Len(dst)]
    BY <1>2, <1>3, ConcatProperties
  <2>2. b = n - a
    BY <1>3
  <2> HIDE DEF b
  <2> QED BY <2>1, <2>2 DEF d
<1>5. \A i \in 1..d : m[i] = dst[i]
  BY <1>1, <1>4
<1>6. \A i \in 1..(n - a) : m[d + i] = q[a + i]
  <2> SUFFICES ASSUME NEW i \in 1..(n - a) PROVE m[d + i] = q[a + i]
    OBVIOUS
  <2>1. d + i \in 1..(d + (n - a)) /\ ~(d + i <= d) /\ (d + i) - d = i
    BY <1>1
  <2> QED BY <1>3, <1>4, <2>1
<1>7. Under(m, dst)
  <2>1. d <= Len(m)
    BY <1>1, <1>4
  <2>2. \A i \in 1..Len(dst) : dst[i] = m[i]
    BY <1>5 DEF d
  <2> QED BY <1>4, <2>1, <2>2, PathUnder DEF d
<1>8. IsPut(m, q, src, dst)
  BY <1>4, <1>5, <1>6 DEF IsPut, d, a, n
<1> QED BY <1>4, <1>7, <1>8 DEF m

(* Moving it back ends where it came from.                                 *)
LEMMA PutBack ==
    ASSUME NEW W, NEW q \in Seq(W), NEW src \in Seq(W), NEW dst \in Seq(W), Under(q, src)
    PROVE  Put(Put(q, src, dst), dst, src) = q
<1> DEFINE m == Put(q, src, dst)
           o == Put(m, dst, src)
           a == Len(src)
           n == Len(q)
           d == Len(dst)
<1>1. /\ m \in Seq(W) /\ Under(m, dst) /\ Len(m) = d + (n - a)
      /\ \A i \in 1..(n - a) : m[d + i] = q[a + i]
  <2>1. m \in Seq(W) /\ Under(m, dst) /\ IsPut(m, q, src, dst)
    BY PutIs
  <2> HIDE DEF m
  <2> QED BY <2>1 DEF IsPut
<1> HIDE DEF m
<1>2. /\ o \in Seq(W) /\ Len(o) = a + (Len(m) - d)
      /\ \A i \in 1..a : o[i] = src[i]
      /\ \A i \in 1..(Len(m) - d) : o[a + i] = m[d + i]
  <2>1. o \in Seq(W) /\ IsPut(o, m, dst, src)
    BY <1>1, PutIs
  <2> HIDE DEF o
  <2> QED BY <2>1 DEF IsPut
<1>3. /\ a \in Nat /\ n \in Nat /\ d \in Nat /\ a <= n
      /\ \A i \in 1..a : src[i] = q[i]
  BY LenProperties, PathUnder
<1> HIDE DEF o, a, n, d
<1>4. Len(o) = n /\ Len(m) - d = n - a
  BY <1>1, <1>2, <1>3
<1>5. ASSUME NEW i \in 1..n PROVE o[i] = q[i]
  <2>1. CASE i <= a
    BY <1>2, <1>3, <2>1
  <2>2. CASE i > a
    <3>1. i - a \in 1..(n - a) /\ a + (i - a) = i
      BY <1>3, <2>2
    <3> QED BY <1>1, <1>2, <1>4, <3>1
  <2> QED BY <1>3, <2>1, <2>2
<1>6. o = q
  <2>1. Len(o) = Len(q) /\ \A i \in 1..Len(o) : o[i] = q[i]
    BY <1>4, <1>5 DEF n
  <2> QED BY <1>2, <2>1, SeqEqual
<1> QED BY <1>6 DEF o, m

(* What a rename makes of an object with the paths D and the values V.     *)
IsRenamed(out, obj, src, dst, D, V, W) ==
    \/ out = <<>>
    \/ out = obj /\ \A p \in D : ~Under(p, src)
    \/ /\ out \in [DOMAIN out -> V] /\ DOMAIN out \subseteq Seq(W)
       /\ \A p \in DOMAIN out : Under(p, dst) \/ (p \in D /\ ~Under(p, src) /\ out[p] = obj[p])
       /\ \A q \in D : Under(q, src) => \E p \in DOMAIN out : out[p] = obj[q]
       /\ \A q \in D : ~Under(q, src) /\ ~Under(q, dst) => q \in DOMAIN out /\ out[q] = obj[q]

(* It moves what is under src, keeps what is under neither, and drops what *)
(* was under dst (migrate.py).                                             *)
LEMMA RenameIs ==
    ASSUME NEW W, NEW src \in Seq(W), NEW dst \in Seq(W), NEW D \in SUBSET Seq(W), NEW V, NEW obj \in [D -> V]
    PROVE  IsRenamed(Rename(obj, src, dst), obj, src, dst, D, V, W)
<1> DEFINE moved == LeavesUnder(obj, src)
           kept == [p \in DOMAIN obj \ moved |-> obj[p]]
           dom == (DOMAIN kept \ LeavesUnder(kept, dst)) \cup {dst \o SubSeq(q, Len(src) + 1, Len(q)) : q \in moved}
           new == [p \in dom |-> IF Under(p, dst) THEN obj[src \o SubSeq(p, Len(dst) + 1, Len(p))] ELSE kept[p]]
           out == Rename(obj, src, dst)
<1>1. DOMAIN obj = D /\ moved = {p \in D : Under(p, src)}
  BY DEF LeavesUnder
<1>2. \/ out = obj /\ moved = {}
      \/ out = <<>>
      \/ out = new
  BY DEF Rename
<1> HIDE DEF moved
<1>3. DOMAIN kept = D \ moved /\ \A p \in D \ moved : kept[p] = obj[p]
  BY <1>1
<1> HIDE DEF kept
<1>4. LeavesUnder(kept, dst) = {p \in D \ moved : Under(p, dst)}
  BY <1>3 DEF LeavesUnder
<1>5. dom = {p \in D : ~Under(p, src) /\ ~Under(p, dst)} \cup {Put(q, src, dst) : q \in moved}
  BY <1>1, <1>3, <1>4 DEF Put
<1>6. DOMAIN new = dom /\ \A p \in dom : new[p] = IF Under(p, dst) THEN obj[Put(p, dst, src)] ELSE kept[p]
  BY DEF Put
<1> HIDE DEF new, dom
<1>7. ASSUME NEW q \in moved
      PROVE  LET m == Put(q, src, dst) IN q \in D /\ m \in Seq(W) /\ m \in dom /\ Under(m, dst) /\ new[m] = obj[q]
  <2> DEFINE m == Put(q, src, dst)
  <2>1. q \in D /\ q \in Seq(W) /\ Under(q, src)
    BY <1>1
  <2>2. m \in Seq(W) /\ Under(m, dst) /\ Put(m, dst, src) = q
    BY <2>1, PutIs, PutBack
  <2>3. m \in dom
    BY <1>5
  <2> HIDE DEF m
  <2>4. new[m] = obj[q]
    BY <1>6, <2>2, <2>3
  <2> QED BY <2>1, <2>2, <2>3, <2>4 DEF m
<1>8. ASSUME NEW p \in dom
      PROVE  /\ p \in Seq(W) /\ new[p] \in V
             /\ Under(p, dst) \/ (p \in D /\ ~Under(p, src) /\ new[p] = obj[p])
  <2>1. CASE p \in D /\ ~Under(p, src) /\ ~Under(p, dst)
    BY <1>1, <1>3, <1>6, <2>1
  <2>2. ASSUME NEW q \in moved, p = Put(q, src, dst)
        PROVE  p \in Seq(W) /\ new[p] \in V /\ Under(p, dst)
    BY <1>7, <2>2
  <2> QED BY <1>5, <2>1, <2>2
<1>9. new \in [DOMAIN new -> V]
  <2>1. \A p \in dom : new[p] \in V
    BY <1>8
  <2>2. new = [p \in dom |-> new[p]]
    BY <1>6 DEF new
  <2> QED BY <1>6, <2>1, <2>2
<1>10. \A q \in D : Under(q, src) => \E p \in DOMAIN new : new[p] = obj[q]
  BY <1>1, <1>6, <1>7
<1>11. \A q \in D : ~Under(q, src) /\ ~Under(q, dst) => q \in DOMAIN new /\ new[q] = obj[q]
  BY <1>1, <1>3, <1>5, <1>6
<1>12. /\ DOMAIN new \subseteq Seq(W)
       /\ \A p \in DOMAIN new : Under(p, dst) \/ (p \in D /\ ~Under(p, src) /\ new[p] = obj[p])
  BY <1>6, <1>8
<1>13. IsRenamed(new, obj, src, dst, D, V, W)
  BY <1>9, <1>10, <1>11, <1>12 DEF IsRenamed
<1>14. moved = {} => IsRenamed(obj, obj, src, dst, D, V, W)
  BY <1>1 DEF IsRenamed
<1>15. IsRenamed(<<>>, obj, src, dst, D, V, W)
  BY DEF IsRenamed
<1> HIDE DEF out
<1>16. IsRenamed(out, obj, src, dst, D, V, W)
  BY <1>2, <1>13, <1>14, <1>15
<1> QED BY <1>16 DEF out

(* An object of the cluster: its paths are words, none leads through       *)
(* another, and it has a version.                                          *)
IsObject(live, W, V) ==
    \E D \in SUBSET Seq(W) : /\ live \in [D -> V] /\ <<"apiVersion">> \in D
                             /\ \A p, q \in D : ~IsStrictPrefix(p, q)

(* What is moved is not the version.                                       *)
AreRenames(renames, W) ==
    /\ renames \in Seq([src : Seq(W), dst : Seq(W)])
    /\ \A i \in DOMAIN renames : ~Under(<<"apiVersion">>, renames[i].src) /\ ~Under(<<"apiVersion">>, renames[i].dst)

(* The objects there can be, and the error.                                *)
Objects(W, V) == {<<>>} \cup UNION {[D -> V] : D \in SUBSET Seq(W)}

(* The fields are moved to different places, where nothing is.             *)
Free(live, renames) ==
    \A i, j \in DOMAIN renames : /\ LeavesUnder(live, renames[i].dst) = {}
                                 /\ i # j => ~Under(renames[i].dst, renames[j].dst)

(* What holds of the object after its first k renames: this is the         *)
(* inductive invariant of the migration's loop.                            *)
Migrated(live, to, renames, k, o) ==
    o # <<>> =>
        /\ <<"apiVersion">> \in DOMAIN o /\ o[<<"apiVersion">>] = to
        /\ \A p \in DOMAIN o : p \in DOMAIN live \/ \E j \in 1..k : Under(p, renames[j].dst)
        /\ Free(live, renames) => \A p \in DOMAIN live \ {<<"apiVersion">>} : \E q \in DOMAIN o : o[q] = live[p]

(* A rename leaves an object, or the error.                                *)
LEMMA RenameTyped ==
    ASSUME NEW W, NEW V, NEW src \in Seq(W), NEW dst \in Seq(W), NEW o \in Objects(W, V), o # <<>>
    PROVE  Rename(o, src, dst) \in Objects(W, V)
<1>1. PICK D \in SUBSET Seq(W) : o \in [D -> V]
  BY DEF Objects
<1> DEFINE out == Rename(o, src, dst)
<1>2. out = <<>> \/ out = o \/ (out \in [DOMAIN out -> V] /\ DOMAIN out \subseteq Seq(W))
  <2>1. IsRenamed(out, o, src, dst, D, V, W)
    BY <1>1, RenameIs
  <2> HIDE DEF out
  <2> QED BY <2>1 DEF IsRenamed
<1> HIDE DEF out
<1>3. out \in Objects(W, V)
  BY <1>2 DEF Objects
<1> QED BY <1>3 DEF out

(* The object after each of its renames.                                   *)
LEMMA RenamedIs ==
    ASSUME NEW W, NEW V, NEW live, IsObject(live, W, V), NEW to \in V, NEW renames, AreRenames(renames, W)
    PROVE  LET o == Renamed(live, to, renames) IN
           /\ o[0] = [live EXCEPT ![<<"apiVersion">>] = to]
           /\ \A k \in 0..Len(renames) : o[k] \in Objects(W, V)
           /\ \A k \in 1..Len(renames) : o[k] = IF o[k - 1] = <<>> THEN <<>> ELSE Rename(o[k - 1], renames[k].src, renames[k].dst)
<1> DEFINE n == Len(renames)
           S == Objects(W, V)
           start == [live EXCEPT ![<<"apiVersion">>] = to]
           Next1(k, x) == IF x = <<>> THEN <<>> ELSE Rename(x, renames[k].src, renames[k].dst)
           next == [k \in 1..n |-> [x \in S |-> Next1(k, x)]]
           By(r) == r = [k \in 0..n |-> CASE k = 0 -> start
                                          [] k # 0 /\ r[k - 1] = <<>> -> <<>>
                                          [] OTHER -> Rename(r[k - 1], renames[k].src, renames[k].dst)]
<1>1. n \in Nat /\ \A k \in 1..n : renames[k].src \in Seq(W) /\ renames[k].dst \in Seq(W)
  <2>1. renames \in Seq([src : Seq(W), dst : Seq(W)])
    BY DEF AreRenames
  <2>2. n \in Nat /\ \A k \in 1..n : renames[k] \in [src : Seq(W), dst : Seq(W)]
    BY <2>1, LenProperties, ElementOfSeq
  <2> QED BY <2>2
<1>2. start \in S
  <2>1. PICK D \in SUBSET Seq(W) : live \in [D -> V] /\ <<"apiVersion">> \in D
    BY DEF IsObject
  <2>2. start \in [D -> V]
    BY <2>1
  <2> HIDE DEF start
  <2> QED BY <2>2 DEF Objects
<1>3. ASSUME NEW k \in 1..n, NEW x \in S PROVE Next1(k, x) \in S
  <2>1. <<>> \in S
    BY DEF Objects
  <2> HIDE DEF S
  <2>2. CASE x = <<>>
    BY <2>1, <2>2
  <2>3. CASE x # <<>>
    <3>1. Rename(x, renames[k].src, renames[k].dst) \in S
      BY <1>1, <2>3, RenameTyped DEF S
    <3> QED BY <2>3, <3>1
  <2> QED BY <2>2, <2>3
<1> HIDE DEF n, S, start
<1>4. next \in Moves(n, S)
  <2> HIDE DEF Next1
  <2> QED BY <1>3 DEF Moves
<1>5. PICK r \in [0..n -> S] : r[0] = start /\ \A k \in 1..n : r[k] = next[k][r[k - 1]]
  <2> HIDE DEF next
  <2>1. HasHistory(n, S, start, next)
    BY <1>1, <1>2, <1>4, Iterates
  <2> QED BY <2>1 DEF HasHistory
<1>6. ASSUME NEW k \in 1..n PROVE r[k] = Next1(k, r[k - 1])
  <2> HIDE DEF Next1
  <2>1. r[k - 1] \in S
    BY <1>1
  <2> QED BY <1>5, <2>1
<1>7. By(r)
  <2>1. ASSUME NEW k \in 0..n
        PROVE  r[k] = CASE k = 0 -> start
                        [] k # 0 /\ r[k - 1] = <<>> -> <<>>
                        [] OTHER -> Rename(r[k - 1], renames[k].src, renames[k].dst)
    <3>1. CASE k = 0
      BY <1>5, <3>1
    <3>2. CASE k # 0
      <4>1. k \in 1..n
        BY <1>1, <3>2
      <4> QED BY <1>6, <3>2, <4>1
    <3> QED BY <3>1, <3>2
  <2>2. r = [k \in 0..n |-> r[k]]
    BY <1>5
  <2> QED BY <2>1, <2>2
<1>8. Renamed(live, to, renames) = CHOOSE x : By(x)
  BY DEF Renamed, n, start
<1> DEFINE o == Renamed(live, to, renames)
<1>9. By(o)
  BY <1>7, <1>8
<1> HIDE DEF o
<1>10. o[0] = start /\ \A k \in 1..n : o[k] = Next1(k, o[k - 1])
  <2>1. 0 \in 0..n /\ \A k \in 1..n : k \in 0..n /\ k # 0
    BY <1>1
  <2>2. o[0] = start
    BY <1>9, <2>1
  <2>3. ASSUME NEW k \in 1..n PROVE o[k] = Next1(k, o[k - 1])
    <3>1. o[k] = CASE k = 0 -> start
                   [] k # 0 /\ o[k - 1] = <<>> -> <<>>
                   [] OTHER -> Rename(o[k - 1], renames[k].src, renames[k].dst)
      BY <1>9, <2>1
    <3> QED BY <2>1, <3>1
  <2> QED BY <2>2, <2>3
<1> HIDE DEF By, Next1
<1> DEFINE bad == {k \in 0..n : o[k] \notin S}
<1>11. bad = {}
  <2>1. SUFFICES ASSUME bad # {} PROVE FALSE
    OBVIOUS
  <2> DEFINE m == Min(bad)
  <2>2. m \in bad /\ \A k \in bad : m <= k
    <3>1. bad \subseteq Nat
      BY <1>1
    <3> QED BY <2>1, <3>1, MinIs
  <2> HIDE DEF m
  <2>3. m # 0
    BY <1>2, <1>10, <2>2
  <2>4. m \in 1..n /\ m - 1 \in 0..n /\ m - 1 \notin bad
    BY <1>1, <2>2, <2>3
  <2>5. o[m] \in S
    BY <1>3, <1>10, <2>4
  <2> QED BY <2>2, <2>5
<1>12. \A k \in 0..n : o[k] \in S
  BY <1>11
<1> QED BY <1>10, <1>12 DEF o, S, n, start, Next1

(* The loop keeps it.                                                      *)
LEMMA MigratedStep ==
    ASSUME NEW W, NEW V, NEW live, IsObject(live, W, V), NEW to, NEW renames, AreRenames(renames, W), NEW k \in 1..Len(renames),
           NEW o \in Objects(W, V), o # <<>>, Migrated(live, to, renames, k - 1, o)
    PROVE  Migrated(live, to, renames, k, Rename(o, renames[k].src, renames[k].dst))
<1> DEFINE src == renames[k].src
           dst == renames[k].dst
           out == Rename(o, src, dst)
           v == <<"apiVersion">>
<1>1. PICK D \in SUBSET Seq(W) : o \in [D -> V]
  BY DEF Objects
<1>2. PICK L \in SUBSET Seq(W) : live \in [L -> V] /\ v \in L
  BY DEF IsObject
<1>3. /\ DOMAIN renames = 1..Len(renames) /\ Len(renames) \in Nat
      /\ \A j \in 1..Len(renames) : /\ renames[j].src \in Seq(W) /\ renames[j].dst \in Seq(W)
                                    /\ ~Under(v, renames[j].src) /\ ~Under(v, renames[j].dst)
  <2>1. renames \in Seq([src : Seq(W), dst : Seq(W)])
    BY DEF AreRenames
  <2>2. /\ Len(renames) \in Nat /\ DOMAIN renames = 1..Len(renames)
        /\ \A j \in 1..Len(renames) : renames[j] \in [src : Seq(W), dst : Seq(W)]
    BY <2>1, LenProperties, ElementOfSeq
  <2>3. \A j \in 1..Len(renames) : ~Under(v, renames[j].src) /\ ~Under(v, renames[j].dst)
    <3> HIDE DEF v
    <3> QED BY <2>2 DEF AreRenames, v
  <2> QED BY <2>2, <2>3
<1> HIDE DEF v
<1>4. /\ v \in DOMAIN o /\ o[v] = to
      /\ \A p \in DOMAIN o : p \in DOMAIN live \/ \E j \in 1..(k - 1) : Under(p, renames[j].dst)
      /\ Free(live, renames) => \A p \in DOMAIN live \ {v} : \E q \in DOMAIN o : o[q] = live[p]
  BY DEF Migrated, v
<1>5. k \in Nat /\ 1..(k - 1) \subseteq 1..k /\ k \in 1..k /\ \A j \in 1..(k - 1) : j # k /\ j \in 1..Len(renames)
  BY <1>3
<1>6. \/ out = <<>>
      \/ out = o /\ \A p \in D : ~Under(p, src)
      \/ /\ out \in [DOMAIN out -> V] /\ DOMAIN out \subseteq Seq(W)
         /\ \A p \in DOMAIN out : Under(p, dst) \/ (p \in D /\ ~Under(p, src) /\ out[p] = o[p])
         /\ \A q \in D : Under(q, src) => \E p \in DOMAIN out : out[p] = o[q]
         /\ \A q \in D : ~Under(q, src) /\ ~Under(q, dst) => q \in DOMAIN out /\ out[q] = o[q]
  <2>1. src \in Seq(W) /\ dst \in Seq(W)
    BY <1>3
  <2> HIDE DEF src, dst
  <2>2. IsRenamed(out, o, src, dst, D, V, W)
    BY <1>1, <2>1, RenameIs
  <2> HIDE DEF out
  <2> QED BY <2>2 DEF IsRenamed
<1>7. \A j \in 1..Len(renames) : renames[j].dst \in Seq(W)
  BY <1>3
<1>8. ~Under(v, src) /\ ~Under(v, dst)
  BY <1>3
<1>9. dst = renames[k].dst /\ dst \in Seq(W)
  BY <1>3
<1> HIDE DEF out, src, dst
<1>10. CASE out = <<>>
  BY <1>10 DEF Migrated, out, src, dst
<1>11. CASE out = o
  <2>1. Migrated(live, to, renames, k, o)
    BY <1>4, <1>5 DEF Migrated, v
  <2> QED BY <1>11, <2>1 DEF out, src, dst
<1>12. ASSUME /\ \A p \in DOMAIN out : Under(p, dst) \/ (p \in D /\ ~Under(p, src) /\ out[p] = o[p])
              /\ \A q \in D : Under(q, src) => \E p \in DOMAIN out : out[p] = o[q]
              /\ \A q \in D : ~Under(q, src) /\ ~Under(q, dst) => q \in DOMAIN out /\ out[q] = o[q]
       PROVE  Migrated(live, to, renames, k, out)
  <2>1. v \in DOMAIN out /\ out[v] = to
    BY <1>1, <1>4, <1>8, <1>12
  <2>2. ASSUME NEW p \in DOMAIN out PROVE p \in DOMAIN live \/ \E j \in 1..k : Under(p, renames[j].dst)
    <3>1. CASE Under(p, dst)
      BY <1>5, <1>9, <3>1
    <3>2. CASE p \in D
      BY <1>1, <1>4, <1>5, <3>2
    <3> QED BY <1>12, <3>1, <3>2
  <2>3. ASSUME Free(live, renames), NEW p \in DOMAIN live \ {v} PROVE \E q \in DOMAIN out : out[q] = live[p]
    <3>1. PICK q \in D : o[q] = live[p]
      BY <1>1, <1>4, <2>3
    <3>2. ~Under(q, dst)
      <4>1. SUFFICES ASSUME Under(q, dst) PROVE FALSE
        OBVIOUS
      <4>2. CASE q \in DOMAIN live
        <5>1. LeavesUnder(live, renames[k].dst) = {}
          BY <1>3, <2>3 DEF Free
        <5> QED BY <1>9, <4>1, <4>2, <5>1 DEF LeavesUnder
      <4>3. ASSUME NEW j \in 1..(k - 1), Under(q, renames[j].dst) PROVE FALSE
        <5>1. j \in DOMAIN renames /\ k \in DOMAIN renames /\ j # k
          BY <1>3, <1>5
        <5>2. ~Under(renames[j].dst, renames[k].dst) /\ ~Under(renames[k].dst, renames[j].dst)
          BY <2>3, <5>1 DEF Free
        <5>3. q \in Seq(W) /\ renames[j].dst \in Seq(W)
          BY <1>5, <1>7
        <5> QED BY <1>9, <4>1, <4>3, <5>2, <5>3, PathsCompare
      <4> QED BY <1>1, <1>4, <4>2, <4>3
    <3> QED BY <1>12, <3>1, <3>2
  <2> QED BY <2>1, <2>2, <2>3 DEF Migrated, v
<1>13. Migrated(live, to, renames, k, out)
  BY <1>6, <1>10, <1>11, <1>12 DEF out, src, dst
<1> QED BY <1>13 DEF out, src, dst

(* A migration with any number of renames is guarded (migrate.py).         *)
LEMMA MigrationHolds ==
    ASSUME NEW W, NEW V, NEW live, IsObject(live, W, V), NEW from, NEW to \in V, NEW renames, AreRenames(renames, W)
    PROVE  MigrationIsGuarded(live, from, to, renames, PlanMigration(live, from, to, renames))
<1> DEFINE n == Len(renames)
           o == Renamed(live, to, renames)
           v == <<"apiVersion">>
           bad == {k \in 0..n : ~Migrated(live, to, renames, k, o[k])}
           new == BuildMigratedObject(live, to, renames)
           out == PlanMigration(live, from, to, renames)
           allowed == {v} \cup {r.src : r \in ToSet(renames)} \cup {r.dst : r \in ToSet(renames)}
<1>1. n \in Nat /\ DOMAIN renames = 1..n
  <2>1. renames \in Seq([src : Seq(W), dst : Seq(W)])
    BY DEF AreRenames
  <2> QED BY <2>1, LenProperties
<1>2. /\ o[0] = [live EXCEPT ![v] = to]
      /\ \A k \in 0..n : o[k] \in Objects(W, V)
      /\ \A k \in 1..n : o[k] = IF o[k - 1] = <<>> THEN <<>> ELSE Rename(o[k - 1], renames[k].src, renames[k].dst)
  BY RenamedIs
<1> HIDE DEF o, v
<1>3. PICK L \in SUBSET Seq(W) : live \in [L -> V] /\ v \in L /\ \A p, q \in L : ~IsStrictPrefix(p, q)
  BY DEF IsObject, v
<1>4. Migrated(live, to, renames, 0, o[0])
  <2>1. /\ DOMAIN o[0] = L /\ o[0][v] = to /\ \A p \in L \ {v} : o[0][p] = live[p]
    BY <1>2, <1>3
  <2> QED BY <1>3, <2>1 DEF Migrated, v
<1>5. bad = {}
  <2>1. SUFFICES ASSUME bad # {} PROVE FALSE
    OBVIOUS
  <2> DEFINE m == Min(bad)
  <2>2. m \in bad /\ \A k \in bad : m <= k
    <3>1. bad \subseteq Nat
      BY <1>1
    <3> QED BY <2>1, <3>1, MinIs
  <2> HIDE DEF m
  <2>3. m # 0
    BY <1>4, <2>2
  <2>4. m \in 1..n /\ m - 1 \in 0..n /\ m - 1 \notin bad
    BY <1>1, <2>2, <2>3
  <2>5. o[m - 1] \in Objects(W, V) /\ Migrated(live, to, renames, m - 1, o[m - 1])
    BY <1>2, <2>4
  <2> HIDE DEF bad
  <2>6. CASE o[m - 1] = <<>>
    <3>1. o[m] = <<>>
      BY <1>2, <2>4, <2>6
    <3>2. Migrated(live, to, renames, m, o[m])
      BY <3>1 DEF Migrated
    <3> QED BY <2>2, <3>2 DEF bad
  <2>7. CASE o[m - 1] # <<>>
    <3>1. Migrated(live, to, renames, m, o[m])
      BY <1>2, <2>4, <2>5, <2>7, MigratedStep
    <3> QED BY <2>2, <3>1 DEF bad
  <2> QED BY <2>6, <2>7
<1>6. new = o[n] /\ Migrated(live, to, renames, n, new)
  <2>1. n \in 0..n
    BY <1>1
  <2> QED BY <1>5, <2>1 DEF BuildMigratedObject, o
<1> HIDE DEF new, bad, n
<1>7. \/ out = <<>>
      \/ /\ out = <<new>> /\ live[v] = from /\ new # <<>>
         /\ \A p \in DiffPaths(live, new) : \E a \in allowed : Under(p, a)
  BY DEF PlanMigration, new, v
<1> HIDE DEF out, allowed
<1>8. CASE out = <<>>
  <2>1. ToSet(out) = {}
    BY <1>8 DEF ToSet
  <2> QED BY <2>1 DEF MigrationIsGuarded, out
<1>9. CASE /\ out = <<new>> /\ live[v] = from /\ new # <<>>
           /\ \A p \in DiffPaths(live, new) : \E a \in allowed : Under(p, a)
  <2>1. ToSet(out) = {new}
    BY <1>9 DEF ToSet
  <2>2. /\ v \in DOMAIN new /\ new[v] = to
        /\ \A p \in DOMAIN new : p \in DOMAIN live \/ \E j \in 1..n : Under(p, renames[j].dst)
        /\ Free(live, renames) => \A p \in DOMAIN live \ {v} : \E q \in DOMAIN new : new[q] = live[p]
    BY <1>6, <1>9 DEF Migrated, v
  <2>3. ASSUME NEW p \in DOMAIN live \cup DOMAIN new, p # v, \A r \in ToSet(renames) : ~Under(p, r.src) /\ ~Under(p, r.dst)
        PROVE  p \in DOMAIN live /\ p \in DOMAIN new /\ live[p] = new[p]
    <3>1. p \in DOMAIN live
      BY <1>1, <2>2, <2>3 DEF ToSet
    <3>2. ~Under(p, v)
      BY <1>3, <2>3, <3>1 DEF Under, IsStrictPrefix
    <3>3. p \notin DiffPaths(live, new)
      BY <1>9, <2>3, <3>2 DEF allowed
    <3> QED BY <2>3, <3>3 DEF DiffPaths
  <2>4. ASSUME \A i, j \in DOMAIN renames : /\ LeavesUnder(live, renames[i].dst) = {}
                                            /\ i # j => ~Under(renames[i].dst, renames[j].dst)
        PROVE  \A p \in DOMAIN live \ {v} : \E q \in DOMAIN new : new[q] = live[p]
    BY <2>2, <2>4 DEF Free
  <2>5. MigrationIsGuarded(live, from, to, renames, out)
    BY <1>9, <2>1, <2>2, <2>3, <2>4 DEF MigrationIsGuarded, v
  <2> QED BY <2>5 DEF out
<1> QED BY <1>7, <1>8, <1>9

-----------------------------------------------------------------------------
(* The diagnosis of an application and the endpoint (DiagnoseApp, StartRun). *)

(* The messages name one of four causes or none.                           *)
LEMMA TextIs ==
    ASSUME NEW messages
    PROVE  ClassifyText(messages) \in {"", "image_pull", "crd_schema_mismatch", "rbac", "failed_hook"}
<1> DEFINE found == {i \in DOMAIN Signatures : \E m \in messages : Signatures[i] \in m}
<1>1. DOMAIN Signatures = 1..4 /\ \A i \in 1..4 : Signatures[i] \in {"image_pull", "crd_schema_mismatch", "rbac", "failed_hook"}
  BY DEF Signatures
<1>2. found \subseteq 1..4
  BY <1>1
<1>3. ClassifyText(messages) = IF found = {} THEN "" ELSE Signatures[Min(found)]
  BY DEF ClassifyText
<1> HIDE DEF found
<1>4. found # {} => Min(found) \in found
  <2>1. found \subseteq Nat
    BY <1>2
  <2> QED BY <2>1, MinIs
<1> QED BY <1>1, <1>2, <1>3, <1>4

(* What is said of an Argo CD application is witnessed.                    *)
LEMMA ArgoDiagnosed ==
    ASSUME NEW R, NEW app, app.kind = "Application", app.resources \in Seq(R)
    PROVE  DiagnosisIsWitnessed(app, DiagnoseArgo(app))
<1> DEFINE bad == {i \in DOMAIN app.resources : Broken(app.resources[i]) \/ app.resources[i].sync = "OutOfSync"}
           broken == {i \in bad : Broken(app.resources[i])}
           read == IF broken = {} THEN bad ELSE {i \in bad : i <= Min(broken)}
           text == ClassifyText(app.messages \cup {app.resources[i].message : i \in read})
           out == DiagnoseArgo(app)
<1>1. /\ out.cause = CASE text # "" -> text
                       [] text = "" /\ app.health = "Healthy" /\ app.sync = "Synced" -> "healthy"
                       [] text = "" /\ app.sync = "OutOfSync" -> "out_of_sync_drift"
                       [] text = "" /\ app.sync # "OutOfSync" /\ app.health = "Progressing" -> "progressing"
                       [] OTHER -> "unknown"
      /\ out.first = CASE bad = {} -> <<>>
                       [] bad # {} /\ broken = {} -> <<app.resources[Min(bad)]>>
                       [] OTHER -> <<app.resources[Min(broken)]>>
  BY DEF DiagnoseArgo
<1>2. text \in {"", "image_pull", "crd_schema_mismatch", "rbac", "failed_hook"}
  BY TextIs
<1> HIDE DEF out, text
<1>3. /\ out.cause = "healthy" => app.health = "Healthy" /\ app.sync = "Synced"
      /\ out.cause = "out_of_sync_drift" => app.sync = "OutOfSync"
  BY <1>1, <1>2
<1>4. /\ bad # {} => Min(bad) \in bad
      /\ broken # {} => Min(broken) \in broken
      /\ broken \subseteq bad
  <2>1. bad \subseteq Nat /\ broken \subseteq Nat /\ broken \subseteq bad
    BY LenProperties
  <2> HIDE DEF bad, broken
  <2> QED BY <2>1, MinIs
<1>5. ASSUME NEW r \in ToSet(out.first) PROVE r \in ToSet(app.resources) /\ (Broken(r) \/ r.sync = "OutOfSync")
  <2>1. PICK i \in bad : r = app.resources[i]
    <3>1. out.first = <<>> \/ \E i \in bad : out.first = <<app.resources[i]>>
      <4> HIDE DEF bad, broken
      <4> QED BY <1>1, <1>4
    <3> HIDE DEF bad
    <3> QED BY <1>5, <3>1 DEF ToSet
  <2> QED BY <2>1 DEF ToSet
<1>6. ASSUME NEW r \in ToSet(app.resources), Broken(r) PROVE out.first # <<>> /\ Broken(out.first[1])
  <2>1. broken # {}
    BY <1>6 DEF ToSet
  <2>2. \A i \in broken : Broken(app.resources[i])
    OBVIOUS
  <2> HIDE DEF bad, broken
  <2>3. out.first = <<app.resources[Min(broken)]>>
    BY <1>1, <1>4, <2>1
  <2> QED BY <1>4, <2>1, <2>2, <2>3
<1>7. FixFor(out.cause) = "gitops_pr" => out.cause = "out_of_sync_drift"
  BY DEF FixFor
<1>8. DiagnosisIsWitnessed(app, out)
  <2> HIDE DEF bad, broken
  <2> QED BY <1>3, <1>5, <1>6, <1>7 DEF DiagnosisIsWitnessed
<1> QED BY <1>8 DEF out

(* So is what is said of a Flux object.                                    *)
LEMMA FluxDiagnosed ==
    ASSUME NEW app, app.kind # "Application", app.health # "Healthy"
    PROVE  DiagnosisIsWitnessed(app, DiagnoseFlux(app))
<1> DEFINE text == ClassifyText(app.messages)
           out == DiagnoseFlux(app)
<1>1. out.cause = CASE text # "" -> text
                    [] text = "" /\ app.ready = "True" -> "healthy"
                    [] text = "" /\ app.ready # "True" /\ app.drift -> "out_of_sync_drift"
                    [] OTHER -> "unknown"
  BY DEF DiagnoseFlux
<1>2. text \in {"", "image_pull", "crd_schema_mismatch", "rbac", "failed_hook"}
  BY TextIs
<1> HIDE DEF out, text
<1>3. out.cause = "healthy" => app.ready = "True"
  BY <1>1, <1>2
<1>4. DiagnosisIsWitnessed(app, out)
  BY <1>3 DEF DiagnosisIsWitnessed
<1> QED BY <1>4 DEF out

(* Any application's diagnosis is witnessed (analyze.py).                  *)
LEMMA AppDiagnosed ==
    ASSUME NEW R, NEW app, app.kind = "Application" => app.resources \in Seq(R), app.kind # "Application" => app.health # "Healthy"
    PROVE  DiagnosisIsWitnessed(app, DiagnoseApp(app))
<1>1. CASE app.kind = "Application"
  BY <1>1, ArgoDiagnosed DEF DiagnoseApp
<1>2. CASE app.kind # "Application"
  BY <1>2, FluxDiagnosed DEF DiagnoseApp
<1> QED BY <1>1, <1>2

(* A cluster that could not be read gives no inputs to assess.             *)
LEMMA InputsUnread ==
    ASSUME NEW req, NEW w, req.path = "none", CollectLive(w.live, req.ask).error
    PROVE  ResilienceInputs(req, w).error \in {"bad", "failed"}
<1> DEFINE got == CollectLive(w.live, req.ask)
<1>1. ResilienceInputs(req, w).error =
          CASE ~got.error -> ""
            [] got.error /\ req.ask.namespace # <<>> /\ req.ask.allowed \cap {<<"*">>, req.ask.namespace} = {} -> "bad"
            [] OTHER -> "failed"
  BY DEF ResilienceInputs
<1> HIDE DEF got
<1>2. got.error
  BY DEF got
<1> QED BY <1>1, <1>2

(* The row that is kept of a run fits the answer.                          *)
Fits(unread, got) ==
    /\ got.row # "planning" /\ (got.code = 201 <=> got.row \in {"planned", "diagnosed", "assessed"})
    /\ got.code = 500 => got.row = "failed"
    /\ unread => got.row # "assessed" /\ ~got.drains.checked

(* An answer that the run was refused or failed.                           *)
Refused(got) ==
    got.row \in {"", "failed"} /\ got.code # 201 /\ (got.code = 500 => got.row = "failed") /\ got.drains.checked = FALSE

(* Such an answer fits its row.                                            *)
LEMMA RefusalFits == \A unread, got : Refused(got) => Fits(unread, got)
  BY DEF Fits, Refused

(* The refusals of the endpoint are such answers.                          *)
LEMMA Refusals ==
    Refused(Reply(404, "")) /\ Refused(Reply(422, "")) /\ Refused(Reply(500, "failed"))
    /\ Refused(Reply(422, "failed")) /\ Refused(Reply(400, "failed"))
<1>1. Refused(Reply(404, ""))
  BY DEF Reply, Refused
<1>2. Refused(Reply(422, ""))
  BY DEF Reply, Refused
<1>3. Refused(Reply(500, "failed"))
  BY DEF Reply, Refused
<1>4. Refused(Reply(422, "failed"))
  BY DEF Reply, Refused
<1>5. Refused(Reply(400, "failed"))
  BY DEF Reply, Refused
<1> QED BY <1>1, <1>2, <1>3, <1>4, <1>5

(* Every request for a pilot is settled (start_run, pilots.py).            *)
LEMMA RunSettled ==
    ASSUME NEW req, NEW w
    PROVE  RunsAreSettled(req, w, StartRun(req, w))
<1> DEFINE in == ResilienceInputs(req, w)
           unread == req.path = "none" /\ CollectLive(w.live, req.ask).error
           Ok(got) == Fits(unread, got)
           r404 == Reply(404, "")
           r422 == Reply(422, "")
           f500 == Reply(500, "failed")
           f422 == Reply(422, "failed")
           f400 == Reply(400, "failed")
<1>1. unread => in.error \in {"bad", "failed"}
  BY InputsUnread
<1>2. Refused(r404) /\ Refused(r422) /\ Refused(f500) /\ Refused(f422) /\ Refused(f400)
  BY Refusals
<1> HIDE DEF in, unread, r404, r422, f500, f422, f400
<1>4. Ok(r404) /\ Ok(r422) /\ Ok(f500) /\ Ok(f422) /\ Ok(f400)
  BY <1>2, RefusalFits
<1>5. unread => DrainsFor(req, w).checked = FALSE
  BY <1>1 DEF DrainsFor, in
<1>6. ASSUME NEW d, unread => d.checked = FALSE PROVE Ok([Reply(201, "planned") EXCEPT !.drains = d])
  <2> DEFINE got == [Reply(201, "planned") EXCEPT !.drains = d]
  <2>1. got.code = 201 /\ got.row = "planned" /\ got.drains = d
    BY DEF Reply
  <2> HIDE DEF got
  <2>2. Ok(got)
    BY <1>6, <2>1 DEF Fits
  <2> QED BY <2>2 DEF got
<1>7. ASSUME NEW r PROVE Ok([Reply(201, "diagnosed") EXCEPT !.report = r])
  <2> DEFINE got == [Reply(201, "diagnosed") EXCEPT !.report = r]
  <2>1. got.code = 201 /\ got.row = "diagnosed" /\ got.drains = [checked |-> FALSE, findings |-> <<>>]
    BY DEF Reply
  <2>2. got.drains.checked = FALSE
    BY <2>1
  <2> HIDE DEF got
  <2>3. Ok(got)
    BY <2>1, <2>2 DEF Fits
  <2> QED BY <2>3 DEF got
<1>8. ASSUME NEW r, ~unread PROVE Ok([Reply(201, "assessed") EXCEPT !.report = r])
  <2> DEFINE got == [Reply(201, "assessed") EXCEPT !.report = r]
  <2>1. got.code = 201 /\ got.row = "assessed"
    BY DEF Reply
  <2> HIDE DEF got
  <2>2. Ok(got)
    BY <1>8, <2>1 DEF Fits
  <2> QED BY <2>2 DEF got
<1>9. Ok(RunUpgrade(req, w))
  <2>1. Ok([Reply(201, "planned") EXCEPT !.drains = DrainsFor(req, w)])
    BY <1>5, <1>6
  <2>2. RunUpgrade(req, w) \in {r422, f500, [Reply(201, "planned") EXCEPT !.drains = DrainsFor(req, w)]}
    BY DEF RunUpgrade, r422, f500
  <2> HIDE DEF Ok
  <2> QED BY <1>4, <2>1, <2>2
<1>10. Ok(RunReconcile(req, w))
  BY <1>7 DEF RunReconcile
<1>11. Ok(RunResilience(req, w))
  <2> DEFINE done == [Reply(201, "assessed") EXCEPT !.report = <<AssessInputs(in).score>>]
  <2>1. RunResilience(req, w) = CASE in.error = "bad"    -> IF req.path = "none" THEN f422 ELSE f400
                                  [] in.error = "failed" -> f500
                                  [] OTHER               -> done
    BY DEF RunResilience, in, f422, f400, f500
  <2>2. ~unread => Ok(done)
    BY <1>8
  <2> HIDE DEF done, Ok
  <2>3. in.error \notin {"bad", "failed"} => Ok(done)
    BY <1>1, <2>2
  <2> QED BY <1>4, <2>1, <2>3
<1>12. StartRun(req, w) \in {r404, r422, RunUpgrade(req, w), RunReconcile(req, w), RunResilience(req, w)}
  BY DEF StartRun, r404, r422
<1> DEFINE got == StartRun(req, w)
<1> HIDE DEF got
<1>13. Ok(got)
  <2> HIDE DEF Ok
  <2> QED BY <1>4, <1>9, <1>10, <1>11, <1>12 DEF got
<1>14. RunsAreSettled(req, w, got)
  BY <1>13 DEF RunsAreSettled, Fits, unread
<1> QED BY <1>14 DEF got

-----------------------------------------------------------------------------
(* The pilots, asked questions of any size.                                *)

(* A question about the pilots: the manifests, the cluster's objects and   *)
(* the map of deprecations are of any length, and the map names no API     *)
(* twice; a plan has any number of steps, each once, and some of them are  *)
(* done; an object has any paths and is migrated by any renames that leave *)
(* its version alone; a Flux object has no health of its own.              *)
PilotQuestion ==
    /\ question.part = "upgrade" =>
          \E D, F, G : /\ question.maps.deps \in Seq(D) /\ Apart(question.maps.deps)
                       /\ question.files \in Seq(F) /\ \A f \in F : \E E : f.docs \in Seq(E)
                       /\ question.world.docs \in Seq(G)
    /\ question.part = "plan" =>
          /\ IsFiniteSet(question.snapshot.objects) /\ IsFiniteSet(question.snapshot.operators)
          /\ Described(question.snapshot.objects)
    /\ question.part = "run" =>
          \E T : question.steps \in Seq(T) /\ IsInjective(question.steps) /\ question.done \in SUBSET T
    /\ question.part = "migration" =>
          \E W, V : IsObject(question.live, W, V) /\ question.to \in V /\ AreRenames(question.renames, W)
    /\ question.part = "app" =>
          \E R : /\ question.app.kind = "Application" => question.app.resources \in Seq(R)
                 /\ question.app.kind # "Application" => question.app.health # "Healthy"

(* The planner, the runner, the migration, the diagnosis, the endpoint and *)
(* the resilience checks, asked such a question.                           *)
UpgradesSpec == answer = <<>> /\ PilotQuestion /\ [][PilotSteps]_exchange

(* The pilots are sound: the planner finds exactly what the target         *)
(* removed, its plan is in order, a run executes only what was approved,   *)
(* in order, and nothing twice, a migration changes nothing it was not     *)
(* told to, a diagnosis is witnessed, and a pilot's row ends as its answer *)
(* said (mcp/services/upgrade/planner.py and migrate.py,                   *)
(* ui/backend/pilots/upgrade_runner.py, mcp/services/reconcile/analyze.py, *)
(* ui/backend/routers/pilots.py).  TLC asks bounded questions; here their  *)
(* size has no bound.                                                      *)
THEOREM UpgradesHold == UpgradesSpec => []UpgradesAreSound
<1> DEFINE Inv == PilotQuestion /\ UpgradesAreSound
<1>1. answer = <<>> /\ PilotQuestion => Inv
  BY DEF UpgradesAreSound, Answered
<1>2. Inv /\ [PilotSteps]_exchange => Inv'
  <2>1. SUFFICES ASSUME Inv, [PilotSteps]_exchange PROVE Inv'
    OBVIOUS
  <2>2. CASE UNCHANGED exchange
    BY <2>1, <2>2 DEF exchange, PilotQuestion, UpgradesAreSound, Answered, Out
  <2>3. CASE PlanUpgrade
    <3>1. question' = question /\ question.part = "upgrade"
      BY <2>3 DEF PlanUpgrade, Asked
    <3> PICK D, F, G : /\ question.maps.deps \in Seq(D) /\ Apart(question.maps.deps)
                       /\ question.files \in Seq(F) /\ \A f \in F : \E E : f.docs \in Seq(E)
                       /\ question.world.docs \in Seq(G)
      BY <2>1, <3>1 DEF PilotQuestion
    <3>2. RemovalsAreFound(question.target, question.maps, question.files, question.world)
      BY RemovalsFound
    <3> QED BY <2>1, <3>1, <3>2 DEF PilotQuestion, UpgradesAreSound, Answered
  <2>4. CASE OrderPlan
    <3> DEFINE report == AssessUpgrade(question.snapshot, question.target, question.maps)
    <3>1. question' = question /\ question.part = "plan" /\ Out'.report = report /\ Out'.steps = MakePlan(report)
      BY <2>4 DEF OrderPlan, Asked, Out
    <3>2. PlanIsOrdered(report, MakePlan(report))
      BY <2>1, <3>1, PlanOrdered DEF PilotQuestion
    <3> HIDE DEF report
    <3> QED BY <2>1, <3>1, <3>2 DEF PilotQuestion, UpgradesAreSound, Answered
  <2>5. CASE RunTwice
    <3> DEFINE before == [plan |-> question.plan \cup {}, individual |-> question.individual]
               more == [plan |-> question.plan \cup question.more, individual |-> question.individual]
               first == RunPlan(question.steps, before, question.does, question.done, TRUE)
               second == RunPlan(question.steps, more, question.does, first.done, question.lock)
    <3>1. question' = question /\ question.part = "run" /\ Out'.first = first /\ Out'.second = second /\ Out'.approved = more
      BY <2>5 DEF RunTwice, Asked, Out
    <3>2. before.plan \subseteq more.plan /\ before.individual \subseteq more.individual
      OBVIOUS
    <3> HIDE DEF before, more
    <3> PICK T : question.steps \in Seq(T) /\ IsInjective(question.steps) /\ question.done \in SUBSET T
      BY <2>1, <3>1 DEF PilotQuestion
    <3>3. RunsAsApproved(question.steps, more, question.does, first, second)
      BY <3>2, RunHolds
    <3> HIDE DEF first, second
    <3> QED BY <2>1, <3>1, <3>3 DEF PilotQuestion, UpgradesAreSound, Answered
  <2>6. CASE MigrateObject
    <3> DEFINE new == PlanMigration(question.live, question.from, question.to, question.renames)
    <3>1. question' = question /\ question.part = "migration" /\ Out' = new
      BY <2>6 DEF MigrateObject, Asked, Out
    <3> PICK W, V : IsObject(question.live, W, V) /\ question.to \in V /\ AreRenames(question.renames, W)
      BY <2>1, <3>1 DEF PilotQuestion
    <3>2. MigrationIsGuarded(question.live, question.from, question.to, question.renames, new)
      BY MigrationHolds
    <3> HIDE DEF new
    <3> QED BY <2>1, <3>1, <3>2 DEF PilotQuestion, UpgradesAreSound, Answered
  <2>7. CASE DiagnoseObject
    <3>1. question' = question /\ question.part = "app" /\ Out' = DiagnoseApp(question.app)
      BY <2>7 DEF DiagnoseObject, Asked, Out
    <3> PICK R : /\ question.app.kind = "Application" => question.app.resources \in Seq(R)
                 /\ question.app.kind # "Application" => question.app.health # "Healthy"
      BY <2>1, <3>1 DEF PilotQuestion
    <3>2. DiagnosisIsWitnessed(question.app, DiagnoseApp(question.app))
      BY AppDiagnosed
    <3> QED BY <2>1, <3>1, <3>2 DEF PilotQuestion, UpgradesAreSound, Answered
  <2>8. CASE RunPilot
    <3>1. question' = question /\ question.part = "pilot" /\ Out' = StartRun(question.req, question.world)
      BY <2>8 DEF RunPilot, Asked, Out
    <3>2. RunsAreSettled(question.req, question.world, StartRun(question.req, question.world))
      BY RunSettled
    <3> QED BY <2>1, <3>1, <3>2 DEF PilotQuestion, UpgradesAreSound, Answered
  <2>9. CASE AssessManifests \/ CollectObjects
    <3>1. question' = question /\ question.part \in {"resilience", "live"}
      BY <2>9 DEF AssessManifests, CollectObjects, Asked
    <3> QED BY <2>1, <3>1 DEF PilotQuestion, UpgradesAreSound, Answered
  <2> QED BY <2>1, <2>2, <2>3, <2>4, <2>5, <2>6, <2>7, <2>8, <2>9 DEF PilotSteps
<1>3. Inv => UpgradesAreSound
  OBVIOUS
<1> QED BY <1>1, <1>2, <1>3, PTL DEF UpgradesSpec
=============================================================================
