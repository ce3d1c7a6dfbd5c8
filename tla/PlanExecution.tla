---------------------------- MODULE PlanExecution ----------------------------
(***************************************************************************)
(* Multi-step plans and the destructive tools they drive: PlanStore and    *)
(* execute_step of mcp/services/plans.py over delete_pod, rollout_restart, *)
(* scale_deployment and apply_patch of mcp/k8s/wrappers.py.                *)
(*                                                                         *)
(* A caller is a thread that runs execute_step, or one of the tools        *)
(* directly, from the MCP server or the tool registry.  Every access to a  *)
(* store is atomic under that store's lock; anything may happen between    *)
(* two of them.  Both stores are in memory and are lost by a restart.      *)
(*                                                                         *)
(*   plans[p]   None, or the stored plan: its expiry and its steps' status *)
(*   drafted    the plan ids ever handed out (they are random)             *)
(*   tokens     the token store; bound[t] is the action t was minted for   *)
(*   pc[c]      where a caller is; job[c] what it was asked to do          *)
(*   held[c]    the token record it has popped and not yet checked         *)
(*   strict     require_destructive_confirmation                           *)
(* History: in strict mode did[t][a] counts the times a reached the        *)
(* cluster on token t (None: on no token); ran[p][s] counts the calls that *)
(* reported success for a step; changed and refused are the steps for      *)
(* which the cluster was changed, and those whose success was reported of  *)
(* a command that kubectl refused.                                         *)
(***************************************************************************)
EXTENDS ConfirmationTokens

CONSTANTS
    Callers, Plans,
    Steps,        \* the indices of a plan's steps
    StepAction,   \* the action of each step
    PlanTtl,      \* PLAN_TTL_SECONDS
    MaxTime,      \* bound on the clock
    MaxRestarts   \* bound on restarts

ASSUME PlanAssumption ==
    /\ None \notin Plans
    /\ StepAction \in [Steps -> Actions]
    /\ PlanTtl \in Nat
    /\ MaxTime \in Nat
    /\ MaxRestarts \in Nat

VARIABLES clock, restarts, strict, plans, drafted, tokens, bound,
          pc, job, held, did, ran, changed, refused

vars == <<clock, restarts, strict, plans, drafted, tokens, bound,
          pc, job, held, did, ran, changed, refused>>
storeVars == <<plans, drafted, tokens, bound>>
callerVars == <<pc, job, held>>
history == <<did, ran, changed, refused>>
world == <<clock, restarts, strict>>

Statuses == {"pending", "running", "done", "failed"}
Plan == [expires : Nat, status : [Steps -> Statuses]]
Job == [plan : Plans \cup {None}, step : Steps \cup {None},
        action : Actions, token : Tokens \cup {None}]
Locations == {"idle", "found", "calling", "checking", "acting",
              "done", "failed", "raised", "answering"}

Init ==
    /\ clock = 0
    /\ restarts = 0
    /\ strict \in BOOLEAN
    /\ plans = [p \in Plans |-> None]
    /\ drafted = {}
    /\ tokens = EmptyStore
    /\ bound = [t \in Tokens |-> None]
    /\ pc = [c \in Callers |-> "idle"]
    /\ job = [c \in Callers |-> None]
    /\ held = [c \in Callers |-> None]
    /\ did = [t \in Tokens \cup {None} |-> [a \in Actions |-> 0]]
    /\ ran = [p \in Plans |-> [s \in Steps |-> 0]]
    /\ changed = {}
    /\ refused = {}

(* PlanStore._purge_expired_locked; put and get run it, the others do not. *)
LivePlans ==
    [p \in Plans |->
        IF plans[p] # None /\ plans[p].expires < clock THEN None ELSE plans[p]]

-----------------------------------------------------------------------------
(* Planning and previewing.                                                *)

(* propose_remediation_plan with steps that build_plan accepts. *)
Propose(p) ==
    /\ p \notin drafted
    /\ drafted' = drafted \cup {p}
    /\ plans' = [LivePlans EXCEPT ![p] =
           [expires |-> clock + PlanTtl, status |-> [s \in Steps |-> "pending"]]]
    /\ UNCHANGED <<tokens, bound, callerVars, history, world>>

(* get_plan; also an execute_step that is refused before it claims. *)
GetPlan ==
    /\ plans' = LivePlans
    /\ UNCHANGED <<drafted, tokens, bound, callerVars, history, world>>

(* A dry run that kubectl ran to its end mints a token in strict mode,     *)
(* whether the API server accepted it or not: only a KubectlError, which   *)
(* an exit code is not, stops it, and then nothing changes.                *)
Preview(a, t) ==
    /\ strict
    /\ bound[t] = None
    /\ bound' = [bound EXCEPT ![t] = a]
    /\ tokens' = Issued(tokens, t, a, clock)
    /\ UNCHANGED <<plans, drafted, callerVars, history, world>>

-----------------------------------------------------------------------------
(* execute_step.                                                           *)

Goto(c, l) == pc' = [pc EXCEPT ![c] = l]

(* The call is over, and so are its locals. *)
Return(c) ==
    /\ Goto(c, "idle")
    /\ job' = [job EXCEPT ![c] = None]
    /\ held' = [held EXCEPT ![c] = None]

(* execute_step finds the plan and was given some token, perhaps a bad one *)
(* (None, a string nothing was minted for).                                *)
Find(c, p, s, t) ==
    /\ pc[c] = "idle"
    /\ LivePlans[p] # None
    /\ plans' = LivePlans
    /\ Goto(c, "found")
    /\ job' = [job EXCEPT ![c] =
           [plan |-> p, step |-> s, action |-> StepAction[s], token |-> t]]
    /\ UNCHANGED <<drafted, tokens, bound, held, history, world>>

Claimable(c) ==
    /\ plans[job[c].plan] # None
    /\ plans[job[c].plan].status[job[c].step] \in {"pending", "failed"}

(* The status is not looked at again when the step is claimed. *)
BugClaim(c) ==
    /\ pc[c] = "found"
    /\ plans[job[c].plan] # None
    /\ plans' = [plans EXCEPT ![job[c].plan].status[job[c].step] = "running"]
    /\ Goto(c, "calling")
    /\ UNCHANGED <<drafted, tokens, bound, job, held, history, world>>

(* claim_step lets the caller through: pending or failed, now running. *)
Claim(c) ==
    /\ pc[c] = "found"
    /\ Claimable(c)
    /\ plans' = [plans EXCEPT ![job[c].plan].status[job[c].step] = "running"]
    /\ Goto(c, "calling")
    /\ UNCHANGED <<drafted, tokens, bound, job, held, history, world>>

(* already_executed, in_progress or unclaimable. *)
TurnAway(c) ==
    /\ pc[c] = "found"
    /\ ~Claimable(c)
    /\ Return(c)
    /\ UNCHANGED <<storeVars, history, world>>

-----------------------------------------------------------------------------
(* A destructive tool called with confirm=True.                            *)

(* The tool is called directly, outside any plan. *)
Call(c, a, t) ==
    /\ pc[c] = "idle"
    /\ Goto(c, "calling")
    /\ job' = [job EXCEPT ![c] =
           [plan |-> None, step |-> None, action |-> a, token |-> t]]
    /\ UNCHANGED <<storeVars, held, history, world>>

(* The tool returns to execute_step, or to whoever called it. *)
ToolReturns(c, outcome) ==
    IF job[c].plan = None
    THEN Return(c)
    ELSE /\ Goto(c, outcome)
         /\ held' = [held EXCEPT ![c] = None]
         /\ UNCHANGED job

(* Arguments that the tool refuses, before it looks at the token: an error *)
(* result, or an exception that execute_step turns into a failed step.     *)
Invalid(c) ==
    /\ pc[c] = "calling"
    /\ \E outcome \in {"failed", "raised"} : ToolReturns(c, outcome)
    /\ UNCHANGED <<storeVars, history, world>>

(* _require_confirmation_token pops the token, whatever it was minted for; *)
(* in legacy mode no token is asked for.                                   *)
Redeem(c) ==
    /\ pc[c] = "calling"
    /\ IF strict
       THEN /\ held' = [held EXCEPT ![c] = Popped(tokens, job[c].token, clock)]
            /\ tokens' = Left(tokens, job[c].token, clock)
            /\ Goto(c, "checking")
       ELSE /\ Goto(c, "acting")
            /\ UNCHANGED <<tokens, held>>
    /\ UNCHANGED <<plans, drafted, bound, job, history, world>>

Authorise(c) ==
    /\ pc[c] = "checking"
    /\ Authorises(held[c], job[c].action, clock)
    /\ Goto(c, "acting")
    /\ held' = [held EXCEPT ![c] = None]
    /\ UNCHANGED <<storeVars, job, history, world>>

(* invalid_token, operation_mismatch, target_mismatch or expired. *)
Refuse(c) ==
    /\ pc[c] = "checking"
    /\ ~Authorises(held[c], job[c].action, clock)
    /\ ToolReturns(c, "failed")
    /\ UNCHANGED <<storeVars, history, world>>

(* The step a caller works for, if it is one of a plan. *)
StepOf(c) == IF job[c].plan = None THEN {} ELSE {<<job[c].plan, job[c].step>>}

(* kubectl changes the cluster; strict mode keeps the account of it. *)
Effect(c) ==
    /\ did' = IF strict THEN [did EXCEPT ![job[c].token][job[c].action] = @ + 1]
                        ELSE did
    /\ changed' = changed \cup StepOf(c)

(* No runner raises for an exit code: a command that kubectl refused is    *)
(* answered with success as one that it carried out.                       *)
Succeed(c) ==
    /\ pc[c] = "acting"
    /\ \/ Effect(c) /\ UNCHANGED refused
       \/ refused' = refused \cup StepOf(c) /\ UNCHANGED <<did, changed>>
    /\ ran' = IF job[c].plan = None THEN ran
              ELSE [ran EXCEPT ![job[c].plan][job[c].step] = @ + 1]
    /\ ToolReturns(c, "done")
    /\ UNCHANGED <<storeVars, world>>

(* KubectlError: the policy or a missing kubectl stopped the command, or   *)
(* it timed out, before or after it had its effect.                        *)
Fail(c) ==
    /\ pc[c] = "acting"
    /\ Effect(c) \/ UNCHANGED <<did, changed>>
    /\ ToolReturns(c, "failed")
    /\ UNCHANGED <<storeVars, ran, refused, world>>

-----------------------------------------------------------------------------
(* The end of execute_step.                                                *)

(* The outcome is stored as it is named, an exception's too. *)
BugStatusName(outcome) == outcome

(* A call that returned, whatever it returned, has done its step. *)
BugStatusAfter(outcome) == IF outcome = "raised" THEN "failed" ELSE "done"

(* The status a result leaves. *)
StatusAfter(outcome) == IF outcome = "done" THEN "done" ELSE "failed"

(* The outcome is never written back. *)
BugRecorded(c) == plans

(* update_step: a plan that has been purged is not updated. *)
Recorded(c) ==
    IF plans[job[c].plan] = None THEN plans
    ELSE [plans EXCEPT ![job[c].plan].status[job[c].step] = StatusAfter(pc[c])]

(* update_step, and for an exception the answer at once. *)
Record(c) ==
    /\ pc[c] \in {"done", "failed", "raised"}
    /\ plans' = Recorded(c)
    /\ IF pc[c] = "raised" THEN Return(c)
       ELSE Goto(c, "answering") /\ UNCHANGED <<job, held>>
    /\ UNCHANGED <<drafted, tokens, bound, history, world>>

(* The answer looks the plan up again: an AttributeError when it expired. *)
Answer(c) ==
    /\ pc[c] = "answering"
    /\ plans' = LivePlans
    /\ Return(c)
    /\ UNCHANGED <<drafted, tokens, bound, history, world>>

-----------------------------------------------------------------------------
Tick ==
    /\ clock < MaxTime
    /\ clock' = clock + 1
    /\ UNCHANGED <<restarts, strict, storeVars, callerVars, history>>

(* Both stores and every call in progress are lost. *)
Restart ==
    /\ restarts < MaxRestarts
    /\ restarts' = restarts + 1
    /\ plans' = [p \in Plans |-> None]
    /\ tokens' = EmptyStore
    /\ pc' = [c \in Callers |-> "idle"]
    /\ job' = [c \in Callers |-> None]
    /\ held' = [c \in Callers |-> None]
    /\ UNCHANGED <<clock, strict, drafted, bound, history>>

(* What a caller does by itself once it has started. *)
Work(c) ==
    \/ Claim(c) \/ TurnAway(c) \/ Invalid(c) \/ Redeem(c) \/ Authorise(c)
    \/ Refuse(c) \/ Succeed(c) \/ Fail(c) \/ Record(c) \/ Answer(c)

Next ==
    \/ \E p \in Plans : Propose(p)
    \/ GetPlan
    \/ \E a \in Actions, t \in Tokens : Preview(a, t)
    \/ \E c \in Callers, p \in Plans, s \in Steps, t \in Tokens \cup {None} :
           Find(c, p, s, t)
    \/ \E c \in Callers, a \in Actions, t \in Tokens \cup {None} : Call(c, a, t)
    \/ \E c \in Callers : Work(c)
    \/ Tick
    \/ Restart

Spec == Init /\ [][Next]_vars

(* A thread that was started is scheduled, and kubectl has a timeout. *)
FairSpec == Spec /\ \A c \in Callers : WF_vars(Work(c))

-----------------------------------------------------------------------------
(* Every variable keeps its type. *)
TypeOK ==
    /\ clock \in Nat
    /\ restarts \in Nat
    /\ strict \in BOOLEAN
    /\ plans \in [Plans -> Plan \cup {None}]
    /\ drafted \in SUBSET Plans
    /\ tokens \in TokenStore
    /\ bound \in [Tokens -> Actions \cup {None}]
    /\ pc \in [Callers -> Locations]
    /\ job \in [Callers -> Job \cup {None}]
    /\ held \in [Callers -> TokenRecord \cup {None}]
    /\ did \in [Tokens \cup {None} -> [Actions -> Nat]]
    /\ ran \in [Plans -> [Steps -> Nat]]
    /\ changed \in SUBSET (Plans \X Steps)
    /\ refused \in SUBSET (Plans \X Steps)

(* In strict mode the cluster changes only in the way that was previewed,  *)
(* and at most once for that preview, however many callers present its     *)
(* token, to whichever tool or step, and however often a failed step is    *)
(* tried again.  That the dry run was accepted is not among the promises.  *)
OnlyAsPreviewed ==
    strict =>
        /\ \A a \in Actions : did[None][a] = 0
        /\ \A t \in Tokens, a \in Actions :
               did[t][a] <= (IF bound[t] = a THEN 1 ELSE 0)

(* claim_step: two callers are never both past the claim of one step. *)
SoleRunner ==
    \A c, d \in Callers :
        /\ c # d
        /\ {pc[c], pc[d]} \cap {"idle", "found", "answering"} = {}
        /\ job[c].plan = job[d].plan
        /\ job[c].step = job[d].step
        => job[c].plan = None

(* A stored plan tells the truth about its steps, in either mode, as far   *)
(* as the tools tell it: a step marked done reported success exactly once, *)
(* for a command that changed the cluster or that kubectl refused; one     *)
(* that may still be claimed has reported none, and one never claimed has  *)
(* changed nothing.  No step reports success twice, or without the one or  *)
(* the other.                                                              *)
StepsTellTheTruth ==
    \A p \in Plans, s \in Steps :
        /\ ran[p][s] <= 1
        /\ ran[p][s] = 1 => <<p, s>> \in changed \cup refused
        /\ <<p, s>> \in refused => ran[p][s] = 1
        /\ plans[p] # None =>
              /\ plans[p].status[s] = "done" => ran[p][s] = 1
              /\ plans[p].status[s] \in {"pending", "failed"} => ran[p][s] = 0
              /\ plans[p].status[s] = "pending" => <<p, s>> \notin changed

(* A step of a plan has one runner at a time, and the plan says of it what *)
(* happened to it.                                                         *)
StepsAreSound == TypeOK /\ SoleRunner /\ StepsTellTheTruth

(* A claimed step does not stay running: its caller records an outcome, or *)
(* the plan is gone.                                                       *)
StepSettles ==
    \A p \in Plans, s \in Steps :
        (plans[p] # None /\ plans[p].status[s] = "running")
            ~> (plans[p] = None \/ plans[p].status[s] # "running")
=============================================================================
