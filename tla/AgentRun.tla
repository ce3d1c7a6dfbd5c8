------------------------------ MODULE AgentRun ------------------------------
(***************************************************************************)
(* One agent run: the ReAct loop of ui/backend/react.py, the agent_runs    *)
(* row and agent_steps rows it records through agent_run_recorder.py, and  *)
(* the endpoints of ui/backend/routers/chat.py that approve or reject a    *)
(* step it waits for.  A loop runs in a thread of its own; an approval     *)
(* starts another loop, which reads the recorded steps and carries on.     *)
(*                                                                         *)
(* What the model and the tools answer is nondeterministic.  A read call   *)
(* may find that a folder grant is missing; a destructive one (with a      *)
(* dispatcher that offers them, in strict mode) is a dry run until a       *)
(* person approved.  The language model presents no token of its own.      *)
(*                                                                         *)
(*   status     agent_runs.status                                          *)
(*   steps      agent_steps in order of their ids: status, iteration, and  *)
(*              for a step that waits what it would do (None: read again)  *)
(*   cards      what the UI was told to ask: a step and its token          *)
(*   pc[l]      where loop l is; iter[l] its iteration                     *)
(*   token[l]   approved_token; redo[l] the step it resumes, or 0          *)
(*   call[l]    the tool call in progress                                  *)
(*   rejecting  the step of a rejection between its two UPDATEs, or 0      *)
(* History: did[t][a] counts the times a reached the cluster on token t,   *)
(* stranded says that a fault left the run without its loop or its pending *)
(* step, and refused that the run was rejected while it waited.            *)
(***************************************************************************)
EXTENDS ConfirmationTokens, Sequences

CONSTANTS
    Loops,          \* threads that run a loop
    MaxIterations,  \* MAX_ITERATIONS
    MaxRetries,     \* max_retries of a transient error
    MaxSteps,       \* bound: a run with more steps is not approved again
    MaxFaults       \* bound on restarts and on writes and starts that fail

ASSUME AgentAssumption ==
    /\ Loops \cup Tokens \cup Actions \subseteq Nat
    /\ MaxIterations \in Nat \ {0}
    /\ {MaxRetries, MaxSteps, MaxFaults} \subseteq Nat

VARIABLES faults, status, steps, cards, tokens, bound,
          pc, iter, token, redo, call, rejecting,
          did, stranded, refused

vars == <<faults, status, steps, cards, tokens, bound,
          pc, iter, token, redo, call, rejecting,
          did, stranded, refused>>
store == <<tokens, bound>>
locals == <<token, redo, call>>
history == <<did, stranded, refused>>

Waiting == {"pending_approval", "pending_folder_grant"}
Step == [status : Waiting \cup {"ok", "rejected"},
         iter : Nat, action : Actions \cup {None}]
Card == [step : Nat, token : Tokens \cup {None}]
Call == [action : Actions \cup {None}, dry : BOOLEAN,
         token : Tokens \cup {None}, tries : Nat]
Places == {"idle", "checked", "starting", "top", "calling", "acting",
           "suspending", "announcing", "recording",
           "complete", "failed", "aborted"}

(* A loop that may still touch the run or the cluster. *)
Active == {"starting", "top", "calling", "acting", "suspending", "recording",
           "complete", "failed", "aborted"}

Init ==
    /\ faults = 0
    /\ status = "none"
    /\ steps = <<>>
    /\ cards = {}
    /\ tokens = EmptyStore
    /\ bound = [t \in Tokens |-> None]
    /\ pc = [l \in Loops |-> "idle"]
    /\ iter = [l \in Loops |-> 1]
    /\ token = [l \in Loops |-> None]
    /\ redo = [l \in Loops |-> 0]
    /\ call = [l \in Loops |-> None]
    /\ rejecting = 0
    /\ did = [t \in Tokens \cup {None} |-> [a \in Actions |-> 0]]
    /\ stranded = FALSE
    /\ refused = FALSE

(* Lapse is the clock of this module. *)
now == 0

(* Threads are numbered in the order they are taken; it does not matter. *)
Free(l) == pc[l] = "idle" /\ \A m \in Loops : m < l => pc[m] # "idle"

Goto(l, place) == pc' = [pc EXCEPT ![l] = place]

(* The thread ends, and its locals with it. *)
Leave(l) ==
    /\ Goto(l, "idle")
    /\ iter' = [iter EXCEPT ![l] = 1]
    /\ token' = [token EXCEPT ![l] = None]
    /\ redo' = [redo EXCEPT ![l] = 0]
    /\ call' = [call EXCEPT ![l] = None]

-----------------------------------------------------------------------------
(* The loop.                                                               *)

(* A chat message opens the run and starts its first loop. *)
Open(l) ==
    /\ status = "none"
    /\ Free(l)
    /\ status' = "running"
    /\ Goto(l, "top")
    /\ UNCHANGED <<steps, cards, store, iter, locals, rejecting, history, faults>>

AtTop(l) == pc[l] = "top" /\ iter[l] <= MaxIterations

(* The client is gone, or the wall-clock deadline has passed. *)
Abort(l) ==
    /\ AtTop(l)
    /\ Goto(l, "aborted")
    /\ UNCHANGED <<status, steps, cards, store, iter, locals, rejecting, history, faults>>

(* The model does not answer, or its last answer cannot be parsed. *)
GiveUp(l) ==
    /\ AtTop(l)
    /\ redo[l] = 0
    /\ Goto(l, "failed")
    /\ UNCHANGED <<status, steps, cards, store, iter, locals, rejecting, history, faults>>

(* An answer that cannot be parsed costs an iteration. *)
Nudge(l) ==
    /\ AtTop(l)
    /\ redo[l] = 0
    /\ iter[l] < MaxIterations
    /\ iter' = [iter EXCEPT ![l] = @ + 1]
    /\ UNCHANGED <<status, steps, cards, store, pc, locals, rejecting, history, faults>>

(* A write or a start that fails, within the bound. *)
Fault == faults < MaxFaults /\ faults' = faults + 1

(* agent_run_recorder.record: a step that cannot be written is dropped. *)
Record(s) ==
    \/ steps' = Append(steps, s) /\ UNCHANGED faults
    \/ UNCHANGED steps /\ Fault

(* The final answer is recorded as a step; the run is closed next. *)
Answer(l) ==
    /\ AtTop(l)
    /\ redo[l] = 0
    /\ Record([status |-> "ok", iter |-> iter[l], action |-> None])
    /\ Goto(l, "complete")
    /\ UNCHANGED <<status, cards, store, iter, locals, rejecting, history>>

(* No iteration is left: the best answer there is, complete or not. *)
Exhaust(l) ==
    /\ pc[l] = "top"
    /\ iter[l] > MaxIterations
    /\ \E end \in {"complete", "failed"} : Goto(l, end)
    /\ UNCHANGED <<status, steps, cards, store, iter, locals, rejecting, history, faults>>

(* A destructive call is forced to a dry run unless it confirms or the     *)
(* loop was resumed with a token.                                          *)
ForcedDry(l, confirm) == ~confirm /\ token[l] = None

(* The model asks for a tool: to read, or one that changes the cluster.    *)
(* (Actions are numbered in the order they are previewed.)                 *)
Decide(l, a, confirm) ==
    /\ AtTop(l)
    /\ redo[l] = 0
    /\ a # None =>
           \A b \in Actions : b < a => \E t \in Tokens : bound[t] = b
    /\ call' = [call EXCEPT ![l] =
           [action |-> a, dry |-> a # None /\ ForcedDry(l, confirm),
            token |-> None, tries |-> 0]]
    /\ Goto(l, "calling")
    /\ UNCHANGED <<status, steps, cards, store, iter, token, redo, rejecting, history, faults>>

(* The resumed iteration: the waiting step is marked approved (unless the  *)
(* write fails) and its call is made again, now with the token.            *)
Redo(l) ==
    /\ AtTop(l)
    /\ redo[l] # 0
    /\ \/ steps' = [steps EXCEPT ![redo[l]].status = "ok"] /\ UNCHANGED faults
       \/ UNCHANGED steps /\ Fault
    /\ call' = [call EXCEPT ![l] =
           [action |-> steps[redo[l]].action, dry |-> FALSE,
            token |-> token[l], tries |-> 0]]
    /\ redo' = [redo EXCEPT ![l] = 0]
    /\ Goto(l, "calling")
    /\ UNCHANGED <<status, cards, store, iter, token, rejecting, history>>

-----------------------------------------------------------------------------
(* The tool call.                                                          *)

(* Any call may just return: evidence, an error, a refusal, a duplicate. *)
Observe(l) ==
    /\ pc[l] = "calling"
    /\ Goto(l, "recording")
    /\ UNCHANGED <<status, steps, cards, store, iter, locals, rejecting, history, faults>>

(* A folder tool without its grant: the run must wait for the person. *)
NeedsAccess(l) ==
    /\ pc[l] = "calling"
    /\ call[l].action = None
    /\ Goto(l, "suspending")
    /\ UNCHANGED <<status, steps, cards, store, iter, locals, rejecting, history, faults>>

(* A dry run the API server accepts mints the token to approve it with. *)
Preview(l, t) ==
    /\ pc[l] = "calling"
    /\ call[l].dry
    /\ bound[t] = None
    /\ \A u \in Tokens : u < t => bound[u] # None
    /\ bound' = [bound EXCEPT ![t] = call[l].action]
    /\ tokens' = Issued(tokens, t, call[l].action, now)
    /\ call' = [call EXCEPT ![l].token = t]
    /\ Goto(l, "suspending")
    /\ UNCHANGED <<status, steps, cards, iter, token, redo, rejecting, history, faults>>

(* The tool's own check: the token is spent, and must be the right one. *)
Redeem(l) ==
    /\ pc[l] = "calling"
    /\ call[l].action # None
    /\ ~call[l].dry
    /\ tokens' = Left(tokens, call[l].token, now)
    /\ IF Authorises(Popped(tokens, call[l].token, now), call[l].action, now)
       THEN Goto(l, "acting")
       ELSE Goto(l, "recording")
    /\ UNCHANGED <<status, steps, cards, bound, iter, locals, rejecting, history, faults>>

Effect(l) == did' = [did EXCEPT ![call[l].token][call[l].action] = @ + 1]

(* kubectl changed the cluster (and the verification run was made), or it  *)
(* failed with an error that is not retried.                               *)
Act(l) ==
    /\ pc[l] = "acting"
    /\ Effect(l) \/ UNCHANGED did
    /\ Goto(l, "recording")
    /\ UNCHANGED <<status, steps, cards, store, iter, locals, rejecting,
                   stranded, refused, faults>>

(* The retry skips the tool's check. *)
BugRetry(l) ==
    /\ pc[l] = "acting"
    /\ call[l].tries < MaxRetries
    /\ Effect(l) \/ UNCHANGED did
    /\ call' = [call EXCEPT ![l].tries = @ + 1]
    /\ UNCHANGED <<pc, status, steps, cards, store, iter, token, redo, rejecting,
                   stranded, refused, faults>>

(* A transient error, with or without an effect: the same call again. *)
Retry(l) ==
    /\ pc[l] = "acting"
    /\ call[l].tries < MaxRetries
    /\ Effect(l) \/ UNCHANGED did
    /\ call' = [call EXCEPT ![l].tries = @ + 1]
    /\ Goto(l, "calling")
    /\ UNCHANGED <<status, steps, cards, store, iter, token, redo, rejecting,
                   stranded, refused, faults>>

(* The step is recorded and the loop goes round. *)
RecordStep(l) ==
    /\ pc[l] = "recording"
    /\ Record([status |-> "ok", iter |-> iter[l], action |-> None])
    /\ iter' = [iter EXCEPT ![l] = @ + 1]
    /\ call' = [call EXCEPT ![l] = None]
    /\ Goto(l, "top")
    /\ UNCHANGED <<status, cards, store, token, redo, rejecting, history>>

-----------------------------------------------------------------------------
(* Suspension and the end of a run.                                        *)

(* The loop goes on after it has suspended the run. *)
BugSuspend(l) ==
    /\ pc[l] = "suspending"
    /\ status' = "suspended"
    /\ Goto(l, "recording")
    /\ UNCHANGED <<steps, cards, store, iter, locals, rejecting, history, faults>>

(* suspend_agent_run, whatever the status was.  If the UPDATE raises, the  *)
(* call counts as failed and the loop goes on.                             *)
Suspend(l) ==
    /\ pc[l] = "suspending"
    /\ \/ status' = "suspended" /\ Goto(l, "announcing") /\ UNCHANGED faults
       \/ Fault /\ Goto(l, "recording") /\ UNCHANGED status
    /\ UNCHANGED <<steps, cards, store, iter, locals, rejecting, history>>

(* The loop returns without recording what it waits for. *)
BugAnnounce(l) ==
    /\ pc[l] = "announcing"
    /\ Leave(l)
    /\ UNCHANGED <<steps, cards, stranded, status, store, rejecting, did,
                   refused, faults>>

(* The waiting step is recorded after that, then the UI is told of it; if  *)
(* it cannot be recorded there is no step to approve.  The thread ends.    *)
Announce(l) ==
    /\ pc[l] = "announcing"
    /\ \/ /\ steps' = Append(steps,
                 [status |-> IF call[l].action = None THEN "pending_folder_grant"
                                                      ELSE "pending_approval",
                  iter |-> iter[l], action |-> call[l].action])
          /\ cards' = cards \cup {[step |-> Len(steps) + 1, token |-> call[l].token]}
          /\ UNCHANGED <<faults, stranded>>
       \/ Fault /\ stranded' = TRUE /\ UNCHANGED <<steps, cards>>
    /\ Leave(l)
    /\ UNCHANGED <<status, store, rejecting, did, refused>>

(* A run that failed is not closed. *)
BugClose(l) ==
    /\ pc[l] \in {"complete", "failed", "aborted"}
    /\ status' = IF pc[l] = "failed" THEN status ELSE pc[l]
    /\ Leave(l)
    /\ UNCHANGED <<stranded, steps, cards, store, rejecting, did, refused, faults>>

(* finish_agent_run or fail_agent_run, whatever the status was.  An error  *)
(* of the database is swallowed.  The thread ends.                         *)
Close(l) ==
    /\ pc[l] \in {"complete", "failed", "aborted"}
    /\ \/ status' = pc[l] /\ UNCHANGED <<faults, stranded>>
       \/ Fault /\ stranded' = TRUE /\ UNCHANGED status
    /\ Leave(l)
    /\ UNCHANGED <<steps, cards, store, rejecting, did, refused>>

-----------------------------------------------------------------------------
(* Approval and rejection.                                                 *)

(* approve_step reads the run and the step; the person answers a card,     *)
(* perhaps an old one.                                                     *)
CheckApproval(l, c) ==
    /\ Free(l)
    /\ Len(steps) < MaxSteps
    /\ c.token # None \/ steps[c.step].status = "pending_folder_grant"
    /\ token' = [token EXCEPT ![l] = c.token]
    /\ Goto(l, "checked")
    /\ UNCHANGED <<status, steps, cards, store, iter, redo, call, rejecting, history, faults>>

(* The status is not compared in the UPDATE. *)
BugResume(l) ==
    /\ pc[l] = "checked"
    /\ status' = "running"
    /\ Goto(l, "starting")
    /\ UNCHANGED <<steps, cards, store, iter, locals, rejecting, did, stranded, refused, faults>>

(* resume_agent_run: only the approval that finds it suspended goes on. *)
Resume(l) ==
    /\ pc[l] = "checked"
    /\ status = "suspended"
    /\ status' = "running"
    /\ Goto(l, "starting")
    /\ UNCHANGED <<steps, cards, store, iter, locals, rejecting, did, stranded, refused, faults>>

(* 409: already running or not suspended. *)
Conflict(l) ==
    /\ pc[l] = "checked"
    /\ status # "suspended"
    /\ Leave(l)
    /\ UNCHANGED <<status, steps, cards, store, rejecting, history, faults>>

(* SSH, the provider or the history fails: the thread ends and the run     *)
(* stays running.                                                          *)
StartFails(l) ==
    /\ pc[l] = "starting"
    /\ Fault
    /\ stranded' = TRUE
    /\ Leave(l)
    /\ UNCHANGED <<status, steps, cards, store, rejecting, did, refused>>

(* get_agent_steps: by iteration, then by id.  A loop that started over at *)
(* iteration 1 numbers its steps below those of the loop before it.        *)
LastLoaded(s) ==
    \A r \in DOMAIN steps :
        \/ steps[r].iter < steps[s].iter
        \/ steps[r].iter = steps[s].iter /\ r <= s

(* A waiting step is resumed if it is the last one. *)
Resumable(l) ==
    {s \in DOMAIN steps :
        /\ LastLoaded(s)
        /\ \/ steps[s].status = "pending_approval" /\ token[l] # None
           \/ steps[s].status = "pending_folder_grant"}

(* The waiting step is taken to be the one after the last. *)
BugLoad(l) ==
    /\ pc[l] = "starting"
    /\ \E s \in Resumable(l) : redo' = [redo EXCEPT ![l] = s + 1]
    /\ Goto(l, "top")
    /\ UNCHANGED <<status, steps, cards, store, iter, token, call, rejecting, history, faults>>

(* The new loop rebuilds its state from the recorded steps, if it can. *)
Load(l) ==
    /\ pc[l] = "starting"
    /\ \/ /\ \E s \in Resumable(l) :
                 /\ redo' = [redo EXCEPT ![l] = s]
                 /\ iter' = [iter EXCEPT ![l] = steps[s].iter]
          /\ UNCHANGED faults
       \/ Resumable(l) = {} /\ UNCHANGED <<redo, iter, faults>>
       \/ Fault /\ UNCHANGED <<redo, iter>>
    /\ Goto(l, "top")
    /\ UNCHANGED <<status, steps, cards, store, token, call, rejecting, history>>

(* reject_agent_step, whatever the step or the run has become meanwhile.   *)
(* (Bound: once per run.)                                                  *)
RejectStep(c) ==
    /\ rejecting = 0
    /\ \A s \in DOMAIN steps : steps[s].status # "rejected"
    /\ rejecting' = c.step
    /\ steps' = [steps EXCEPT ![c.step].status = "rejected"]
    /\ UNCHANGED <<status, cards, store, pc, iter, locals, history, faults>>

(* fail_agent_run(status="aborted"), again whatever the status was. *)
RejectRun ==
    /\ rejecting # 0
    /\ rejecting' = 0
    /\ status' = "aborted"
    /\ refused' = (refused \/ status = "suspended")
    /\ UNCHANGED <<steps, cards, store, pc, iter, locals, did, stranded, faults>>

-----------------------------------------------------------------------------
(* A token's time passes (bound: it counts as a fault): the next operation *)
(* on the store purges it.                                                 *)
Lapse(t) ==
    /\ Fault
    /\ tokens[t] # None
    /\ tokens' = [tokens EXCEPT ![t] = None]
    /\ UNCHANGED <<status, steps, cards, bound, pc, iter, locals,
                   rejecting, history>>

(* Threads and tokens are lost; the rows stay as they are, and nothing     *)
(* sweeps them.                                                            *)
Restart ==
    /\ Fault
    /\ tokens' = EmptyStore
    /\ pc' = [l \in Loops |-> "idle"]
    /\ iter' = [l \in Loops |-> 1]
    /\ token' = [l \in Loops |-> None]
    /\ redo' = [l \in Loops |-> 0]
    /\ call' = [l \in Loops |-> None]
    /\ rejecting' = 0
    /\ stranded' = (stranded \/ \E l \in Loops : pc[l] \in Active \cup {"announcing"})
    /\ UNCHANGED <<status, steps, cards, bound, did, refused>>

(* What a loop or an approval does once it has begun. *)
Work(l) ==
    \/ Abort(l) \/ GiveUp(l) \/ Nudge(l) \/ Answer(l) \/ Exhaust(l) \/ Redo(l)
    \/ \E a \in Actions \cup {None}, confirm \in BOOLEAN : Decide(l, a, confirm)
    \/ Observe(l) \/ NeedsAccess(l) \/ Redeem(l) \/ Act(l) \/ Retry(l)
    \/ \E t \in Tokens : Preview(l, t)
    \/ RecordStep(l) \/ Suspend(l) \/ Announce(l) \/ Close(l)
    \/ Resume(l) \/ Conflict(l) \/ StartFails(l) \/ Load(l)

Next ==
    \/ \E l \in Loops : Open(l) \/ Work(l)
    \/ \E l \in Loops, c \in cards : CheckApproval(l, c)
    \/ \E c \in cards : RejectStep(c)
    \/ RejectRun
    \/ \E t \in Tokens : Lapse(t)
    \/ Restart

Spec == Init /\ [][Next]_vars

(* A started thread is scheduled; model and tool calls have timeouts. *)
FairSpec == Spec /\ (\A l \in Loops : WF_vars(Work(l))) /\ WF_vars(RejectRun)

-----------------------------------------------------------------------------
(* Every variable keeps its type. *)
TypeOK ==
    /\ faults \in Nat
    /\ status \in {"none", "running", "suspended", "complete", "failed", "aborted"}
    /\ steps \in Seq(Step)
    /\ cards \in SUBSET Card
    /\ tokens \in TokenStore
    /\ bound \in [Tokens -> Actions \cup {None}]
    /\ pc \in [Loops -> Places]
    /\ iter \in [Loops -> Nat]
    /\ token \in [Loops -> Tokens \cup {None}]
    /\ redo \in [Loops -> 0..Len(steps)]
    /\ call \in [Loops -> Call \cup {None}]
    /\ rejecting \in Nat
    /\ did \in [Tokens \cup {None} -> [Actions -> Nat]]
    /\ stranded \in BOOLEAN
    /\ refused \in BOOLEAN

(* One loop at a time works on a run, and none while the run waits: the    *)
(* approvals that race for a suspended run start one thread between them.  *)
SoleLoop ==
    /\ \A l, m \in Loops : pc[l] \in Active /\ pc[m] \in Active => l = m
    /\ status = "suspended" => \A l \in Loops : pc[l] \notin Active

(* The cluster changes only as a dry run showed it, and once for that dry  *)
(* run, whatever is retried, approved twice or resumed after a restart.    *)
ActsAsApproved ==
    /\ \A t \in Tokens, a \in Actions :
           did[t][a] <= (IF bound[t] = a THEN 1 ELSE 0)
    /\ \A a \in Actions : did[None][a] = 0

(* The step a waiting run recorded last is one to wait for, unless a fault *)
(* lost it or its loop is just about to record it.  (It need not be the    *)
(* LastLoaded, which an approval resumes: an older step may have a higher  *)
(* iteration.)                                                             *)
WaitsForAStep ==
    status = "suspended" =>
        \/ stranded
        \/ \E l \in Loops : pc[l] = "announcing"
        \/ steps # <<>> /\ steps[Len(steps)].status \in Waiting \cup {"rejected"}

(* A run rejected while it waited stays aborted, and no loop works on it   *)
(* any more, whatever approvals are under way.                             *)
RejectionIsFinal ==
    refused => status = "aborted" /\ \A l \in Loops : pc[l] \notin Active

(* Approvals of a run's step race without a second loop or a second change *)
(* of the cluster.                                                         *)
ApprovalsAreExclusive == TypeOK /\ SoleLoop /\ ActsAsApproved

(* What a person sees of a waiting run is what it waits for, and what the  *)
(* person refused stays refused.                                           *)
CardsAreHonoured == WaitsForAStep /\ RejectionIsFinal

(* A run does not stay running: its loop suspends or closes it, unless a   *)
(* fault stranded it.                                                      *)
RunSettles == status = "running" ~> (status # "running" \/ stranded)
=============================================================================
