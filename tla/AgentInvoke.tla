---------------------------- MODULE AgentInvoke ----------------------------
(***************************************************************************)
(* POST /api/agent/invoke of ui/backend/routers/agent.py: a coroutine per  *)
(* request that takes one of a few execution slots, starts a worker on the *)
(* thread pool and awaits it behind asyncio.shield; and the worker, which  *)
(* for a remote target asks the target's circuit breaker, connects over    *)
(* SSH, verifies the cluster's identity, and then runs the analysis.       *)
(*                                                                         *)
(* A coroutine runs alone between two awaits; worker threads run           *)
(* concurrently with it and with one another, so a worker's step here is   *)
(* one call of the breaker (atomic under its lock) with what follows it.   *)
(*                                                                         *)
(*   phase[r]   the coroutine: idle, queued for a slot, awaiting the       *)
(*              shield, draining after a cancellation, or gone while its   *)
(*              worker still runs                                          *)
(*   worker[r]  the thread: none, ready to ask the breaker, connecting     *)
(*              (SSH and identity check), analysing, or done               *)
(*   target[r]  body.target, None for a request without one                *)
(*   token[r]   decision.probe_token                                       *)
(*   slots      the value of the BoundedSemaphore execution_slots          *)
(*   circuit    the breaker's record of each target                        *)
(***************************************************************************)
EXTENDS CircuitBreaker, FiniteSets

CONSTANTS
    Requests,        \* requests in progress at a time
    Targets,         \* diagnostic targets of the registry
    MaxConcurrency,  \* AGENT_API_MAX_CONCURRENCY
    MaxCancels       \* bound: cancellations one request receives

ASSUME InvokeAssumption ==
    /\ IsFiniteSet(Requests)
    /\ None \notin Targets
    /\ MaxConcurrency \in Nat \ {0}
    /\ MaxCancels \in 0..2

VARIABLES phase, worker, target, token, slots, circuit

vars == <<phase, worker, target, token, slots, circuit>>

Init ==
    /\ phase = [r \in Requests |-> "idle"]
    /\ worker = [r \in Requests |-> "none"]
    /\ target = [r \in Requests |-> None]
    /\ token = [r \in Requests |-> None]
    /\ slots = MaxConcurrency
    /\ circuit = [t \in Targets |-> NewCircuit]

-----------------------------------------------------------------------------
(* The coroutine.                                                          *)

(* A request past authentication and target authorization. *)
Arrive(r, t) ==
    /\ phase[r] = "idle"
    /\ phase' = [phase EXCEPT ![r] = "queued"]
    /\ target' = [target EXCEPT ![r] = t]
    /\ UNCHANGED <<worker, token, slots, circuit>>

(* The request is over, and so are its locals. *)
Forget(r) ==
    /\ phase' = [phase EXCEPT ![r] = "idle"]
    /\ worker' = [worker EXCEPT ![r] = "none"]
    /\ target' = [target EXCEPT ![r] = None]
    /\ token' = [token EXCEPT ![r] = None]

(* The worker starts whether or not the semaphore was taken. *)
BugAcquire(r) ==
    /\ phase[r] = "queued"
    /\ slots' = slots - 1
    /\ phase' = [phase EXCEPT ![r] = "holding"]
    /\ worker' = [worker EXCEPT ![r] = "ready"]
    /\ UNCHANGED <<target, token, circuit>>

(* One turn of the polling loop that gets a slot, and the worker's task. *)
Acquire(r) ==
    /\ phase[r] = "queued"
    /\ slots > 0
    /\ slots' = slots - 1
    /\ phase' = [phase EXCEPT ![r] = "holding"]
    /\ worker' = [worker EXCEPT ![r] = "ready"]
    /\ UNCHANGED <<target, token, circuit>>

(* The loop without its deadline: it only ever ends with a slot. *)
BugGiveUp(r) == FALSE /\ UNCHANGED vars

(* A turn that finds no slot after the queue deadline: 429. *)
GiveUp(r) ==
    /\ phase[r] = "queued"
    /\ slots = 0
    /\ Forget(r)
    /\ UNCHANGED <<slots, circuit>>

(* An early return that skips the release. *)
BugLeave(r) ==
    /\ UNCHANGED slots
    /\ Forget(r)
    /\ UNCHANGED circuit

(* The handler's finally block, and what the request leaves behind. *)
Leave(r) ==
    /\ slots' = slots + 1
    /\ Forget(r)
    /\ UNCHANGED circuit

(* The await of the worker returns: respond, or re-raise the cancellation. *)
Return(r) ==
    /\ phase[r] \in {"holding", "draining"}
    /\ worker[r] = "done"
    /\ Leave(r)

(* The client disconnects while the request waits for a slot. *)
CancelQueued(r) ==
    /\ MaxCancels > 0
    /\ phase[r] = "queued"
    /\ Forget(r)
    /\ UNCHANGED <<slots, circuit>>

(* A cancellation that does not wait for the worker. *)
BugCancel(r) ==
    /\ MaxCancels > 0
    /\ phase[r] = "holding"
    /\ worker[r] \in {"connecting", "analysing"}
    /\ phase' = [phase EXCEPT ![r] = "gone"]
    /\ slots' = slots + 1
    /\ UNCHANGED <<worker, target, token, circuit>>

(* The first cancellation ends the shielded await, not the worker. *)
Cancel(r) ==
    /\ MaxCancels > 0
    /\ phase[r] = "holding"
    /\ phase' = [phase EXCEPT ![r] = "draining"]
    /\ UNCHANGED <<worker, target, token, slots, circuit>>

(* The second one cancels the task being awaited, which nothing shields:   *)
(* the finally block releases the slot.  A call still waiting for a thread *)
(* is dropped; one that a thread runs goes on without its coroutine.       *)
CancelAgain(r) ==
    /\ MaxCancels > 1
    /\ phase[r] = "draining"
    /\ IF worker[r] \in {"connecting", "analysing"}
       THEN /\ phase' = [phase EXCEPT ![r] = "gone"]
            /\ slots' = slots + 1
            /\ UNCHANGED <<worker, target, token, circuit>>
       ELSE Leave(r)

(* The thread of a request that is gone comes to its end. *)
Vanish(r) ==
    /\ phase[r] = "gone"
    /\ worker[r] = "done"
    /\ Forget(r)
    /\ UNCHANGED <<slots, circuit>>

-----------------------------------------------------------------------------
(* The worker.                                                             *)

WorkerAt(r, from, to) ==
    /\ worker[r] = from
    /\ worker' = [worker EXCEPT ![r] = to]
    /\ UNCHANGED <<phase, target, slots>>

(* The thread pool was busy past the deadline: TimeoutError. *)
Late(r) ==
    /\ WorkerAt(r, "ready", "done")
    /\ UNCHANGED <<token, circuit>>

(* No target, no remote execution: an answer from the input alone. *)
StartLocal(r) ==
    /\ WorkerAt(r, "ready", "analysing")
    /\ target[r] = None
    /\ UNCHANGED <<token, circuit>>

Current(r) == Refreshed(circuit[target[r]])

Becomes(r, c) == circuit' = [circuit EXCEPT ![target[r]] = c]

(* breaker.allow() on a closed circuit. *)
StartClosed(r) ==
    /\ WorkerAt(r, "ready", "connecting")
    /\ target[r] # None
    /\ Current(r).state = "closed"
    /\ UNCHANGED <<token, circuit>>

(* breaker.allow() after the cooldown: the worker is the probe. *)
StartProbe(r, k) ==
    /\ WorkerAt(r, "ready", "connecting")
    /\ target[r] # None
    /\ Probing(Current(r))
    /\ k \notin {token[q] : q \in Requests} \cup {circuit[t].probe : t \in Targets}
    /\ Becomes(r, Admitted(Current(r), k))
    /\ token' = [token EXCEPT ![r] = k]

(* breaker.allow() refuses: error_only, reason circuit_open. *)
Deny(r) ==
    /\ WorkerAt(r, "ready", "done")
    /\ target[r] # None
    /\ Current(r).state # "closed"
    /\ ~Probing(Current(r))
    /\ Becomes(r, Current(r))
    /\ UNCHANGED token

Ask(r) == StartClosed(r) \/ Deny(r) \/ \E k \in Tokens : StartProbe(r, k)

(* Connected and verified in time: record_success, then the analysis. *)
Verify(r) ==
    /\ WorkerAt(r, "connecting", "analysing")
    /\ Becomes(r, Succeeded(Current(r), token[r]))
    /\ UNCHANGED token

(* RemoteConnectionError or any Exception before that: record_failure. *)
Fail(r) ==
    /\ WorkerAt(r, "connecting", "done")
    /\ Becomes(r, Failed(Current(r), token[r]))
    /\ UNCHANGED token

(* A BaseException ends the worker before it has told the breaker. *)
Crash(r) ==
    /\ WorkerAt(r, "connecting", "done")
    /\ UNCHANGED <<token, circuit>>

(* The analysis ends, whether in an answer or in an error. *)
Finish(r) ==
    /\ WorkerAt(r, "analysing", "done")
    /\ UNCHANGED <<token, circuit>>

-----------------------------------------------------------------------------
Tick ==
    /\ circuit' = [t \in Targets |-> Aged(circuit[t])]
    /\ circuit' # circuit
    /\ UNCHANGED <<phase, worker, target, token, slots>>

Handler(r) == Acquire(r) \/ GiveUp(r) \/ Return(r) \/ Vanish(r)

Work(r) ==
    \/ Late(r) \/ StartLocal(r) \/ Ask(r)
    \/ Verify(r) \/ Fail(r) \/ Crash(r) \/ Finish(r)

Disconnect(r) == CancelQueued(r) \/ Cancel(r) \/ CancelAgain(r)

Next ==
    \/ Tick
    \/ \E r \in Requests :
          \/ \E t \in Targets \cup {None} : Arrive(r, t)
          \/ Handler(r)
          \/ Work(r)
          \/ Disconnect(r)

Spec == Init /\ [][Next]_vars

(* Time passes, the event loop keeps polling, and every stage of a worker  *)
(* has a timeout.  Nothing is assumed of clients.                          *)
Fairness ==
    /\ WF_vars(Tick)
    /\ \A r \in Requests : WF_vars(Handler(r)) /\ WF_vars(Work(r))

FairSpec == Spec /\ Fairness

-----------------------------------------------------------------------------
(* Correctness.                                                            *)

TypeOK ==
    /\ phase \in [Requests -> {"idle", "queued", "holding", "draining", "gone"}]
    /\ worker \in [Requests -> {"none", "ready", "connecting", "analysing", "done"}]
    /\ target \in [Requests -> Targets \cup {None}]
    /\ token \in [Requests -> Tokens \cup {None}]
    /\ slots \in 0..MaxConcurrency
    /\ circuit \in [Targets -> Circuit]

Running(r) == worker[r] \in {"connecting", "analysing"}

(* The slots and the requests that hold one always add up to the           *)
(* configured concurrency: no path through the handler's awaits, errors    *)
(* and cancellations leaks a slot or releases one twice.                   *)
Holders == {r \in Requests : phase[r] \in {"holding", "draining"}}

SlotsConserved == slots + Cardinality(Holders) = MaxConcurrency

(* No more worker threads run than there are slots, disconnected clients   *)
(* included.                                                               *)
CapacityIsHeldUntilExit ==
    Cardinality({r \in Requests : Running(r)}) <= MaxConcurrency

(* The handler's own state: typed, with every slot accounted for.          *)
HandlerIsSound == TypeOK /\ SlotsConserved

(* A half-open circuit knows its probe, no other circuit has one, and no   *)
(* two workers hold the same token: at most one worker can resolve a       *)
(* half-open circuit, however many probes were abandoned before.           *)
ProbeKnown ==
    \A t \in Targets : circuit[t].state = "half_open" <=> circuit[t].probe # None

SoleProbe ==
    /\ ProbeKnown
    /\ \A q, r \in Requests : token[q] = token[r] /\ token[r] # None => q = r
    /\ \A t \in Targets, r \in Requests :
          token[r] = circuit[t].probe /\ token[r] # None => target[r] = t

(* A circuit is closed with fewer than Threshold failures in the window,   *)
(* and late failures of workers it admitted before it opened are all that  *)
(* can come on top: the history stays bounded, whatever the traffic.       *)
FailuresBounded ==
    \A t \in Targets :
        LET count == FailureCount(circuit[t])
        IN  /\ circuit[t].state = "closed" => count < Threshold
            /\ count < Threshold + Cardinality(Requests)

(* A circuit that is not closed closes only by the verified success of the *)
(* worker it is probing with, before its lease runs out: not by an         *)
(* abandoned probe, nor by a worker admitted before the circuit opened.    *)
ClosesByProbe(t) ==
    \E r \in Requests :
        /\ worker[r] = "connecting" /\ worker'[r] = "analysing"
        /\ target[r] = t
        /\ token[r] # None /\ token[r] = circuit[t].probe
        /\ circuit[t].leased # Lease

OnlyProbeCloses ==
    [][\A t \in Targets :
          circuit[t].state # "closed" /\ circuit'[t].state = "closed"
              => ClosesByProbe(t)]_vars

(* A circuit is probed only after a full cooldown since it last opened,    *)
(* whether that was by failures, a failed probe or an abandoned one, and   *)
(* by one worker: no second probe is admitted before the first is          *)
(* resolved or its lease has run out and a new cooldown has passed.        *)
OneProbePerCooldown ==
    [][\A t \in Targets :
          /\ circuit'[t].state = "half_open" =>
                \/ circuit[t].state = "open" /\ circuit[t].opened = Cooldown
                \/ circuit[t].probe = circuit'[t].probe
          /\ circuit[t].state # "open" /\ circuit'[t].state = "open" =>
                circuit'[t].opened = 0]_vars

(* How a circuit leaves the open state: one probe per cooldown, and only   *)
(* that probe's success closes it.                                         *)
ProbesGovern == OnlyProbeCloses /\ OneProbePerCooldown

(* As long as workers keep asking for a target, its circuit does not stay  *)
(* half-open behind a probe that never reports, and an open one is tried   *)
(* again.                                                                  *)
Recovers(t, state) == circuit[t].state = state ~> circuit[t].state # state

NeverWedged ==
    \A t \in Targets :
        []<><<\E r \in Requests : target[r] = t /\ Ask(r)>>_vars
            => Recovers(t, "half_open") /\ Recovers(t, "open")

(* Every request is answered or refused, and gives back what it holds.     *)
Answered == \A r \in Requests : phase[r] # "idle" ~> phase[r] = "idle"
=============================================================================
