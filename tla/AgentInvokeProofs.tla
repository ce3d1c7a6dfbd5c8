------------------------- MODULE AgentInvokeProofs -------------------------
(***************************************************************************)
(* Theorems about AgentInvoke, for every number of requests, targets and   *)
(* slots, and every threshold, window, cooldown and lease.                 *)
(***************************************************************************)
EXTENDS AgentInvoke, FiniteSetTheorems, WellFoundedInduction, TLAPS

-----------------------------------------------------------------------------
(* What the breaker's methods do to a record.                              *)

(* A record whose state and probe agree (ProbeKnown for one target). *)
Sound(c) == c \in Circuit /\ (c.state = "half_open" <=> c.probe # None)

LEMMA Limits ==
    /\ Threshold \in Nat \ {0} /\ Window \in Nat \ {0}
    /\ Cooldown \in Nat \ {0} /\ Lease \in Nat \ {0}
    /\ None \notin Tokens
  BY BreakerAssumption

LEMMA NewCircuitSound == Sound(NewCircuit)
  BY Limits DEF Sound, NewCircuit, NoFailures, Circuit

LEMMA AgedSound ==
    ASSUME NEW c, Sound(c)
    PROVE  Sound(Aged(c)) /\ Aged(c).state = c.state /\ Aged(c).probe = c.probe
<1>1. \A a \in 0..Window : (IF a = 0 THEN 0 ELSE c.failures[a - 1]) \in Nat
  BY Limits DEF Sound, Circuit
<1>2. Older(c.opened, Cooldown) \in 0..Cooldown \cup {None}
  BY Limits DEF Sound, Circuit, Older
<1>3. Older(c.leased, Lease) \in 0..Lease \cup {None}
  BY Limits DEF Sound, Circuit, Older
<1> QED
  BY <1>1, <1>2, <1>3 DEF Sound, Circuit, Aged

LEMMA ReopenedSound ==
    ASSUME NEW c, Sound(c)
    PROVE  /\ Sound(Reopened(c))
           /\ Reopened(c).state = "open" /\ Reopened(c).probe = None
<1>1. 0 \in 0..Cooldown
  BY Limits
<1> QED
  BY <1>1 DEF Sound, Circuit, Reopened

LEMMA RefreshedSound ==
    ASSUME NEW c, Sound(c)
    PROVE  /\ Sound(Refreshed(c))
           /\ Refreshed(c).probe \in {c.probe, None}
           /\ Refreshed(c).state = "closed" => c.state = "closed"
  BY ReopenedSound DEF Refreshed

LEMMA CountedSound ==
    ASSUME NEW c, Sound(c), ~InFlight(c)
    PROVE  /\ Sound(Counted(c))
           /\ Counted(c).probe = None
           /\ Counted(c).state = "closed" => c.state = "closed"
<1> DEFINE n == [c EXCEPT !.failures[0] = @ + 1]
           o == [n EXCEPT !.state = "open", !.opened = 0]
<1>1. c.failures \in [0..Window -> Nat] /\ 0 \in 0..Window
  BY Limits DEF Sound, Circuit
<1>2. [c.failures EXCEPT ![0] = @ + 1] \in [0..Window -> Nat]
  <2> DEFINE D == 0..Window
  <2>1. c.failures \in [D -> Nat] /\ 0 \in D
    BY <1>1
  <2> HIDE DEF D
  <2>2. [c.failures EXCEPT ![0] = @ + 1] \in [D -> Nat]
    BY <2>1
  <2> QED
    BY <2>2 DEF D
<1>3. n \in Circuit /\ n.state = c.state /\ n.probe = None /\ c.state # "half_open"
  BY <1>2 DEF Sound, Circuit, InFlight
<1>4. Sound(n)
  BY <1>3 DEF Sound
<1>5. o \in Circuit /\ o.state = "open" /\ o.probe = None
  <2>1. 0 \in 0..Cooldown
    BY Limits
  <2> HIDE DEF n
  <2> QED
    BY <1>3, <2>1 DEF Circuit
<1>6. Sound(o)
  BY <1>5 DEF Sound
<1>7. Counted(c) = IF FailureCount(n) >= Threshold /\ n.state # "open" THEN o ELSE n
  BY DEF Counted
<1> QED
  BY <1>3, <1>4, <1>5, <1>6, <1>7

LEMMA FailedSound ==
    ASSUME NEW c, Sound(c), NEW k
    PROVE  /\ Sound(Failed(c, k))
           /\ Failed(c, k).probe \in {c.probe, None}
           /\ Failed(c, k).state = "closed" => c.state = "closed"
<1>1. CASE InFlight(c) /\ k = c.probe
  <2>1. Failed(c, k) = Reopened(c)
    BY <1>1 DEF Failed
  <2> QED
    BY <2>1, ReopenedSound
<1>2. CASE ~InFlight(c) /\ k = None
  <2>1. Failed(c, k) = Counted(c)
    BY <1>2 DEF Failed
  <2> QED
    BY <1>2, <2>1, CountedSound
<1>3. CASE ~(InFlight(c) /\ k = c.probe) /\ ~(~InFlight(c) /\ k = None)
  BY <1>3 DEF Failed
<1> QED
  BY <1>1, <1>2, <1>3

(* Success closes a circuit that was not closed only for its probe. *)
LEMMA SucceededSound ==
    ASSUME NEW c, Sound(c), NEW k
    PROVE  /\ Sound(Succeeded(c, k))
           /\ Succeeded(c, k).probe \in {c.probe, None}
           /\ Succeeded(c, k).state = "closed" /\ c.state # "closed"
                => c.state = "half_open" /\ c.probe # None /\ k = c.probe
<1>1. NewCircuit.state = "closed" /\ NewCircuit.probe = None
  BY DEF NewCircuit
<1>2. CASE InFlight(c) /\ k = c.probe
  BY <1>1, <1>2, NewCircuitSound DEF Succeeded, InFlight
<1>3. CASE ~InFlight(c) /\ k = None /\ c.state # "open"
  <2>1. Succeeded(c, k) = NewCircuit
    BY <1>3 DEF Succeeded
  <2>2. c.state = "closed"
    BY <1>3 DEF Sound, Circuit, InFlight
  <2> QED
    BY <1>1, <2>1, <2>2, NewCircuitSound
<1>4. CASE /\ ~(InFlight(c) /\ k = c.probe)
           /\ ~(~InFlight(c) /\ k = None /\ c.state # "open")
  BY <1>4 DEF Succeeded
<1> QED
  BY <1>2, <1>3, <1>4

LEMMA AdmittedSound ==
    ASSUME NEW c, Sound(c), NEW k \in Tokens
    PROVE  Sound(Admitted(c, k)) /\ Admitted(c, k).probe = k
<1>1. 0 \in 0..Lease /\ k # None
  BY Limits
<1> QED
  BY <1>1 DEF Sound, Circuit, Admitted

-----------------------------------------------------------------------------
(* Types, slots and the agreement of a request's coroutine and worker.     *)

Coherent ==
    \A r \in Requests :
        /\ worker[r] = "connecting" => target[r] # None
        /\ worker[r] \in {"none", "ready"} => token[r] = None
        /\ worker[r] # "none" <=> phase[r] \in {"holding", "draining", "gone"}
        /\ phase[r] = "gone" => MaxCancels > 1

IInv == TypeOK /\ SlotsConserved /\ ProbeKnown /\ Coherent

(* Replacing the record of one target by a sound one. *)
LEMMA BecomesSound ==
    ASSUME TypeOK, ProbeKnown, NEW r \in Requests, target[r] \in Targets,
           NEW c, Sound(c), Becomes(r, c)
    PROVE  /\ circuit' \in [Targets -> Circuit]
           /\ ProbeKnown'
           /\ \A t \in Targets : circuit'[t] = IF t = target[r] THEN c ELSE circuit[t]
  BY DEF TypeOK, ProbeKnown, Sound, Becomes

LEMMA CurrentSound ==
    ASSUME TypeOK, ProbeKnown, NEW r \in Requests, target[r] \in Targets
    PROVE  Sound(circuit[target[r]]) /\ Sound(Current(r))
<1>1. Sound(circuit[target[r]])
  BY DEF TypeOK, ProbeKnown, Sound
<1> QED
  BY <1>1, RefreshedSound DEF Current

(* The requests that hold a slot, as one of them changes phase. *)
LEMMA HoldersCount ==
    IsFiniteSet(Holders) /\ Cardinality(Holders) \in Nat
<1>1. Holders \subseteq Requests
  BY DEF Holders
<1> QED
  BY <1>1, InvokeAssumption, FS_Subset, FS_CardinalityType

LEMMA HolderAdded ==
    ASSUME TypeOK, NEW r \in Requests, phase[r] = "queued",
           phase' = [phase EXCEPT ![r] = "holding"]
    PROVE  Cardinality(Holders') = Cardinality(Holders) + 1
<1>1. Holders' = Holders \cup {r} /\ r \notin Holders
  BY DEF Holders, TypeOK
<1> QED
  BY <1>1, HoldersCount, FS_AddElement

LEMMA HolderRemoved ==
    ASSUME TypeOK, NEW r \in Requests, phase[r] \in {"holding", "draining"},
           NEW to \in {"idle", "gone"}, phase' = [phase EXCEPT ![r] = to]
    PROVE  Cardinality(Holders') = Cardinality(Holders) - 1
<1>1. Holders' = Holders \ {r} /\ r \in Holders
  BY DEF Holders, TypeOK
<1> QED
  BY <1>1, HoldersCount, FS_RemoveElement

(* Steps that move nobody in or out of the holders leave the count alone. *)
LEMMA HoldersKept ==
    ASSUME \A q \in Requests : phase'[q] \in {"holding", "draining"}
                                <=> phase[q] \in {"holding", "draining"}
    PROVE  Cardinality(Holders') = Cardinality(Holders)
<1>1. Holders' = Holders
  BY DEF Holders
<1> QED
  BY <1>1

(* A step of the worker disturbs neither slots nor phases. *)
LEMMA WorkerStep ==
    ASSUME TypeOK, SlotsConserved, Coherent, NEW r \in Requests,
           NEW from \in {"ready", "connecting", "analysing"},
           NEW to \in {"connecting", "analysing", "done"},
           WorkerAt(r, from, to),
           to = "connecting" => target[r] # None,
           token' \in [Requests -> Tokens \cup {None}],
           \A q \in Requests : q # r => token'[q] = token[q]
    PROVE  /\ worker' \in [Requests -> {"none", "ready", "connecting", "analysing", "done"}]
           /\ SlotsConserved' /\ Coherent'
<1>1. SlotsConserved'
  BY HoldersKept DEF SlotsConserved, WorkerAt
<1>2. worker' \in [Requests -> {"none", "ready", "connecting", "analysing", "done"}]
  BY DEF TypeOK, WorkerAt
<1>3. Coherent'
  BY <1>2 DEF TypeOK, Coherent, WorkerAt
<1> QED
  BY <1>1, <1>2, <1>3

(* Forgetting a request that holds no slot, or gives it back. *)
LEMMA ForgetStep ==
    ASSUME TypeOK, ProbeKnown, Coherent, NEW r \in Requests, Forget(r),
           UNCHANGED circuit
    PROVE  /\ phase' \in [Requests -> {"idle", "queued", "holding", "draining", "gone"}]
           /\ worker' \in [Requests -> {"none", "ready", "connecting", "analysing", "done"}]
           /\ target' \in [Requests -> Targets \cup {None}]
           /\ token' \in [Requests -> Tokens \cup {None}]
           /\ circuit' \in [Targets -> Circuit]
           /\ ProbeKnown' /\ Coherent'
<1>1. /\ phase' \in [Requests -> {"idle", "queued", "holding", "draining", "gone"}]
      /\ worker' \in [Requests -> {"none", "ready", "connecting", "analysing", "done"}]
      /\ target' \in [Requests -> Targets \cup {None}]
      /\ token' \in [Requests -> Tokens \cup {None}]
  BY DEF TypeOK, Forget
<1>2. ProbeKnown' /\ circuit' \in [Targets -> Circuit]
  BY DEF ProbeKnown, TypeOK
<1>3. Coherent'
  BY DEF Coherent, Forget, TypeOK
<1> QED
  BY <1>1, <1>2, <1>3

LEMMA LeaveStep ==
    ASSUME IInv, NEW r \in Requests, phase[r] \in {"holding", "draining"}, Leave(r)
    PROVE  IInv'
<1>1. Cardinality(Holders') = Cardinality(Holders) - 1
  BY HolderRemoved DEF IInv, Leave, Forget
<1>2. slots' = slots + 1 /\ slots \in Nat /\ Cardinality(Holders) \in Nat
  BY HoldersCount DEF IInv, TypeOK, Leave
<1>3. SlotsConserved'
  BY <1>1, <1>2 DEF IInv, SlotsConserved
<1>4. slots' \in 0..MaxConcurrency
  <2>1. Cardinality(Holders') \in Nat
    <3>1. Holders' \subseteq Requests
      BY DEF Holders
    <3> QED
      BY <3>1, InvokeAssumption, FS_Subset, FS_CardinalityType
  <2> QED
    BY <1>2, <1>3, <2>1, InvokeAssumption DEF SlotsConserved
<1> QED
  BY <1>3, <1>4, ForgetStep DEF IInv, TypeOK, Leave

(* A request that holds no slot is forgotten. *)
LEMMA DropStep ==
    ASSUME IInv, NEW r \in Requests, phase[r] \in {"queued", "gone"},
           Forget(r), UNCHANGED <<slots, circuit>>
    PROVE  IInv'
<1>1. Cardinality(Holders') = Cardinality(Holders)
  BY HoldersKept DEF IInv, TypeOK, Forget
<1>2. SlotsConserved'
  BY <1>1 DEF IInv, SlotsConserved
<1> QED
  BY <1>2, ForgetStep DEF IInv, TypeOK

(* A step of the worker that writes a sound record for its target. *)
LEMMA BreakerStep ==
    ASSUME IInv, NEW r \in Requests, target[r] \in Targets,
           NEW from \in {"ready", "connecting", "analysing"},
           NEW to \in {"connecting", "analysing", "done"},
           WorkerAt(r, from, to),
           NEW c, Sound(c), Becomes(r, c),
           token' \in [Requests -> Tokens \cup {None}],
           \A q \in Requests : q # r => token'[q] = token[q]
    PROVE  IInv'
<1>1. target[r] # None
  BY InvokeAssumption
<1>2. /\ worker' \in [Requests -> {"none", "ready", "connecting", "analysing", "done"}]
      /\ SlotsConserved' /\ Coherent'
  BY <1>1, WorkerStep DEF IInv
<1>3. circuit' \in [Targets -> Circuit] /\ ProbeKnown'
  BY BecomesSound DEF IInv
<1> QED
  BY <1>2, <1>3 DEF IInv, TypeOK, WorkerAt

(* A step of the worker that leaves the breaker alone. *)
LEMMA SilentStep ==
    ASSUME IInv, NEW r \in Requests,
           NEW from \in {"ready", "connecting", "analysing"},
           NEW to \in {"connecting", "analysing", "done"},
           WorkerAt(r, from, to),
           to = "connecting" => target[r] # None,
           UNCHANGED <<token, circuit>>
    PROVE  IInv'
<1>1. /\ worker' \in [Requests -> {"none", "ready", "connecting", "analysing", "done"}]
      /\ SlotsConserved' /\ Coherent'
  BY WorkerStep DEF IInv, TypeOK
<1>2. ProbeKnown'
  BY DEF IInv, ProbeKnown
<1> QED
  BY <1>1, <1>2 DEF IInv, TypeOK, WorkerAt

LEMMA Initially == Init => IInv
<1> SUFFICES ASSUME Init PROVE IInv
  OBVIOUS
<1>1. Holders = {}
  BY DEF Init, Holders
<1>2. SlotsConserved
  BY <1>1, FS_EmptySet, InvokeAssumption DEF Init, SlotsConserved
<1>3. TypeOK
  BY NewCircuitSound, InvokeAssumption DEF Init, TypeOK, Sound
<1>4. ProbeKnown
  BY NewCircuitSound DEF Init, ProbeKnown, Sound
<1>5. Coherent
  BY DEF Init, Coherent
<1> QED
  BY <1>2, <1>3, <1>4, <1>5 DEF IInv

LEMMA Inductive == IInv /\ [Next]_vars => IInv'
<1> SUFFICES ASSUME IInv, [Next]_vars
             PROVE  IInv'
  OBVIOUS
<1>1. CASE Tick
  <2>1. \A t \in Targets : Sound(circuit[t])
    BY DEF IInv, TypeOK, ProbeKnown, Sound
  <2>2. \A t \in Targets : Sound(Aged(circuit[t]))
    BY <2>1, AgedSound
  <2>3. circuit' \in [Targets -> Circuit] /\ ProbeKnown'
    BY <1>1, <2>2 DEF Tick, ProbeKnown, Sound
  <2>4. SlotsConserved'
    BY <1>1, HoldersKept DEF IInv, SlotsConserved, Tick
  <2>5. Coherent'
    BY <1>1 DEF IInv, Coherent, Tick
  <2> QED
    BY <1>1, <2>3, <2>4, <2>5 DEF IInv, TypeOK, Tick
<1>2. ASSUME NEW r \in Requests, NEW t \in Targets \cup {None}, Arrive(r, t)
      PROVE  IInv'
  <2>1. Cardinality(Holders') = Cardinality(Holders)
    BY <1>2, HoldersKept DEF IInv, TypeOK, Arrive
  <2>2. SlotsConserved' /\ ProbeKnown'
    BY <1>2, <2>1 DEF IInv, SlotsConserved, ProbeKnown, Arrive
  <2>3. TypeOK'
    BY <1>2 DEF IInv, TypeOK, Arrive
  <2>4. Coherent'
    BY <1>2 DEF IInv, TypeOK, Coherent, Arrive
  <2> QED
    BY <2>2, <2>3, <2>4 DEF IInv
<1>3. ASSUME NEW r \in Requests, Acquire(r)
      PROVE  IInv'
  <2>1. Cardinality(Holders') = Cardinality(Holders) + 1
    BY <1>3, HolderAdded DEF IInv, Acquire
  <2>2. SlotsConserved'
    BY <1>3, <2>1, HoldersCount DEF IInv, TypeOK, SlotsConserved, Acquire
  <2>3. slots' \in 0..MaxConcurrency
    BY <1>3, InvokeAssumption DEF IInv, TypeOK, Acquire
  <2>4. TypeOK' /\ ProbeKnown'
    BY <1>3, <2>3 DEF IInv, TypeOK, ProbeKnown, Acquire
  <2>5. Coherent'
    BY <1>3 DEF IInv, TypeOK, Coherent, Acquire
  <2> QED
    BY <2>2, <2>4, <2>5 DEF IInv
<1>4. ASSUME NEW r \in Requests, GiveUp(r) \/ CancelQueued(r) \/ Vanish(r)
      PROVE  IInv'
  BY <1>4, DropStep DEF GiveUp, CancelQueued, Vanish
<1>5. ASSUME NEW r \in Requests, Return(r)
      PROVE  IInv'
  BY <1>5, LeaveStep DEF Return
<1>6. ASSUME NEW r \in Requests, Cancel(r)
      PROVE  IInv'
  <2>1. Cardinality(Holders') = Cardinality(Holders)
    BY <1>6, HoldersKept DEF IInv, TypeOK, Cancel
  <2>2. SlotsConserved' /\ ProbeKnown'
    BY <1>6, <2>1 DEF IInv, SlotsConserved, ProbeKnown, Cancel
  <2>3. TypeOK'
    BY <1>6 DEF IInv, TypeOK, Cancel
  <2>4. Coherent'
    BY <1>6 DEF IInv, TypeOK, Coherent, Cancel
  <2> QED
    BY <2>2, <2>3, <2>4 DEF IInv
<1>7. ASSUME NEW r \in Requests, CancelAgain(r)
      PROVE  IInv'
  <2>1. CASE Leave(r)
    BY <1>7, <2>1, LeaveStep DEF CancelAgain
  <2>2. CASE /\ worker[r] \in {"connecting", "analysing"}
             /\ phase' = [phase EXCEPT ![r] = "gone"]
             /\ slots' = slots + 1
             /\ UNCHANGED <<worker, target, token, circuit>>
    <3>1. Cardinality(Holders') = Cardinality(Holders) - 1
      BY <1>7, <2>2, HolderRemoved DEF IInv, CancelAgain
    <3>2. SlotsConserved'
      BY <2>2, <3>1, HoldersCount DEF IInv, TypeOK, SlotsConserved
    <3>3. slots' \in 0..MaxConcurrency
      <4>1. Holders' \subseteq Requests
        BY DEF Holders
      <4>2. Cardinality(Holders') \in Nat
        BY <4>1, InvokeAssumption, FS_Subset, FS_CardinalityType
      <4> QED
        BY <2>2, <3>2, <4>2, InvokeAssumption DEF IInv, TypeOK, SlotsConserved
    <3>4. TypeOK' /\ ProbeKnown'
      BY <2>2, <3>3 DEF IInv, TypeOK, ProbeKnown
    <3>5. Coherent'
      BY <1>7, <2>2 DEF IInv, TypeOK, Coherent, CancelAgain
    <3> QED
      BY <3>2, <3>4, <3>5 DEF IInv
  <2> QED
    BY <1>7, <2>1, <2>2 DEF CancelAgain
<1>8. ASSUME NEW r \in Requests, Late(r) \/ StartLocal(r) \/ StartClosed(r)
                                  \/ Crash(r) \/ Finish(r)
      PROVE  IInv'
  BY <1>8, SilentStep DEF Late, StartLocal, StartClosed, Crash, Finish
<1>9. ASSUME NEW r \in Requests, NEW k \in Tokens, StartProbe(r, k)
      PROVE  IInv'
  <2>1. target[r] \in Targets
    BY <1>9 DEF IInv, TypeOK, StartProbe
  <2>2. Sound(Admitted(Current(r), k))
    BY <2>1, CurrentSound, AdmittedSound DEF IInv
  <2>3. /\ token' \in [Requests -> Tokens \cup {None}]
        /\ \A q \in Requests : q # r => token'[q] = token[q]
    BY <1>9 DEF IInv, TypeOK, StartProbe
  <2> QED
    BY <1>9, <2>1, <2>2, <2>3, BreakerStep DEF StartProbe
<1>10. ASSUME NEW r \in Requests, Deny(r) \/ Verify(r) \/ Fail(r)
       PROVE  IInv'
  <2>1. target[r] \in Targets
    BY <1>10 DEF IInv, TypeOK, Coherent, WorkerAt, Deny, Verify, Fail
  <2>2. /\ Sound(Current(r))
        /\ Sound(Succeeded(Current(r), token[r]))
        /\ Sound(Failed(Current(r), token[r]))
    BY <2>1, CurrentSound, SucceededSound, FailedSound DEF IInv
  <2>3. /\ token' \in [Requests -> Tokens \cup {None}]
        /\ \A q \in Requests : q # r => token'[q] = token[q]
    BY <1>10 DEF IInv, TypeOK, Deny, Verify, Fail
  <2>4. CASE Deny(r)
    BY <2>1, <2>2, <2>3, <2>4, BreakerStep DEF Deny
  <2>5. CASE Verify(r)
    BY <2>1, <2>2, <2>3, <2>5, BreakerStep DEF Verify
  <2>6. CASE Fail(r)
    BY <2>1, <2>2, <2>3, <2>6, BreakerStep DEF Fail
  <2> QED
    BY <1>10, <2>4, <2>5, <2>6
<1>11. CASE UNCHANGED vars
  <2>1. SlotsConserved'
    BY <1>11, HoldersKept DEF IInv, SlotsConserved, vars
  <2> QED
    BY <1>11, <2>1 DEF IInv, TypeOK, ProbeKnown, Coherent, vars
<1> QED
  BY <1>1, <1>2, <1>3, <1>4, <1>5, <1>6, <1>7, <1>8, <1>9, <1>10, <1>11
  DEF Next, Handler, Work, Ask, Disconnect

THEOREM InvariantHolds == Spec => []IInv
  BY Initially, Inductive, PTL DEF Spec

(* Every variable keeps its type; in particular the semaphore stays        *)
(* between 0 and its bound.                                                *)
THEOREM TypeCorrect == Spec => []TypeOK
<1>1. IInv => TypeOK
  BY DEF IInv
<1> QED
  BY <1>1, InvariantHolds, PTL

(* No path through the handler leaks a slot or releases one twice.         *)
THEOREM SlotsAreConserved == Spec => []SlotsConserved
<1>1. IInv => SlotsConserved
  BY DEF IInv
<1> QED
  BY <1>1, InvariantHolds, PTL

(* The handler's state is typed and accounts for every slot.               *)
THEOREM HandlerIsSoundHolds == Spec => []HandlerIsSound
<1>1. TypeOK /\ SlotsConserved => HandlerIsSound
  BY DEF HandlerIsSound
<1> QED
  BY <1>1, TypeCorrect, SlotsAreConserved, PTL

(* With at most one cancellation per request, the running workers are      *)
(* among the holders of a slot, and so never more than the concurrency.    *)
THEOREM CapacityHolds ==
    ASSUME MaxCancels <= 1
    PROVE  Spec => []CapacityIsHeldUntilExit
<1>1. IInv => CapacityIsHeldUntilExit
  <2> SUFFICES ASSUME IInv PROVE CapacityIsHeldUntilExit
    OBVIOUS
  <2> DEFINE R == {r \in Requests : Running(r)}
  <2>1. \A r \in Requests : phase[r] # "gone"
    BY InvokeAssumption DEF IInv, Coherent
  <2>2. R \subseteq Holders
    BY <2>1 DEF IInv, Coherent, Running, Holders
  <2>3. Cardinality(R) <= Cardinality(Holders) /\ Cardinality(R) \in Nat
    BY <2>2, HoldersCount, FS_Subset, FS_CardinalityType
  <2>4. Cardinality(Holders) <= MaxConcurrency
    BY HoldersCount, InvokeAssumption DEF IInv, TypeOK, SlotsConserved
  <2> QED
    BY <2>3, <2>4, HoldersCount, InvokeAssumption DEF CapacityIsHeldUntilExit
<1> QED
  BY <1>1, InvariantHolds, PTL

-----------------------------------------------------------------------------
(* The probe.                                                              *)

LEMMA SoleProbeInitially == Init => SoleProbe
<1>1. Init => ProbeKnown
  BY Initially DEF IInv
<1>2. NewCircuit.probe = None
  BY DEF NewCircuit
<1> QED
  BY <1>1, <1>2 DEF Init, SoleProbe

(* No step but a probe's admission introduces a token, anywhere. *)
LEMMA NoNewToken ==
    ASSUME IInv, SoleProbe, ProbeKnown',
           target' \in [Requests -> Targets \cup {None}],
           \A q \in Requests :
              \/ token'[q] = None
              \/ token'[q] = token[q] /\ target'[q] = target[q],
           \A t \in Targets : circuit'[t].probe \in {circuit[t].probe, None}
    PROVE  SoleProbe'
  BY DEF SoleProbe

(* What a step of a worker leaves in its target's record. *)
LEMMA StepProbe ==
    ASSUME IInv, NEW r \in Requests, target[r] \in Targets, NEW c, Sound(c),
           Becomes(r, c), c.probe \in {circuit[target[r]].probe, None}
    PROVE  \A t \in Targets : circuit'[t].probe \in {circuit[t].probe, None}
  BY BecomesSound DEF IInv

LEMMA SoleProbeInductive == IInv /\ IInv' /\ SoleProbe /\ [Next]_vars => SoleProbe'
<1> SUFFICES ASSUME IInv, IInv', SoleProbe, [Next]_vars
             PROVE  SoleProbe'
  OBVIOUS
<1>1. ProbeKnown' /\ target' \in [Requests -> Targets \cup {None}]
  BY DEF IInv, TypeOK
<1>2. CASE Tick
  <2>1. \A t \in Targets : circuit'[t].probe = circuit[t].probe
    BY <1>2, AgedSound DEF Tick, IInv, TypeOK, ProbeKnown, Sound
  <2> QED
    BY <1>1, <1>2, <2>1, NoNewToken DEF Tick
<1>3. ASSUME NEW r \in Requests, NEW t \in Targets \cup {None}, Arrive(r, t)
      PROVE  SoleProbe'
  <2>1. worker[r] = "none" /\ token[r] = None
    BY <1>3 DEF Arrive, IInv, Coherent, TypeOK
  <2>2. \A q \in Requests : \/ token'[q] = None
                            \/ token'[q] = token[q] /\ target'[q] = target[q]
    BY <1>3, <2>1 DEF Arrive, IInv, TypeOK
  <2> QED
    BY <1>1, <1>3, <2>2, NoNewToken DEF Arrive
<1>4. ASSUME NEW r \in Requests,
             \/ GiveUp(r) \/ CancelQueued(r) \/ Vanish(r) \/ Return(r)
             \/ CancelAgain(r) /\ Leave(r)
      PROVE  SoleProbe'
  <2>1. Forget(r) /\ UNCHANGED circuit
    BY <1>4 DEF GiveUp, CancelQueued, Vanish, Return, Leave
  <2>2. \A q \in Requests : \/ token'[q] = None
                            \/ token'[q] = token[q] /\ target'[q] = target[q]
    BY <2>1 DEF Forget, IInv, TypeOK
  <2> QED
    BY <1>1, <2>1, <2>2, NoNewToken
<1>5. CASE UNCHANGED <<target, token, circuit>>
  BY <1>1, <1>5, NoNewToken
<1>6. ASSUME NEW r \in Requests, NEW k \in Tokens, StartProbe(r, k)
      PROVE  SoleProbe'
  <2>1. target[r] \in Targets
    BY <1>6 DEF IInv, TypeOK, StartProbe
  <2>2. Sound(Admitted(Current(r), k)) /\ Admitted(Current(r), k).probe = k
    BY <2>1, CurrentSound, AdmittedSound DEF IInv
  <2>3. \A t \in Targets :
           circuit'[t].probe = IF t = target[r] THEN k ELSE circuit[t].probe
    BY <1>6, <2>1, <2>2, BecomesSound DEF IInv, StartProbe
  <2>4. \A q \in Requests : token'[q] = IF q = r THEN k ELSE token[q]
    BY <1>6 DEF IInv, TypeOK, StartProbe
  <2>5. /\ \A q \in Requests : token[q] # k
        /\ \A t \in Targets : circuit[t].probe # k
        /\ target' = target
    BY <1>6 DEF StartProbe, WorkerAt
  <2> QED
    BY <1>1, <2>3, <2>4, <2>5 DEF SoleProbe
<1>7. ASSUME NEW r \in Requests, Deny(r) \/ Verify(r) \/ Fail(r)
      PROVE  SoleProbe'
  <2>1. target[r] \in Targets
    BY <1>7 DEF IInv, TypeOK, Coherent, WorkerAt, Deny, Verify, Fail
  <2> DEFINE c == circuit[target[r]]
  <2>2. Sound(c) /\ Sound(Current(r)) /\ Current(r).probe \in {c.probe, None}
    BY <2>1, CurrentSound, RefreshedSound DEF IInv, Current
  <2>3. ASSUME NEW d, Sound(d), d.probe \in {Current(r).probe, None}, Becomes(r, d)
        PROVE  SoleProbe'
    <3>1. \A t \in Targets : circuit'[t].probe \in {circuit[t].probe, None}
      BY <2>1, <2>2, <2>3, StepProbe
    <3>2. UNCHANGED <<token, target>>
      BY <1>7 DEF Deny, Verify, Fail, WorkerAt
    <3> QED
      BY <1>1, <3>1, <3>2, NoNewToken
  <2> QED
    BY <1>7, <2>2, <2>3, SucceededSound, FailedSound DEF Deny, Verify, Fail
<1> QED
  BY <1>2, <1>3, <1>4, <1>5, <1>6, <1>7
  DEF Next, Handler, Work, Ask, Disconnect, Acquire, Cancel, CancelAgain, Late,
      StartLocal, StartClosed, Crash, Finish, WorkerAt, vars

(* At most one worker can resolve a half-open circuit, however many probes *)
(* were abandoned, orphaned or are still connecting.                       *)
THEOREM SoleProbeHolds == Spec => []SoleProbe
  BY InvariantHolds, SoleProbeInitially, SoleProbeInductive, PTL DEF Spec

-----------------------------------------------------------------------------
(* How a circuit changes state.                                            *)

(* A circuit goes on with the probe it has or with none, and one that has  *)
(* just opened has its whole cooldown ahead.                               *)
Onward(c, d) ==
    /\ d.state = "half_open" => d.probe = c.probe
    /\ c.state # "open" /\ d.state = "open" => d.opened = 0

LEMMA RefreshedOnward ==
    ASSUME NEW c, Sound(c)
    PROVE  /\ Onward(c, Refreshed(c))
           /\ Refreshed(c) = c \/ (Refreshed(c).state = "open" /\ Refreshed(c).opened = 0)
           /\ Refreshed(c).state = "half_open" => Refreshed(c) = c /\ c.leased # Lease
<1>1. Abandoned(c) => Reopened(c).state = "open" /\ Reopened(c).opened = 0
  BY DEF Sound, Circuit, Reopened
<1>2. c.state = "half_open" => InFlight(c)
  BY DEF Sound, InFlight
<1> QED
  BY <1>1, <1>2 DEF Refreshed, Onward, Abandoned

LEMMA FailedOnward ==
    ASSUME NEW c, Sound(c), NEW k
    PROVE  /\ Onward(c, Failed(c, k))
           /\ c.state = "open" => Failed(c, k).state = "open" /\ Failed(c, k).opened = c.opened
<1>1. CASE InFlight(c) /\ k = c.probe
  <2>1. Failed(c, k) = Reopened(c)
    BY <1>1 DEF Failed
  <2>2. Reopened(c).state = "open" /\ Reopened(c).opened = 0
    BY DEF Sound, Circuit, Reopened
  <2> QED
    BY <1>1, <2>1, <2>2 DEF Onward, InFlight
<1>2. CASE ~InFlight(c) /\ k = None
  <2> DEFINE n == [c EXCEPT !.failures[0] = @ + 1]
             o == [n EXCEPT !.state = "open", !.opened = 0]
  <2>1. Failed(c, k) = IF FailureCount(n) >= Threshold /\ n.state # "open" THEN o ELSE n
    BY <1>2 DEF Failed, Counted
  <2>2. n.state = c.state /\ n.opened = c.opened /\ n.probe = c.probe
    BY DEF Sound, Circuit
  <2>3. o.state = "open" /\ o.opened = 0
    BY DEF Sound, Circuit
  <2> HIDE DEF n, o
  <2> QED
    BY <2>1, <2>2, <2>3 DEF Onward
<1>3. CASE ~(InFlight(c) /\ k = c.probe) /\ ~(~InFlight(c) /\ k = None)
  BY <1>3 DEF Failed, Onward
<1> QED
  BY <1>1, <1>2, <1>3

LEMMA SucceededOnward ==
    ASSUME NEW c, Sound(c), NEW k
    PROVE  /\ Onward(c, Succeeded(c, k))
           /\ c.state = "open" => Succeeded(c, k) = c
<1>1. NewCircuit.state = "closed"
  BY DEF NewCircuit
<1> QED
  BY <1>1 DEF Succeeded, Onward, InFlight

(* The two halves of a worker's call, put together. *)
LEMMA CallOnward ==
    ASSUME NEW c, Sound(c), NEW d,
           \/ d = Refreshed(c)
           \/ \E k : d = Failed(Refreshed(c), k)
           \/ \E k : d = Succeeded(Refreshed(c), k)
    PROVE  Onward(c, d)
<1> DEFINE m == Refreshed(c)
<1>1. /\ Sound(m) /\ Onward(c, m)
      /\ m = c \/ (m.state = "open" /\ m.opened = 0)
  BY RefreshedSound, RefreshedOnward
<1> HIDE DEF m
<1>2. ASSUME NEW k, d = Failed(m, k) PROVE Onward(c, d)
  <2>1. /\ Onward(m, d)
        /\ m.state = "open" => d.state = "open" /\ d.opened = m.opened
    BY <1>1, <1>2, FailedOnward
  <2> QED
    BY <1>1, <2>1 DEF Onward
<1>3. ASSUME NEW k, d = Succeeded(m, k) PROVE Onward(c, d)
  <2>1. Onward(m, d) /\ (m.state = "open" => d = m)
    BY <1>1, <1>3, SucceededOnward
  <2> QED
    BY <1>1, <2>1 DEF Onward
<1> QED
  BY <1>1, <1>2, <1>3 DEF m

(* A circuit is probed only after a full cooldown since it last opened, by *)
(* one worker at a time.                                                   *)
THEOREM OneProbePerCooldownHolds == Spec => OneProbePerCooldown
<1> DEFINE Step(t) ==
        /\ circuit'[t].state = "half_open" =>
              \/ circuit[t].state = "open" /\ circuit[t].opened = Cooldown
              \/ circuit[t].probe = circuit'[t].probe
        /\ circuit[t].state # "open" /\ circuit'[t].state = "open" =>
              circuit'[t].opened = 0
<1>1. IInv /\ [Next]_vars => [\A t \in Targets : Step(t)]_vars
  <2> SUFFICES ASSUME IInv, Next, NEW t \in Targets
               PROVE  Step(t)
    BY DEF vars
  <2>1. Sound(circuit[t])
    BY DEF IInv, TypeOK, ProbeKnown, Sound
  <2>2. ASSUME Onward(circuit[t], circuit'[t]) PROVE Step(t)
    BY <2>2 DEF Onward
  <2>3. CASE circuit' = circuit
    BY <2>3
  <2>4. CASE Tick
    BY <2>1, <2>4, AgedSound DEF Tick
  <2>5. ASSUME NEW r \in Requests, Deny(r) \/ Verify(r) \/ Fail(r)
        PROVE  Step(t)
    <3>1. target[r] \in Targets
      BY <2>5 DEF IInv, TypeOK, Coherent, WorkerAt, Deny, Verify, Fail
    <3>2. CASE t # target[r]
      BY <2>5, <3>2 DEF Deny, Verify, Fail, Becomes, IInv, TypeOK
    <3>3. CASE t = target[r]
      <4>1. \/ circuit'[t] = Refreshed(circuit[t])
            \/ circuit'[t] = Failed(Refreshed(circuit[t]), token[r])
            \/ circuit'[t] = Succeeded(Refreshed(circuit[t]), token[r])
        BY <2>5, <3>3 DEF Deny, Verify, Fail, Becomes, Current, IInv, TypeOK
      <4>2. Onward(circuit[t], circuit'[t])
        BY <2>1, <4>1, CallOnward
      <4> QED
        BY <2>2, <4>2
    <3> QED
      BY <3>2, <3>3
  <2>6. ASSUME NEW r \in Requests, NEW k \in Tokens, StartProbe(r, k)
        PROVE  Step(t)
    <3>1. CASE t # target[r]
      BY <2>6, <3>1 DEF StartProbe, Becomes, IInv, TypeOK
    <3>2. CASE t = target[r]
      <4>1. Probing(Refreshed(circuit[t]))
        BY <2>6, <3>2 DEF StartProbe, Current
      <4>2. circuit[t].state = "open" /\ circuit[t].opened = Cooldown
        BY <2>1, <4>1, RefreshedSound, RefreshedOnward, Limits DEF Probing, Sound
      <4>3. circuit'[t] = Admitted(Refreshed(circuit[t]), k)
        BY <2>6, <3>2 DEF StartProbe, Becomes, Current, IInv, TypeOK
      <4>4. circuit'[t].state = "half_open"
        BY <2>1, <4>3, RefreshedSound DEF Admitted, Sound, Circuit
      <4> QED
        BY <4>2, <4>4
    <3> QED
      BY <3>1, <3>2
  <2> QED
    BY <2>3, <2>4, <2>5, <2>6
    DEF Next, Handler, Work, Ask, Disconnect, Arrive, Acquire, GiveUp, Return,
        Leave, CancelQueued, Cancel, CancelAgain, Vanish, Late, StartLocal,
        StartClosed, Crash, Finish, WorkerAt
<1> QED
  BY <1>1, InvariantHolds, PTL DEF Spec, OneProbePerCooldown

(* Only the worker a circuit is probing with closes it, within its lease:  *)
(* an abandoned probe, or one admitted before the circuit opened, cannot.  *)
THEOREM OnlyProbeClosesHolds == Spec => OnlyProbeCloses
<1> DEFINE Step(t) == circuit[t].state # "closed" /\ circuit'[t].state = "closed"
                          => ClosesByProbe(t)
<1>1. IInv /\ [Next]_vars => [\A t \in Targets : Step(t)]_vars
  <2> SUFFICES ASSUME IInv, Next, NEW t \in Targets,
                      circuit[t].state # "closed", circuit'[t].state = "closed"
               PROVE  ClosesByProbe(t)
    BY DEF vars
  <2>1. Sound(circuit[t])
    BY DEF IInv, TypeOK, ProbeKnown, Sound
  <2> DEFINE m == Refreshed(circuit[t])
  <2>2. Sound(m) /\ m.state # "closed"
    BY <2>1, RefreshedSound
  <2>3. ~Tick
    BY <2>1, AgedSound DEF Tick
  <2>4. circuit' # circuit
    OBVIOUS
  <2>5. ASSUME NEW r \in Requests, NEW k \in Tokens, StartProbe(r, k) PROVE FALSE
    <3>1. CASE t # target[r]
      BY <2>5, <3>1 DEF StartProbe, Becomes, IInv, TypeOK
    <3>2. CASE t = target[r]
      <4>1. circuit'[t] = Admitted(m, k)
        BY <2>5, <3>2 DEF StartProbe, Becomes, Current, IInv, TypeOK
      <4>2. circuit'[t].state = "half_open"
        BY <2>2, <4>1 DEF Admitted, Sound, Circuit
      <4> QED
        BY <4>2
    <3> QED
      BY <3>1, <3>2
  <2>6. ASSUME NEW r \in Requests, Deny(r) \/ Verify(r) \/ Fail(r)
        PROVE  ClosesByProbe(t)
    <3>1. t = target[r]
      BY <2>6 DEF Deny, Verify, Fail, Becomes, IInv, TypeOK
    <3>2. CASE Deny(r)
      BY <2>2, <3>1, <3>2 DEF Deny, Becomes, Current, IInv, TypeOK
    <3>3. CASE Fail(r)
      <4>1. circuit'[t] = Failed(m, token[r])
        BY <3>1, <3>3 DEF Fail, Becomes, Current, IInv, TypeOK
      <4> QED
        BY <2>2, <4>1, FailedSound
    <3>4. CASE Verify(r)
      <4>1. circuit'[t] = Succeeded(m, token[r])
        BY <3>1, <3>4 DEF Verify, Becomes, Current, IInv, TypeOK
      <4>2. m.state = "half_open" /\ m.probe # None /\ token[r] = m.probe
        BY <2>2, <4>1, SucceededSound
      <4>3. m = circuit[t] /\ circuit[t].leased # Lease
        BY <2>1, <4>2, RefreshedOnward
      <4>4. worker[r] = "connecting" /\ worker'[r] = "analysing"
        BY <3>4 DEF Verify, WorkerAt, IInv, TypeOK
      <4> QED
        BY <3>1, <4>2, <4>3, <4>4 DEF ClosesByProbe
    <3> QED
      BY <2>6, <3>2, <3>3, <3>4
  <2> QED
    BY <2>3, <2>4, <2>5, <2>6
    DEF Next, Handler, Work, Ask, Disconnect, Arrive, Acquire, GiveUp, Return,
        Leave, CancelQueued, Cancel, CancelAgain, Vanish, Late, StartLocal,
        StartClosed, Crash, Finish, WorkerAt
<1> QED
  BY <1>1, InvariantHolds, PTL DEF Spec, OnlyProbeCloses

(* A circuit that opened is probed once per cooldown, and closed only by   *)
(* the probe's success.                                                    *)
THEOREM ProbesGovernHolds == Spec => ProbesGovern
  BY OnlyProbeClosesHolds, OneProbePerCooldownHolds DEF ProbesGovern
-----------------------------------------------------------------------------
(* The failures a record counts.                                           *)

\* Induction over ages is done by the least counterexample.
LEMMA LeastNumber ==
    ASSUME NEW S, S \subseteq Nat, S # {}
    PROVE  \E n \in S : \A m \in S : n <= m
<1>1. PICK n \in S : \A m \in S : ~ (<<m, n>> \in OpToRel(<, Nat))
  BY WFMin, NatLessThanWellFounded
<1>2. \A m \in S : ~ (m < n)
  BY <1>1 DEF OpToRel
<1> QED
  BY <1>2

(* How many failures have each age. *)
Histories == [0..Window -> Nat]

(* The recursive definition of a count defines one. *)
LEMMA CountsAdd ==
    ASSUME NEW h \in Histories
    PROVE  /\ CountUpTo(h) \in Histories
           /\ CountUpTo(h)[0] = h[0]
           /\ \A a \in 1..Window : CountUpTo(h)[a] = CountUpTo(h)[a - 1] + h[a]
<1> DEFINE step(f) == [a \in 0..Window |-> IF a = 0 THEN h[0] ELSE f[a - 1] + h[a]]
           chosen == CHOOSE f : f = step(f)
           Fits(f, n) == f[0] = h[0] /\ \A a \in 1..n : f[a] = f[a - 1] + h[a]
           bad == {n \in 0..Window : ~ \E f : Fits(f, n)}
<1>1. Window \in Nat \ {0} /\ h[0] \in Nat /\ \A a \in 0..Window : h[a] \in Nat
  BY Limits DEF Histories
<1>2. bad = {}
  <2> SUFFICES ASSUME bad # {}
               PROVE  FALSE
    OBVIOUS
  <2>1. PICK n \in bad : \A m \in bad : n <= m
    <3>1. bad \subseteq Nat
      BY <1>1
    <3> HIDE DEF bad
    <3> QED
      BY <3>1, LeastNumber
  <2>2. n # 0
    <3>1. Fits([a \in {0} |-> h[0]], 0)
      OBVIOUS
    <3> QED
      BY <2>1, <3>1
  <2>3. n - 1 \in 0..Window /\ ~ (n <= n - 1)
    BY <1>1, <2>2
  <2>4. PICK f : Fits(f, n - 1)
    BY <2>1, <2>3
  <2> DEFINE g == [a \in 0..n |-> IF a = n THEN f[n - 1] + h[n] ELSE f[a]]
  <2>5. Fits(g, n)
    <3>1. g[0] = h[0]
      BY <1>1, <2>2, <2>4
    <3>2. ASSUME NEW a \in 1..n
          PROVE  g[a] = g[a - 1] + h[a]
      <4>1. g[a - 1] = f[a - 1]
        BY <1>1
      <4>2. CASE a = n
        BY <1>1, <4>1, <4>2
      <4>3. CASE a # n
        BY <1>1, <2>4, <4>1, <4>3
      <4> QED
        BY <4>2, <4>3
    <3> QED
      BY <3>1, <3>2
  <2> QED
    BY <2>5
<1>3. PICK f : Fits(f, Window)
  <2>1. Window \in 0..Window
    BY <1>1
  <2>2. Window \notin bad
    BY <1>2
  <2>3. \E f : Fits(f, Window)
    BY <2>1, <2>2
  <2> QED
    BY <2>3
<1> DEFINE g == [a \in 0..Window |-> f[a]]
<1>4. g = step(g)
  <2> SUFFICES ASSUME NEW a \in 0..Window
               PROVE  g[a] = IF a = 0 THEN h[0] ELSE g[a - 1] + h[a]
    OBVIOUS
  <2>1. CASE a = 0
    BY <1>1, <1>3, <2>1
  <2>2. CASE a # 0
    <3>1. a \in 1..Window /\ a - 1 \in 0..Window
      BY <1>1, <2>2
    <3> QED
      BY <1>3, <2>2, <3>1
  <2> QED
    BY <2>1, <2>2
<1>5. chosen = step(chosen)
  BY <1>4
<1>6. CountUpTo(h) = chosen
  BY DEF CountUpTo
<1> DEFINE sum == CountUpTo(h)
<1> HIDE DEF chosen
<1>7. \A a \in 0..Window : sum[a] = IF a = 0 THEN h[0] ELSE sum[a - 1] + h[a]
  BY <1>5, <1>6
<1>8. sum[0] = h[0] /\ \A a \in 1..Window : sum[a] = sum[a - 1] + h[a]
  BY <1>1, <1>7
<1>9. sum = [a \in 0..Window |-> sum[a]]
  BY <1>5, <1>6
<1> HIDE DEF sum
<1> DEFINE wrong == {a \in 0..Window : sum[a] \notin Nat}
<1>10. wrong = {}
  <2> SUFFICES ASSUME wrong # {}
               PROVE  FALSE
    OBVIOUS
  <2>1. PICK n \in wrong : \A m \in wrong : n <= m
    <3>1. wrong \subseteq Nat
      BY <1>1
    <3> HIDE DEF wrong
    <3> QED
      BY <3>1, LeastNumber
  <2>2. n \in 1..Window
    BY <1>1, <1>8, <2>1
  <2>3. n - 1 \in 0..Window /\ ~ (n <= n - 1)
    BY <1>1, <2>2
  <2>4. sum[n - 1] \in Nat
    BY <2>1, <2>3
  <2> QED
    BY <1>1, <1>8, <2>1, <2>2, <2>4
<1>11. sum \in Histories
  BY <1>9, <1>10 DEF Histories
<1> QED
  BY <1>8, <1>11 DEF sum

(* One failure more now is one more in the count. *)
LEMMA CountRaised ==
    ASSUME NEW h \in Histories, NEW i \in Histories,
           i[0] = h[0] + 1, \A a \in 1..Window : i[a] = h[a]
    PROVE  CountUpTo(i)[Window] = CountUpTo(h)[Window] + 1
<1> DEFINE s == CountUpTo(h)
           t == CountUpTo(i)
           bad == {a \in 0..Window : t[a] # s[a] + 1}
<1>1. /\ s \in Histories /\ s[0] = h[0]
      /\ \A a \in 1..Window : s[a] = s[a - 1] + h[a]
  BY CountsAdd
<1>2. /\ t \in Histories /\ t[0] = i[0]
      /\ \A a \in 1..Window : t[a] = t[a - 1] + i[a]
  BY CountsAdd
<1> HIDE DEF s, t
<1>3. bad = {}
  <2> SUFFICES ASSUME bad # {}
               PROVE  FALSE
    OBVIOUS
  <2>1. PICK n \in bad : \A m \in bad : n <= m
    <3>1. bad \subseteq Nat
      BY Limits
    <3> HIDE DEF bad
    <3> QED
      BY <3>1, LeastNumber
  <2>2. n \in 1..Window
    BY Limits, <1>1, <1>2, <2>1
  <2>3. n - 1 \in 0..Window /\ ~ (n <= n - 1)
    BY Limits, <2>2
  <2>4. t[n - 1] = s[n - 1] + 1
    BY <2>1, <2>3
  <2>5. s[n - 1] \in Nat /\ h[n] \in Nat /\ i[n] = h[n]
    BY Limits, <1>1, <2>2, <2>3 DEF Histories
  <2> QED
    BY <1>1, <1>2, <2>1, <2>2, <2>4, <2>5
<1>4. Window \in 0..Window
  BY Limits
<1> QED
  BY <1>3, <1>4 DEF s, t

(* A history a tick later. *)
Shifted(h) == [a \in 0..Window |-> IF a = 0 THEN 0 ELSE h[a - 1]]

(* A tick drops the oldest failures and doubles none. *)
LEMMA CountShifted ==
    ASSUME NEW h \in Histories
    PROVE  /\ Shifted(h) \in Histories
           /\ CountUpTo(Shifted(h))[Window] <= CountUpTo(h)[Window]
<1> DEFINE s == CountUpTo(h)
           i == Shifted(h)
           t == CountUpTo(i)
           bad == {a \in 1..Window : t[a] # s[a - 1]}
<1>0. /\ i \in Histories /\ i[0] = 0
      /\ \A a \in 1..Window : i[a] = h[a - 1]
  <2>1. \A a \in 1..Window : a - 1 \in 0..Window /\ h[a - 1] \in Nat
    BY Limits DEF Histories
  <2>2. \A a \in 0..Window : (IF a = 0 THEN 0 ELSE h[a - 1]) \in Nat
    BY Limits, <2>1
  <2> QED
    BY Limits, <2>1, <2>2 DEF Histories, Shifted
<1> HIDE DEF i
<1>1. /\ s \in Histories /\ s[0] = h[0]
      /\ \A a \in 1..Window : s[a] = s[a - 1] + h[a]
  BY CountsAdd
<1>2. /\ t \in Histories /\ t[0] = i[0]
      /\ \A a \in 1..Window : t[a] = t[a - 1] + i[a]
  BY <1>0, CountsAdd
<1> HIDE DEF s, t
<1>3. bad = {}
  <2> SUFFICES ASSUME bad # {}
               PROVE  FALSE
    OBVIOUS
  <2>1. PICK n \in bad : \A m \in bad : n <= m
    <3>1. bad \subseteq Nat
      BY Limits
    <3> HIDE DEF bad
    <3> QED
      BY <3>1, LeastNumber
  <2>2. n \in 1..Window /\ n - 1 \in 0..Window /\ t[n] = t[n - 1] + h[n - 1]
    BY Limits, <1>0, <1>2, <2>1
  <2>3. n # 1
    <3>1. h[0] \in Nat
      BY Limits DEF Histories
    <3>2. 1 \in 1..Window
      BY Limits
    <3>3. t[1] = 0 + h[0]
      BY <1>0, <1>2, <3>2
    <3> QED
      BY <1>1, <2>1, <3>1, <3>3
  <2>4. n - 1 \in 1..Window /\ ~ (n <= n - 1) /\ (n - 1) - 1 \in 0..Window
    BY Limits, <2>2, <2>3
  <2>5. t[n - 1] = s[(n - 1) - 1]
    BY <2>1, <2>4
  <2>6. s[n - 1] = s[(n - 1) - 1] + h[n - 1]
    BY <1>1, <2>4
  <2> QED
    BY <2>1, <2>2, <2>5, <2>6
<1>4. Window \in 1..Window /\ Window - 1 \in 0..Window /\ Window \in 0..Window
  BY Limits
<1>5. t[Window] = s[Window - 1] /\ s[Window] = s[Window - 1] + h[Window]
  BY <1>1, <1>3, <1>4
<1>6. s[Window - 1] \in Nat /\ h[Window] \in Nat
  BY <1>1, <1>4 DEF Histories
<1> QED
  BY <1>0, <1>5, <1>6 DEF s, t, i

(* A history of nothing counts nothing. *)
LEMMA CountOfNone == CountUpTo(NoFailures)[Window] = 0
<1> DEFINE s == CountUpTo(NoFailures)
           bad == {a \in 0..Window : s[a] # 0}
<1>0. NoFailures \in Histories /\ \A a \in 0..Window : NoFailures[a] = 0
  BY Limits DEF NoFailures, Histories
<1>1. /\ s \in Histories /\ s[0] = NoFailures[0]
      /\ \A a \in 1..Window : s[a] = s[a - 1] + NoFailures[a]
  BY <1>0, CountsAdd
<1> HIDE DEF s
<1>3. bad = {}
  <2> SUFFICES ASSUME bad # {}
               PROVE  FALSE
    OBVIOUS
  <2>1. PICK n \in bad : \A m \in bad : n <= m
    <3>1. bad \subseteq Nat
      BY Limits
    <3> HIDE DEF bad
    <3> QED
      BY <3>1, LeastNumber
  <2>2. n \in 1..Window
    BY Limits, <1>0, <1>1, <2>1
  <2>3. n - 1 \in 0..Window /\ ~ (n <= n - 1)
    BY Limits, <2>2
  <2>4. s[n - 1] = 0 /\ NoFailures[n] = 0
    BY Limits, <1>0, <2>1, <2>2, <2>3
  <2> QED
    BY <1>1, <2>1, <2>2, <2>4
<1>4. Window \in 0..Window
  BY Limits
<1> QED
  BY <1>3, <1>4 DEF s

LEMMA CountTyped ==
    ASSUME NEW c, Sound(c)
    PROVE  c.failures \in Histories /\ FailureCount(c) \in Nat
<1>1. c.failures \in Histories /\ Window \in 0..Window
  BY Limits DEF Sound, Circuit, Histories
<1> QED
  BY <1>1, CountsAdd DEF FailureCount, Histories

LEMMA NewCircuitCount == FailureCount(NewCircuit) = 0
  BY CountOfNone DEF FailureCount, NewCircuit

LEMMA AgedCount ==
    ASSUME NEW c, Sound(c)
    PROVE  FailureCount(Aged(c)) <= FailureCount(c)
<1>1. Aged(c).failures = Shifted(c.failures)
  BY DEF Sound, Circuit, Aged, Shifted
<1> QED
  BY <1>1, CountTyped, CountShifted DEF FailureCount

LEMMA RefreshedCount ==
    ASSUME NEW c, Sound(c)
    PROVE  /\ FailureCount(Refreshed(c)) = FailureCount(c)
           /\ c.state = "closed" <=> Refreshed(c).state = "closed"
<1>1. Reopened(c).failures = c.failures /\ Reopened(c).state = "open"
  BY DEF Sound, Circuit, Reopened
<1>2. Abandoned(c) => c.state # "closed"
  BY DEF Abandoned, InFlight
<1> QED
  BY <1>1, <1>2 DEF Refreshed, FailureCount

LEMMA SucceededCount ==
    ASSUME NEW c, NEW k
    PROVE  Succeeded(c, k) = c \/ Succeeded(c, k) = NewCircuit
  BY DEF Succeeded

(* A failure counts only if it is no probe's, and then once. *)
LEMMA FailedCount ==
    ASSUME NEW c, Sound(c), NEW k
    PROVE  \/ /\ FailureCount(Failed(c, k)) = FailureCount(c)
              /\ c.state = "closed" <=> Failed(c, k).state = "closed"
           \/ /\ k = None
              /\ FailureCount(Failed(c, k)) = FailureCount(c) + 1
              /\ Failed(c, k).state = "closed" =>
                    c.state = "closed" /\ FailureCount(Failed(c, k)) < Threshold
<1>1. CASE InFlight(c) /\ k = c.probe
  <2>1. Failed(c, k) = Reopened(c)
    BY <1>1 DEF Failed
  <2>2. Reopened(c).failures = c.failures /\ Reopened(c).state = "open"
    BY DEF Sound, Circuit, Reopened
  <2>3. FailureCount(Failed(c, k)) = FailureCount(c)
    BY <2>1, <2>2 DEF FailureCount
  <2>4. c.state # "closed" /\ Failed(c, k).state # "closed"
    BY <1>1, <2>1, <2>2 DEF InFlight
  <2> QED
    BY <2>3, <2>4
<1>2. CASE ~InFlight(c) /\ k = None
  <2> DEFINE n == [c EXCEPT !.failures[0] = @ + 1]
             o == [n EXCEPT !.state = "open", !.opened = 0]
  <2>1. Failed(c, k) = IF FailureCount(n) >= Threshold /\ n.state # "open" THEN o ELSE n
    BY <1>2 DEF Failed, Counted
  <2>2. n.state = c.state /\ n.failures = [c.failures EXCEPT ![0] = @ + 1]
    BY DEF Sound, Circuit
  <2>3. o.state = "open" /\ o.failures = n.failures
    BY DEF Sound, Circuit
  <2>4. c.failures \in Histories /\ FailureCount(c) \in Nat
    BY CountTyped
  <2>5. FailureCount(n) = FailureCount(c) + 1
    <3> DEFINE h == c.failures
               i == [h EXCEPT ![0] = @ + 1]
    <3>1. h \in Histories
      BY <2>4
    <3> HIDE DEF h
    <3>2. 0 \in 0..Window /\ h[0] \in Nat
      BY <3>1, Limits DEF Histories
    <3>3. i \in Histories /\ i[0] = h[0] + 1
      BY <3>1, <3>2 DEF Histories
    <3>4. \A a \in 1..Window : i[a] = h[a]
      BY <3>1, Limits DEF Histories
    <3> HIDE DEF i
    <3>5. CountUpTo(i)[Window] = CountUpTo(h)[Window] + 1
      BY <3>1, <3>3, <3>4, CountRaised
    <3>6. n.failures = i
      BY <2>2 DEF h, i
    <3> QED
      BY <3>5, <3>6 DEF FailureCount, h
  <2>6. FailureCount(o) = FailureCount(n)
    BY <2>3 DEF FailureCount
  <2> HIDE DEF n, o
  <2>7. FailureCount(Failed(c, k)) = FailureCount(c) + 1
    BY <2>1, <2>5, <2>6
  <2>8. ASSUME Failed(c, k).state = "closed"
        PROVE  c.state = "closed" /\ FailureCount(Failed(c, k)) < Threshold
    BY <2>1, <2>2, <2>3, <2>4, <2>5, <2>8, Limits
  <2> QED
    BY <1>2, <2>7, <2>8
<1>3. CASE ~(InFlight(c) /\ k = c.probe) /\ ~(~InFlight(c) /\ k = None)
  BY <1>3 DEF Failed
<1> QED
  BY <1>1, <1>2, <1>3

-----------------------------------------------------------------------------
(* The failures still to come.                                             *)

(* Workers that a target's closed circuit admitted, and that have not      *)
(* reported: each can add one failure after it opened.                     *)
Pending(t) ==
    {r \in Requests : worker[r] = "connecting" /\ target[r] = t /\ token[r] = None}

CountFits(c, pending) ==
    /\ c.state = "closed" => FailureCount(c) < Threshold
    /\ c.state # "closed" =>
          FailureCount(c) + Cardinality(pending) < Threshold + Cardinality(Requests)

LateFailuresFit == \A t \in Targets : CountFits(circuit[t], Pending(t))

LEMMA RequestsCount ==
    ASSUME NEW P, P \subseteq Requests
    PROVE  /\ IsFiniteSet(P) /\ Cardinality(P) \in Nat
           /\ Cardinality(Requests) \in Nat
           /\ Cardinality(P) <= Cardinality(Requests)
  BY InvokeAssumption, FS_Subset, FS_CardinalityType

(* A record that counts no more, while fewer are pending. *)
LEMMA FitsKept ==
    ASSUME NEW c, Sound(c), NEW d, Sound(d),
           NEW P, P \subseteq Requests, NEW Q, Q \subseteq P, CountFits(c, P),
           FailureCount(d) <= FailureCount(c),
           c.state = "closed" <=> d.state = "closed"
    PROVE  CountFits(d, Q)
<1>1. IsFiniteSet(P) /\ Cardinality(P) \in Nat /\ Cardinality(Requests) \in Nat
  BY RequestsCount
<1>2. Cardinality(Q) \in Nat /\ Cardinality(Q) <= Cardinality(P)
  BY <1>1, FS_Subset, FS_CardinalityType
<1>3. FailureCount(c) \in Nat /\ FailureCount(d) \in Nat
  BY CountTyped
<1> QED
  BY <1>1, <1>2, <1>3, Limits DEF CountFits

LEMMA NewFits ==
    ASSUME NEW P
    PROVE  CountFits(NewCircuit, P)
<1>1. NewCircuit.state = "closed"
  BY DEF NewCircuit
<1> QED
  BY <1>1, NewCircuitCount, Limits DEF CountFits

(* One more failure, of one that was pending. *)
LEMMA FitsAfterFailure ==
    ASSUME NEW c, Sound(c), NEW d, Sound(d),
           NEW P, P \subseteq Requests, NEW r \in P, CountFits(c, P),
           FailureCount(d) = FailureCount(c) + 1,
           d.state = "closed" => c.state = "closed" /\ FailureCount(d) < Threshold
    PROVE  CountFits(d, P \ {r})
<1>1. IsFiniteSet(P) /\ Cardinality(P) \in Nat /\ Cardinality(Requests) \in Nat
      /\ Cardinality(P) <= Cardinality(Requests)
  BY RequestsCount
<1>2. Cardinality(P \ {r}) = Cardinality(P) - 1
  BY <1>1, FS_RemoveElement
<1>3. FailureCount(c) \in Nat
  BY CountTyped
<1> QED
  BY <1>1, <1>2, <1>3, Limits DEF CountFits

(* Steps that leave the circuits alone and make nobody pending. *)
LEMMA NobodyPending ==
    ASSUME IInv, LateFailuresFit, UNCHANGED circuit,
           \A t \in Targets : circuit[t].state # "closed" => Pending(t)' \subseteq Pending(t)
    PROVE  LateFailuresFit'
<1> SUFFICES ASSUME NEW t \in Targets
             PROVE  CountFits(circuit[t], Pending(t)')
  BY DEF LateFailuresFit
<1>1. Sound(circuit[t]) /\ CountFits(circuit[t], Pending(t))
  BY DEF IInv, TypeOK, ProbeKnown, Sound, LateFailuresFit
<1>2. CASE circuit[t].state = "closed"
  BY <1>1, <1>2 DEF CountFits
<1>3. CASE circuit[t].state # "closed"
  <2>1. Pending(t) \subseteq Requests /\ FailureCount(circuit[t]) <= FailureCount(circuit[t])
    BY <1>1, CountTyped DEF Pending
  <2> QED
    BY <1>1, <1>3, <2>1, FitsKept
<1> QED
  BY <1>2, <1>3

LEMMA FewerPending ==
    ASSUME NEW t,
           \A q \in Requests : worker'[q] = "connecting" /\ token'[q] = None =>
               worker[q] = "connecting" /\ token[q] = None /\ target'[q] = target[q]
    PROVE  Pending(t)' \subseteq Pending(t)
  BY DEF Pending

(* A worker's call that replaces the record of its target. *)
LEMMA CallFits ==
    ASSUME IInv, LateFailuresFit, NEW r \in Requests, target[r] \in Targets,
           NEW d, Sound(d), Becomes(r, d),
           CountFits(d, Pending(target[r])'),
           \A q \in Requests : q # r =>
               worker'[q] = worker[q] /\ token'[q] = token[q],
           target' = target
    PROVE  LateFailuresFit'
<1> SUFFICES ASSUME NEW t \in Targets
             PROVE  CountFits(circuit'[t], Pending(t)')
  BY DEF LateFailuresFit
<1>1. circuit'[t] = IF t = target[r] THEN d ELSE circuit[t]
  BY BecomesSound DEF IInv
<1>2. CASE t = target[r]
  BY <1>1, <1>2
<1>3. CASE t # target[r]
  <2>1. Pending(t)' = Pending(t)
    BY <1>3 DEF Pending
  <2> QED
    BY <1>1, <1>3, <2>1 DEF LateFailuresFit
<1> QED
  BY <1>2, <1>3

LEMMA LateFailuresFitInitially == Init => LateFailuresFit
  BY NewFits DEF Init, LateFailuresFit

LEMMA LateFailuresFitInductive ==
    IInv /\ LateFailuresFit /\ [Next]_vars => LateFailuresFit'
<1> SUFFICES ASSUME IInv, LateFailuresFit, [Next]_vars
             PROVE  LateFailuresFit'
  OBVIOUS
<1>1. CASE Tick
  <2> SUFFICES ASSUME NEW t \in Targets
               PROVE  CountFits(circuit'[t], Pending(t)')
    BY DEF LateFailuresFit
  <2>1. Sound(circuit[t]) /\ CountFits(circuit[t], Pending(t))
    BY DEF IInv, TypeOK, ProbeKnown, Sound, LateFailuresFit
  <2>2. circuit'[t] = Aged(circuit[t]) /\ Pending(t)' = Pending(t)
    BY <1>1 DEF Tick, Pending
  <2>3. Pending(t) \subseteq Requests
    BY DEF Pending
  <2> QED
    BY <2>1, <2>2, <2>3, AgedSound, AgedCount, FitsKept
<1>2. ASSUME NEW r \in Requests, NEW t \in Targets \cup {None}, Arrive(r, t)
      PROVE  LateFailuresFit'
  <2>1. worker[r] = "none"
    BY <1>2 DEF Arrive, IInv, Coherent, TypeOK
  <2>2. \A q \in Requests : worker'[q] = "connecting" /\ token'[q] = None =>
            worker[q] = "connecting" /\ token[q] = None /\ target'[q] = target[q]
    BY <1>2, <2>1 DEF Arrive, IInv, TypeOK
  <2> QED
    BY <1>2, <2>2, FewerPending, NobodyPending DEF Arrive
<1>3. ASSUME NEW r \in Requests, Forget(r), UNCHANGED circuit
      PROVE  LateFailuresFit'
  <2>1. \A q \in Requests : worker'[q] = "connecting" /\ token'[q] = None =>
            worker[q] = "connecting" /\ token[q] = None /\ target'[q] = target[q]
    BY <1>3 DEF Forget, IInv, TypeOK
  <2> QED
    BY <1>3, <2>1, FewerPending, NobodyPending
<1>4. ASSUME NEW r \in Requests, NEW to \in {"ready", "analysing", "done"},
             worker' = [worker EXCEPT ![r] = to],
             UNCHANGED <<target, token, circuit>>
      PROVE  LateFailuresFit'
  <2>1. \A q \in Requests : worker'[q] = "connecting" /\ token'[q] = None =>
            worker[q] = "connecting" /\ token[q] = None /\ target'[q] = target[q]
    BY <1>4 DEF IInv, TypeOK
  <2> QED
    BY <1>4, <2>1, FewerPending, NobodyPending
<1>5. CASE UNCHANGED <<worker, target, token, circuit>>
  <2>1. \A q \in Requests : worker'[q] = "connecting" /\ token'[q] = None =>
            worker[q] = "connecting" /\ token[q] = None /\ target'[q] = target[q]
    BY <1>5
  <2> QED
    BY <1>5, <2>1, FewerPending, NobodyPending
<1>6. ASSUME NEW r \in Requests, StartClosed(r)
      PROVE  LateFailuresFit'
  <2>1. target[r] \in Targets
    BY <1>6 DEF IInv, TypeOK, StartClosed
  <2>2. circuit[target[r]].state = "closed"
    BY <1>6, <2>1, CurrentSound, RefreshedCount DEF IInv, StartClosed, Current
  <2>3. ASSUME NEW t \in Targets, circuit[t].state # "closed"
        PROVE  Pending(t)' \subseteq Pending(t)
    <3>1. \A q \in Requests : q # r => worker'[q] = worker[q]
      BY <1>6 DEF StartClosed, WorkerAt, IInv, TypeOK
    <3>2. UNCHANGED <<target, token>> /\ target[r] # t
      BY <1>6, <2>2, <2>3 DEF StartClosed, WorkerAt
    <3> QED
      BY <3>1, <3>2 DEF Pending
  <2>4. UNCHANGED circuit
    BY <1>6 DEF StartClosed
  <2> QED
    BY <2>3, <2>4, NobodyPending
<1>7. ASSUME NEW r \in Requests, NEW k \in Tokens, StartProbe(r, k)
      PROVE  LateFailuresFit'
  <2>1. target[r] \in Targets /\ target' = target
    BY <1>7 DEF IInv, TypeOK, StartProbe, WorkerAt
  <2> DEFINE m == Current(r)
             d == Admitted(m, k)
             P == Pending(target[r])
  <2>2. Sound(circuit[target[r]]) /\ Sound(m) /\ Sound(d)
    BY <2>1, CurrentSound, AdmittedSound DEF IInv
  <2>3. /\ FailureCount(m) = FailureCount(circuit[target[r]])
        /\ m.state = "closed" <=> circuit[target[r]].state = "closed"
    BY <2>2, RefreshedCount DEF Current
  <2>4. m.state # "closed"
    BY <1>7 DEF StartProbe, Probing
  <2>5. d.state = "half_open" /\ FailureCount(d) = FailureCount(m)
    BY <2>2 DEF Sound, Circuit, Admitted, FailureCount
  <2>6. /\ \A q \in Requests : q # r => worker'[q] = worker[q] /\ token'[q] = token[q]
        /\ token'[r] # None
    BY <1>7, Limits DEF StartProbe, WorkerAt, IInv, TypeOK
  <2>7. P' \subseteq P /\ P \subseteq Requests
    BY <2>1, <2>6 DEF Pending
  <2>8. CountFits(circuit[target[r]], P) /\ FailureCount(circuit[target[r]]) \in Nat
    BY <2>1, <2>2, CountTyped DEF LateFailuresFit
  <2>9. Becomes(r, d)
    BY <1>7 DEF StartProbe
  <2> HIDE DEF m, d, P
  <2>10. CountFits(d, P')
    BY <2>2, <2>3, <2>4, <2>5, <2>7, <2>8, FitsKept
  <2> QED
    BY <2>1, <2>2, <2>6, <2>9, <2>10, CallFits DEF P
<1>8. ASSUME NEW r \in Requests, Deny(r) \/ Verify(r) \/ Fail(r)
      PROVE  LateFailuresFit'
  <2>1. target[r] \in Targets /\ UNCHANGED <<target, token>>
    BY <1>8 DEF IInv, TypeOK, Coherent, WorkerAt, Deny, Verify, Fail
  <2> DEFINE c == circuit[target[r]]
             m == Current(r)
             P == Pending(target[r])
  <2>2. Sound(c) /\ Sound(m)
    BY <2>1, CurrentSound DEF IInv
  <2>3. FailureCount(m) = FailureCount(c) /\ (m.state = "closed" <=> c.state = "closed")
    BY <2>2, RefreshedCount DEF Current
  <2>4. FailureCount(c) \in Nat /\ CountFits(c, P) /\ P \subseteq Requests
    BY <2>1, <2>2, CountTyped DEF LateFailuresFit, Pending
  <2>5. /\ \A q \in Requests : q # r => worker'[q] = worker[q] /\ token'[q] = token[q]
        /\ worker'[r] # "connecting"
    BY <1>8 DEF Deny, Verify, Fail, WorkerAt, IInv, TypeOK
  <2>6. P' = P \ {r}
    BY <2>1, <2>5 DEF Pending
  <2>7. CountFits(m, P)
    BY <2>3, <2>4 DEF CountFits
  <2>8. FailureCount(m) \in Nat /\ FailureCount(m) <= FailureCount(m)
    BY <2>3, <2>4
  <2>9. CountFits(m, P')
    <3> HIDE DEF c, m, P
    <3> QED
      BY <2>2, <2>4, <2>6, <2>7, <2>8, FitsKept
  <2>10. ASSUME NEW d, Sound(d), Becomes(r, d), CountFits(d, P')
         PROVE  LateFailuresFit'
    BY <2>1, <2>5, <2>10, CallFits
  <2>11. CASE Deny(r)
    BY <2>2, <2>9, <2>10, <2>11 DEF Deny
  <2>12. CASE Verify(r)
    <3>1. Sound(Succeeded(m, token[r])) /\ CountFits(Succeeded(m, token[r]), P')
      BY <2>2, <2>9, SucceededSound, SucceededCount, NewFits
    <3> QED
      BY <2>10, <2>12, <3>1 DEF Verify
  <2>13. CASE Fail(r)
    <3> DEFINE d == Failed(m, token[r])
    <3>1. Sound(d) /\ Becomes(r, d)
      BY <2>2, <2>13, FailedSound DEF Fail
    <3>2. worker[r] = "connecting"
      BY <2>13 DEF Fail, WorkerAt
    <3>3. CASE /\ FailureCount(d) = FailureCount(m)
               /\ m.state = "closed" <=> d.state = "closed"
      <4>1. FailureCount(d) <= FailureCount(m) /\ P' \subseteq P
        BY <2>6, <2>8, <3>3
      <4>2. CountFits(d, P')
        <5> HIDE DEF m, d, P
        <5> QED
          BY <2>2, <2>4, <2>7, <3>1, <3>3, <4>1, FitsKept
      <4> QED
        BY <2>10, <3>1, <4>2
    <3>4. CASE /\ token[r] = None
               /\ FailureCount(d) = FailureCount(m) + 1
               /\ d.state = "closed" => m.state = "closed" /\ FailureCount(d) < Threshold
      <4>1. r \in P
        BY <3>2, <3>4 DEF Pending
      <4>2. CountFits(d, P \ {r})
        <5> HIDE DEF m, d, P
        <5> QED
          BY <2>2, <2>4, <2>7, <3>1, <3>4, <4>1, FitsAfterFailure
      <4> QED
        BY <2>6, <2>10, <3>1, <4>2
    <3> QED
      BY <2>2, <3>3, <3>4, FailedCount
  <2> QED
    BY <1>8, <2>11, <2>12, <2>13
<1>9. CASE UNCHANGED vars
  BY <1>5, <1>9 DEF vars
<1> QED
  BY <1>1, <1>2, <1>3, <1>4, <1>5, <1>6, <1>7, <1>8, <1>9
  DEF Next, Handler, Work, Ask, Disconnect, Acquire, GiveUp, Return, Leave,
      CancelQueued, Cancel, CancelAgain, Vanish, Late, StartLocal, Crash, Finish,
      WorkerAt

(* A circuit is closed with fewer than Threshold failures in the window,   *)
(* and the workers it had admitted are all that can add to them after it   *)
(* has opened.                                                             *)
THEOREM FailuresBoundedHolds == Spec => []FailuresBounded
<1>1. IInv /\ LateFailuresFit => FailuresBounded
  <2> SUFFICES ASSUME IInv, LateFailuresFit, NEW t \in Targets
               PROVE  /\ circuit[t].state = "closed" => FailureCount(circuit[t]) < Threshold
                      /\ FailureCount(circuit[t]) < Threshold + Cardinality(Requests)
    BY DEF FailuresBounded
  <2>1. Sound(circuit[t]) /\ CountFits(circuit[t], Pending(t))
    BY DEF IInv, TypeOK, ProbeKnown, Sound, LateFailuresFit
  <2>2. FailureCount(circuit[t]) \in Nat
    BY <2>1, CountTyped
  <2>3. Cardinality(Pending(t)) \in Nat /\ Cardinality(Requests) \in Nat
    <3>1. Pending(t) \subseteq Requests
      BY DEF Pending
    <3> QED
      BY <3>1, RequestsCount
  <2> QED
    BY <2>1, <2>2, <2>3, Limits DEF CountFits
<1> QED
  BY <1>1, InvariantHolds, LateFailuresFitInitially, LateFailuresFitInductive, PTL DEF Spec
=============================================================================
