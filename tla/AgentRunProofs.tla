---------------------------- MODULE AgentRunProofs ----------------------------
(***************************************************************************)
(* Theorems about AgentRun, for every set of threads, tokens and actions   *)
(* and every bound on iterations, retries, steps and faults; about the     *)
(* dispatch of the tools its loops call; and about what the ReAct loop     *)
(* makes of their answers and of the model's calls, for questions of every *)
(* size.                                                                   *)
(***************************************************************************)
EXTENDS AgentRun, MCTools, SequenceTheorems, FiniteSetTheorems, WellFoundedInduction, TLAPS

-----------------------------------------------------------------------------
(* The token store: an operation lets tokens go, issuing one apart.        *)

LEMMA EmptyStoreTyped == EmptyStore \in TokenStore /\ \A t \in Tokens : EmptyStore[t] = None
  BY DEF EmptyStore, TokenStore

LEMMA PurgedStore ==
    ASSUME NEW kept \in TokenStore, NEW n \in Nat
    PROVE  /\ Purged(kept, n) \in TokenStore
           /\ \A t \in Tokens : Purged(kept, n)[t] \in {kept[t], None}
  BY DEF Purged, TokenStore

LEMMA IssuedStore ==
    ASSUME NEW kept \in TokenStore, NEW n \in Nat, NEW t \in Tokens, NEW a \in Actions
    PROVE  /\ Issued(kept, t, a, n) \in TokenStore
           /\ \A u \in Tokens \ {t} : Issued(kept, t, a, n)[u] \in {kept[u], None}
           /\ Issued(kept, t, a, n)[t] # None => Issued(kept, t, a, n)[t].action = a
<1> DEFINE rec == [action |-> a, expires |-> n + TokenTtl]
           new == [kept EXCEPT ![t] = rec]
<1>1. rec \in TokenRecord /\ rec.action = a
  BY TokenAssumption DEF TokenRecord
<1>2. new \in TokenStore /\ new[t] = rec /\ \A u \in Tokens \ {t} : new[u] = kept[u]
  BY <1>1 DEF TokenStore
<1>3. Issued(kept, t, a, n) = Purged(new, n)
  BY DEF Issued
<1> HIDE DEF new, rec
<1> QED
  BY <1>1, <1>2, <1>3, PurgedStore

(* A token that authorises an action was in the store for it, and is gone. *)
LEMMA Spent ==
    ASSUME NEW kept \in TokenStore, NEW n \in Nat, NEW t \in Tokens \cup {None}, NEW a
    PROVE  /\ Left(kept, t, n) \in TokenStore
           /\ \A u \in Tokens : Left(kept, t, n)[u] \in {kept[u], None}
           /\ t \in Tokens => Left(kept, t, n)[t] = None
           /\ Authorises(Popped(kept, t, n), a, n) =>
                 t \in Tokens /\ kept[t] # None /\ kept[t].action = a
<1>1. /\ Left(kept, t, n) \in TokenStore
      /\ \A u \in Tokens : Left(kept, t, n)[u] \in {kept[u], None}
      /\ t \in Tokens => Left(kept, t, n)[t] = None
  BY PurgedStore DEF Left, TokenStore
<1>2. Popped(kept, t, n) # None => t \in Tokens /\ Popped(kept, t, n) = kept[t]
  BY PurgedStore DEF Popped
<1> QED
  BY <1>1, <1>2 DEF Authorises

-----------------------------------------------------------------------------
(* The recorded steps.                                                     *)

LEMMA StepAppended ==
    ASSUME NEW s \in Seq(Step), NEW r \in Step
    PROVE  /\ Append(s, r) \in Seq(Step) /\ Len(Append(s, r)) = Len(s) + 1
           /\ Append(s, r) # <<>> /\ Append(s, r)[Len(s) + 1] = r
  BY AppendProperties

(* The status of a step is rewritten in its row and no row is lost.        *)
LEMMA StatusRewritten ==
    ASSUME NEW s \in Seq(Step), NEW i \in Nat, NEW st \in Waiting \cup {"ok", "rejected"}
    PROVE  /\ [s EXCEPT ![i].status = st] \in Seq(Step)
           /\ Len([s EXCEPT ![i].status = st]) = Len(s)
           /\ \A j \in 1..Len(s) : [s EXCEPT ![i].status = st][j].status = IF i = j THEN st ELSE s[j].status
<1> DEFINE new == [s EXCEPT ![i].status = st]
<1>1. DOMAIN s = 1..Len(s) /\ \A j \in 1..Len(s) : s[j] \in Step
  OBVIOUS
<1>2. DOMAIN new = 1..Len(s)
  BY <1>1
<1>3. \A j \in 1..Len(s) : new[j] = IF i = j THEN [s[j] EXCEPT !.status = st] ELSE s[j]
  BY <1>1
<1>4. \A r \in Step : [r EXCEPT !.status = st] \in Step /\ [r EXCEPT !.status = st].status = st
  BY DEF Step
<1>5. \A j \in 1..Len(s) : new[j] \in Step
  BY <1>1, <1>3, <1>4
<1>6. new = [j \in 1..Len(s) |-> new[j]]
  BY <1>2
<1> HIDE DEF new
<1>7. new \in Seq(Step)
  BY <1>2, <1>5, <1>6
<1>8. Len(new) = Len(s)
  BY <1>2, <1>7
<1>9. \A j \in 1..Len(s) : new[j].status = IF i = j THEN st ELSE s[j].status
  BY <1>1, <1>3, <1>4
<1> QED
  BY <1>7, <1>8, <1>9 DEF new

-----------------------------------------------------------------------------
(* Types.                                                                  *)

(* A loop in a tool call knows the call, and what is previewed would       *)
(* change the cluster.                                                     *)
AtWork ==
    \A l \in Loops :
        pc[l] \in {"calling", "acting", "suspending", "announcing"} =>
            call[l] \in Call /\ (call[l].dry => call[l].action \in Actions)

Typed == TypeOK /\ AtWork

LEMMA RecordTyped ==
    ASSUME steps \in Seq(Step), faults \in Nat, redo \in [Loops -> 0..Len(steps)],
           NEW r \in Step, Record(r)
    PROVE  /\ steps' \in Seq(Step) /\ faults' \in Nat /\ Len(steps') >= Len(steps)
           /\ redo \in [Loops -> 0..Len(steps')]
<1>1. CASE steps' = Append(steps, r) /\ UNCHANGED faults
  <2>1. steps' \in Seq(Step) /\ Len(steps') = Len(steps) + 1 /\ Len(steps) \in Nat
    BY <1>1, StepAppended
  <2> QED
    BY <1>1, <2>1
<1>2. CASE UNCHANGED steps /\ Fault
  BY <1>2 DEF Fault
<1> QED
  BY <1>1, <1>2 DEF Record

LEMMA CountedUp ==
    ASSUME NEW f \in [Actions -> Nat], NEW a
    PROVE  [f EXCEPT ![a] = @ + 1] \in [Actions -> Nat]
<1>1. [f EXCEPT ![a] = @ + 1] = [b \in Actions |-> IF b = a THEN f[b] + 1 ELSE f[b]]
  OBVIOUS
<1>2. \A b \in Actions : (IF b = a THEN f[b] + 1 ELSE f[b]) \in Nat
  OBVIOUS
<1> QED
  BY <1>1, <1>2

LEMMA Retried ==
    ASSUME NEW k \in Call
    PROVE  /\ [k EXCEPT !.tries = @ + 1] \in Call
           /\ [k EXCEPT !.tries = @ + 1].dry = k.dry
           /\ [k EXCEPT !.tries = @ + 1].action = k.action
           /\ [k EXCEPT !.tries = @ + 1].token = k.token
<1>1. k.tries + 1 \in Nat
  BY DEF Call
<1>2. \A n \in Nat : /\ [k EXCEPT !.tries = n] \in Call
                     /\ [k EXCEPT !.tries = n].dry = k.dry
                     /\ [k EXCEPT !.tries = n].action = k.action
                     /\ [k EXCEPT !.tries = n].token = k.token
  BY DEF Call
<1> QED
  BY <1>1, <1>2

(* A loop goes on to a place, perhaps with another call.                   *)
LEMMA LoopMoves ==
    ASSUME pc \in [Loops -> Places], call \in [Loops -> Call \cup {None}], AtWork,
           NEW l \in Loops, NEW p \in Places, Goto(l, p),
           NEW k \in Call \cup {None},
           call' = [call EXCEPT ![l] = k],
           p \in {"calling", "acting", "suspending", "announcing"} =>
               k \in Call /\ (k.dry => k.action \in Actions)
    PROVE  pc' \in [Loops -> Places] /\ call' \in [Loops -> Call \cup {None}] /\ AtWork'
<1>1. pc' \in [Loops -> Places] /\ call' \in [Loops -> Call \cup {None}]
  BY DEF Goto
<1>2. ASSUME NEW m \in Loops, pc'[m] \in {"calling", "acting", "suspending", "announcing"}
      PROVE  call'[m] \in Call /\ (call'[m].dry => call'[m].action \in Actions)
  <2>1. CASE m = l
    <3>1. pc'[m] = p /\ call'[m] = k
      BY <2>1 DEF Goto
    <3> QED
      BY <1>2, <3>1
  <2>2. CASE m # l
    <3>1. pc'[m] = pc[m] /\ call'[m] = call[m]
      BY <2>2 DEF Goto
    <3> QED
      BY <1>2, <3>1 DEF AtWork
  <2> QED
    BY <2>1, <2>2
<1> QED
  BY <1>1, <1>2 DEF AtWork

LEMMA LoopGoesOn ==
    ASSUME pc \in [Loops -> Places], call \in [Loops -> Call \cup {None}], AtWork,
           NEW l \in Loops, NEW p \in Places, Goto(l, p), UNCHANGED call,
           \/ pc[l] \in {"calling", "acting", "suspending", "announcing"}
           \/ p \notin {"calling", "acting", "suspending", "announcing"}
    PROVE  pc' \in [Loops -> Places] /\ call' \in [Loops -> Call \cup {None}] /\ AtWork'
<1>1. call' = [call EXCEPT ![l] = call[l]] /\ call[l] \in Call \cup {None}
  OBVIOUS
<1>2. p \in {"calling", "acting", "suspending", "announcing"} =>
          call[l] \in Call /\ (call[l].dry => call[l].action \in Actions)
  BY DEF AtWork
<1> QED
  BY <1>1, <1>2, LoopMoves

LEMMA LoopLeaves ==
    ASSUME pc \in [Loops -> Places], iter \in [Loops -> Nat], token \in [Loops -> Tokens \cup {None}],
           steps \in Seq(Step), redo \in [Loops -> 0..Len(steps)],
           call \in [Loops -> Call \cup {None}], AtWork, NEW l \in Loops, Leave(l)
    PROVE  /\ pc' \in [Loops -> Places] /\ iter' \in [Loops -> Nat]
           /\ token' \in [Loops -> Tokens \cup {None}] /\ redo' \in [Loops -> 0..Len(steps)]
           /\ call' \in [Loops -> Call \cup {None}] /\ AtWork'
<1>1. Goto(l, "idle") /\ "idle" \in Places /\ call' = [call EXCEPT ![l] = None]
  BY DEF Leave, Places
<1>2. pc' \in [Loops -> Places] /\ call' \in [Loops -> Call \cup {None}] /\ AtWork'
  BY <1>1, LoopMoves
<1>3. 0 \in 0..Len(steps)
  OBVIOUS
<1> QED
  BY <1>2, <1>3 DEF Leave

(* Every variable keeps its type.                                          *)
THEOREM TypeCorrect == Spec => []Typed
<1> USE AgentAssumption, TokenAssumption
<1>1. Init => Typed
  <2> SUFFICES ASSUME Init
               PROVE  Typed
    OBVIOUS
  <2>1. steps \in Seq(Step) /\ Len(steps) = 0 /\ redo \in [Loops -> 0..Len(steps)]
    BY EmptySeq DEF Init
  <2>2. did \in [Tokens \cup {None} -> [Actions -> Nat]]
    BY DEF Init
  <2>3. pc \in [Loops -> Places] /\ AtWork
    BY DEF Init, AtWork, Places
  <2> QED
    BY <2>1, <2>2, <2>3, EmptyStoreTyped DEF Init, Typed, TypeOK
<1>2. Typed /\ [Next]_vars => Typed'
  <2> SUFFICES ASSUME Typed, [Next]_vars
               PROVE  Typed'
    OBVIOUS
  <2> USE DEF Typed, TypeOK, store, locals, history
  <2>0. /\ \A l \in Loops : redo[l] \in 0..Len(steps) /\ iter[l] \in Nat
        /\ Len(steps) \in Nat
    OBVIOUS
  <2>1. ASSUME NEW l \in Loops, Open(l)
        PROVE  Typed'
    <3>1. Goto(l, "top") /\ "top" \in Places /\ UNCHANGED call
      BY <2>1 DEF Open, Places
    <3>2. pc' \in [Loops -> Places] /\ AtWork'
      BY <3>1, LoopGoesOn
    <3> QED
      BY <2>1, <3>2 DEF Open
  <2>2. ASSUME NEW l \in Loops, Abort(l) \/ GiveUp(l) \/ Exhaust(l)
        PROVE  Typed'
    <3>1. \E p \in {"complete", "failed", "aborted"} : Goto(l, p)
      BY <2>2 DEF Abort, GiveUp, Exhaust
    <3>2. UNCHANGED <<status, steps, cards, store, iter, locals, rejecting, history, faults>>
      BY <2>2 DEF Abort, GiveUp, Exhaust
    <3>3. pc' \in [Loops -> Places] /\ AtWork'
      BY <3>1, <3>2, LoopGoesOn DEF Places
    <3> QED
      BY <3>2, <3>3
  <2>3. ASSUME NEW l \in Loops, Nudge(l)
        PROVE  Typed'
    <3>1. iter' \in [Loops -> Nat]
      BY <2>0, <2>3 DEF Nudge
    <3>2. AtWork'
      BY <2>3 DEF Nudge, AtWork
    <3> QED
      BY <2>3, <3>1, <3>2 DEF Nudge
  <2>4. ASSUME NEW l \in Loops, Answer(l)
        PROVE  Typed'
    <3>1. [status |-> "ok", iter |-> iter[l], action |-> None] \in Step
      BY <2>0 DEF Step
    <3>2. /\ steps' \in Seq(Step) /\ faults' \in Nat
          /\ redo \in [Loops -> 0..Len(steps')]
      BY <2>4, <3>1, RecordTyped DEF Answer
    <3>3. Goto(l, "complete") /\ "complete" \in Places /\ UNCHANGED call
      BY <2>4 DEF Answer, Places
    <3>4. pc' \in [Loops -> Places] /\ AtWork'
      BY <3>3, LoopGoesOn
    <3> QED
      BY <2>4, <3>2, <3>4 DEF Answer
  <2>5. ASSUME NEW l \in Loops, NEW a \in Actions \cup {None}, NEW confirm \in BOOLEAN, Decide(l, a, confirm)
        PROVE  Typed'
    <3> DEFINE k == [action |-> a, dry |-> a # None /\ ForcedDry(l, confirm), token |-> None, tries |-> 0]
    <3>1. (a # None /\ ForcedDry(l, confirm)) \in BOOLEAN
      BY DEF ForcedDry
    <3>2. k \in Call
      BY <3>1 DEF Call
    <3>3. k.dry => k.action \in Actions
      OBVIOUS
    <3>4. call' = [call EXCEPT ![l] = k] /\ Goto(l, "calling") /\ "calling" \in Places
      BY <2>5 DEF Decide, Places
    <3> HIDE DEF k
    <3>5. pc' \in [Loops -> Places] /\ call' \in [Loops -> Call \cup {None}] /\ AtWork'
      BY <3>2, <3>3, <3>4, LoopMoves
    <3> QED
      BY <2>5, <3>5 DEF Decide
  <2>6. ASSUME NEW l \in Loops, Redo(l)
        PROVE  Typed'
    <3> DEFINE k == [action |-> steps[redo[l]].action, dry |-> FALSE, token |-> token[l], tries |-> 0]
    <3>1. redo[l] \in 1..Len(steps) /\ redo[l] \in Nat
      BY <2>0, <2>6 DEF Redo
    <3>2. steps[redo[l]] \in Step
      BY <3>1, ElementOfSeq
    <3>3. steps[redo[l]].action \in Actions \cup {None} /\ token[l] \in Tokens \cup {None}
      BY <3>2 DEF Step
    <3>4. k \in Call /\ ~k.dry
      BY <3>3 DEF Call
    <3>5. steps' \in Seq(Step) /\ faults' \in Nat /\ Len(steps') = Len(steps)
      <4>1. CASE UNCHANGED steps /\ Fault
        BY <4>1 DEF Fault
      <4>2. CASE steps' = [steps EXCEPT ![redo[l]].status = "ok"] /\ UNCHANGED faults
        BY <3>1, <4>2, StatusRewritten
      <4> QED
        BY <2>6, <4>1, <4>2 DEF Redo
    <3>6. call' = [call EXCEPT ![l] = k] /\ Goto(l, "calling") /\ "calling" \in Places
      BY <2>6 DEF Redo, Places
    <3>7. redo' \in [Loops -> 0..Len(steps')]
      BY <2>0, <2>6, <3>5 DEF Redo
    <3> HIDE DEF k
    <3>8. pc' \in [Loops -> Places] /\ call' \in [Loops -> Call \cup {None}] /\ AtWork'
      BY <3>4, <3>6, LoopMoves
    <3> QED
      BY <2>6, <3>5, <3>7, <3>8 DEF Redo
  <2>7. ASSUME NEW l \in Loops, Observe(l) \/ NeedsAccess(l)
        PROVE  Typed'
    <3>1. \E p \in {"recording", "suspending"} : Goto(l, p)
      BY <2>7 DEF Observe, NeedsAccess
    <3>2. /\ pc[l] = "calling"
          /\ UNCHANGED <<status, steps, cards, store, iter, locals, rejecting, history, faults>>
      BY <2>7 DEF Observe, NeedsAccess
    <3>3. pc' \in [Loops -> Places] /\ AtWork'
      BY <3>1, <3>2, LoopGoesOn DEF Places
    <3> QED
      BY <3>2, <3>3
  <2>8. ASSUME NEW l \in Loops, NEW t \in Tokens, Preview(l, t)
        PROVE  Typed'
    <3> DEFINE k == [call[l] EXCEPT !.token = t]
    <3>1. call[l] \in Call /\ call[l].action \in Actions
      BY <2>8 DEF Preview, AtWork
    <3>2. tokens' \in TokenStore
      BY <2>8, <3>1, IssuedStore DEF Preview, now
    <3>3. k \in Call /\ k.action = call[l].action
      BY <3>1 DEF Call
    <3>4. call' = [call EXCEPT ![l] = k] /\ Goto(l, "suspending") /\ "suspending" \in Places
      BY <2>8 DEF Preview, Places
    <3> HIDE DEF k
    <3>5. pc' \in [Loops -> Places] /\ call' \in [Loops -> Call \cup {None}] /\ AtWork'
      BY <3>1, <3>3, <3>4, LoopMoves
    <3> QED
      BY <2>8, <3>1, <3>2, <3>5 DEF Preview
  <2>9. ASSUME NEW l \in Loops, Redeem(l)
        PROVE  Typed'
    <3>1. call[l] \in Call /\ call[l].token \in Tokens \cup {None}
      BY <2>9 DEF Redeem, AtWork, Call
    <3>2. tokens' \in TokenStore
      BY <2>9, <3>1, Spent DEF Redeem, now
    <3>3. \E p \in {"acting", "recording"} : Goto(l, p)
      BY <2>9 DEF Redeem
    <3>4. pc' \in [Loops -> Places] /\ AtWork'
      BY <2>9, <3>3, LoopGoesOn DEF Redeem, Places
    <3> QED
      BY <2>9, <3>2, <3>4 DEF Redeem
  <2>10. ASSUME NEW l \in Loops, Act(l) \/ Retry(l)
         PROVE  Typed'
    <3>1. call[l] \in Call /\ (call[l].dry => call[l].action \in Actions)
      BY <2>10 DEF Act, Retry, AtWork
    <3>2. did' \in [Tokens \cup {None} -> [Actions -> Nat]]
      <4>1. call[l].token \in Tokens \cup {None}
        BY <3>1 DEF Call
      <4>2. did[call[l].token] \in [Actions -> Nat]
        BY <4>1
      <4>3. [did[call[l].token] EXCEPT ![call[l].action] = @ + 1] \in [Actions -> Nat]
        BY <4>2, CountedUp
      <4>4. CASE Effect(l)
        BY <4>1, <4>3, <4>4 DEF Effect
      <4> QED
        BY <2>10, <4>4 DEF Act, Retry
    <3>3. CASE Act(l)
      <4>1. Goto(l, "recording") /\ "recording" \in Places /\ UNCHANGED call
        BY <3>3 DEF Act, Places
      <4>2. pc' \in [Loops -> Places] /\ AtWork'
        BY <4>1, LoopGoesOn
      <4> QED
        BY <3>2, <3>3, <4>2 DEF Act
    <3>4. CASE Retry(l)
      <4> DEFINE k == [call[l] EXCEPT !.tries = @ + 1]
      <4>1. call[l].tries \in Nat
        BY <3>1 DEF Call
      <4>2. k \in Call /\ k.dry = call[l].dry /\ k.action = call[l].action
        BY <3>1, <4>1, Retried
      <4>3. call' = [call EXCEPT ![l] = k] /\ Goto(l, "calling") /\ "calling" \in Places
        BY <3>4 DEF Retry, Places
      <4> HIDE DEF k
      <4>4. pc' \in [Loops -> Places] /\ call' \in [Loops -> Call \cup {None}] /\ AtWork'
        BY <3>1, <4>2, <4>3, LoopMoves
      <4> QED
        BY <3>2, <3>4, <4>4 DEF Retry
    <3> QED
      BY <2>10, <3>3, <3>4
  <2>11. ASSUME NEW l \in Loops, RecordStep(l)
         PROVE  Typed'
    <3>1. [status |-> "ok", iter |-> iter[l], action |-> None] \in Step
      BY <2>0 DEF Step
    <3>2. /\ steps' \in Seq(Step) /\ faults' \in Nat
          /\ redo \in [Loops -> 0..Len(steps')]
      BY <2>11, <3>1, RecordTyped DEF RecordStep
    <3>3. Goto(l, "top") /\ "top" \in Places /\ call' = [call EXCEPT ![l] = None]
      BY <2>11 DEF RecordStep, Places
    <3>4. pc' \in [Loops -> Places] /\ call' \in [Loops -> Call \cup {None}] /\ AtWork'
      BY <3>3, LoopMoves
    <3>5. iter' \in [Loops -> Nat]
      BY <2>0, <2>11 DEF RecordStep
    <3> QED
      BY <2>11, <3>2, <3>4, <3>5 DEF RecordStep
  <2>12. ASSUME NEW l \in Loops, Suspend(l)
         PROVE  Typed'
    <3>1. pc[l] = "suspending" /\ UNCHANGED call /\ \E p \in {"announcing", "recording"} : Goto(l, p)
      BY <2>12 DEF Suspend
    <3>2. pc' \in [Loops -> Places] /\ AtWork'
      BY <3>1, LoopGoesOn DEF Places
    <3>3. faults' \in Nat /\ status' \in {status, "suspended"}
      BY <2>12 DEF Suspend, Fault
    <3> QED
      BY <2>12, <3>2, <3>3 DEF Suspend
  <2>13. ASSUME NEW l \in Loops, Close(l) \/ StartFails(l) \/ Conflict(l)
         PROVE  Typed'
    <3>1. Leave(l) /\ UNCHANGED <<steps, cards, store, rejecting, did, refused>>
      BY <2>13 DEF Close, StartFails, Conflict
    <3>2. /\ pc' \in [Loops -> Places] /\ iter' \in [Loops -> Nat]
          /\ token' \in [Loops -> Tokens \cup {None}] /\ redo' \in [Loops -> 0..Len(steps)]
          /\ call' \in [Loops -> Call \cup {None}] /\ AtWork'
      BY <3>1, LoopLeaves
    <3>3. faults' \in Nat /\ stranded' \in BOOLEAN
      <4>1. CASE Close(l)
        <5>1. \/ UNCHANGED <<faults, stranded>>
              \/ Fault /\ stranded' = TRUE
          BY <4>1 DEF Close
        <5>2. CASE UNCHANGED <<faults, stranded>>
          BY <5>2
        <5>3. CASE Fault /\ stranded' = TRUE
          BY <5>3 DEF Fault
        <5> QED
          BY <5>1, <5>2, <5>3
      <4>2. CASE StartFails(l)
        BY <4>2 DEF StartFails, Fault
      <4>3. CASE Conflict(l)
        BY <4>3 DEF Conflict
      <4> QED
        BY <2>13, <4>1, <4>2, <4>3
    <3>4. status' \in {status, "complete", "failed", "aborted"}
      BY <2>13 DEF Close, StartFails, Conflict
    <3> QED
      BY <3>1, <3>2, <3>3, <3>4
  <2>14. ASSUME NEW l \in Loops, Announce(l)
         PROVE  Typed'
    <3>1. Leave(l) /\ UNCHANGED <<status, store, rejecting, did, refused>>
      BY <2>14 DEF Announce
    <3>2. /\ pc' \in [Loops -> Places] /\ iter' \in [Loops -> Nat]
          /\ token' \in [Loops -> Tokens \cup {None}] /\ redo' \in [Loops -> 0..Len(steps)]
          /\ call' \in [Loops -> Call \cup {None}] /\ AtWork'
      BY <3>1, LoopLeaves
    <3>3. CASE Fault /\ stranded' = TRUE /\ UNCHANGED <<steps, cards>>
      BY <3>1, <3>2, <3>3 DEF Fault
    <3>4. CASE ~(Fault /\ stranded' = TRUE /\ UNCHANGED <<steps, cards>>)
      <4> DEFINE r == [status |-> IF call[l].action = None THEN "pending_folder_grant" ELSE "pending_approval",
                       iter |-> iter[l], action |-> call[l].action]
                 c == [step |-> Len(steps) + 1, token |-> call[l].token]
      <4>1. call[l] \in Call
        BY <2>14 DEF Announce, AtWork
      <4>2. r \in Step /\ c \in Card
        BY <2>0, <4>1 DEF Step, Waiting, Card, Call
      <4>3. steps' = Append(steps, r) /\ cards' = cards \cup {c} /\ UNCHANGED <<faults, stranded>>
        BY <2>14, <3>4 DEF Announce
      <4> HIDE DEF r, c
      <4>4. steps' \in Seq(Step) /\ Len(steps') = Len(steps) + 1
        BY <4>2, <4>3, StepAppended
      <4>5. redo' \in [Loops -> 0..Len(steps')]
        BY <2>0, <3>2, <4>4
      <4> QED
        BY <3>1, <3>2, <4>2, <4>3, <4>4, <4>5
    <3> QED
      BY <3>3, <3>4
  <2>15. ASSUME NEW l \in Loops, Resume(l)
         PROVE  Typed'
    <3>1. Goto(l, "starting") /\ "starting" \in Places /\ UNCHANGED call
      BY <2>15 DEF Resume, Places
    <3>2. pc' \in [Loops -> Places] /\ AtWork'
      BY <3>1, LoopGoesOn
    <3> QED
      BY <2>15, <3>2 DEF Resume
  <2>16. ASSUME NEW l \in Loops, Load(l)
         PROVE  Typed'
    <3>1. ASSUME NEW s \in Resumable(l)
          PROVE  s \in 0..Len(steps) /\ steps[s].iter \in Nat
      <4>1. s \in 1..Len(steps)
        BY <2>0, <3>1 DEF Resumable
      <4>2. steps[s] \in Step
        BY <4>1, ElementOfSeq
      <4> QED
        BY <4>1, <4>2 DEF Step
    <3>2. redo' \in [Loops -> 0..Len(steps)] /\ iter' \in [Loops -> Nat] /\ faults' \in Nat
      <4>1. ASSUME NEW s \in Resumable(l), UNCHANGED faults,
                   redo' = [redo EXCEPT ![l] = s], iter' = [iter EXCEPT ![l] = steps[s].iter]
            PROVE  redo' \in [Loops -> 0..Len(steps)] /\ iter' \in [Loops -> Nat] /\ faults' \in Nat
        BY <3>1, <4>1
      <4>2. ASSUME UNCHANGED <<redo, iter>>, faults' \in {faults, faults + 1}
            PROVE  redo' \in [Loops -> 0..Len(steps)] /\ iter' \in [Loops -> Nat] /\ faults' \in Nat
        BY <4>2
      <4> QED
        BY <2>16, <4>1, <4>2 DEF Load, Fault
    <3>3. Goto(l, "top") /\ "top" \in Places /\ UNCHANGED call
      BY <2>16 DEF Load, Places
    <3>4. pc' \in [Loops -> Places] /\ AtWork'
      BY <3>3, LoopGoesOn
    <3> QED
      BY <2>16, <3>2, <3>4 DEF Load
  <2>17. ASSUME NEW l \in Loops, NEW c \in cards, CheckApproval(l, c)
         PROVE  Typed'
    <3>1. token' \in [Loops -> Tokens \cup {None}]
      BY <2>17 DEF CheckApproval, Card
    <3>2. Goto(l, "checked") /\ "checked" \in Places /\ UNCHANGED call
      BY <2>17 DEF CheckApproval, Places
    <3>3. pc' \in [Loops -> Places] /\ AtWork'
      BY <3>2, LoopGoesOn
    <3> QED
      BY <2>17, <3>1, <3>3 DEF CheckApproval
  <2>18. ASSUME NEW c \in cards, RejectStep(c)
         PROVE  Typed'
    <3>1. c.step \in Nat
      BY DEF Card
    <3>2. steps' \in Seq(Step) /\ Len(steps') = Len(steps)
      BY <2>18, <3>1, StatusRewritten DEF RejectStep
    <3>3. AtWork'
      BY <2>18 DEF RejectStep, AtWork
    <3> QED
      BY <2>18, <3>1, <3>2, <3>3 DEF RejectStep
  <2>19. CASE RejectRun
    <3>1. AtWork'
      BY <2>19 DEF RejectRun, AtWork
    <3> QED
      BY <2>19, <3>1 DEF RejectRun
  <2>20. ASSUME NEW t \in Tokens, Lapse(t)
         PROVE  Typed'
    <3>1. tokens' \in TokenStore
      BY <2>20 DEF Lapse, TokenStore
    <3>2. AtWork'
      BY <2>20 DEF Lapse, AtWork
    <3> QED
      BY <2>20, <3>1, <3>2 DEF Lapse, Fault
  <2>21. CASE Restart
    <3>1. redo' \in [Loops -> 0..Len(steps)]
      BY <2>0, <2>21 DEF Restart
    <3>2. pc' \in [Loops -> Places] /\ AtWork'
      BY <2>21 DEF Restart, AtWork, Places
    <3> QED
      BY <2>21, <3>1, <3>2, EmptyStoreTyped DEF Restart, Fault
  <2>22. CASE UNCHANGED vars
    BY <2>22 DEF vars, AtWork
  <2>23. ASSUME NEW l \in Loops, Work(l)
         PROVE  Typed'
    <3> HIDE DEF Typed, TypeOK, store, locals, history
    <3> QED
      BY <2>2, <2>3, <2>4, <2>5, <2>6, <2>7, <2>8, <2>9, <2>10, <2>11, <2>12, <2>13, <2>14, <2>15, <2>16, <2>23
         DEF Work
  <2> QED
    BY <2>1, <2>17, <2>18, <2>19, <2>20, <2>21, <2>22, <2>23 DEF Next
<1> QED
  BY <1>1, <1>2, PTL DEF Spec

-----------------------------------------------------------------------------
(* Approvals.  A run nobody opened has no loop and nothing to approve, so  *)
(* opening it starts its only loop.                                        *)
NothingYet ==
    status = "none" => cards = {} /\ rejecting = 0 /\ \A l \in Loops : pc[l] = "idle"

(* A token in the store still stands for the action it was previewed for,  *)
(* nothing was done on it, and no loop has it in hand.                     *)
StoredTokensStand ==
    \A t \in Tokens : tokens[t] # None =>
        /\ tokens[t].action = bound[t]
        /\ \A a \in Actions : did[t][a] = 0
        /\ \A l \in Loops : pc[l] = "acting" => call[l].token # t

(* So does a token a loop has just redeemed.                               *)
HeldTokensStand ==
    \A l \in Loops : pc[l] = "acting" =>
        /\ call[l].token \in Tokens
        /\ call[l].action \in Actions
        /\ bound[call[l].token] = call[l].action
        /\ \A a \in Actions : did[call[l].token][a] = 0

Exclusive == NothingYet /\ SoleLoop /\ StoredTokensStand /\ HeldTokensStand /\ ActsAsApproved

(* What a loop's step does to the others, unless it is about a token: it   *)
(* works on only from a run it has, or has just been given.                *)
Moves(l) ==
    /\ \E p \in Places \ {"acting"} :
           /\ Goto(l, p)
           /\ p \in Active => \/ pc[l] \in Active
                              \/ status \in {"none", "suspended"} /\ status' = "running"
           /\ status' = "suspended" => \/ status = "suspended"
                                       \/ p \notin Active /\ pc[l] \in Active
    /\ \A m \in Loops \ {l} : call'[m] = call[m]
    /\ status' = "none" => status = "none"
    /\ UNCHANGED <<tokens, bound, did>>

LEMMA MovesTo ==
    ASSUME NEW l \in Loops, NEW p \in Places \ {"acting"}, Goto(l, p),
           \/ p \notin Active
           \/ pc[l] \in Active
           \/ status \in {"none", "suspended"} /\ status' = "running",
           \/ status' # "suspended" \/ status = "suspended"
           \/ p \notin Active /\ pc[l] \in Active,
           \A m \in Loops \ {l} : call'[m] = call[m],
           status' = "none" => status = "none",
           UNCHANGED <<tokens, bound, did>>
    PROVE  Moves(l)
<1>1. \E q \in Places \ {"acting"} :
          /\ Goto(l, q)
          /\ q \in Active => \/ pc[l] \in Active
                             \/ status \in {"none", "suspended"} /\ status' = "running"
          /\ status' = "suspended" => \/ status = "suspended"
                                      \/ q \notin Active /\ pc[l] \in Active
  OBVIOUS
<1> QED
  BY <1>1 DEF Moves

(* The same for a step that leaves the run's status alone.                 *)
LEMMA StaysInRun ==
    ASSUME NEW l \in Loops, NEW p \in Places \ {"acting"}, Goto(l, p),
           pc[l] \in Active,
           \A m \in Loops \ {l} : call'[m] = call[m],
           UNCHANGED <<status, tokens, bound, did>>
    PROVE  Moves(l)
  BY MovesTo

LEMMA WorkMoves ==
    ASSUME Typed, NEW l \in Loops, Work(l)
    PROVE  /\ pc[l] # "idle" /\ UNCHANGED rejecting
           /\ \/ Moves(l)
              \/ \E t \in Tokens : Preview(l, t)
              \/ Redeem(l) \/ Act(l) \/ Retry(l)
<1> USE DEF store, locals, history
<1>0. /\ pc \in [Loops -> Places]
      /\ call \in [Loops -> Call \cup {None}]
      /\ \A p \in {"complete", "failed", "aborted", "recording", "suspending", "idle",
                   "announcing", "top", "calling", "starting"} : p \in Places \ {"acting"}
  BY DEF Typed, TypeOK, Places
<1>1. CASE Abort(l) \/ GiveUp(l) \/ Exhaust(l)
  <2>1. pc[l] = "top" /\ UNCHANGED <<status, call, store, did, rejecting>>
    BY <1>1 DEF Abort, GiveUp, Exhaust, AtTop
  <2>2. PICK p \in {"complete", "failed", "aborted"} : Goto(l, p)
    BY <1>1 DEF Abort, GiveUp, Exhaust
  <2> QED
    BY <1>0, <2>1, <2>2, StaysInRun DEF Active
<1>2. CASE Nudge(l)
  <2>1. pc[l] = "top" /\ UNCHANGED <<status, call, store, did, rejecting, pc>>
    BY <1>2 DEF Nudge, AtTop
  <2>2. Goto(l, "top")
    BY <1>0, <2>1 DEF Goto
  <2> QED
    BY <1>0, <2>1, <2>2, StaysInRun DEF Active
<1>3. CASE Answer(l)
  <2>1. pc[l] = "top" /\ Goto(l, "complete") /\ UNCHANGED <<status, call, store, did, rejecting>>
    BY <1>3 DEF Answer, AtTop
  <2> QED
    BY <1>0, <2>1, StaysInRun DEF Active
<1>4. ASSUME NEW a \in Actions \cup {None}, NEW confirm \in BOOLEAN, Decide(l, a, confirm)
      PROVE  pc[l] # "idle" /\ UNCHANGED rejecting /\ Moves(l)
  <2>1. pc[l] = "top" /\ Goto(l, "calling") /\ UNCHANGED <<status, store, did, rejecting>>
    BY <1>4 DEF Decide, AtTop
  <2>2. \A m \in Loops \ {l} : call'[m] = call[m]
    BY <1>0, <1>4 DEF Decide
  <2> QED
    BY <1>0, <2>1, <2>2, StaysInRun DEF Active
<1>5. CASE Redo(l)
  <2>1. pc[l] = "top" /\ Goto(l, "calling") /\ UNCHANGED <<status, store, did, rejecting>>
    BY <1>5 DEF Redo, AtTop
  <2>2. \A m \in Loops \ {l} : call'[m] = call[m]
    BY <1>0, <1>5 DEF Redo
  <2> QED
    BY <1>0, <2>1, <2>2, StaysInRun DEF Active
<1>6. CASE Observe(l) \/ NeedsAccess(l)
  <2>1. pc[l] = "calling" /\ UNCHANGED <<status, call, store, did, rejecting>>
    BY <1>6 DEF Observe, NeedsAccess
  <2>2. PICK p \in {"recording", "suspending"} : Goto(l, p)
    BY <1>6 DEF Observe, NeedsAccess
  <2> QED
    BY <1>0, <2>1, <2>2, StaysInRun DEF Active
<1>7. CASE RecordStep(l)
  <2>1. pc[l] = "recording" /\ Goto(l, "top") /\ UNCHANGED <<status, store, did, rejecting>>
    BY <1>7 DEF RecordStep
  <2>2. \A m \in Loops \ {l} : call'[m] = call[m]
    BY <1>0, <1>7 DEF RecordStep
  <2> QED
    BY <1>0, <2>1, <2>2, StaysInRun DEF Active
<1>8. CASE Suspend(l)
  <2>1. pc[l] = "suspending" /\ UNCHANGED <<call, store, did, rejecting>>
    BY <1>8 DEF Suspend
  <2>2. CASE status' = "suspended" /\ Goto(l, "announcing")
    BY <1>0, <2>1, <2>2, MovesTo DEF Active
  <2>3. CASE UNCHANGED status /\ Goto(l, "recording")
    BY <1>0, <2>1, <2>3, StaysInRun DEF Active
  <2> QED
    BY <1>8, <2>2, <2>3, <2>1 DEF Suspend
<1>9. CASE Announce(l) \/ Close(l) \/ Conflict(l) \/ StartFails(l)
  <2>1. pc[l] # "idle" /\ Leave(l) /\ UNCHANGED <<store, did, rejecting>>
    BY <1>9 DEF Announce, Close, Conflict, StartFails
  <2>2. status' \in {status, "complete", "failed", "aborted"}
    BY <1>9 DEF Announce, Close, Conflict, StartFails
  <2>3. \A m \in Loops \ {l} : call'[m] = call[m]
    BY <1>0, <2>1 DEF Leave
  <2>4. Goto(l, "idle")
    BY <2>1 DEF Leave
  <2> QED
    BY <1>0, <2>1, <2>2, <2>3, <2>4, MovesTo DEF Active
<1>10. CASE Resume(l)
  <2>1. /\ pc[l] = "checked" /\ status = "suspended" /\ status' = "running" /\ Goto(l, "starting")
        /\ UNCHANGED <<call, store, did, rejecting>>
    BY <1>10 DEF Resume
  <2> QED
    BY <1>0, <2>1, MovesTo
<1>11. CASE Load(l)
  <2>1. pc[l] = "starting" /\ Goto(l, "top") /\ UNCHANGED <<status, call, store, did, rejecting>>
    BY <1>11 DEF Load
  <2> QED
    BY <1>0, <2>1, StaysInRun DEF Active
<1>12. ASSUME (\E t \in Tokens : Preview(l, t)) \/ Redeem(l) \/ Act(l) \/ Retry(l)
       PROVE  pc[l] # "idle" /\ UNCHANGED rejecting
  BY <1>12 DEF Preview, Redeem, Act, Retry
<1> HIDE DEF store, locals, history
<1> QED
  BY <1>1, <1>2, <1>3, <1>4, <1>5, <1>6, <1>7, <1>8, <1>9, <1>10, <1>11, <1>12 DEF Work

LEMMA MovesKeep ==
    ASSUME Typed, Exclusive, NEW l \in Loops, Moves(l),
           status = "none" => \A m \in Loops : pc[m] = "idle"
    PROVE  SoleLoop' /\ StoredTokensStand' /\ HeldTokensStand' /\ ActsAsApproved'
<1>1. PICK p \in Places \ {"acting"} :
          /\ Goto(l, p)
          /\ p \in Active => \/ pc[l] \in Active
                             \/ status \in {"none", "suspended"} /\ status' = "running"
          /\ status' = "suspended" => \/ status = "suspended"
                                      \/ p \notin Active /\ pc[l] \in Active
  BY DEF Moves
<1>2. /\ pc'[l] = p /\ \A m \in Loops \ {l} : pc'[m] = pc[m]
      /\ \A m \in Loops \ {l} : call'[m] = call[m]
      /\ UNCHANGED <<tokens, bound, did>>
  BY <1>1 DEF Typed, TypeOK, Goto, Moves
<1>3. status \in {"none", "suspended"} => \A m \in Loops : pc[m] \notin Active
  BY DEF Exclusive, SoleLoop, Active
<1>4. SoleLoop'
  <2>1. ASSUME NEW k \in Loops, NEW m \in Loops, pc'[k] \in Active, pc'[m] \in Active
        PROVE  k = m
    BY <1>1, <1>2, <1>3, <2>1 DEF Exclusive, SoleLoop
  <2>2. ASSUME status' = "suspended", NEW m \in Loops
        PROVE  pc'[m] \notin Active
    BY <1>1, <1>2, <1>3, <2>2 DEF Exclusive, SoleLoop
  <2> QED
    BY <2>1, <2>2 DEF SoleLoop
<1>5. \A m \in Loops : pc'[m] = "acting" => pc[m] = "acting" /\ call'[m] = call[m]
  BY <1>1, <1>2
<1>6. StoredTokensStand' /\ HeldTokensStand'
  BY <1>2, <1>5 DEF Exclusive, StoredTokensStand, HeldTokensStand
<1>7. ActsAsApproved'
  BY <1>2 DEF Exclusive, ActsAsApproved
<1> QED
  BY <1>4, <1>6, <1>7

(* Approvals of a run's step race without a second loop or a second change *)
(* of the cluster: whatever is approved twice, retried, resumed after a    *)
(* restart or lost, one loop works on the run at a time and each dry run's *)
(* change is made at most once.                                            *)
THEOREM ApprovalsAreExclusiveHolds == Spec => []ApprovalsAreExclusive
<1> USE AgentAssumption, TokenAssumption
<1>1. Init => Exclusive
  <2> SUFFICES ASSUME Init
               PROVE  Exclusive
    OBVIOUS
  <2>1. \A t \in Tokens : tokens[t] = None
    BY EmptyStoreTyped DEF Init
  <2>2. ActsAsApproved
    BY DEF Init, ActsAsApproved
  <2> QED
    BY <2>1, <2>2 DEF Init, Exclusive, NothingYet, SoleLoop, StoredTokensStand, HeldTokensStand, Active
<1>2. Typed /\ Exclusive /\ [Next]_vars => Exclusive'
  <2> SUFFICES ASSUME Typed, Exclusive, [Next]_vars
               PROVE  Exclusive'
    OBVIOUS
  <2>0. /\ pc \in [Loops -> Places] /\ call \in [Loops -> Call \cup {None}]
        /\ tokens \in TokenStore /\ bound \in [Tokens -> Actions \cup {None}]
        /\ did \in [Tokens \cup {None} -> [Actions -> Nat]]
    BY DEF Typed, TypeOK
  <2>1. ASSUME NEW l \in Loops, Open(l)
        PROVE  Exclusive'
    <3>1. /\ Goto(l, "top") /\ status = "none" /\ status' = "running"
          /\ UNCHANGED <<tokens, bound, did, call, cards, rejecting>>
      BY <2>1 DEF Open, store, locals, history
    <3>2. "top" \in Places \ {"acting"}
      BY DEF Places
    <3>3. Moves(l)
      BY <3>1, <3>2, MovesTo
    <3> QED
      BY <3>1, <3>3, MovesKeep DEF Exclusive, NothingYet
  <2>2. ASSUME NEW l \in Loops, NEW c \in cards, CheckApproval(l, c)
        PROVE  Exclusive'
    <3>1. /\ Goto(l, "checked") /\ status # "none"
          /\ UNCHANGED <<status, tokens, bound, did, call>>
      BY <2>2 DEF CheckApproval, store, locals, history, Exclusive, NothingYet
    <3>2. "checked" \in Places \ {"acting"} /\ "checked" \notin Active
      BY DEF Places, Active
    <3>3. Moves(l)
      BY <3>1, <3>2, MovesTo
    <3> QED
      BY <3>1, <3>3, MovesKeep DEF Exclusive, NothingYet
  <2>3. ASSUME NEW l \in Loops, Work(l), Moves(l)
        PROVE  Exclusive'
    <3>1. pc[l] # "idle"
      BY <2>3, WorkMoves
    <3>2. status # "none" /\ status' # "none"
      BY <2>3, <3>1 DEF Exclusive, NothingYet, Moves
    <3> QED
      BY <2>3, <3>2, MovesKeep DEF Exclusive, NothingYet
  <2>4. ASSUME NEW l \in Loops, NEW t \in Tokens, Preview(l, t)
        PROVE  Exclusive'
    <3>1. /\ pc[l] = "calling" /\ Goto(l, "suspending") /\ bound[t] = None
          /\ call[l] \in Call /\ call[l].action \in Actions
          /\ UNCHANGED <<status, cards, rejecting, did>>
      BY <2>4 DEF Preview, history, Typed, AtWork
    <3>2. /\ pc'[l] = "suspending" /\ \A m \in Loops \ {l} : pc'[m] = pc[m] /\ call'[m] = call[m]
          /\ bound'[t] = call[l].action /\ \A u \in Tokens \ {t} : bound'[u] = bound[u]
      BY <2>0, <2>4, <3>1 DEF Preview, Goto
    <3>3. status # "none" /\ \A m \in Loops : pc[m] \in Active => m = l
      BY <3>1 DEF Exclusive, NothingYet, SoleLoop, Active
    <3>4. NothingYet' /\ SoleLoop'
      <4>1. status # "suspended"
        BY <3>1 DEF Exclusive, SoleLoop, Active
      <4>2. NothingYet'
        BY <3>1, <3>3 DEF NothingYet
      <4>3. \A m \in Loops : pc'[m] \in Active => m = l
        BY <3>2, <3>3
      <4> QED
        BY <3>1, <4>1, <4>2, <4>3 DEF SoleLoop
    <3>5. \A m \in Loops : pc[m] # "acting" /\ pc'[m] # "acting"
      BY <3>1, <3>2, <3>3 DEF Active
    <3>6. \A a \in Actions : did[t][a] = 0
      <4>1. ASSUME NEW a \in Actions
            PROVE  did[t][a] = 0
        <5>1. did[t][a] <= (IF bound[t] = a THEN 1 ELSE 0) /\ did[t][a] \in Nat
          BY <2>0 DEF Exclusive, ActsAsApproved
        <5>2. bound[t] # a
          BY <3>1
        <5> QED
          BY <5>1, <5>2
      <4> QED
        BY <4>1
    <3>7. /\ \A u \in Tokens \ {t} : tokens'[u] \in {tokens[u], None}
          /\ tokens'[t] # None => tokens'[t].action = call[l].action
      BY <2>0, <2>4, <3>1, IssuedStore DEF Preview, now
    <3>8. StoredTokensStand' /\ HeldTokensStand'
      <4>1. ASSUME NEW u \in Tokens, tokens'[u] # None
            PROVE  tokens'[u].action = bound'[u] /\ \A a \in Actions : did'[u][a] = 0
        <5>1. CASE u = t
          BY <3>1, <3>2, <3>6, <3>7, <4>1, <5>1
        <5>2. CASE u # t
          BY <3>1, <3>2, <3>7, <4>1, <5>2 DEF Exclusive, StoredTokensStand
        <5> QED
          BY <5>1, <5>2
      <4> QED
        BY <3>5, <4>1 DEF StoredTokensStand, HeldTokensStand
    <3>9. ActsAsApproved'
      <4>1. ASSUME NEW u \in Tokens, NEW a \in Actions
            PROVE  did'[u][a] <= (IF bound'[u] = a THEN 1 ELSE 0)
        <5>1. CASE u = t
          BY <3>1, <3>6, <5>1
        <5>2. CASE u # t
          BY <3>1, <3>2, <5>2 DEF Exclusive, ActsAsApproved
        <5> QED
          BY <5>1, <5>2
      <4> QED
        BY <3>1, <4>1 DEF Exclusive, ActsAsApproved
    <3> QED
      BY <3>4, <3>8, <3>9 DEF Exclusive
  <2>5. ASSUME NEW l \in Loops, Redeem(l) \/ Act(l) \/ Retry(l)
        PROVE  /\ NothingYet' /\ SoleLoop' /\ UNCHANGED bound
               /\ \A m \in Loops : pc[m] \in Active => m = l
               /\ pc[l] \in Active /\ call[l] \in Call
               /\ \A m \in Loops \ {l} : pc'[m] = pc[m] /\ call'[m] = call[m]
               /\ \A m \in Loops : pc'[m] = "acting" => m = l
    <3>1. /\ pc[l] \in {"calling", "acting"} /\ UNCHANGED <<status, cards, rejecting, bound>>
          /\ \E p \in {"acting", "recording", "calling"} : Goto(l, p)
      BY <2>5 DEF Redeem, Act, Retry, store, locals
    <3>2. \A m \in Loops \ {l} : pc'[m] = pc[m] /\ call'[m] = call[m]
      BY <2>0, <2>5, <3>1 DEF Redeem, Act, Retry, Goto, locals
    <3>3. status \notin {"none", "suspended"} /\ \A m \in Loops : pc[m] \in Active => m = l
      BY <3>1 DEF Exclusive, NothingYet, SoleLoop, Active
    <3>4. \A m \in Loops : pc'[m] \in Active => m = l
      BY <3>2, <3>3
    <3>5. "acting" \in Active /\ pc[l] \in Active
      BY <3>1 DEF Active
    <3> QED
      BY <3>1, <3>2, <3>3, <3>4, <3>5 DEF NothingYet, SoleLoop, Typed, AtWork
  <2>6. ASSUME NEW l \in Loops, Redeem(l)
        PROVE  Exclusive'
    <3> DEFINE t == call[l].token
    <3>1. t \in Tokens \cup {None} /\ call[l].action \in Actions
      BY <2>5, <2>6 DEF Redeem, Call
    <3>2. /\ \A u \in Tokens : tokens'[u] \in {tokens[u], None}
          /\ t \in Tokens => tokens'[t] = None
          /\ pc'[l] = "acting" => t \in Tokens /\ tokens[t] # None /\ tokens[t].action = call[l].action
          /\ UNCHANGED <<bound, call, did>>
      BY <2>0, <2>6, <3>1, Spent DEF Redeem, now, Goto, store, locals, history
    <3>3. StoredTokensStand' /\ HeldTokensStand'
      BY <2>5, <2>6, <3>1, <3>2 DEF Exclusive, StoredTokensStand, HeldTokensStand
    <3>4. ActsAsApproved'
      BY <3>2 DEF Exclusive, ActsAsApproved
    <3> QED
      BY <2>5, <2>6, <3>3, <3>4 DEF Exclusive
  <2>7. ASSUME NEW l \in Loops, Act(l) \/ Retry(l)
        PROVE  Exclusive'
    <3> DEFINE t == call[l].token
               b == call[l].action
    <3>1. pc[l] = "acting" /\ UNCHANGED <<tokens, bound>> /\ pc'[l] # "acting"
      BY <2>0, <2>7 DEF Act, Retry, store, Goto
    <3>2. /\ t \in Tokens /\ b \in Actions /\ bound[t] = b /\ \A a \in Actions : did[t][a] = 0
          /\ tokens[t] = None
      BY <3>1 DEF Exclusive, HeldTokensStand, StoredTokensStand
    <3>3. \A m \in Loops : pc'[m] # "acting"
      BY <2>5, <2>7, <3>1
    <3>4. /\ \A u \in Tokens \cup {None} : u # t => did'[u] = did[u]
          /\ \A a \in Actions : did'[t][a] <= (IF bound[t] = a THEN 1 ELSE 0)
      <4>1. CASE UNCHANGED did
        BY <3>2, <4>1 DEF Exclusive, ActsAsApproved
      <4>2. CASE Effect(l)
        <5>1. did' = [did EXCEPT ![t] = [did[t] EXCEPT ![b] = did[t][b] + 1]]
          BY <4>2 DEF Effect
        <5>2. \A a \in Actions : did'[t][a] = IF a = b THEN 1 ELSE 0
          BY <2>0, <3>2, <5>1
        <5> QED
          BY <2>0, <3>2, <5>1, <5>2
      <4> QED
        BY <2>7, <4>1, <4>2 DEF Act, Retry
    <3>5. StoredTokensStand' /\ HeldTokensStand'
      BY <3>1, <3>2, <3>3, <3>4 DEF Exclusive, StoredTokensStand, HeldTokensStand
    <3>6. None # t
      BY <3>2
    <3>7. ActsAsApproved'
      BY <3>1, <3>4, <3>6 DEF Exclusive, ActsAsApproved
    <3> QED
      BY <2>5, <2>7, <3>5, <3>7 DEF Exclusive
  <2>8. CASE (\E c \in cards : RejectStep(c)) \/ RejectRun
    <3>1. UNCHANGED <<tokens, bound, did, pc, call>> /\ status # "none" /\ status' \in {status, "aborted"}
      BY <2>8 DEF RejectStep, RejectRun, store, locals, history, Exclusive, NothingYet
    <3> QED
      BY <3>1 DEF Exclusive, NothingYet, SoleLoop, StoredTokensStand, HeldTokensStand, ActsAsApproved
  <2>9. ASSUME NEW t \in Tokens, Lapse(t)
        PROVE  Exclusive'
    <3>1. /\ UNCHANGED <<status, bound, did, pc, call, cards, rejecting>>
          /\ \A u \in Tokens : tokens'[u] \in {tokens[u], None}
      BY <2>0, <2>9 DEF Lapse, locals, history, TokenStore
    <3> QED
      BY <3>1 DEF Exclusive, NothingYet, SoleLoop, StoredTokensStand, HeldTokensStand, ActsAsApproved
  <2>10. CASE Restart
    <3>1. /\ UNCHANGED <<status, bound, did, cards>> /\ rejecting' = 0
          /\ \A l \in Loops : pc'[l] = "idle"
          /\ \A u \in Tokens : tokens'[u] = None
      BY <2>10, EmptyStoreTyped DEF Restart
    <3> QED
      BY <3>1 DEF Exclusive, NothingYet, SoleLoop, StoredTokensStand, HeldTokensStand, ActsAsApproved, Active
  <2>11. CASE UNCHANGED vars
    BY <2>11 DEF vars, store, locals, history, Exclusive, NothingYet, SoleLoop, StoredTokensStand,
                 HeldTokensStand, ActsAsApproved
  <2>12. ASSUME NEW l \in Loops, Work(l)
         PROVE  Exclusive'
    BY <2>3, <2>4, <2>6, <2>7, <2>12, WorkMoves
  <2> QED
    BY <2>1, <2>2, <2>8, <2>9, <2>10, <2>11, <2>12 DEF Next
<1>3. Typed /\ Exclusive => ApprovalsAreExclusive
  BY DEF Typed, Exclusive, ApprovalsAreExclusive
<1> QED
  BY <1>1, <1>2, <1>3, TypeCorrect, PTL DEF Spec

-----------------------------------------------------------------------------
(* What a person is shown, and what the person refuses.                    *)

(* Only a suspension makes a run wait, and a loop at work writes no step   *)
(* of a run that waits: the step it waits for stays the last one.          *)
LEMMA WaitStands ==
    ASSUME Typed, WaitsForAStep, NEW l \in Loops,
           status' # "suspended" \/ (status = "suspended" /\ UNCHANGED <<steps, stranded>>),
           pc[l] # "announcing", \A m \in Loops \ {l} : pc'[m] = pc[m]
    PROVE  WaitsForAStep'
<1>1. CASE status' # "suspended"
  BY <1>1 DEF WaitsForAStep
<1>2. CASE status = "suspended" /\ UNCHANGED <<steps, stranded>>
  <2>1. \A m \in Loops : pc[m] = "announcing" => pc'[m] = "announcing"
    OBVIOUS
  <2> QED
    BY <1>2, <2>1 DEF WaitsForAStep
<1> QED
  BY <1>1, <1>2

(* What a person sees of a waiting run is what it waits for, and what the  *)
(* person refused stays refused.                                           *)
THEOREM CardsAreHonouredHolds == Spec => []CardsAreHonoured
<1> USE AgentAssumption, TokenAssumption
<1>1. Init => CardsAreHonoured
  BY DEF Init, CardsAreHonoured, WaitsForAStep, RejectionIsFinal
<1>2. Typed /\ ApprovalsAreExclusive /\ CardsAreHonoured /\ [Next]_vars => CardsAreHonoured'
  <2> SUFFICES ASSUME Typed, ApprovalsAreExclusive, CardsAreHonoured, [Next]_vars
               PROVE  CardsAreHonoured'
    OBVIOUS
  <2>0. /\ pc \in [Loops -> Places] /\ steps \in Seq(Step) /\ WaitsForAStep /\ RejectionIsFinal
        /\ refused => status = "aborted" /\ \A m \in Loops : pc[m] \notin Active
        /\ status = "suspended" => \A m \in Loops : pc[m] \notin Active
    BY DEF Typed, TypeOK, CardsAreHonoured, RejectionIsFinal, ApprovalsAreExclusive, SoleLoop
  <2>1. ASSUME NEW l \in Loops, Open(l)
        PROVE  CardsAreHonoured'
    <3>1. status = "none" /\ status' = "running" /\ UNCHANGED refused
      BY <2>1 DEF Open, history
    <3> QED
      BY <2>0, <3>1 DEF CardsAreHonoured, WaitsForAStep, RejectionIsFinal
  <2>2. ASSUME NEW l \in Loops, NEW c \in cards, CheckApproval(l, c)
        PROVE  CardsAreHonoured'
    <3>1. pc[l] = "idle" /\ Goto(l, "checked") /\ UNCHANGED <<status, steps, stranded, refused>>
      BY <2>2 DEF CheckApproval, Free, history
    <3>2. pc'[l] \notin Active /\ \A m \in Loops \ {l} : pc'[m] = pc[m]
      BY <2>0, <3>1 DEF Goto, Active
    <3>3. WaitsForAStep'
      BY <2>0, <3>1, <3>2, WaitStands
    <3>4. RejectionIsFinal'
      BY <2>0, <3>1, <3>2 DEF RejectionIsFinal
    <3> QED
      BY <3>3, <3>4 DEF CardsAreHonoured
  <2>3. ASSUME NEW l \in Loops, Work(l), pc[l] \in Active
        PROVE  CardsAreHonoured'
    <3>1. status # "suspended" /\ ~refused /\ UNCHANGED refused
      <4>1. UNCHANGED refused
        <5>1. pc[l] # "announcing" /\ pc[l] # "checked"
          BY <2>3 DEF Active
        <5> QED
          BY <2>3, <5>1 DEF Work, Abort, GiveUp, Nudge, Answer, Exhaust, Redo, Decide, Observe, NeedsAccess,
              Redeem, Act, Retry, Preview, RecordStep, Suspend, Announce, Close, Resume, Conflict, StartFails,
              Load, history
      <4> QED
        BY <2>0, <2>3, <4>1
    <3>2. status' = "suspended" => pc'[l] = "announcing"
      <4>1. CASE Suspend(l)
        BY <2>0, <4>1, <3>1 DEF Suspend, Goto
      <4>2. CASE ~Suspend(l)
        <5>1. status' \in {status, "complete", "failed", "aborted", "running"}
          BY <2>3, <4>2 DEF Work, Abort, GiveUp, Nudge, Answer, Exhaust, Redo, Decide, Observe, NeedsAccess,
              Redeem, Act, Retry, Preview, RecordStep, Announce, Close, Resume, Conflict, StartFails,
              Load, history
        <5> QED
          BY <3>1, <5>1
      <4> QED
        BY <4>1, <4>2
    <3> QED
      BY <3>1, <3>2 DEF CardsAreHonoured, WaitsForAStep, RejectionIsFinal
  <2>4. ASSUME NEW l \in Loops, Announce(l)
        PROVE  CardsAreHonoured'
    <3>1. Leave(l) /\ UNCHANGED <<status, refused>>
      BY <2>4 DEF Announce
    <3>2. pc'[l] \notin Active /\ \A m \in Loops \ {l} : pc'[m] = pc[m]
      BY <2>0, <3>1 DEF Leave, Goto, Active
    <3>3. RejectionIsFinal'
      BY <2>0, <3>1, <3>2 DEF RejectionIsFinal
    <3>4. WaitsForAStep'
      <4>1. CASE stranded'
        BY <4>1 DEF WaitsForAStep
      <4>2. CASE ~stranded'
        <5> DEFINE r == [status |-> IF call[l].action = None THEN "pending_folder_grant" ELSE "pending_approval",
                         iter |-> iter[l], action |-> call[l].action]
        <5>1. call[l] \in Call /\ iter[l] \in Nat
          BY <2>4 DEF Announce, Typed, TypeOK, AtWork
        <5>2. r \in Step /\ r.status \in Waiting
          BY <5>1 DEF Step, Waiting, Call
        <5>3. steps' = Append(steps, r)
          BY <2>4, <4>2 DEF Announce
        <5> HIDE DEF r
        <5>4. steps' # <<>> /\ Len(steps') = Len(steps) + 1 /\ steps'[Len(steps) + 1] = r
          BY <2>0, <5>2, <5>3, StepAppended
        <5> QED
          BY <5>2, <5>4 DEF WaitsForAStep
      <4> QED
        BY <4>1, <4>2
    <3> QED
      BY <3>3, <3>4 DEF CardsAreHonoured
  <2>5. ASSUME NEW l \in Loops, Resume(l)
        PROVE  CardsAreHonoured'
    <3>1. status = "suspended" /\ status' = "running" /\ UNCHANGED refused
      BY <2>5 DEF Resume
    <3> QED
      BY <2>0, <3>1 DEF CardsAreHonoured, WaitsForAStep, RejectionIsFinal
  <2>6. ASSUME NEW l \in Loops, Conflict(l)
        PROVE  CardsAreHonoured'
    <3>1. status # "suspended" /\ Leave(l) /\ UNCHANGED <<status, refused>>
      BY <2>6 DEF Conflict, history
    <3>2. pc'[l] \notin Active /\ \A m \in Loops \ {l} : pc'[m] = pc[m]
      BY <2>0, <3>1 DEF Leave, Goto, Active
    <3> QED
      BY <2>0, <3>1, <3>2 DEF CardsAreHonoured, WaitsForAStep, RejectionIsFinal
  <2>7. ASSUME NEW c \in cards, RejectStep(c)
        PROVE  CardsAreHonoured'
    <3>1. steps' = [steps EXCEPT ![c.step].status = "rejected"] /\ UNCHANGED <<status, pc, stranded, refused>>
      BY <2>7 DEF RejectStep, history
    <3>2. c.step \in Nat
      BY DEF Typed, TypeOK, Card
    <3>3. /\ Len(steps') = Len(steps)
          /\ \A j \in 1..Len(steps) : steps'[j].status \in {steps[j].status, "rejected"}
      BY <2>0, <3>1, <3>2, StatusRewritten
    <3>4. steps # <<>> => steps' # <<>> /\ Len(steps) \in 1..Len(steps)
      BY <2>0, <3>3, EmptySeq
    <3>5. WaitsForAStep'
      BY <2>0, <3>1, <3>3, <3>4 DEF WaitsForAStep
    <3> QED
      BY <2>0, <3>1, <3>5 DEF CardsAreHonoured, RejectionIsFinal
  <2>8. CASE RejectRun
    <3>1. status' = "aborted" /\ refused' = (refused \/ status = "suspended") /\ UNCHANGED pc
      BY <2>8 DEF RejectRun
    <3> QED
      BY <2>0, <3>1 DEF CardsAreHonoured, WaitsForAStep, RejectionIsFinal
  <2>9. ASSUME NEW t \in Tokens, Lapse(t)
        PROVE  CardsAreHonoured'
    BY <2>0, <2>9 DEF Lapse, history, CardsAreHonoured, WaitsForAStep, RejectionIsFinal
  <2>10. CASE Restart
    <3>1. /\ UNCHANGED <<status, steps, refused>>
          /\ \A l \in Loops : pc'[l] \notin Active
          /\ (\E l \in Loops : pc[l] = "announcing") => stranded'
          /\ stranded => stranded'
      BY <2>10 DEF Restart, Active
    <3> QED
      BY <2>0, <3>1 DEF CardsAreHonoured, WaitsForAStep, RejectionIsFinal
  <2>11. CASE UNCHANGED vars
    BY <2>0, <2>11 DEF vars, history, CardsAreHonoured, WaitsForAStep, RejectionIsFinal
  <2>12. ASSUME NEW l \in Loops, Work(l)
         PROVE  CardsAreHonoured'
    <3>1. pc[l] \in Active \/ Announce(l) \/ Resume(l) \/ Conflict(l)
      BY <2>12 DEF Work, Abort, GiveUp, Nudge, Answer, Exhaust, Redo, Decide, Observe, NeedsAccess, AtTop,
          Redeem, Act, Retry, Preview, RecordStep, Suspend, Close, StartFails, Load, Active
    <3> QED
      BY <2>3, <2>4, <2>5, <2>6, <2>12, <3>1
  <2> QED
    BY <2>1, <2>2, <2>7, <2>8, <2>9, <2>10, <2>11, <2>12 DEF Next
<1> QED
  BY <1>1, <1>2, TypeCorrect, ApprovalsAreExclusiveHolds, PTL DEF Spec

-----------------------------------------------------------------------------
(* The tools the loop calls: their dispatch, and what a name stands for.   *)

\* A parameter given by its own name survives its shorthands (_normalize_params).
LEMMA ParamsKept == ASSUME NEW asked PROVE ParamsAreKept(asked)
BY DEF ParamsAreKept, NormalizeParams

\* Where a tool of each registration lives.
LEMMA SurfacesAre ==
    ASSUME NEW t
    PROVE  /\ t \in McpOnlyTools => Surfaces(t) = {"mcp"}
           /\ t \in FolderTools => Surfaces(t) = {"react", "chat"}
           /\ t \notin McpOnlyTools \cup FolderTools => Surfaces(t) = {"mcp", "chat", "react"}
<1>1. McpOnlyTools \cap FolderTools = {}
  BY DEF McpOnlyTools, WriteTools, FolderTools
<1> QED BY <1>1 DEF Surfaces

\* A name is registered, an alias or a synonym, and only one of them.
LEMMA NamesApart ==
    ASSUME NEW desktop
    PROVE  /\ Registered(desktop) \cap DOMAIN Aliases = {}
           /\ Registered(desktop) \cap DOMAIN Synonyms = {}
           /\ DOMAIN Aliases \cap DOMAIN Synonyms = {}
           /\ NoTool \notin Registered(desktop)
<1> USE DEF EverywhereTools, McpOnlyTools, FolderTools, InvestigationTools, DiscoveryTools, HelmTools, ClusterTools, AnalysisTools, WriteTools
<1>1. ASSUME NEW n \in DOMAIN Aliases PROVE n \notin Registered(desktop)
  BY DEF Aliases, Registered
<1>2. ASSUME NEW n \in DOMAIN Synonyms PROVE n \notin Registered(desktop)
  BY DEF Synonyms, Registered
<1>3. DOMAIN Aliases \cap DOMAIN Synonyms = {}
  BY DEF Synonyms, Aliases
<1>4. NoTool \notin Registered(desktop)
  BY DEF NoTool, Registered
<1> QED BY <1>1, <1>2, <1>3, <1>4

\* Whatever the call, the dispatcher runs a tool only on its surface and with what it requires,
\* and tells what its handler raised (dispatch).
LEMMA Contained == ASSUME NEW asked PROVE DispatchIsContained(asked, Dispatch(asked))
<1> DEFINE tool == ResolveTool(asked.name, asked.desktop)
           params == NormalizeParams(tool, asked.params)
           out == Dispatch(asked)
<1> HIDE DEF tool, params
<1>0. \A error, ran : /\ Replied(asked, error, ran).error = error
                      /\ Replied(asked, error, ran).ran = ran
                      /\ ~Replied(asked, error, ran).hint
  BY DEF Replied
<1>1. \A error, ran : Replied(asked, error, ran).enveloped = (asked.surface = "react")
  BY DEF Replied
<1>2. CASE out = Replied(asked, "unknown_tool", NoTool) \/ out = Replied(asked, "tool_unavailable", NoTool) \/ out = Replied(asked, "invalid_params", NoTool)
  <2>1. PICK error \in {"unknown_tool", "tool_unavailable", "invalid_params"} : out = Replied(asked, error, NoTool)
    BY <1>2
  <2>2. NoTool \notin WriteTools
    BY DEF NoTool, WriteTools
  <2>3. out.ran = NoTool /\ out.error # ""
    <3>1. error # ""
      OBVIOUS
    <3>2. out.ran = NoTool /\ out.error = error
      BY <1>0, <2>1
    <3> QED BY <3>1, <3>2
  <2>4. out.enveloped = (asked.surface = "react")
    BY <1>1, <2>1
  <2> QED BY <2>2, <2>3, <2>4 DEF DispatchIsContained
<1> DEFINE served == /\ tool # NoTool /\ (asked.surface = "playbook" \/ asked.surface \in Surfaces(tool))
                     /\ ValidateParams(tool, params)
<1>3. CASE served
  <2>1. out.ran = tool /\ out.enveloped = (asked.surface = "react") /\ (HandlerOutcome(asked, tool) # "ok" => out.error # "" \/ out.hint)
    BY <1>3 DEF Dispatch, tool, params, Replied
  <2>2. asked.surface \in {"react", "chat"} => tool \notin WriteTools
    BY <1>3, SurfacesAre DEF McpOnlyTools
  <2> QED BY <2>1, <2>2, <1>3 DEF DispatchIsContained, params, tool
<1> QED BY <1>2, <1>3 DEF Dispatch, tool, params

\* A registered name is its own tool and an alias names its tool.
LEMMA NamesResolve ==
    ASSUME NEW desktop
    PROVE  /\ \A n \in Registered(desktop) : ResolveTool(n, desktop) = n
           /\ \A n \in DOMAIN Aliases : ResolveTool(n, desktop) = Aliases[n]
  BY NamesApart DEF ResolveTool

\* A name that is offered resolves to a tool of the surface it is offered on.
LEMMA Hints == ASSUME NEW surface, NEW desktop PROVE HintsAreUsable(surface, desktop)
<1>2. ReactTools(desktop) \subseteq ToolsForSurface("react", desktop) /\ \A t \in ToolsForSurface(surface, desktop) : t \in Registered(desktop) /\ surface \in Surfaces(t)
  BY DEF ReactTools, ToolsForSurface
<1>3. ASSUME NEW n \in ValidToolNames(surface, desktop) PROVE surface \in Surfaces(ResolveTool(n, desktop))
  BY <1>2, <1>3, NamesResolve DEF ValidToolNames
<1>4. BuildNativeToolSpecs(Registered(desktop), desktop) \subseteq ValidToolNames("react", desktop)
  BY DEF BuildNativeToolSpecs, ValidToolNames
<1> QED BY <1>3, <1>4 DEF HintsAreUsable

\* The MCP server declares exactly the tools registered for it.
LEMMA Declared ==
   ASSUME NEW desktop
   PROVE {t \in Registered(desktop) : "mcp" \in Surfaces(t)} = GetToolsDefinitions(desktop)
<1>1. HandWrittenTools \subseteq Registered(desktop)
  BY DEF HandWrittenTools, Registered, EverywhereTools
<1>2. ASSUME NEW t \in HandWrittenTools PROVE "mcp" \in Surfaces(t)
  <2>1. t \in McpOnlyTools \/ t \notin FolderTools
    BY DEF HandWrittenTools, InvestigationTools, DiscoveryTools, HelmTools, ClusterTools, AnalysisTools, FolderTools
  <2> QED BY <2>1, SurfacesAre
<1> QED BY <1>1, <1>2 DEF GetToolsDefinitions, RegistryBackedTools

\* A switch of the context keeps the kubeconfig and its mode.
LEMMA Switch ==
   ASSUME NEW conn, conn = <<>> \/ \E c : conn = <<c>>, NEW new, NEW world PROVE SwitchIsChecked(conn, world, SwitchContext(conn, new, world))
BY DEF SwitchIsChecked, SwitchContext

\* The registry and the branch of the server search the knowledge base alike.
LEMMA Base == ASSUME NEW job, job.connects \in BOOLEAN PROVE KbSearch(job) = HandKbSearch(job)
BY DEF KbSearch, HandKbSearch

\* The first place of a set of places.
LEMMA MinIs ==
    ASSUME NEW I, I \subseteq Nat, I # {}
    PROVE  Min(I) \in I /\ \A i \in I : Min(I) <= i
<1>1. PICK n \in I : \A m \in I : <<m, n>> \notin OpToRel(<, Nat)
  BY WFMin, NatLessThanWellFounded
<1>2. \A m \in I : ~(m < n)
  BY <1>1 DEF OpToRel
<1>3. n \in I /\ \A m \in I : n <= m
  BY <1>2
<1> QED BY <1>3 DEF Min

\* The names made of the words of W, and what a listing holds: W has any size.
Name(W) == Seq(W) \ {<<>>}

Listed(W) == [ns : W \ {""}, name : Name(W)]

\* A name fits itself and its prefixes.
LEMMA PartOf ==
    ASSUME NEW W, NEW name \in Name(W), NEW part \in Name(W)
    PROVE  /\ HasPart(name, name)
           /\ IsPrefix(part, name) => HasPart(name, part)
<1>1. 1 \in 1..Len(name) /\ SubSeq(name, 1, Len(name)) = name
  BY SubSeqFull, LenProperties, EmptySeq DEF Name
<1> QED BY <1>1 DEF HasPart, IsPrefix

\* The candidates of a phrase are names, its own words first.
LEMMA CandidatesAre ==
    ASSUME NEW W, NEW phrase, phrase.words \in Name(W), phrase.glued \in W
    PROVE  /\ CandidateWorkloadNames(phrase) \in Seq(Name(W))
           /\ 1 \in DOMAIN CandidateWorkloadNames(phrase)
           /\ CandidateWorkloadNames(phrase)[1] = phrase.words
<1> DEFINE words == phrase.words
           more == IF Len(words) > 1 THEN <<<<phrase.glued>>>> ELSE <<>>
           most == IF Len(words) > 1 /\ Last(words) \in GenericSuffixes THEN <<Front(words)>> ELSE <<>>
<1>1. Len(words) > 1 => Front(words) \in Name(W)
  <2>1. SUFFICES ASSUME Len(words) > 1 PROVE Front(words) \in Name(W)
    OBVIOUS
  <2>2. words \in Seq(W) /\ Len(words) \in Nat
    BY DEF Name
  <2>3. Front(words) \in Seq(W) /\ Len(Front(words)) = Len(words) - 1
    BY <2>1, <2>2 DEF Front
  <2> QED BY <2>1, <2>2, <2>3, EmptySeq DEF Name
<1>2. <<phrase.glued>> \in Name(W)
  BY DEF Name
<1>3. more \in Seq(Name(W)) /\ most \in Seq(Name(W)) /\ <<words>> \in Seq(Name(W))
  BY <1>1, <1>2
<1> HIDE DEF more, most, words
<1>4. <<words>> \o more \o most \in Seq(Name(W)) /\ Len(<<words>> \o more \o most) >= 1 /\ (<<words>> \o more \o most)[1] = words
  BY <1>3
<1>5. CandidateWorkloadNames(phrase) = <<words>> \o more \o most
  BY DEF CandidateWorkloadNames, more, most, words
<1> QED BY <1>4, <1>5, LenProperties DEF words

\* What is listed has a name and a namespace.
LEMMA ListedAre ==
    ASSUME NEW W, NEW pods \in Seq(Listed(W))
    PROVE  /\ DOMAIN pods \subseteq Nat \ {0}
           /\ \A i \in DOMAIN pods : pods[i].name \in Name(W) /\ pods[i].ns # "" /\ pods[i] \in ToSet(pods)
<1>1. DOMAIN pods = 1..Len(pods) /\ \A i \in 1..Len(pods) : pods[i] \in Listed(W)
  BY ElementOfSeq, LenProperties
<1>2. \A p \in Listed(W) : p.name \in Name(W) /\ p.ns # ""
  BY DEF Listed
<1>3. \A i \in DOMAIN pods : pods[i] \in ToSet(pods)
  BY DEF ToSet
<1>4. ASSUME NEW i \in DOMAIN pods PROVE pods[i].name \in Name(W) /\ pods[i].ns # ""
  BY <1>1, <1>2
<1>5. DOMAIN pods \subseteq Nat \ {0}
  BY <1>1
<1> QED BY <1>3, <1>4, <1>5

\* The places where what is listed in a namespace fits a candidate.
LEMMA MatchesAre ==
    ASSUME NEW W, NEW pods \in Seq(Listed(W)), NEW listed, listed \subseteq DOMAIN pods, NEW candidate \in Name(W)
    PROVE  LET best == BestMatches(pods, listed, candidate) IN
           /\ best \subseteq {i \in listed : HasPart(pods[i].name, candidate)}
           /\ (\E i \in listed : HasPart(pods[i].name, candidate)) => best # {}
           /\ (\E i \in listed : pods[i].name = candidate) => \A i \in best : pods[i].name = candidate
<1>1. \A i \in listed : pods[i].name \in Name(W)
  BY ListedAre
<1>2. \A i \in listed : /\ pods[i].name = candidate => HasPart(pods[i].name, candidate)
                        /\ IsPrefix(candidate, pods[i].name) => HasPart(pods[i].name, candidate)
  BY <1>1, PartOf
<1> QED BY <1>2 DEF BestMatches

\* What is found for a candidate fits it.
LEMMA FoundAre ==
    ASSUME NEW W, NEW world, NEW kind, world[kind] \in Seq(Listed(W)), NEW candidate, NEW ns
    PROVE  /\ Found(world, kind, candidate, ns) \subseteq {i \in DOMAIN world[kind] : HasPart(world[kind][i].name, candidate)}
           /\ Found(world, kind, candidate, ns) \subseteq Nat
<1>1. DOMAIN world[kind] \subseteq Nat
  OBVIOUS
<1> QED BY <1>1 DEF Found

\* The service a tool acts on was found, or is the name as it was given (_handle_get_service).
LEMMA ServiceFound ==
    ASSUME NEW W, NEW world, world.services \in Seq(Listed(W)), NEW name
    PROVE  ServiceIsTheOne(world, name, ServiceTarget(world, name))
<1> DEFINE found == Found(world, "services", name, "")
<1>1. found \subseteq {i \in DOMAIN world.services : HasPart(world.services[i].name, name)} /\ found \subseteq Nat
  BY FoundAre
<1>2. CASE found = {}
  BY <1>2 DEF ServiceTarget, ServiceIsTheOne
<1>3. CASE found # {}
  <2>1. Min(found) \in found
    BY <1>1, <1>3, MinIs
  <2>2. PICK s \in ToSet(world.services) : s = world.services[Min(found)] /\ HasPart(s.name, name)
    BY <2>1, <1>1 DEF ToSet
  <2>3. ServiceTarget(world, name) = [ns |-> s.ns, name |-> s.name]
    BY <2>2, <1>3 DEF ServiceTarget
  <2> QED BY <2>2, <2>3 DEF ServiceIsTheOne
<1> QED BY <1>2, <1>3

\* The pod a tool acts on fits the phrase, and the namespace that was named goes before every other
\* (_resolve_pod_ns_and_name), for listings of any length and names of any words.
LEMMA PodFound ==
    ASSUME NEW W, NEW world, world.pods \in Seq(Listed(W)), world.deployments \in Seq(Listed(W)), NEW ns,
           NEW phrase, phrase.words \in Name(W), phrase.glued \in W
    PROVE  PodIsTheOne(world, phrase, ns, ResolvePodNsAndName(world, phrase, ns))
<1> DEFINE names == CandidateWorkloadNames(phrase)
           Fits(p) == \E i \in DOMAIN names : HasPart(p.name, names[i])
           theirs  == {p \in ToSet(world.pods) : p.ns = ns /\ Fits(p)}
           listed == {i \in DOMAIN world.pods : ns # "" /\ "list" \notin world.fails /\ world.pods[i].ns = ns}
           best(k) == BestMatches(world.pods, listed, names[k])
           here   == {k \in DOMAIN names : best(k) # {}}
           found  == {k \in DOMAIN names : \E kind \in {"pods", "deployments"} : Found(world, kind, names[k], ns) # {}}
           out == ResolvePodNsAndName(world, phrase, ns)
<1>1. names \in Seq(Name(W)) /\ 1 \in DOMAIN names /\ names[1] = phrase.words /\ DOMAIN names \subseteq Nat \ {0}
  BY CandidatesAre
<1>2. DOMAIN world.pods \subseteq Nat /\ \A i \in DOMAIN world.pods : world.pods[i] \in ToSet(world.pods) /\ world.pods[i].ns # ""
  BY ListedAre
<1>3. ASSUME NEW k \in DOMAIN names
      PROVE  /\ best(k) \subseteq {i \in listed : HasPart(world.pods[i].name, names[k])}
             /\ (\E i \in listed : HasPart(world.pods[i].name, names[k])) => best(k) # {}
             /\ (\E i \in listed : world.pods[i].name = names[k]) => \A i \in best(k) : world.pods[i].name = names[k]
  <2>1. names[k] \in Name(W)
    <3> HIDE DEF names
    <3> QED BY <1>1, ElementOfSeq, LenProperties
  <2>2. listed \subseteq DOMAIN world.pods
    OBVIOUS
  <2> HIDE DEF names, listed
  <2> QED BY <2>1, <2>2, MatchesAre
<1> HIDE DEF names, best
<1>4. theirs # {} /\ "list" \notin world.fails => here # {}
  <2>1. SUFFICES ASSUME "list" \notin world.fails, NEW p \in theirs PROVE here # {}
    OBVIOUS
  <2>2. PICK i \in DOMAIN world.pods : world.pods[i] = p
    BY DEF ToSet
  <2>3. PICK k \in DOMAIN names : HasPart(p.name, names[k])
    BY <2>1
  <2>4. i \in listed
    BY <2>1, <2>2, <1>2
  <2> QED BY <2>2, <2>3, <2>4, <1>3
<1>5. CASE here # {}
  <2> DEFINE k == Min(here)
             i == Min(best(k))
  <2>1. k \in here /\ \A j \in here : k <= j
    BY <1>1, <1>5, MinIs
  <2>2. best(k) \subseteq listed /\ best(k) # {} /\ best(k) \subseteq Nat
    BY <2>1, <1>2, <1>3
  <2>3. i \in best(k)
    BY <2>2, MinIs
  <2> HIDE DEF k, i
  <2>4. i \in listed /\ HasPart(world.pods[i].name, names[k]) /\ k \in DOMAIN names
    BY <2>1, <2>3, <1>3
  <2>5. out = [ns |-> ns, name |-> world.pods[i].name]
    BY <1>5 DEF ResolvePodNsAndName, names, best, k, i
  <2>6. \E p \in ToSet(world.pods) : Fits(p) /\ out = [ns |-> p.ns, name |-> p.name]
    BY <2>4, <2>5, <1>2
  <2>7. ASSUME "list" \notin world.fails, NEW p \in theirs, p.name = names[1] PROVE out.name = names[1]
    <3>1. PICK j \in DOMAIN world.pods : world.pods[j] = p
      BY DEF ToSet
    <3>2. j \in listed /\ HasPart(world.pods[j].name, names[1])
      <4>1. p.name \in Name(W)
        BY <3>1, ListedAre
      <4> QED BY <4>1, <2>7, <3>1, <1>2, PartOf
    <3>3. 1 \in here
      BY <3>2, <1>1, <1>3
    <3>4. k = 1
      BY <3>3, <2>1, <1>1
    <3>5. world.pods[i].name = names[1]
      BY <3>1, <3>2, <3>4, <2>7, <2>3, <1>1, <1>3
    <3> QED BY <3>5, <2>5
  <2> QED BY <2>5, <2>6, <2>7 DEF PodIsTheOne, names
<1>6. CASE here = {} /\ found # {}
  <2> DEFINE k == Min(found)
             pods == Found(world, "pods", names[k], ns)
             deps == Found(world, "deployments", names[k], ns)
  <2>1. k \in found
    BY <1>1, <1>6, MinIs
  <2>2. /\ world["pods"] = world.pods /\ world["deployments"] = world.deployments
        /\ pods \subseteq {i \in DOMAIN world.pods : HasPart(world.pods[i].name, names[k])} /\ pods \subseteq Nat
        /\ deps \subseteq {i \in DOMAIN world.deployments : HasPart(world.deployments[i].name, names[k])} /\ deps \subseteq Nat
    BY FoundAre
  <2>3. out = FirstFound(world, names[k], ns) /\ (pods # {} \/ deps # {})
    BY <2>1, <1>6 DEF ResolvePodNsAndName, names, best
  <2> HIDE DEF k
  <2>4. CASE pods # {}
    <3>1. Min(pods) \in pods
      BY <2>2, <2>4, MinIs
    <3>2. out = [ns |-> world.pods[Min(pods)].ns, name |-> world.pods[Min(pods)].name]
      BY <2>3, <2>4 DEF FirstFound
    <3>3. \E p \in ToSet(world.pods) : Fits(p) /\ out = [ns |-> p.ns, name |-> p.name]
      BY <3>1, <3>2, <2>1, <2>2, <1>2
    <3> QED BY <3>3, <1>4, <1>6 DEF PodIsTheOne, names
  <2>5. CASE pods = {}
    <3>1. Min(deps) \in deps
      BY <2>2, <2>3, <2>5, MinIs
    <3>2. out = [ns |-> world.deployments[Min(deps)].ns, name |-> names[k]]
      BY <2>3, <2>5 DEF FirstFound
    <3>3. world.deployments[Min(deps)] \in ToSet(world.deployments)
      BY <3>1, <2>2, ListedAre
    <3>4. \E d \in ToSet(world.deployments), i \in DOMAIN names : out = [ns |-> d.ns, name |-> names[i]]
      BY <3>2, <3>3, <2>1
    <3> QED BY <3>4, <1>4, <1>6 DEF PodIsTheOne, names
  <2> QED BY <2>4, <2>5
<1>7. CASE here = {} /\ found = {}
  <2>1. out.name = phrase.words
    BY <1>7 DEF ResolvePodNsAndName, names, best
  <2> QED BY <2>1, <1>7, <1>4, <1>1 DEF PodIsTheOne, names
<1> QED BY <1>5, <1>6, <1>7

\* What every scope counts on is shown to the loop.
LEMMA LoopTools ==
    ASSUME NEW desktop
    PROVE  EverywhereTools \subseteq ReactTools(desktop)
<1>1. EverywhereTools \cap (McpOnlyTools \cup FolderTools) = {}
  BY DEF EverywhereTools, McpOnlyTools, FolderTools, InvestigationTools, DiscoveryTools, HelmTools, ClusterTools, AnalysisTools, WriteTools
<1> QED BY <1>1, SurfacesAre DEF ReactTools, ToolsForSurface, Registered

\* A scope narrows the tools to some that are available (scope_for_prompt).
LEMMA ScopeFound ==
    ASSUME NEW hits, NEW available
    PROVE  ScopeIsUsable(hits, available, ScopeForPrompt(hits, available))
<1> DEFINE out == ScopeForPrompt(hits, available)
           matching == {i \in DOMAIN ScopeOrder : ScopeOrder[i] \in hits}
           scope == ScopeOrder[Min(matching)]
<1>0. /\ EscapeHatches \cup {"get_pods", "get_fix_commands"} \subseteq EverywhereTools
      /\ {"get_pods", "get_fix_commands"} \cap EscapeHatches = {}
  BY DEF EscapeHatches, EverywhereTools, DiscoveryTools, ClusterTools, AnalysisTools
<1>1. CASE matching = {}
  <2>1. out.scope = "broad" /\ out.tools = available
    BY <1>1 DEF ScopeForPrompt
  <2> QED BY <2>1, <1>0, LoopTools DEF ScopeIsUsable
<1>2. CASE matching # {}
  <2>1. Min(matching) \in 1..6
    <3>1. matching \subseteq 1..6
      BY DEF ScopeOrder
    <3> QED BY <3>1, <1>2, MinIs
  <2>2. scope # "broad" /\ ("get_pods" \in ScopeTools[scope] \/ "get_fix_commands" \in ScopeTools[scope])
    BY <2>1 DEF ScopeOrder, ScopeTools
  <2> HIDE DEF scope
  <2>3. out = [scope |-> scope, tools |-> (ScopeTools[scope] \cup EscapeHatches) \cap available]
    BY <1>2 DEF ScopeForPrompt, scope
  <2> HIDE DEF out
  <2>4. out.scope = scope /\ out.tools = (ScopeTools[scope] \cup EscapeHatches) \cap available
    BY <2>3
  <2>5. available = ReactTools(FALSE) => EscapeHatches \subseteq out.tools /\ ~(out.tools \subseteq EscapeHatches)
    <3>1. SUFFICES ASSUME available = ReactTools(FALSE)
                   PROVE  EscapeHatches \subseteq out.tools /\ ~(out.tools \subseteq EscapeHatches)
      OBVIOUS
    <3>2. EscapeHatches \cup {"get_pods", "get_fix_commands"} \subseteq available
      BY <3>1, <1>0, LoopTools
    <3> HIDE DEF scope
    <3> QED BY <3>2, <2>2, <2>4, <1>0
  <2> QED BY <2>2, <2>4, <2>5 DEF ScopeIsUsable, out
<1> QED BY <1>1, <1>2

\* What a hand-written branch requires of a tool, of which the registry knows more shorthands.
LEMMA RequiredOf ==
    /\ \A t \in DOMAIN RequiredOfWrites : RequiredParams(t) = RequiredOfWrites[t]
    /\ RequiredParams("describe_pod") = {"namespace", "pod_name"}
<1>1. DOMAIN RequiredOfWrites = {"exec_pod_command", "delete_pod", "rollout_restart", "scale_deployment", "apply_patch"}
  BY DEF RequiredOfWrites
<1>2. ASSUME NEW t \in DOMAIN RequiredOfWrites \cup {"describe_pod"}
      PROVE  t \notin DOMAIN RequiredOfReads
  BY <1>1 DEF RequiredOfReads
<1>3. ASSUME NEW t \in DOMAIN RequiredOfWrites
      PROVE  t \notin DOMAIN RequiredOfLookups
  BY <1>1 DEF RequiredOfLookups
<1>4. ASSUME NEW t \in DOMAIN RequiredOfWrites \cup {"describe_pod"}
      PROVE  t \notin DOMAIN RequiredOfAnalyses
  BY <1>1 DEF RequiredOfAnalyses
<1>5. ASSUME NEW t \in DOMAIN RequiredOfWrites \cup {"describe_pod"}
      PROVE  t \notin DOMAIN RequiredOfPlans
  BY <1>1 DEF RequiredOfPlans
<1>6. "describe_pod" \in DOMAIN RequiredOfLookups /\ RequiredOfLookups["describe_pod"] = {"namespace", "pod_name"}
  BY DEF RequiredOfLookups
<1>7. "describe_pod" \notin DOMAIN RequiredOfWrites
  BY <1>1
<1> QED BY <1>2, <1>3, <1>4, <1>5, <1>6, <1>7 DEF RequiredParams

\* A call as the surfaces build it.
IsCall(asked) == DOMAIN asked = {"name", "surface", "params", "outcome", "finds", "desktop"}

\* A tool named by its own branch acts where the registry would let it act.
LEMMA ServedAlike ==
    ASSUME NEW asked, IsCall(asked)
    PROVE  McpIsWhole(asked, CallTool(asked))
<1> DEFINE out == CallTool(asked)
           tools == GetToolsDefinitions(asked.desktop)
<1>1. {t \in Registered(asked.desktop) : "mcp" \in Surfaces(t)} = tools
  BY Declared
<1>2. CASE asked.name \in HandWrittenTools
  <2> DEFINE told == Replied([asked EXCEPT !.surface = "mcp"], "", asked.name)
  <2>1. out = HandBranch(asked)
    BY <1>2 DEF CallTool
  <2>2. told.error = "" /\ told.ran = asked.name /\ [told EXCEPT !.error = "raised"].error = "raised" /\ [told EXCEPT !.error = "raised"].ran = asked.name
    BY DEF Replied
  <2>3. [told EXCEPT !.error = "Validation error", !.ran = NoTool].error = "Validation error" /\ [told EXCEPT !.error = "Validation error", !.ran = NoTool].ran = NoTool
    BY DEF Replied
  <2> HIDE DEF told
  <2>4. CASE ~ValidateParams(asked.name, asked.params)
    <3>1. out = [told EXCEPT !.error = "Validation error", !.ran = NoTool]
      BY <2>1, <2>4 DEF HandBranch, told
    <3>2. NoTool \notin HandWrittenTools /\ out.error # "unknown_tool" /\ asked.name \in tools /\ out.ran = NoTool
      BY <2>3, <3>1, <1>2, NamesApart, <1>1 DEF GetToolsDefinitions
    <3> QED BY <3>2, <1>1 DEF McpIsWhole
  <2>5. CASE ValidateParams(asked.name, asked.params)
    <3>1. out.ran = asked.name /\ out.error \in {"", "raised"}
      BY <2>1, <2>2, <2>5 DEF HandBranch, told
    <3>2. out.error # "unknown_tool" /\ asked.name \in tools
      BY <3>1, <1>2 DEF GetToolsDefinitions
    <3>3. out.ran \in {"delete_pod", "rollout_restart", "scale_deployment"} =>
             HandWriteCall(out.ran, asked.params) = WriteCall(out.ran, asked.params)
      <4>1. SUFFICES ASSUME asked.name \in {"delete_pod", "rollout_restart", "scale_deployment"}
                     PROVE  HandWriteCall(asked.name, asked.params) = WriteCall(asked.name, asked.params)
        BY <3>1
      <4>2. "namespace" \in RequiredParams(asked.name)
        BY <4>1, RequiredOf DEF RequiredOfWrites
      <4>3. NamespaceOr(asked.params) = asked.params["namespace"]
        BY <4>2, <2>5 DEF ValidateParams, NamespaceOr
      <4> QED BY <4>1, <4>3 DEF HandWriteCall, WriteCall, RegistryTarget
    <3>4. out.ran \notin {"delete_pod", "rollout_restart", "scale_deployment"} =>
             out.ran \in WriteTools \/ HandTarget(out.ran, asked.params) = RegistryTarget(out.ran, asked.params)
      <4>1. asked.name = "describe_pod" => NamespaceOr(asked.params) = asked.params["namespace"]
        BY <2>5, RequiredOf DEF ValidateParams, NamespaceOr
      <4> QED BY <3>1, <4>1 DEF HandTarget, RegistryTarget, WriteTools
    <3> QED BY <3>2, <3>3, <3>4, <1>1 DEF McpIsWhole
  <2> QED BY <2>4, <2>5
<1>3. CASE asked.name \notin HandWrittenTools
  <2>1. out = DispatchViaRegistry(asked)
    BY <1>3 DEF CallTool
  <2>2. CASE asked.name \in tools
    <3> DEFINE told == [asked EXCEPT !.surface = "mcp"]
    <3>1. told.name = asked.name /\ told.desktop = asked.desktop /\ told.surface = "mcp"
      BY DEF IsCall
    <3>2. asked.name \in Registered(asked.desktop) /\ "mcp" \in Surfaces(asked.name) /\ out = Dispatch(told)
      BY <2>1, <2>2, <1>1 DEF DispatchViaRegistry
    <3> HIDE DEF told, out
    <3>3. ResolveTool(told.name, told.desktop) = asked.name /\ asked.name # NoTool
      BY <3>1, <3>2, NamesResolve, NamesApart
    <3>4. out.error # "unknown_tool" /\ out.ran \in {NoTool, asked.name}
      BY <3>1, <3>2, <3>3 DEF Dispatch, Replied
    <3>5. out.ran \notin HandWrittenTools
      BY <3>4, <1>1, <1>3, NamesApart DEF GetToolsDefinitions
    <3> QED BY <3>4, <3>5, <2>2, <1>1 DEF McpIsWhole, out
  <2>3. CASE asked.name \notin tools
    <3>1. out.error = "unknown_tool" /\ out.ran = NoTool
      BY <2>1, <2>3, <1>1 DEF DispatchViaRegistry
    <3> QED BY <3>1, <2>3, <1>1, NamesApart DEF McpIsWhole, GetToolsDefinitions
  <2> QED BY <2>2, <2>3
<1> QED BY <1>2, <1>3

\* A question about the tools, of any size: the listings hold any number of pods, deployments and
\* services, a phrase is any words, a call brings any parameters.
ToolQuestion ==
    /\ question.part \in {"dispatch", "server"} => IsCall(question.call)
    /\ question.part = "named" =>
          \E W : /\ {question.world.pods, question.world.deployments, question.world.services} \subseteq Seq(Listed(W))
                 /\ question.phrase.words \in Name(W) /\ question.phrase.glued \in W
    /\ question.part = "switch" => \/ question.conn = <<>>
                                  \/ \E c : question.conn = <<c>>
    /\ question.part = "kb" => question.job.connects \in BOOLEAN

\* The dispatcher, the MCP server, the search for a named pod, the switch of the context, the
\* knowledge base and the scoper, asked such a question.
ToolsSpec == answer = <<>> /\ ToolQuestion /\ [][ToolSteps]_exchange

\* The tools are dispatched soundly: no tool runs on a surface it was not registered for or without
\* what it requires, no failure is silent, no parameter is lost, every name that is offered can be
\* called, the server's own branches act where the registry would, the pod and the service a tool
\* acts on are the ones the name stands for, a context changes only to one that answers, and a
\* narrowed prompt keeps its ways out (mcp/tool_registry.py 93, 424, 477, 1832 and 1885,
\* mcp_server/tools.py 533, ui/backend/tool_scoper.py 199).  TLC asks bounded questions; here their
\* size has no bound.
THEOREM DispatchHolds == ToolsSpec => []DispatchIsSound
<1> DEFINE Inv == ToolQuestion /\ DispatchIsSound
<1>1. answer = <<>> /\ ToolQuestion => Inv
  BY DEF DispatchIsSound, Answered
<1>2. Inv /\ [ToolSteps]_exchange => Inv'
  <2>1. SUFFICES ASSUME Inv, [ToolSteps]_exchange PROVE Inv'
    OBVIOUS
  <2>2. CASE UNCHANGED exchange
    BY <2>1, <2>2 DEF exchange, ToolQuestion, DispatchIsSound, Answered, Out
  <2>3. CASE DispatchTool
    <3>1. question' = question /\ question.part = "dispatch" /\ Out' = Dispatch(question.call)
      BY <2>3 DEF DispatchTool, Asked, Out
    <3>2. DispatchIsContained(question.call, Dispatch(question.call)) /\ ParamsAreKept(question.call)
      BY Contained, ParamsKept
    <3>3. \A s \in {"mcp", "chat", "react"} : HintsAreUsable(s, question.call.desktop)
      BY Hints
    <3> QED BY <2>1, <3>1, <3>2, <3>3 DEF ToolQuestion, DispatchIsSound, Answered
  <2>4. CASE ServeTool
    <3>1. question' = question /\ question.part = "server" /\ Out' = CallTool(question.call)
      BY <2>4 DEF ServeTool, Asked, Out
    <3>2. McpIsWhole(question.call, CallTool(question.call))
      BY <2>1, <3>1, ServedAlike DEF ToolQuestion
    <3> QED BY <2>1, <3>1, <3>2 DEF ToolQuestion, DispatchIsSound, Answered
  <2>5. CASE FindNamedPod
    <3>1. question' = question /\ question.part = "named"
      BY <2>5 DEF FindNamedPod, Asked
    <3>2. /\ Out'.pod = ResolvePodNsAndName(question.world, question.phrase, question.ns)
          /\ Out'.service = ServiceTarget(question.world, question.phrase.words)
      BY <2>5 DEF FindNamedPod, Asked, Out
    <3> PICK W : /\ {question.world.pods, question.world.deployments, question.world.services} \subseteq Seq(Listed(W))
                 /\ question.phrase.words \in Name(W) /\ question.phrase.glued \in W
      BY <2>1, <3>1 DEF ToolQuestion
    <3>3. PodIsTheOne(question.world, question.phrase, question.ns, ResolvePodNsAndName(question.world, question.phrase, question.ns))
      BY PodFound
    <3>4. ServiceIsTheOne(question.world, question.phrase.words, ServiceTarget(question.world, question.phrase.words))
      BY ServiceFound
    <3> QED BY <2>1, <3>1, <3>2, <3>3, <3>4 DEF ToolQuestion, DispatchIsSound, Answered
  <2>6. CASE SwitchTheContext
    <3>1. question' = question /\ question.part = "switch" /\ Out' = SwitchContext(question.conn, "new", question.world)
      BY <2>6 DEF SwitchTheContext, Asked, Out
    <3>2. SwitchIsChecked(question.conn, question.world, SwitchContext(question.conn, "new", question.world))
      BY <2>1, <3>1, Switch DEF ToolQuestion
    <3> QED BY <2>1, <3>1, <3>2 DEF ToolQuestion, DispatchIsSound, Answered
  <2>7. CASE SearchTheBase
    <3>1. question' = question /\ question.part = "kb" /\ Out' = KbSearch(question.job)
      BY <2>7 DEF SearchTheBase, Asked, Out
    <3>2. KbSearch(question.job) = HandKbSearch(question.job)
      BY <2>1, <3>1, Base DEF ToolQuestion
    <3> QED BY <2>1, <3>1, <3>2 DEF ToolQuestion, DispatchIsSound, Answered
  <2>8. CASE ScopeThePrompt
    <3>1. question' = question /\ question.part = "scope" /\ Out' = ScopeForPrompt(question.hits, question.available)
      BY <2>8 DEF ScopeThePrompt, Asked, Out
    <3> QED BY <2>1, <3>1, ScopeFound DEF ToolQuestion, DispatchIsSound, Answered
  <2> QED BY <2>1, <2>2, <2>3, <2>4, <2>5, <2>6, <2>7, <2>8 DEF ToolSteps
<1>3. Inv => DispatchIsSound
  OBVIOUS
<1> QED BY <1>1, <1>2, <1>3, PTL DEF ToolsSpec

\* The questions TLC asks of the tools (ToolQuestions, in MCTools) are among these.
LEMMA ToolQuestionsAsked == ToolQuestions => ToolQuestion
<1>1. \A c \in AskedCalls : IsCall(c)
  BY DEF AskedCalls, IsCall
<1>2. question \in DispatchQuestions => ToolQuestion
  BY <1>1 DEF DispatchQuestions, ToolQuestion
<1>3. question \in ServerQuestions => ToolQuestion
  BY <1>1 DEF ServerQuestions, ToolQuestion
<1>4. ASSUME question \in NamedQuestions PROVE ToolQuestion
  <2> DEFINE W == {"shop", "prod", "web", "7f", "my", "pod", "db", "webpod"}
             h == question.phrase
             D == {<<>>, <<[ns |-> "prod", name |-> <<"web">>]>>}
  <2>1. question.part = "named" /\ question.world \in NamedWorlds
    BY <1>4 DEF NamedQuestions
  <2>2. PodNames \subseteq Name(W)
    BY DEF PodNames, Name
  <2>3. SomePods \subseteq Seq(Listed(W))
    <3>1. [ns : {"shop", "prod"}, name : PodNames] \subseteq Listed(W)
      <4> HIDE DEF PodNames
      <4> QED BY <2>2 DEF Listed
    <3> HIDE DEF W
    <3>2. ASSUME NEW n_1 \in 0..2 PROVE [1..n_1 -> [ns : {"shop", "prod"}, name : PodNames]] \subseteq Seq(Listed(W))
      BY <3>1, SeqDef
    <3> QED BY <3>2 DEF SomePods, UpTo
  <2>4. ASSUME NEW d \in D PROVE d \in Seq(Listed(W))
    <3>1. <<"web">> \in Name(W)
      BY DEF Name
    <3>2. [ns |-> "prod", name |-> <<"web">>] \in Listed(W)
      <4> HIDE DEF W
      <4>1. "prod" \in W \ {""}
        BY DEF W
      <4> QED BY <3>1, <4>1 DEF Listed
    <3> HIDE DEF W
    <3>3. <<[ns |-> "prod", name |-> <<"web">>]>> \in Seq(Listed(W))
      BY <3>2
    <3> QED BY <3>3, EmptySeq
  <2>5. h.words \in Name(W) /\ h.glued \in W
    <3>1. <<"web">> \in Name(W) /\ <<"web", "pod">> \in Name(W)
      BY DEF Name
    <3>2. \/ h.words = <<"web">> /\ h.glued = "web"
          \/ h.words = <<"web", "pod">> /\ h.glued = "webpod"
      <4> DEFINE one == [words |-> <<"web">>, glued |-> "web"]
                 two == [words |-> <<"web", "pod">>, glued |-> "webpod"]
      <4>1. /\ one.words = <<"web">> /\ one.glued = "web"
            /\ two.words = <<"web", "pod">> /\ two.glued = "webpod"
        OBVIOUS
      <4>2. h = one \/ h = two
        BY <1>4 DEF NamedQuestions
      <4> HIDE DEF one, two
      <4> QED BY <4>1, <4>2
    <3>3. "web" \in W /\ "webpod" \in W
      OBVIOUS
    <3> HIDE DEF W, h
    <3> QED BY <3>1, <3>2, <3>3
  <2>6. question.world.pods \in SomePods /\ question.world.deployments \in D /\ question.world.services \in D
    BY <2>1 DEF NamedWorlds
  <2> HIDE DEF W, D, h
  <2>7. {question.world.pods, question.world.deployments, question.world.services} \subseteq Seq(Listed(W))
    BY <2>3, <2>4, <2>6
  <2> QED BY <2>1, <2>5, <2>7 DEF ToolQuestion, h
<1>5. question \in SwitchQuestions => ToolQuestion
  BY DEF SwitchQuestions, ToolQuestion
<1>6. question \in KbQuestions => ToolQuestion
  BY DEF KbQuestions, ToolQuestion
<1>7. question \in ScopeQuestions => ToolQuestion
  BY DEF ScopeQuestions, ToolQuestion
<1> QED BY <1>2, <1>3, <1>4, <1>5, <1>6, <1>7 DEF ToolQuestions
-----------------------------------------------------------------------------
(* The loop: what it makes of the tools' answers and of the model's calls.  *)

\* What holds at 0 and, where it holds, one later, holds up to n: G is where it holds.
LEMMA Climb ==
    ASSUME NEW n \in Nat, NEW G, 0 \in G, \A k \in 1..n : k - 1 \in G => k \in G
    PROVE  \A k \in 0..n : k \in G
<1> DEFINE bad == {k \in 0..n : k \notin G}
<1> SUFFICES ASSUME bad # {} PROVE FALSE
  OBVIOUS
<1>1. Min(bad) \in bad /\ \A k \in bad : Min(bad) <= k
  <2>1. bad \subseteq Nat
    OBVIOUS
  <2> QED BY <2>1, MinIs
<1> DEFINE m == Min(bad)
<1> HIDE DEF m
<1>2. m \in 0..n /\ m \notin G /\ \A k \in bad : m <= k
  BY <1>1 DEF m
<1>3. m # 0
  BY <1>2
<1>4. m \in 1..n /\ m - 1 \in 0..n /\ ~(m <= m - 1)
  <2> HIDE DEF bad
  <2> QED BY <1>2, <1>3
<1>5. m - 1 \notin bad
  BY <1>2, <1>4
<1> QED BY <1>2, <1>4, <1>5

\* One move of S for each of n steps, and what S goes through then.
Turns(n, S) == [1..n -> [S -> S]]

HasHistory(n, S, start, next) ==
    \E r \in [0..n -> S] : r[0] = start /\ \A k \in 1..n : r[k] = next[k][r[k - 1]]

\* A function that is defined from its value before has a value at each step.
LEMMA Iterates ==
    ASSUME NEW n \in Nat, NEW S, NEW start \in S, NEW next \in Turns(n, S)
    PROVE  HasHistory(n, S, start, next)
<1> DEFINE Is(m, r) == r \in [0..m -> S] /\ r[0] = start /\ \A k \in 1..m : r[k] = next[k][r[k - 1]]
           G == {m \in 0..n : \E r : Is(m, r)}
<1>1. 0 \in G
  <2>1. Is(0, [k \in 0..0 |-> start]) /\ 0 \in 0..n
    OBVIOUS
  <2> HIDE DEF Is
  <2> QED BY <2>1
<1>2. ASSUME NEW m \in 1..n, m - 1 \in G PROVE m \in G
  <2> PICK r : Is(m - 1, r)
    BY <1>2
  <2> DEFINE new == [k \in 0..m |-> IF k = m THEN next[m][r[m - 1]] ELSE r[k]]
  <2>1. m - 1 \in 0..(m - 1) /\ r \in [0..(m - 1) -> S]
    OBVIOUS
  <2>2. next[m][r[m - 1]] \in S
    <3>1. r[m - 1] \in S
      BY <2>1
    <3>2. next[m] \in [S -> S]
      BY DEF Turns
    <3> QED BY <3>1, <3>2
  <2>3. new \in [0..m -> S]
    <3> HIDE DEF Is
    <3>1. ASSUME NEW k \in 0..m PROVE (IF k = m THEN next[m][r[m - 1]] ELSE r[k]) \in S
      BY <2>1, <2>2
    <3> QED BY <3>1
  <2>4. new[0] = start
    OBVIOUS
  <2>5. ASSUME NEW k \in 1..m PROVE new[k] = next[k][new[k - 1]]
    <3>1. new[k - 1] = r[k - 1] /\ k \in 0..m /\ k - 1 \in 0..m
      BY <2>5
    <3>2. CASE k = m
      BY <3>1, <3>2
    <3>3. CASE k # m
      <4>1. k \in 1..(m - 1) /\ new[k] = r[k]
        BY <3>1, <3>3
      <4> QED BY <3>1, <4>1
    <3> QED BY <3>2, <3>3
  <2>6. Is(m, new)
    BY <2>3, <2>4, <2>5
  <2>7. m \in 0..n
    OBVIOUS
  <2> HIDE DEF Is, new
  <2> QED BY <2>6, <2>7
<1> HIDE DEF Is
<1>3. n \in G
  <2> HIDE DEF G
  <2> QED BY <1>1, <1>2, Climb
<1>4. PICK r : Is(n, r)
  BY <1>3
<1> QED BY <1>4 DEF HasHistory, Is

\* out is what s holds at the places of I up to n.
IsPicked(out, s, I, n) ==
    \E at \in [1..Len(out) -> I \cap 1..n] :
        /\ \A k \in 1..Len(out) : out[k] = s[at[k]]
        /\ \A j, k \in 1..Len(out) : j < k => at[j] < at[k]
        /\ \A i \in I \cap 1..n : \E k \in 1..Len(out) : at[k] = i

\* One more place: what is picked grows by it when it is of I.
LEMMA PickedOne ==
    ASSUME NEW T, NEW out \in Seq(T), NEW s \in Seq(T), NEW I, NEW n \in 1..Len(s), IsPicked(out, s, I, n - 1)
    PROVE  IsPicked(IF n \in I THEN Append(out, s[n]) ELSE out, s, I, n)
<1>1. PICK at \in [1..Len(out) -> I \cap 1..(n - 1)] :
         /\ \A k \in 1..Len(out) : out[k] = s[at[k]]
         /\ \A j, k \in 1..Len(out) : j < k => at[j] < at[k]
         /\ \A i \in I \cap 1..(n - 1) : \E k \in 1..Len(out) : at[k] = i
  BY DEF IsPicked
<1>2. Len(out) \in Nat /\ n \in Nat
  OBVIOUS
<1>3. CASE n \notin I
  <2>1. I \cap 1..n = I \cap 1..(n - 1)
    BY <1>3
  <2> QED BY <1>1, <1>3, <2>1 DEF IsPicked
<1>4. CASE n \in I
  <2> DEFINE new == Append(out, s[n])
             to == [k \in 1..Len(new) |-> IF k = Len(new) THEN n ELSE at[k]]
  <2>1. Len(new) = Len(out) + 1 /\ (\A k \in 1..Len(out) : new[k] = out[k]) /\ new[Len(new)] = s[n]
    OBVIOUS
  <2> HIDE DEF new
  <2>2. \A k \in 1..Len(new) : k = Len(new) \/ k \in 1..Len(out)
    BY <1>2, <2>1
  <2>3. \A k \in 1..Len(out) : at[k] \in I \cap 1..(n - 1) /\ at[k] \in 1..n /\ at[k] < n /\ k # Len(new) /\ k \in 1..Len(new)
    <3>1. \A k \in 1..Len(out) : at[k] \in I \cap 1..(n - 1)
      BY <1>1
    <3> QED BY <1>2, <2>1, <3>1
  <2>4. to \in [1..Len(new) -> I \cap 1..n]
    BY <1>2, <1>4, <2>2, <2>3
  <2>5. \A k \in 1..Len(new) : new[k] = s[to[k]]
    BY <1>1, <2>1, <2>2, <2>3
  <2>6. \A j, k \in 1..Len(new) : j < k => to[j] < to[k]
    <3> SUFFICES ASSUME NEW j \in 1..Len(new), NEW k \in 1..Len(new), j < k PROVE to[j] < to[k]
      OBVIOUS
    <3>1. j \in 1..Len(out)
      BY <1>2, <2>1
    <3>2. CASE k = Len(new)
      BY <2>3, <3>1, <3>2
    <3>3. CASE k \in 1..Len(out)
      BY <1>1, <2>3, <3>1, <3>3
    <3> QED BY <2>2, <3>2, <3>3
  <2>7. ASSUME NEW i \in I \cap 1..n PROVE \E k \in 1..Len(new) : to[k] = i
    <3>1. CASE i = n
      <4>1. Len(new) \in 1..Len(new)
        BY <1>2, <2>1
      <4> QED BY <3>1, <4>1
    <3>2. CASE i # n
      <4>1. i \in I \cap 1..(n - 1)
        BY <1>2, <3>2
      <4>2. PICK k \in 1..Len(out) : at[k] = i
        BY <1>1, <4>1
      <4> QED BY <2>3, <4>2
    <3> QED BY <3>1, <3>2
  <2> HIDE DEF to
  <2>8. IsPicked(new, s, I, n)
    BY <2>4, <2>5, <2>6, <2>7 DEF IsPicked
  <2> QED BY <1>4, <2>8 DEF new
<1> QED BY <1>3, <1>4

\* What Picked gives: each place of I once, in order.
LEMMA PickedIs ==
    ASSUME NEW T, NEW s \in Seq(T), NEW I
    PROVE  Picked(s, I) \in Seq(T) /\ IsPicked(Picked(s, I), s, I, Len(s))
<1> DEFINE n == Len(s)
           One(k, p) == IF k \in I THEN Append(p, s[k]) ELSE p
           next == [k \in 1..n |-> [p \in Seq(T) |-> One(k, p)]]
           By(r) == r = [k \in 0..n |-> IF k = 0 THEN <<>> ELSE IF k \in I THEN Append(r[k - 1], s[k]) ELSE r[k - 1]]
<1>1. n \in Nat /\ \A k \in 1..n : s[k] \in T
  BY LenProperties, ElementOfSeq
<1>2. \A k \in 1..n : \A p \in Seq(T) : One(k, p) \in Seq(T)
  BY <1>1, AppendProperties
<1> HIDE DEF n
<1>3. PICK r \in [0..n -> Seq(T)] : r[0] = <<>> /\ \A k \in 1..n : r[k] = next[k][r[k - 1]]
  <2>1. next \in Turns(n, Seq(T))
    BY <1>2 DEF Turns
  <2>2. <<>> \in Seq(T)
    BY EmptySeq
  <2> HIDE DEF next
  <2>3. HasHistory(n, Seq(T), <<>>, next)
    BY <1>1, <2>1, <2>2, Iterates
  <2> QED BY <2>3 DEF HasHistory
<1>4. ASSUME NEW k \in 1..n PROVE k - 1 \in 0..n /\ r[k - 1] \in Seq(T) /\ r[k] = One(k, r[k - 1])
  <2>1. k - 1 \in 0..n
    BY <1>1
  <2>2. r[k - 1] \in Seq(T)
    BY <2>1
  <2> HIDE DEF One
  <2> QED BY <1>3, <2>1, <2>2
<1>5. By(r)
  <2>1. ASSUME NEW k \in 0..n PROVE r[k] = IF k = 0 THEN <<>> ELSE IF k \in I THEN Append(r[k - 1], s[k]) ELSE r[k - 1]
    <3>1. CASE k = 0
      BY <1>3, <3>1
    <3>2. CASE k # 0
      <4>1. k \in 1..n
        BY <1>1, <3>2
      <4> QED BY <1>4, <3>2, <4>1
    <3> QED BY <3>1, <3>2
  <2> QED BY <2>1
<1> DEFINE P == CHOOSE x : By(x)
<1>6. By(P)
  <2> HIDE DEF By
  <2> QED BY <1>5
<1>7. Picked(s, I) = P[n]
  BY DEF Picked, n
<1> HIDE DEF P
<1>8. ASSUME NEW k \in 0..n PROVE P[k] = r[k]
  <2> DEFINE G == {j \in 0..n : P[j] = r[j]}
  <2>1. 0 \in G
    BY <1>1, <1>3, <1>6
  <2>2. ASSUME NEW j \in 1..n, j - 1 \in G PROVE j \in G
    <3>1. j \in 0..n /\ j # 0
      BY <1>1
    <3>2. P[j] = One(j, P[j - 1])
      BY <1>6, <3>1
    <3> QED BY <1>4, <2>2, <3>1, <3>2
  <2> HIDE DEF G
  <2>3. k \in G
    BY <1>1, <2>1, <2>2, Climb
  <2> QED BY <2>3 DEF G
<1>9. \A k \in 0..n : IsPicked(r[k], s, I, k)
  <2> DEFINE G == {j \in 0..n : IsPicked(r[j], s, I, j)}
  <2>1. 0 \in G
    <3>1. IsPicked(<<>>, s, I, 0)
      <4>1. [k \in 1..0 |-> 0] \in [1..Len(<<>>) -> I \cap 1..0] /\ Len(<<>>) = 0 /\ 1..0 = {}
        BY EmptySeq
      <4> QED BY <4>1 DEF IsPicked
    <3> QED BY <1>1, <1>3, <3>1
  <2>2. ASSUME NEW j \in 1..n, j - 1 \in G PROVE j \in G
    <3>1. j \in 0..n /\ r[j - 1] \in Seq(T) /\ IsPicked(r[j - 1], s, I, j - 1) /\ r[j] = One(j, r[j - 1])
      BY <1>1, <1>4, <2>2
    <3>2. IsPicked(One(j, r[j - 1]), s, I, j)
      BY <3>1, PickedOne DEF n
    <3> HIDE DEF One
    <3> QED BY <3>1, <3>2
  <2> HIDE DEF G
  <2>3. \A k \in 0..n : k \in G
    BY <1>1, <2>1, <2>2, Climb
  <2> QED BY <2>3 DEF G
<1>10. n \in 0..n
  BY <1>1
<1> QED BY <1>3, <1>7, <1>8, <1>9, <1>10 DEF n

\* The first so many of a sequence.
LEMMA FirstNIs ==
    ASSUME NEW T, NEW s \in Seq(T), NEW n \in Nat
    PROVE  /\ FirstN(s, n) \in Seq(T) /\ Len(FirstN(s, n)) \in Nat
           /\ Len(FirstN(s, n)) = n \/ Len(FirstN(s, n)) = Len(s)
           /\ Len(FirstN(s, n)) <= n /\ Len(FirstN(s, n)) <= Len(s)
           /\ \A k \in 1..Len(FirstN(s, n)) : FirstN(s, n)[k] = s[k] /\ k \in 1..Len(s)
<1> DEFINE m == IF n < Len(s) THEN n ELSE Len(s)
<1>1. Len(s) \in Nat /\ m \in 0..Len(s) /\ m <= n /\ m <= Len(s) /\ (m = n \/ m = Len(s))
  BY LenProperties
<1> HIDE DEF m
<1>2. FirstN(s, n) = SubSeq(s, 1, m)
  BY DEF FirstN, m
<1>3. SubSeq(s, 1, m) \in Seq(T) /\ Len(SubSeq(s, 1, m)) = m /\ \A k \in 1..m : SubSeq(s, 1, m)[k] = s[k] /\ k \in 1..Len(s)
  BY <1>1
<1> QED BY <1>1, <1>2, <1>3

\* The messages told of events: each reason once, warnings before anything else, and every reason
\* unless there are too many.
LEMMA TopIs ==
    ASSUME NEW T, NEW events \in Seq(T), NEW top \in Nat
    PROVE  LET shown == TopMessages(events, top) IN
           /\ shown \in Seq(T)
           /\ \A i, j \in 1..Len(shown) :
                 i < j => /\ shown[i].reason # shown[j].reason
                          /\ shown[j].type = "Warning" => shown[i].type = "Warning"
           /\ \A i \in 1..Len(events) : Len(shown) # top => \E j \in 1..Len(shown) : shown[j].reason = events[i].reason
<1> DEFINE W == {i \in DOMAIN events : events[i].type = "Warning"}
           warnings == Picked(events, W)
           s == warnings \o events
           I == {i \in DOMAIN s : \A j \in 1..(i - 1) : s[j].reason # s[i].reason}
           one == Picked(s, I)
           shown == FirstN(one, top)
<1> HIDE DEF W, I
<1>1. warnings \in Seq(T) /\ IsPicked(warnings, events, W, Len(events))
  BY PickedIs
<1> HIDE DEF warnings
<1>2. PICK of \in [1..Len(warnings) -> W \cap 1..Len(events)] :
         /\ \A k \in 1..Len(warnings) : warnings[k] = events[of[k]]
         /\ \A i \in W \cap 1..Len(events) : \E k \in 1..Len(warnings) : of[k] = i
  BY <1>1 DEF IsPicked
<1>3. /\ s \in Seq(T) /\ Len(s) = Len(warnings) + Len(events) /\ Len(warnings) \in Nat /\ Len(events) \in Nat
      /\ \A k \in 1..Len(warnings) : s[k] = warnings[k]
      /\ \A k \in 1..Len(events) : s[Len(warnings) + k] = events[k]
      /\ \A k \in 1..Len(s) : k \in 1..Len(warnings) \/ (k - Len(warnings) \in 1..Len(events) /\ s[k] = events[k - Len(warnings)])
      /\ DOMAIN s = 1..Len(s) /\ DOMAIN events = 1..Len(events)
  BY <1>1
<1> HIDE DEF s
<1>4. one \in Seq(T) /\ IsPicked(one, s, I, Len(s))
  BY <1>3, PickedIs
<1> HIDE DEF one
<1>5. PICK at \in [1..Len(one) -> I \cap 1..Len(s)] :
         /\ \A k \in 1..Len(one) : one[k] = s[at[k]]
         /\ \A j, k \in 1..Len(one) : j < k => at[j] < at[k]
         /\ \A i \in I \cap 1..Len(s) : \E k \in 1..Len(one) : at[k] = i
  BY <1>4 DEF IsPicked
<1>6. /\ shown \in Seq(T) /\ Len(shown) \in Nat /\ (Len(shown) = top \/ Len(shown) = Len(one))
      /\ \A k \in 1..Len(shown) : shown[k] = one[k] /\ k \in 1..Len(one)
  BY <1>4, FirstNIs
<1> HIDE DEF shown
<1>7. \A i \in I : i \in 1..Len(s) /\ \A j \in 1..(i - 1) : s[j].reason # s[i].reason
  BY <1>3 DEF I
<1>8. \A k \in 1..Len(warnings) : warnings[k].type = "Warning"
  <2>1. \A i \in W : events[i].type = "Warning"
    BY DEF W
  <2> QED BY <1>2, <2>1
<1>9. ASSUME NEW i \in 1..Len(shown), NEW j \in 1..Len(shown), i < j
      PROVE  shown[i].reason # shown[j].reason /\ (shown[j].type = "Warning" => shown[i].type = "Warning")
  <2>1. shown[i] = s[at[i]] /\ shown[j] = s[at[j]] /\ at[i] < at[j] /\ at[i] \in I /\ at[j] \in I
    BY <1>5, <1>6, <1>9
  <2>2. at[i] \in 1..Len(s) /\ at[j] \in 1..Len(s) /\ at[i] \in 1..(at[j] - 1)
    BY <1>3, <1>7, <2>1
  <2>3. s[at[i]].reason # s[at[j]].reason
    BY <1>7, <2>1, <2>2
  <2>4. ASSUME s[at[j]].type = "Warning", s[at[i]].type # "Warning" PROVE FALSE
    <3>1. at[i] \notin 1..Len(warnings)
      BY <1>3, <1>8, <2>4
    <3>2. at[j] \notin 1..Len(warnings) /\ at[j] - Len(warnings) \in 1..Len(events) /\ s[at[j]] = events[at[j] - Len(warnings)]
      BY <1>3, <2>1, <2>2, <3>1
    <3>3. at[j] - Len(warnings) \in W \cap 1..Len(events)
      BY <1>3, <2>4, <3>2 DEF W
    <3>4. PICK k \in 1..Len(warnings) : of[k] = at[j] - Len(warnings)
      BY <1>2, <3>3
    <3>5. s[k] = s[at[j]] /\ k \in 1..(at[j] - 1)
      BY <1>2, <1>3, <2>2, <3>2, <3>4
    <3> QED BY <1>7, <2>1, <3>5
  <2> QED BY <2>1, <2>3, <2>4
<1>10. ASSUME NEW i \in 1..Len(events), Len(shown) # top PROVE \E j \in 1..Len(shown) : shown[j].reason = events[i].reason
  <2> DEFINE same == {k \in 1..Len(s) : s[k].reason = events[i].reason}
             m == Min(same)
  <2>1. Len(warnings) + i \in same
    BY <1>3
  <2>2. m \in same /\ \A k \in same : m <= k
    <3>1. same \subseteq Nat
      BY <1>3
    <3> HIDE DEF same
    <3> QED BY <2>1, <3>1, MinIs
  <2> HIDE DEF m
  <2>3. m \in 1..Len(s) /\ s[m].reason = events[i].reason
    BY <2>2
  <2>4. ASSUME NEW j \in 1..(m - 1) PROVE s[j].reason # s[m].reason
    <3>1. j \in 1..Len(s) /\ ~(m <= j)
      BY <1>3, <2>3
    <3>2. j \notin same
      <4> HIDE DEF same
      <4> QED BY <2>2, <3>1
    <3> QED BY <2>3, <3>1, <3>2
  <2>5. m \in I \cap 1..Len(s)
    BY <1>3, <2>3, <2>4 DEF I
  <2>6. PICK k \in 1..Len(one) : at[k] = m
    BY <1>5, <2>5
  <2>7. Len(shown) = Len(one)
    BY <1>6, <1>10
  <2> QED BY <1>5, <1>6, <2>3, <2>6, <2>7
<1>11. TopMessages(events, top) = shown
  BY DEF TopMessages, OnePerReason, shown, one, s, warnings, W, I
<1> QED BY <1>6, <1>9, <1>10, <1>11

\* Pods that do not run come first in a listing: all of them are shown, or nothing else is.
LEMMA FailingListed ==
    ASSUME NEW T, NEW pods \in Seq(T), NEW most \in Nat
    PROVE  LET shown == ListedPods(pods, most)
               fails == {p \in Range(pods) : p.status \notin {"Running", "Succeeded"}}
           IN  fails \subseteq Range(shown) \/ Range(shown) \subseteq fails
<1> DEFINE sound == {i \in DOMAIN pods : pods[i].status \in {"Running", "Succeeded"}}
           bad == DOMAIN pods \ sound
           a == Picked(pods, bad)
           b == Picked(pods, sound)
           s == a \o b
           shown == FirstN(s, most)
           fails == {p \in Range(pods) : p.status \notin {"Running", "Succeeded"}}
<1>0. DOMAIN pods = 1..Len(pods) /\ Len(pods) \in Nat
  OBVIOUS
<1>1. \A i \in bad : i \in 1..Len(pods) /\ pods[i].status \notin {"Running", "Succeeded"}
  BY <1>0
<1>2. \A i \in 1..Len(pods) : pods[i].status \notin {"Running", "Succeeded"} => i \in bad
  BY <1>0
<1> HIDE DEF bad, sound
<1>3. a \in Seq(T) /\ b \in Seq(T) /\ IsPicked(a, pods, bad, Len(pods))
  BY PickedIs
<1> HIDE DEF a, b
<1>4. PICK at \in [1..Len(a) -> bad \cap 1..Len(pods)] :
         /\ \A k \in 1..Len(a) : a[k] = pods[at[k]]
         /\ \A i \in bad \cap 1..Len(pods) : \E k \in 1..Len(a) : at[k] = i
  BY <1>3 DEF IsPicked
<1>5. /\ s \in Seq(T) /\ Len(s) = Len(a) + Len(b) /\ Len(a) \in Nat /\ Len(b) \in Nat
      /\ \A k \in 1..Len(a) : s[k] = a[k]
  BY <1>3
<1> HIDE DEF s
<1>6. /\ shown \in Seq(T) /\ Len(shown) \in Nat /\ Len(shown) <= most
      /\ (Len(shown) = most \/ Len(shown) = Len(s))
      /\ \A k \in 1..Len(shown) : shown[k] = s[k] /\ k \in 1..Len(s)
  BY <1>5, FirstNIs
<1>7. DOMAIN shown = 1..Len(shown)
  BY <1>6
<1> HIDE DEF shown
<1>8. CASE Len(a) <= most
  <2> SUFFICES ASSUME NEW p \in fails PROVE p \in Range(shown)
    BY DEF ListedPods, shown, s, a, b, bad, sound
  <2>1. PICK i \in 1..Len(pods) : pods[i] = p
    BY <1>0 DEF Range
  <2>2. i \in bad \cap 1..Len(pods)
    BY <1>2, <2>1
  <2>3. PICK k \in 1..Len(a) : at[k] = i
    BY <1>4, <2>2
  <2>4. k \in 1..Len(shown) /\ shown[k] = p
    BY <1>4, <1>5, <1>6, <1>8, <2>1, <2>3
  <2> QED BY <1>7, <2>4 DEF Range
<1>9. CASE ~(Len(a) <= most)
  <2> SUFFICES ASSUME NEW p \in Range(shown) PROVE p \in fails
    BY DEF ListedPods, shown, s, a, b, bad, sound
  <2>1. PICK k \in 1..Len(shown) : shown[k] = p
    BY <1>7 DEF Range
  <2>2. k \in 1..Len(a) /\ p = a[k]
    BY <1>5, <1>6, <1>9, <2>1
  <2>3. p = pods[at[k]] /\ at[k] \in bad
    BY <1>4, <2>2
  <2>4. at[k] \in DOMAIN pods /\ p.status \notin {"Running", "Succeeded"}
    BY <1>0, <1>1, <2>3
  <2> QED BY <2>3, <2>4 DEF Range
<1> QED BY <1>8, <1>9

\* When something was observed, something that was observed is the answer.
LEMMA SomethingTold ==
    ASSUME NEW T, NEW taken \in Seq(T)
    PROVE  NothingIsWithheld(taken)
<1> SUFFICES ASSUME NEW i \in DOMAIN taken, taken[i].observed, taken[i].action # "answer"
             PROVE  EmergencyAnswer(taken).findings # <<>>
  BY DEF NothingIsWithheld
<1> DEFINE I == {j \in DOMAIN taken : taken[j].action # "answer" /\ taken[j].observed}
           told == Picked(taken, I)
<1>1. i \in I \cap 1..Len(taken)
  OBVIOUS
<1> HIDE DEF I
<1>2. told \in Seq(T) /\ IsPicked(told, taken, I, Len(taken))
  BY PickedIs
<1>3. Len(told) # 0 /\ Len(told) \in Nat
  BY <1>1, <1>2 DEF IsPicked
<1> HIDE DEF told
<1>4. FirstN(told, 5) \in Seq(T) /\ Len(FirstN(told, 5)) # 0
  BY <1>2, <1>3, FirstNIs
<1>5. told # <<>> /\ taken # <<>> /\ FirstN(told, 5) # <<>>
  BY <1>1, <1>2, <1>3, <1>4
<1>6. EmergencyAnswer(taken) = [kind |-> "findings", findings |-> FirstN(told, 5)]
  BY <1>5 DEF EmergencyAnswer, told, I
<1> QED BY <1>5, <1>6

\* An observation, and the state of a prompt of n of them.
Obs(V) == [size : V, done : BOOLEAN]

\* A pass over n observations.
PassOf(n, V, rounds) == [obs : [1..n -> Obs(V)], rounds : 0..rounds, over : BOOLEAN]

\* What holds of the observations of sizes: each is as it came or compacted once.
Kept(obs, sizes, n) ==
    \A i \in 1..n : /\ ~obs[i].done => obs[i].size = sizes[i]
                    /\ obs[i].done => obs[i].size \in {Small + Marker, sizes[i] + Marker}

\* A pass up to k: over says whether the whole fits, and nothing long is left before k unless it does.
Passed(pass, k, budget) ==
    /\ pass.over => SizeOf(pass.obs) <= budget
    /\ ~pass.over => \A i \in 1..k : pass.obs[i].done \/ pass.obs[i].size <= Small

\* a and b differ at i at most.
SameBut(a, b, i, n) == \A j \in 1..n : j # i => a[j] = b[j]

\* A visit changes the observation it visits at most, and the pass stays one.
LEMMA VisitIs ==
    ASSUME NEW n \in Nat, NEW rounds \in Nat, NEW works \in [1..rounds -> BOOLEAN], NEW budget, NEW sizes \in [1..n -> Nat],
           NEW i \in 1..n, NEW pass \in PassOf(n, Nat, rounds), Kept(pass.obs, sizes, n), Passed(pass, i - 1, budget)
    PROVE  LET next == Visit(pass, i, budget, rounds, works) IN
           /\ next \in PassOf(n, Nat, rounds) /\ Kept(next.obs, sizes, n) /\ Passed(next, i, budget)
           /\ SameBut(next.obs, pass.obs, i, n)
<1> DEFINE o     == pass.obs[i]
           tries == pass.rounds < rounds
           new   == Compacted(o, tries /\ works[pass.rounds + 1])
           obs   == [pass.obs EXCEPT ![i] = new]
           more  == IF tries THEN pass.rounds + 1 ELSE pass.rounds
           fits  == SizeOf(obs) <= budget
           next  == Visit(pass, i, budget, rounds, works)
<1>1. /\ pass.obs \in [1..n -> Obs(Nat)] /\ pass.rounds \in 0..rounds /\ pass.over \in BOOLEAN
      /\ o \in Obs(Nat) /\ o.size \in Nat /\ o.done \in BOOLEAN
  BY DEF PassOf, Obs
<1>2. next = IF pass.over \/ o.done \/ o.size <= Small THEN pass
             ELSE [obs |-> obs, rounds |-> more, over |-> fits]
  BY DEF Visit
<1>3. CASE pass.over \/ o.done \/ o.size <= Small
  <2>1. next = pass
    BY <1>2, <1>3
  <2>2. ASSUME ~pass.over, NEW j \in 1..i PROVE pass.obs[j].done \/ pass.obs[j].size <= Small
    <3>1. j = i \/ j \in 1..(i - 1)
      OBVIOUS
    <3> QED BY <1>3, <2>2, <3>1 DEF Passed
  <2>3. Passed(pass, i, budget)
    BY <2>2 DEF Passed
  <2> HIDE DEF next
  <2> QED BY <2>1, <2>3 DEF next, SameBut
<1>4. CASE ~pass.over /\ ~o.done /\ ~(o.size <= Small)
  <2>1. /\ new \in Obs(Nat) /\ new.done
        /\ new.size \in {Small + Marker, o.size + Marker}
    <3>1. ASSUME NEW t \in BOOLEAN PROVE /\ Compacted(o, t) \in Obs(Nat) /\ Compacted(o, t).done
                                        /\ Compacted(o, t).size \in {Small + Marker, o.size + Marker}
      <4>1. Compacted(o, t) = [size |-> (IF t THEN Small ELSE o.size) + Marker, done |-> TRUE]
        BY <1>1 DEF Compacted, Obs
      <4>2. (IF t THEN Small ELSE o.size) + Marker \in Nat
        BY <1>1 DEF Small, Marker
      <4> QED BY <1>1, <4>1, <4>2 DEF Obs
    <3> QED BY <3>1
  <2> HIDE DEF new
  <2>2. /\ obs \in [1..n -> Obs(Nat)] /\ obs[i] = new
        /\ \A j \in 1..n : j # i => obs[j] = pass.obs[j]
    BY <1>1, <2>1
  <2>3. more \in 0..rounds
    BY <1>1
  <2> HIDE DEF obs, more
  <2>4. next = [obs |-> obs, rounds |-> more, over |-> fits]
    BY <1>2, <1>4
  <2> HIDE DEF next
  <2>5. next.obs = obs /\ next.over = fits /\ next \in PassOf(n, Nat, rounds)
    BY <2>2, <2>3, <2>4 DEF PassOf
  <2>6. Kept(obs, sizes, n)
    <3>1. o.size = sizes[i]
      BY <1>4 DEF Kept
    <3> QED BY <2>1, <2>2, <3>1 DEF Kept
  <2>7. Passed(next, i, budget)
    <3>1. ASSUME NEW j \in 1..i PROVE obs[j].done \/ obs[j].size <= Small
      <4>1. CASE j = i
        BY <2>1, <2>2, <4>1
      <4>2. CASE j # i
        <5>1. j \in 1..(i - 1) /\ j \in 1..n
          BY <4>2
        <5> QED BY <1>4, <2>2, <4>2, <5>1 DEF Passed
      <4> QED BY <4>1, <4>2
    <3> QED BY <2>5, <3>1 DEF Passed
  <2> QED BY <2>2, <2>5, <2>6, <2>7 DEF next, SameBut
<1> QED BY <1>1, <1>3, <1>4

\* The end of a pass over all but the latest of n observations, that is as it was.
EndOf(end, state, sizes, n, rounds, budget) ==
    /\ end \in PassOf(n, Nat, rounds) /\ Kept(end.obs, sizes, n) /\ Passed(end, n - 1, budget)
    /\ end.obs[n] = state.obs[n]

\* A pass over all observations but the latest.
LEMMA PassIs ==
    ASSUME NEW n \in Nat \ {0}, NEW rounds \in Nat, NEW works \in [1..rounds -> BOOLEAN], NEW budget, NEW sizes \in [1..n -> Nat],
           NEW state, state.obs \in [1..n -> Obs(Nat)], state.rounds \in 0..rounds, Kept(state.obs, sizes, n)
    PROVE  EndOf(Visited(state, budget, rounds, works)[n - 1], state, sizes, n, rounds, budget)
<1> DEFINE Pass == {p \in PassOf(n, Nat, rounds) : Kept(p.obs, sizes, n) /\ p.obs[n] = state.obs[n]}
           S == PassOf(n, Nat, rounds)
           m == n - 1
           start == [obs |-> state.obs, rounds |-> state.rounds, over |-> FALSE]
           next == [i \in 1..m |-> [p \in S |-> IF Kept(p.obs, sizes, n) /\ Passed(p, i - 1, budget)
                                              THEN Visit(p, i, budget, rounds, works) ELSE p]]
           By(r) == r = [i \in 0..m |-> IF i = 0 THEN start ELSE Visit(r[i - 1], i, budget, rounds, works)]
           Good(p, i) == Kept(p.obs, sizes, n) /\ Passed(p, i, budget) /\ p.obs[n] = state.obs[n]
<1>0. m \in Nat /\ Len(state.obs) = n
  OBVIOUS
<1>1. start \in S /\ Good(start, 0)
  BY DEF PassOf, Passed
<1>2. next \in Turns(m, S)
  <2>1. ASSUME NEW i \in 1..m, NEW p \in S
        PROVE  (IF Kept(p.obs, sizes, n) /\ Passed(p, i - 1, budget) THEN Visit(p, i, budget, rounds, works) ELSE p) \in S
    <3>1. i \in 1..n
      OBVIOUS
    <3> HIDE DEF m
    <3> QED BY <3>1, VisitIs
  <2> HIDE DEF S
  <2> QED BY <2>1 DEF Turns
<1> HIDE DEF m, start
<1>3. PICK r \in [0..m -> S] : r[0] = start /\ \A k \in 1..m : r[k] = next[k][r[k - 1]]
  <2> HIDE DEF S, next
  <2>1. HasHistory(m, S, start, next)
    BY <1>0, <1>1, <1>2, Iterates
  <2> QED BY <2>1 DEF HasHistory
<1>4. \A k \in 0..m : Good(r[k], k)
  <2> DEFINE G == {k \in 0..m : Good(r[k], k)}
  <2>1. 0 \in G
    BY <1>0, <1>1, <1>3
  <2>2. ASSUME NEW k \in 1..m, k - 1 \in G PROVE k \in G
    <3>1. k - 1 \in 0..m /\ k \in 0..m /\ k \in 1..n /\ k # n
      <4> HIDE DEF G
      <4> QED BY <1>0 DEF m
    <3>2. r[k - 1] \in S /\ Good(r[k - 1], k - 1)
      <4> HIDE DEF S, Good
      <4> QED BY <2>2, <3>1
    <3>3. r[k] = next[k][r[k - 1]]
      BY <1>3
    <3>4. r[k] = Visit(r[k - 1], k, budget, rounds, works)
      <4> HIDE DEF S
      <4> QED BY <3>1, <3>2, <3>3
    <3>5. /\ Kept(r[k].obs, sizes, n) /\ Passed(r[k], k, budget)
          /\ \A j \in 1..n : j # k => r[k].obs[j] = r[k - 1].obs[j]
      <4> DEFINE p == r[k - 1]
                 q == Visit(p, k, budget, rounds, works)
      <4>1. p \in PassOf(n, Nat, rounds) /\ Kept(p.obs, sizes, n) /\ Passed(p, k - 1, budget) /\ k \in 1..n
        BY <3>1, <3>2
      <4> HIDE DEF p
      <4>2. /\ Kept(q.obs, sizes, n) /\ Passed(q, k, budget)
            /\ SameBut(q.obs, p.obs, k, n)
        BY <4>1, VisitIs
      <4>3. r[k] = q
        BY <3>4 DEF p
      <4> HIDE DEF q
      <4> QED BY <4>2, <4>3 DEF p, SameBut
    <3>6. r[k].obs[n] = r[k - 1].obs[n]
      BY <3>1, <3>5
    <3>7. Good(r[k], k)
      BY <3>2, <3>5, <3>6
    <3> HIDE DEF Good
    <3> QED BY <3>1, <3>7
  <2> HIDE DEF G
  <2>3. \A k \in 0..m : k \in G
    BY <1>0, <2>1, <2>2, Climb
  <2> QED BY <2>3 DEF G
<1>5. By(r)
  <2>1. ASSUME NEW k \in 0..m PROVE r[k] = IF k = 0 THEN start ELSE Visit(r[k - 1], k, budget, rounds, works)
    <3>1. CASE k = 0
      BY <1>3, <3>1
    <3>2. CASE k # 0
      <4>1. k \in 1..m /\ k - 1 \in 0..m
        BY <1>0, <3>2
      <4>2. r[k] = next[k][r[k - 1]] /\ r[k - 1] \in S /\ Good(r[k - 1], k - 1)
        BY <1>3, <1>4, <4>1
      <4> QED BY <3>2, <4>1, <4>2
    <3> QED BY <3>1, <3>2
  <2> QED BY <2>1
<1> DEFINE P == CHOOSE x : By(x)
<1>6. By(P)
  <2> HIDE DEF By
  <2> QED BY <1>5
<1>7. Visited(state, budget, rounds, works) = P
  BY <1>0 DEF Visited, m, start
<1> HIDE DEF P
<1>8. ASSUME NEW k \in 0..m PROVE P[k] = r[k]
  <2> DEFINE G == {j \in 0..m : P[j] = r[j]}
  <2>1. 0 \in G
    BY <1>0, <1>3, <1>6
  <2>2. ASSUME NEW j \in 1..m, j - 1 \in G PROVE j \in G
    <3>1. j \in 0..m /\ j # 0 /\ P[j - 1] = r[j - 1]
      BY <1>0, <2>2
    <3> QED BY <1>5, <1>6, <3>1
  <2> HIDE DEF G
  <2>3. k \in G
    BY <1>0, <2>1, <2>2, Climb
  <2> QED BY <2>3 DEF G
<1>9. m \in 0..m
  BY <1>0
<1> HIDE DEF By
<1>10. P[m] \in S /\ Good(P[m], m)
  BY <1>3, <1>4, <1>8, <1>9
<1> QED BY <1>7, <1>10 DEF EndOf, m

\* The prompt fits, or nothing long is left before its latest observation, the n-th.
Fits(obs, n, budget) == SizeOf(obs) <= budget \/ \A i \in 1..(n - 1) : obs[i].done \/ obs[i].size <= Small

\* What a prompt is built from: observations and the rounds paid for.
PromptOf(rounds) == [obs : Seq(Obs(Nat)), rounds : 0..rounds]

\* A prompt of n observations of these sizes.
Holds(state, sizes, n) == Len(state.obs) = n /\ Kept(state.obs, sizes, n)

\* A prompt is compacted: it holds what it held, the latest observation as it was, and fits.
LEMMA CompactIs ==
    ASSUME NEW n \in Nat, NEW rounds \in Nat, NEW works \in [1..rounds -> BOOLEAN], NEW budget, NEW sizes \in [1..n -> Nat],
           NEW state \in PromptOf(rounds), Holds(state, sizes, n)
    PROVE  LET next == BudgetCheckAndCompact(state, budget, rounds, works) IN
           /\ next \in PromptOf(rounds) /\ Holds(next, sizes, n) /\ Fits(next.obs, n, budget)
           /\ n # 0 => next.obs[n] = state.obs[n]
<1> DEFINE next == BudgetCheckAndCompact(state, budget, rounds, works)
           end == Visited(state, budget, rounds, works)[n - 1]
<1>1. state.obs \in Seq(Obs(Nat)) /\ Len(state.obs) = n /\ state.rounds \in 0..rounds /\ Kept(state.obs, sizes, n)
  BY DEF PromptOf, Holds
<1>2. CASE SizeOf(state.obs) <= budget \/ n <= 1
  <2>1. next = state
    BY <1>1, <1>2 DEF BudgetCheckAndCompact
  <2>2. Fits(state.obs, n, budget)
    BY <1>1, <1>2 DEF Fits
  <2> HIDE DEF next
  <2> QED BY <2>1, <2>2 DEF next
<1>3. CASE ~(SizeOf(state.obs) <= budget) /\ ~(n <= 1)
  <2>1. next = [obs |-> end.obs, rounds |-> end.rounds]
    BY <1>1, <1>3 DEF BudgetCheckAndCompact
  <2>2. /\ n \in Nat \ {0} /\ state.obs \in [1..n -> Obs(Nat)]
        /\ state.rounds \in 0..rounds /\ Kept(state.obs, sizes, n)
    BY <1>1, <1>3
  <2>3. EndOf(end, state, sizes, n, rounds, budget)
    BY <2>2, PassIs
  <2> HIDE DEF end, next
  <2>4. end.obs \in [1..n -> Obs(Nat)] /\ end.rounds \in 0..rounds
    BY <2>3 DEF EndOf, PassOf
  <2>5. end.obs \in Seq(Obs(Nat)) /\ Len(end.obs) = n
    BY <2>4
  <2>6. next.obs = end.obs /\ next.rounds = end.rounds /\ next \in PromptOf(rounds)
    BY <2>1, <2>4, <2>5 DEF PromptOf
  <2>7. Fits(end.obs, n, budget)
    BY <2>3 DEF EndOf, Passed, Fits, PassOf
  <2> QED BY <2>3, <2>5, <2>6, <2>7 DEF EndOf, Holds, next
<1> QED BY <1>2, <1>3

\* One more answer is observed and the prompt compacted.
LEMMA ObservedIs ==
    ASSUME NEW rounds \in Nat, NEW works \in [1..rounds -> BOOLEAN], NEW budget, NEW sizes \in Seq(Nat),
           NEW k \in 1..Len(sizes), NEW state \in PromptOf(rounds), Holds(state, sizes, k - 1)
    PROVE  LET next == BudgetCheckAndCompact(Observed(state, sizes[k]), budget, rounds, works) IN
           /\ next \in PromptOf(rounds) /\ Holds(next, sizes, k) /\ Fits(next.obs, k, budget)
           /\ next.obs[k] = [size |-> sizes[k], done |-> FALSE]
<1> DEFINE o == [size |-> sizes[k], done |-> FALSE]
           seen == Observed(state, sizes[k])
           some == [i \in 1..k |-> sizes[i]]
<1>1. k \in Nat /\ k # 0 /\ sizes[k] \in Nat /\ \A i \in 1..k : sizes[i] \in Nat
  OBVIOUS
<1>2. o \in Obs(Nat) /\ ~o.done /\ o.size = sizes[k]
  BY <1>1 DEF Obs
<1> HIDE DEF o
<1>3. state.obs \in Seq(Obs(Nat)) /\ Len(state.obs) = k - 1 /\ state.rounds \in 0..rounds
  BY DEF PromptOf, Holds
<1>4. /\ Append(state.obs, o) \in Seq(Obs(Nat)) /\ Len(Append(state.obs, o)) = k /\ Append(state.obs, o)[k] = o
      /\ \A i \in 1..(k - 1) : Append(state.obs, o)[i] = state.obs[i]
  BY <1>1, <1>2, <1>3
<1>5. seen = [obs |-> Append(state.obs, o), rounds |-> state.rounds]
  BY DEF Observed, o
<1> HIDE DEF seen
<1>6. seen \in PromptOf(rounds) /\ seen.obs = Append(state.obs, o)
  BY <1>3, <1>4, <1>5 DEF PromptOf
<1>7. some \in [1..k -> Nat] /\ \A i \in 1..k : some[i] = sizes[i]
  BY <1>1
<1> HIDE DEF some
<1>8. Holds(seen, some, k)
  <2>1. ASSUME NEW i \in 1..k
        PROVE  /\ ~seen.obs[i].done => seen.obs[i].size = some[i]
               /\ seen.obs[i].done => seen.obs[i].size \in {Small + Marker, some[i] + Marker}
    <3>1. CASE i = k
      BY <1>2, <1>4, <1>6, <1>7, <3>1
    <3>2. CASE i # k
      <4>1. i \in 1..(k - 1)
        BY <1>1, <3>2
      <4>2. seen.obs[i] = state.obs[i] /\ some[i] = sizes[i]
        BY <1>4, <1>6, <1>7, <4>1
      <4> QED BY <4>1, <4>2 DEF Holds, Kept
    <3> QED BY <3>1, <3>2
  <2> QED BY <1>4, <1>6, <2>1 DEF Holds, Kept
<1> DEFINE next == BudgetCheckAndCompact(seen, budget, rounds, works)
<1>9. next \in PromptOf(rounds) /\ Holds(next, some, k) /\ Fits(next.obs, k, budget) /\ next.obs[k] = seen.obs[k]
  BY <1>1, <1>6, <1>7, <1>8, CompactIs
<1> HIDE DEF next
<1>10. Holds(next, sizes, k)
  BY <1>7, <1>9 DEF Holds, Kept
<1> QED BY <1>4, <1>6, <1>9, <1>10 DEF next, seen, o

\* The compaction of a prompt, answer by answer, loses nothing and pays for at most rounds summaries.
LEMMA PromptIs ==
    ASSUME NEW rounds \in Nat, NEW works \in [1..rounds -> BOOLEAN], NEW budget, NEW sizes \in Seq(Nat)
    PROVE  CompactionIsSafe(sizes, budget, rounds, PromptAfter(sizes, budget, rounds, works), works)
<1> DEFINE n == Len(sizes)
           S == PromptOf(rounds)
           start == [obs |-> <<>>, rounds |-> 0]
           Move(p, k) == BudgetCheckAndCompact(Observed(p, sizes[k]), budget, rounds, works)
           next == [k \in 1..n |-> [p \in S |-> IF Holds(p, sizes, k - 1) THEN Move(p, k) ELSE p]]
           By(r) == r = [k \in 0..n |-> IF k = 0 THEN start ELSE Move(r[k - 1], k)]
           Good(p, k) == /\ Holds(p, sizes, k)
                         /\ k # 0 => Fits(p.obs, k, budget) /\ p.obs[k] = [size |-> sizes[k], done |-> FALSE]
<1>0. n \in Nat
  OBVIOUS
<1>1. start \in S /\ Good(start, 0)
  <2>1. <<>> \in Seq(Obs(Nat)) /\ Len(<<>>) = 0 /\ 0 \in 0..rounds
    OBVIOUS
  <2> QED BY <2>1 DEF PromptOf, Holds, Kept
<1>2. ASSUME NEW k \in 1..n, NEW p \in S, Holds(p, sizes, k - 1) PROVE Move(p, k) \in S /\ Good(Move(p, k), k)
  <2> DEFINE q == Move(p, k)
  <2>1. q \in PromptOf(rounds) /\ Holds(q, sizes, k) /\ Fits(q.obs, k, budget) /\ q.obs[k] = [size |-> sizes[k], done |-> FALSE]
    BY <1>2, ObservedIs
  <2> HIDE DEF q
  <2>2. q \in S /\ Good(q, k)
    BY <2>1
  <2> QED BY <2>2 DEF q
<1> HIDE DEF S, start, Move
<1>3. next \in Turns(n, S)
  <2>1. ASSUME NEW k \in 1..n, NEW p \in S PROVE (IF Holds(p, sizes, k - 1) THEN Move(p, k) ELSE p) \in S
    BY <1>2
  <2> HIDE DEF n
  <2> QED BY <2>1 DEF Turns
<1>4. PICK r \in [0..n -> S] : r[0] = start /\ \A k \in 1..n : r[k] = next[k][r[k - 1]]
  <2> HIDE DEF n, next
  <2>1. HasHistory(n, S, start, next)
    BY <1>0, <1>1, <1>3, Iterates
  <2> QED BY <2>1 DEF HasHistory
<1> HIDE DEF n
<1>5. \A k \in 0..n : Good(r[k], k)
  <2> DEFINE G == {k \in 0..n : Good(r[k], k)}
  <2>1. 0 \in G
    <3> HIDE DEF Good
    <3> QED BY <1>0, <1>1, <1>4
  <2>2. ASSUME NEW k \in 1..n, k - 1 \in G PROVE k \in G
    <3>1. k - 1 \in 0..n /\ k \in 0..n
      <4> HIDE DEF G
      <4> QED BY <1>0
    <3>2. r[k - 1] \in S /\ Holds(r[k - 1], sizes, k - 1)
      BY <2>2, <3>1
    <3>3. r[k] = Move(r[k - 1], k)
      BY <1>4, <3>2
    <3> HIDE DEF Good
    <3> QED BY <1>2, <3>1, <3>2, <3>3
  <2> HIDE DEF G
  <2>3. \A k \in 0..n : k \in G
    BY <1>0, <2>1, <2>2, Climb
  <2> QED BY <2>3 DEF G
<1>6. By(r)
  <2>1. ASSUME NEW k \in 0..n PROVE r[k] = IF k = 0 THEN start ELSE Move(r[k - 1], k)
    <3>1. CASE k = 0
      BY <1>4, <3>1
    <3>2. CASE k # 0
      <4>1. k \in 1..n /\ k - 1 \in 0..n
        BY <1>0, <3>2
      <4>2. r[k] = next[k][r[k - 1]] /\ r[k - 1] \in S /\ Holds(r[k - 1], sizes, k - 1)
        BY <1>4, <1>5, <4>1
      <4> QED BY <3>2, <4>1, <4>2
    <3> QED BY <3>1, <3>2
  <2> HIDE DEF next
  <2> QED BY <2>1
<1> DEFINE P == CHOOSE x : By(x)
<1>7. By(P)
  <2> HIDE DEF By
  <2> QED BY <1>6
<1>8. PromptAfter(sizes, budget, rounds, works) = P[n]
  BY DEF PromptAfter, Prompts, n, start, Move
<1> HIDE DEF P
<1>9. ASSUME NEW k \in 0..n PROVE P[k] = r[k]
  <2> DEFINE G == {j \in 0..n : P[j] = r[j]}
  <2>1. 0 \in G
    BY <1>0, <1>4, <1>7
  <2>2. ASSUME NEW j \in 1..n, j - 1 \in G PROVE j \in G
    <3>1. j \in 0..n /\ j # 0 /\ P[j - 1] = r[j - 1]
      BY <1>0, <2>2
    <3> QED BY <1>6, <1>7, <3>1
  <2> HIDE DEF G
  <2>3. k \in G
    BY <1>0, <2>1, <2>2, Climb
  <2> QED BY <2>3 DEF G
<1>10. n \in 0..n
  BY <1>0
<1> HIDE DEF By
<1> DEFINE out == P[n]
<1>11. out \in S /\ Good(out, n)
  BY <1>4, <1>5, <1>9, <1>10
<1> HIDE DEF out
<1>12. CompactionIsSafe(sizes, budget, rounds, out, works)
  <2>1. Len(out.obs) = n /\ Kept(out.obs, sizes, n) /\ out.rounds \in 0..rounds
    BY <1>11 DEF Holds, S, PromptOf
  <2>2. sizes # <<>> => out.obs[n] = [size |-> sizes[n], done |-> FALSE]
    BY <1>11 DEF n
  <2>3. SizeOf(out.obs) <= budget \/ \A i \in 1..(n - 1) : out.obs[i].done \/ out.obs[i].size <= Small
    BY <1>0, <1>11 DEF Fits
  <2>4. DOMAIN sizes = 1..n
    BY DEF n
  <2> QED BY <2>1, <2>2, <2>3, <2>4 DEF CompactionIsSafe, Kept, n
<1> QED BY <1>8, <1>12 DEF out

\* A tool's answer: its lists are lists of anything; payload is attached by the loop only, and a
\* verification report only where nothing failed (react.py 1171 and 1388).
IsAnswer(r) ==
    /\ \E T : {r.events, r.pods, r.deps, r.logs, r.secondary} \subseteq Seq(T)
    /\ "payload" \notin r.keys
    /\ HasError(r) => "verification_report" \notin r.keys

\* A finding at most is told of a diagnosis.
LEMMA DiagnosticIs ==
    ASSUME NEW r
    PROVE  \E type, verdict, complete, modes, factors :
              /\ DiagnosticEnvelope(r) = Envelope(type, verdict, complete, modes, factors)
              /\ modes = <<>> \/ \E what : \E class \in {"primary_failure", "ai_advisory"} : modes = <<ToldAs(class, what)>>
<1> DEFINE f == AllTold("dependency_check", r.deps)
           bad == \E i \in DOMAIN r.pods : r.pods[i].status \notin {"Running", "Succeeded"} \/ ~r.pods[i].ready
           Fits5(e) == \E type, verdict, complete, modes, factors :
              /\ e = Envelope(type, verdict, complete, modes, factors)
              /\ modes = <<>> \/ \E what : \E class \in {"primary_failure", "ai_advisory"} : modes = <<ToldAs(class, what)>>
<1>1. \A verdict, complete, what : \A class \in {"primary_failure", "ai_advisory"} :
         /\ Fits5(Envelope("diagnostic", verdict, complete, <<>>, f))
         /\ Fits5(Envelope("diagnostic", verdict, complete, <<ToldAs(class, what)>>, f))
  OBVIOUS
<1> HIDE DEF f, bad, Fits5
<1>2. CASE r.tool = "investigate_node" \/ (r.tool \in {"investigate_workload", "analyze_namespace"} /\ r.pods = <<>>)
  <2>1. DiagnosticEnvelope(r) = Envelope("diagnostic", "Unknown", "stale", <<>>, f)
    BY <1>2 DEF DiagnosticEnvelope, f
  <2> QED BY <1>1, <2>1 DEF Fits5
<1>3. CASE r.tool = "investigate_workload" /\ r.pods # <<>>
  <2>1. DiagnosticEnvelope(r) = IF bad THEN Envelope("diagnostic", "Unhealthy", "complete", <<ToldAs("primary_failure", "pods")>>, f)
                                ELSE Envelope("diagnostic", "Healthy", "complete", <<>>, f)
    BY <1>3 DEF DiagnosticEnvelope, f, bad
  <2> QED BY <1>1, <2>1 DEF Fits5
<1>4. CASE r.tool = "analyze_namespace" /\ r.pods # <<>>
  <2>1. DiagnosticEnvelope(r) =
           IF r.unhealthy > 0 THEN Envelope("diagnostic", "Unhealthy", "complete", <<ToldAs("primary_failure", "pods")>>, f)
           ELSE IF r.warnings > 0 THEN Envelope("diagnostic", "Degraded", "complete", <<ToldAs("primary_failure", "events")>>, f)
           ELSE Envelope("diagnostic", "Healthy", "complete", <<>>, f)
    BY <1>4 DEF DiagnosticEnvelope, f
  <2> QED BY <1>1, <2>1 DEF Fits5
<1>5. CASE r.tool = "generate_runbook"
  <2>1. DiagnosticEnvelope(r) = Envelope("diagnostic", "n/a", "complete", <<>>, f)
    BY <1>5 DEF DiagnosticEnvelope, f
  <2> QED BY <1>1, <2>1 DEF Fits5
<1>6. CASE r.tool \notin {"investigate_node", "investigate_workload", "analyze_namespace", "generate_runbook"}
  <2>1. DiagnosticEnvelope(r) =
           IF r.findings > 0 THEN Envelope("diagnostic", "Unhealthy", "complete", <<ToldAs("ai_advisory", "findings")>>, f)
           ELSE Envelope("diagnostic", "Healthy", "complete", <<>>, f)
    BY <1>6 DEF DiagnosticEnvelope, f
  <2> QED BY <1>1, <2>1 DEF Fits5
<1>7. \/ r.tool = "investigate_node" \/ (r.tool \in {"investigate_workload", "analyze_namespace"} /\ r.pods = <<>>)
      \/ r.tool = "investigate_workload" /\ r.pods # <<>>
      \/ r.tool = "analyze_namespace" /\ r.pods # <<>>
      \/ r.tool = "generate_runbook"
      \/ r.tool \notin {"investigate_node", "investigate_workload", "analyze_namespace", "generate_runbook"}
  OBVIOUS
<1> QED BY <1>2, <1>3, <1>4, <1>5, <1>6, <1>7

\* The envelope of a tool without one of its own: a finding at most, and a failure overrules it.
LEMMA PlainEnvelope ==
    ASSUME NEW r, NEW top, r.tool \notin {"get_pod_logs", "get_events", "investigate_pod"}
    PROVE  LET e == GenericEnvelope(r, top) IN
           /\ r.success = "no" => e.verdict = "Unknown" /\ e.complete = "partial"
           /\ e.modes = <<>> \/ \E what : \E class \in {"primary_failure", "ai_advisory"} : e.modes = <<ToldAs(class, what)>>
<1> DEFINE Short(modes) == modes = <<>> \/ \E what : \E class \in {"primary_failure", "ai_advisory"} : modes = <<ToldAs(class, what)>>
           e == ByClass(r)
           over == Envelope(e.type, "Unknown", "partial", e.modes, e.factors)
<1>1. GenericEnvelope(r, top) = IF r.success = "no" THEN over ELSE e
  BY DEF GenericEnvelope
<1>2. \E type, verdict, complete, modes, factors : e = Envelope(type, verdict, complete, modes, factors) /\ Short(modes)
  <2>1. CASE r.tool \in Diagnostic
    <3>1. e = DiagnosticEnvelope(r)
      BY <2>1 DEF ByClass
    <3> HIDE DEF e
    <3> QED BY <3>1, DiagnosticIs
  <2>2. CASE r.tool \notin Diagnostic
    <3>1. \E type, verdict : e = Envelope(type, verdict, "complete", <<>>, <<>>)
      BY <2>2 DEF ByClass
    <3> HIDE DEF e
    <3> QED BY <3>1
  <2> QED BY <2>1, <2>2
<1> HIDE DEF e
<1>3. PICK type, verdict, complete, modes, factors : e = Envelope(type, verdict, complete, modes, factors) /\ Short(modes)
  BY <1>2
<1> HIDE DEF Short
<1>4. over.verdict = "Unknown" /\ over.complete = "partial" /\ Short(over.modes) /\ Short(e.modes)
  BY <1>3 DEF Envelope
<1> HIDE DEF over
<1> QED BY <1>1, <1>4 DEF Short

\* A failure is told: no tool but the one that lists events calls a failed answer anything but unknown.
LEMMA FailureTold == ASSUME NEW r, NEW top PROVE FailureIsTold(r, GenericEnvelope(r, top))
<1> SUFFICES ASSUME r.success = "no", r.tool # "get_events"
             PROVE  GenericEnvelope(r, top).verdict = "Unknown" /\ GenericEnvelope(r, top).complete = "partial"
  BY DEF FailureIsTold
<1>1. CASE r.tool = "get_pod_logs"
  <2>1. GenericEnvelope(r, top) = PodLogsEnvelope(r)
    BY <1>1 DEF GenericEnvelope
  <2>2. PodLogsEnvelope(r) = Envelope("log_analysis", "Unknown", "partial", <<>>, <<>>)
    BY DEF PodLogsEnvelope
  <2> QED BY <2>1, <2>2 DEF Envelope
<1>2. CASE r.tool = "investigate_pod"
  <2>1. GenericEnvelope(r, top) = InvestigatePodEnvelope(r)
    BY <1>2 DEF GenericEnvelope
  <2>2. InvestigatePodEnvelope(r).verdict = "Unknown" /\ InvestigatePodEnvelope(r).complete = "partial"
    BY DEF InvestigatePodEnvelope, Envelope
  <2> QED BY <2>1, <2>2
<1>3. CASE r.tool \notin {"get_pod_logs", "get_events", "investigate_pod"}
  BY <1>3, PlainEnvelope
<1> QED BY <1>1, <1>2, <1>3

\* What the card and the envelope read of an investigated pod: its cause first, then its mode.
LEMMA PodModes ==
    ASSUME NEW r
    PROVE  LET e == InvestigatePodEnvelope(r) IN
           /\ (r.root = "" /\ r.mode = "unknown") => e.modes = <<>>
           /\ (r.root = "" /\ r.mode # "unknown") => e.modes = <<ToldAs("primary_failure", r.mode)>>
           /\ (r.root # "" /\ r.mode = "unknown") => e.modes = <<ToldAs("verified_root_cause", r.root)>>
           /\ (r.root # "" /\ r.mode # "unknown") =>
                 e.modes = <<ToldAs("verified_root_cause", r.root), ToldAs("primary_failure", r.mode)>>
<1> DEFINE a == ToldAs("verified_root_cause", r.root)
           b == ToldAs("primary_failure", r.mode)
           root == IF r.root = "" THEN <<>> ELSE <<a>>
           mode == IF r.mode = "unknown" THEN <<>> ELSE <<b>>
<1>1. InvestigatePodEnvelope(r).modes = root \o mode
  BY DEF InvestigatePodEnvelope, Envelope
<1> HIDE DEF a, b
<1>2. <<>> \o <<>> = <<>> /\ <<>> \o <<b>> = <<b>> /\ <<a>> \o <<>> = <<a>> /\ <<a>> \o <<b>> = <<a, b>>
  <2> DEFINE T == {a, b}
  <2>1. <<>> \in Seq(T) /\ <<a>> \in Seq(T) /\ <<b>> \in Seq(T)
    OBVIOUS
  <2>2. <<>> \o <<>> = <<>> /\ <<>> \o <<b>> = <<b>> /\ <<a>> \o <<>> = <<a>>
    BY <2>1, ConcatEmptySeq
  <2>3. <<a>> \o <<b>> = <<a, b>>
    <3> DEFINE s == <<a>> \o <<b>>
    <3>1. s \in Seq(T) /\ Len(s) = 2 /\ s[1] = a /\ s[2] = b
      BY <2>1
    <3>2. <<a, b>> \in Seq(T) /\ Len(<<a, b>>) = 2 /\ <<a, b>>[1] = a /\ <<a, b>>[2] = b
      OBVIOUS
    <3> HIDE DEF s
    <3>3. \A i \in 1..Len(s) : s[i] = <<a, b>>[i]
      BY <3>1
    <3>4. s = <<a, b>>
      BY <3>1, <3>2, <3>3, SeqEqual
    <3> QED BY <3>4 DEF s
  <2> QED BY <2>2, <2>3
<1>3. (r.root = "" /\ r.mode = "unknown") => root \o mode = <<>>
  BY <1>2
<1>4. (r.root = "" /\ r.mode # "unknown") => root \o mode = <<b>>
  BY <1>2
<1>5. (r.root # "" /\ r.mode = "unknown") => root \o mode = <<a>>
  BY <1>2
<1>6. (r.root # "" /\ r.mode # "unknown") => root \o mode = <<a, b>>
  BY <1>2
<1> HIDE DEF root, mode
<1> QED BY <1>1, <1>3, <1>4, <1>5, <1>6 DEF a, b

\* What the events' envelope tells is in order.
LEMMA EventsInOrder ==
    ASSUME NEW T, NEW r, r.events \in Seq(T), NEW top \in Nat, r.tool = "get_events"
    PROVE  ModesAreInOrder(r, EventsEnvelope(r, top), top)
<1> DEFINE shown == TopMessages(r.events, top)
           Class(x) == IF x.type = "Warning" THEN "primary_failure" ELSE "secondary_issue"
           modes == [i \in DOMAIN shown |-> ToldAs(Class(shown[i]), shown[i].reason)]
<1>1. /\ shown \in Seq(T)
      /\ \A i, j \in 1..Len(shown) :
            i < j => /\ shown[i].reason # shown[j].reason
                     /\ shown[j].type = "Warning" => shown[i].type = "Warning"
      /\ \A i \in 1..Len(r.events) : Len(shown) # top => \E j \in 1..Len(shown) : shown[j].reason = r.events[i].reason
  BY TopIs
<1>2. EventsEnvelope(r, top).modes = modes
  BY DEF EventsEnvelope, Envelope
<1> HIDE DEF shown
<1>3. DOMAIN modes = 1..Len(shown) /\ Len(modes) = Len(shown) /\ DOMAIN r.events = 1..Len(r.events)
  BY <1>1
<1>4. \A i \in 1..Len(shown) : modes[i].class = Class(shown[i]) /\ modes[i].what = shown[i].reason
  BY <1>3 DEF ToldAs
<1> HIDE DEF modes
<1>5. ASSUME NEW i \in 1..Len(shown), NEW j \in 1..Len(shown), i < j
      PROVE  /\ modes[j].class # "verified_root_cause" /\ modes[i] # modes[j]
             /\ modes[j].class = "primary_failure" => modes[i].class = "primary_failure"
  <2>1. shown[i].reason # shown[j].reason /\ (shown[j].type = "Warning" => shown[i].type = "Warning")
    BY <1>1, <1>5
  <2> QED BY <1>4, <2>1
<1>6. ASSUME NEW i \in 1..Len(r.events), Len(modes) # top PROVE \E j \in 1..Len(shown) : modes[j].what = r.events[i].reason
  <2>1. Len(shown) # top
    BY <1>3, <1>6
  <2>2. PICK j \in 1..Len(shown) : shown[j].reason = r.events[i].reason
    BY <1>1, <2>1
  <2>3. modes[j].what = shown[j].reason
    BY <1>4
  <2> QED BY <2>2, <2>3
<1> QED BY <1>2, <1>3, <1>5, <1>6 DEF ModesAreInOrder

\* What an envelope tells is in order, whatever the tool.
LEMMA ToldInOrder == ASSUME NEW r, IsAnswer(r), NEW top \in Nat PROVE ModesAreInOrder(r, GenericEnvelope(r, top), top)
<1> DEFINE e == GenericEnvelope(r, top)
<1>1. CASE r.tool = "get_events"
  <2>1. e = EventsEnvelope(r, top)
    BY <1>1 DEF GenericEnvelope
  <2>2. PICK T : r.events \in Seq(T)
    BY DEF IsAnswer
  <2> HIDE DEF e
  <2> QED BY <1>1, <2>1, <2>2, EventsInOrder DEF e
<1>2. CASE r.tool = "get_pod_logs"
  <2>1. e = PodLogsEnvelope(r)
    BY <1>2 DEF GenericEnvelope
  <2>2. e.modes = <<>>
    BY <2>1 DEF PodLogsEnvelope, Envelope
  <2> HIDE DEF e
  <2>3. ModesAreInOrder(r, e, top)
    BY <1>2, <2>2 DEF ModesAreInOrder
  <2> QED BY <2>3 DEF e
<1>3. CASE r.tool = "investigate_pod"
  <2>1. e = InvestigatePodEnvelope(r)
    BY <1>3 DEF GenericEnvelope
  <2>2. \/ e.modes = <<>>
        \/ \E x : e.modes = <<x>>
        \/ \E x, y : e.modes = <<x, y>> /\ y.class = "primary_failure"
    <3>1. ToldAs("primary_failure", r.mode).class = "primary_failure"
      BY DEF ToldAs
    <3> QED BY <2>1, <3>1, PodModes
  <2> HIDE DEF e
  <2>3. ASSUME NEW i \in DOMAIN e.modes, NEW j \in DOMAIN e.modes, i < j PROVE e.modes[j].class # "verified_root_cause"
    BY <2>2, <2>3
  <2>4. ModesAreInOrder(r, e, top)
    BY <1>3, <2>3 DEF ModesAreInOrder
  <2> QED BY <2>4 DEF e
<1>4. CASE r.tool \notin {"get_pod_logs", "get_events", "investigate_pod"}
  <2>1. e.modes = <<>> \/ \E x : e.modes = <<x>>
    BY <1>4, PlainEnvelope
  <2> HIDE DEF e
  <2>2. ASSUME NEW i \in DOMAIN e.modes, NEW j \in DOMAIN e.modes, i < j PROVE FALSE
    BY <2>1, <2>2
  <2>3. ModesAreInOrder(r, e, top)
    BY <1>4, <2>2 DEF ModesAreInOrder
  <2> QED BY <2>3 DEF e
<1> QED BY <1>1, <1>2, <1>3, <1>4

\* What a step records of an answer is the part that matters.
LEMMA RecordFocused == ASSUME NEW r, IsAnswer(r), NEW most \in Nat PROVE RecordIsFocused(r, r.pods, most)
<1>1. ASSUME NEW keys, NEW tool PROVE "payload" \notin TruncateObservation(keys, tool)
  BY DEF TruncateObservation
<1>2. HasError(r) => TruncateObservation(LoopResult(r, FALSE), r.tool) = r.keys
  BY DEF IsAnswer, HasError, TruncateObservation, LoopResult
<1>4. ASSUME NEW e \in BOOLEAN PROVE TruncateObservation(LoopResult(r, e), r.tool) \subseteq PromptedObservation(r, e)
  BY DEF TruncateObservation, PromptedObservation
<1>5. ASSUME NEW e \in BOOLEAN, HasError(r) PROVE {"error", "payload"} \cap PromptedObservation(r, e) # {}
  BY <1>5 DEF HasError, PromptedObservation, LoopResult
<1>3. PICK T : r.pods \in Seq(T)
  BY DEF IsAnswer
<1> QED BY <1>1, <1>2, <1>3, <1>4, <1>5, FailingListed DEF RecordIsFocused

\* The two cards of an investigated pod agree.
LEMMA CardsSame == ASSUME NEW r, IsAnswer(r) PROVE CardsAgree(r)
<1> DEFINE modes == InvestigatePodEnvelope(r).modes
           sure == {i \in DOMAIN modes : modes[i].class = "verified_root_cause"}
           raw == RootCauseSummary(r, FALSE)
           env == RootCauseSummary(r, TRUE)
           backed == r.deps # <<>> \/ r.logs # <<>>
           shows == {"pod_name", "namespace"} \subseteq r.keys
           names == {"pod_name", "namespace"} \subseteq r.keys \cup r.asked
           cause == IF sure = {} THEN "" ELSE modes[Min(sure)].what
<1>1. raw = IF r.root = "" \/ ~shows THEN <<>> ELSE <<[cause |-> r.root, confidence |-> IF backed THEN 95 ELSE 75]>>
  BY DEF RootCauseSummary
<1>2. env = IF cause = "" \/ ~names THEN <<>> ELSE <<[cause |-> cause, confidence |-> 95]>>
  BY DEF RootCauseSummary
<1>3. cause = r.root /\ (r.root # "" => modes # <<>>)
  <2> HIDE DEF modes
  <2>1. CASE r.root = ""
    <3>1. modes = <<>> \/ modes = <<ToldAs("primary_failure", r.mode)>>
      BY <2>1, PodModes DEF modes
    <3>2. sure = {}
      BY <3>1 DEF ToldAs
    <3> HIDE DEF sure
    <3> QED BY <2>1, <3>2
  <2>2. CASE r.root # ""
    <3>1. /\ modes = <<ToldAs("verified_root_cause", r.root)>> \/
             modes = <<ToldAs("verified_root_cause", r.root), ToldAs("primary_failure", r.mode)>>
      BY <2>2, PodModes DEF modes
    <3>2. sure = {1} /\ modes[1].what = r.root /\ modes # <<>>
      BY <3>1 DEF ToldAs
    <3>3. Min(sure) = 1
      <4> HIDE DEF sure
      <4>1. Min(sure) \in sure
        BY <3>2, MinIs
      <4> QED BY <3>2, <4>1
    <3> HIDE DEF sure
    <3> QED BY <3>2, <3>3
  <2> QED BY <2>1, <2>2
<1>4. /\ HasUsefulPodInvestigation(r, TRUE) = (modes # <<>> \/ InvestigatePodEnvelope(r).factors # <<>>)
      /\ HasUsefulPodInvestigation(r, FALSE) = (r.root # "" \/ r.deps # <<>> \/ r.secondary # <<>> \/ r.timeline > 0
                                               \/ r.logs # <<>> \/ r.mode # "unknown")
  BY DEF HasUsefulPodInvestigation
<1>5. (r.root = "" /\ r.mode = "unknown") => modes = <<>>
  BY PodModes
<1>6. (r.deps = <<>> /\ r.logs = <<>> /\ r.secondary = <<>>) => InvestigatePodEnvelope(r).factors = <<>>
  <2>1. \A c : AllTold(c, <<>>) = <<>>
    BY DEF AllTold
  <2>2. InvestigatePodEnvelope(r).factors = AllTold("dependency_check", r.deps) \o AllTold("container_log_finding", r.logs)
           \o AllTold("secondary_issue", r.secondary)
    BY DEF InvestigatePodEnvelope, Envelope
  <2>3. (<<>> \o <<>>) \o <<>> = <<>>
    OBVIOUS
  <2> QED BY <2>1, <2>2, <2>3
<1>7. r.root # "" => DeterministicInvestigatePodAnswer(r, FALSE) = <<[cause |-> r.root, logs |-> FirstN(r.logs, 4)]>>
  BY DEF DeterministicInvestigatePodAnswer
<1>8. shows => names
  OBVIOUS
<1> HIDE DEF modes, sure, cause, names, backed, raw, env
<1>9. \/ raw = <<>>
      \/ /\ r.root # "" /\ shows
         /\ \E n \in {75, 95} : raw = <<[cause |-> r.root, confidence |-> n]>>
  BY <1>1
<1>10. \/ env = <<>>
       \/ /\ r.root # "" /\ names
          /\ env = <<[cause |-> r.root, confidence |-> 95]>>
  BY <1>2, <1>3
<1> DEFINE said == DeterministicInvestigatePodAnswer(r, FALSE)
<1>11. raw # <<>> => env # <<>> /\ raw[1].confidence <= env[1].confidence
  <2>1. SUFFICES ASSUME raw # <<>> PROVE env # <<>> /\ raw[1].confidence <= env[1].confidence
    OBVIOUS
  <2>2. PICK n \in {75, 95} : raw = <<[cause |-> r.root, confidence |-> n]>> /\ r.root # "" /\ shows
    BY <1>9, <2>1
  <2>3. env = <<[cause |-> r.root, confidence |-> 95]>>
    BY <1>2, <1>3, <1>8, <2>2
  <2>4. raw[1].confidence = n /\ env[1].confidence = 95
    BY <2>2, <2>3
  <2>5. n <= 95
    <3>1. \A k \in {75, 95} : k <= 95
      OBVIOUS
    <3>2. n \in {75, 95}
      BY Zenon, <2>2
    <3> QED BY <3>1, <3>2
  <2>6. env # <<>>
    BY <2>3
  <2> QED BY <2>4, <2>5, <2>6
<1>12. (env # <<>> /\ raw = <<>>) => ~shows
  BY <1>1, <1>10
<1>13. ASSUME NEW card \in Range(raw) \cup Range(env) PROVE said # <<>> /\ said[1].cause = card.cause
  <2> HIDE DEF said
  <2>1. Range(<<>>) = {} /\ \A x : Range(<<x>>) = {x}
    BY DEF Range
  <2>2. r.root # "" /\ card.cause = r.root
    <3>1. CASE card \in Range(raw)
      <4>1. raw # <<>>
        BY <2>1, <3>1
      <4>2. PICK n \in {75, 95} : raw = <<[cause |-> r.root, confidence |-> n]>> /\ r.root # ""
        BY <1>9, <4>1
      <4>3. card \in Range(<<[cause |-> r.root, confidence |-> n]>>)
        BY Zenon, <3>1, <4>2
      <4>4. card = [cause |-> r.root, confidence |-> n]
        BY <2>1, <4>3
      <4> QED BY <4>2, <4>4
    <3>2. CASE card \in Range(env)
      <4>1. r.root # "" /\ env = <<[cause |-> r.root, confidence |-> 95]>>
        BY <1>10, <2>1, <3>2
      <4>2. card = [cause |-> r.root, confidence |-> 95]
        BY <2>1, <3>2, <4>1
      <4> QED BY <4>1, <4>2
    <3> QED BY <1>13, <3>1, <3>2
  <2>3. said = <<[cause |-> r.root, logs |-> FirstN(r.logs, 4)]>>
    BY <1>7, <2>2 DEF said
  <2> QED BY <2>2, <2>3
<1>14. HasUsefulPodInvestigation(r, TRUE) => HasUsefulPodInvestigation(r, FALSE)
  BY <1>4, <1>5, <1>6
<1>15. env # <<>> => HasUsefulPodInvestigation(r, TRUE)
  BY <1>3, <1>4, <1>10
<1> HIDE DEF said
<1> QED BY <1>11, <1>12, <1>13, <1>14, <1>15 DEF CardsAgree, raw, env, said, shows

\* A call of the model's, field by field.
ACall(action, pod, ns, state, focus, node) ==
    [action |-> action, pod |-> pod, ns |-> ns, status |-> state, focus |-> focus, node |-> node]

IsACall(c) == c = ACall(c.action, c.pod, c.ns, c.status, c.focus, c.node)

\* Two of a call's fields changed.
WithPod(c, pod, ns) == [c EXCEPT !.pod = pod, !.ns = ns]

WithStatus(c, ns, state) == [c EXCEPT !.ns = ns, !.status = state]

WithNode(c, node, focus) == [c EXCEPT !.node = node, !.focus = focus]

WithFocus(c, ns, focus) == [c EXCEPT !.ns = ns, !.focus = focus]

\* What a change of two fields makes of a call.
LEMMA TwoChanged ==
    ASSUME NEW c, IsACall(c), NEW x, NEW y
    PROVE  /\ WithPod(c, x, y) = ACall(c.action, x, y, c.status, c.focus, c.node)
           /\ WithStatus(c, x, y) = ACall(c.action, c.pod, x, y, c.focus, c.node)
           /\ WithNode(c, x, y) = ACall(c.action, c.pod, c.ns, c.status, y, x)
           /\ WithFocus(c, x, y) = ACall(c.action, c.pod, x, c.status, y, c.node)
<1>1. [c EXCEPT !.pod = x, !.ns = y] = ACall(c.action, x, y, c.status, c.focus, c.node)
  <2> DEFINE d == [c EXCEPT !.pod = x]
  <2>1. d = ACall(c.action, x, c.ns, c.status, c.focus, c.node)
    BY DEF IsACall, ACall
  <2>2. [c EXCEPT !.pod = x, !.ns = y] = [d EXCEPT !.ns = y]
    OBVIOUS
  <2> HIDE DEF d
  <2>3. [d EXCEPT !.ns = y] = ACall(c.action, x, y, c.status, c.focus, c.node)
    BY <2>1 DEF ACall
  <2> QED BY <2>2, <2>3
<1>2. [c EXCEPT !.ns = x, !.status = y] = ACall(c.action, c.pod, x, y, c.focus, c.node)
  <2> DEFINE d == [c EXCEPT !.ns = x]
  <2>1. d = ACall(c.action, c.pod, x, c.status, c.focus, c.node)
    BY DEF IsACall, ACall
  <2>2. [c EXCEPT !.ns = x, !.status = y] = [d EXCEPT !.status = y]
    OBVIOUS
  <2> HIDE DEF d
  <2>3. [d EXCEPT !.status = y] = ACall(c.action, c.pod, x, y, c.focus, c.node)
    BY <2>1 DEF ACall
  <2> QED BY <2>2, <2>3
<1>3. [c EXCEPT !.node = x, !.focus = y] = ACall(c.action, c.pod, c.ns, c.status, y, x)
  <2> DEFINE d == [c EXCEPT !.node = x]
  <2>1. d = ACall(c.action, c.pod, c.ns, c.status, c.focus, x)
    BY DEF IsACall, ACall
  <2>2. [c EXCEPT !.node = x, !.focus = y] = [d EXCEPT !.focus = y]
    OBVIOUS
  <2> HIDE DEF d
  <2>3. [d EXCEPT !.focus = y] = ACall(c.action, c.pod, c.ns, c.status, y, x)
    BY <2>1 DEF ACall
  <2> QED BY <2>2, <2>3
<1>4. [c EXCEPT !.ns = x, !.focus = y] = ACall(c.action, c.pod, x, c.status, y, c.node)
  <2> DEFINE d == [c EXCEPT !.ns = x]
  <2>1. d = ACall(c.action, c.pod, x, c.status, c.focus, c.node)
    BY DEF IsACall, ACall
  <2>2. [c EXCEPT !.ns = x, !.focus = y] = [d EXCEPT !.focus = y]
    OBVIOUS
  <2> HIDE DEF d
  <2>3. [d EXCEPT !.focus = y] = ACall(c.action, c.pod, x, c.status, y, c.node)
    BY <2>1 DEF ACall
  <2> QED BY <2>2, <2>3
<1> QED BY <1>1, <1>2, <1>3, <1>4 DEF WithPod, WithStatus, WithNode, WithFocus

\* When each correction applies.
LEMMA CorrectsWhen ==
    ASSUME NEW q, NEW c, NEW useful \in BOOLEAN, NEW attempted \in BOOLEAN
    PROVE  LET t == Corrections(q, c, useful, attempted)
               asked == PodStatus(q) # "" /\ SimplePodStatusInventory(q)
           IN  /\ DOMAIN t = 1..8
               /\ t[1].when <=> /\ PodFailureTarget(q) /\ PodStatus(q) # "" /\ ~useful /\ ~attempted
                                /\ c.action \notin {"investigate_pod", "investigate_workload", "answer"}
               /\ t[2].when <=> asked /\ c.action = "get_pods"
               /\ t[3].when <=> asked /\ c.action \in {"investigate_pod", "get_pod_logs", "describe_pod",
                                                        "list_namespace_resources", "get_events"}
               /\ t[4].when <=> /\ c.action = "investigate_node"
                                /\ AsksNodeInventory(q) \/ AsksNodeLabels(q) \/ (NodeFocus(q) # "" /\ Has(q, {"nodes"}))
               /\ t[5].when <=> c.action = "get_nodes" /\ (LabelsOnly(q) \/ NodeFocus(q) # "")
               /\ t[6].when <=> PodFocus(q) # "" /\ c.action = "get_pods"
               /\ t[7].when <=> /\ PodFocus(q) # "" /\ Has(q, {"all", "list"})
                                /\ c.action \in {"investigate_pod", "get_pod_logs", "describe_pod"}
               /\ t[8].when <=> c.action = "get_deployment" /\ DeploymentFocus(q) # ""
<1> DEFINE t == Corrections(q, c, useful, attempted)
           asked == PodStatus(q) # "" /\ SimplePodStatusInventory(q)
<1>1. DOMAIN t = 1..8
  BY DEF Corrections
<1>2. t[1].when <=> /\ PodFailureTarget(q) /\ PodStatus(q) # "" /\ ~useful /\ ~attempted
                    /\ c.action \notin {"investigate_pod", "investigate_workload", "answer"}
  BY DEF Corrections
<1>3. t[2].when <=> asked /\ c.action = "get_pods"
  BY DEF Corrections
<1>4. t[3].when <=> asked /\ c.action \in {"investigate_pod", "get_pod_logs", "describe_pod",
                                          "list_namespace_resources", "get_events"}
  BY DEF Corrections
<1>5. t[4].when <=> /\ c.action = "investigate_node"
                    /\ AsksNodeInventory(q) \/ AsksNodeLabels(q) \/ (NodeFocus(q) # "" /\ Has(q, {"nodes"}))
  BY DEF Corrections
<1>6. t[5].when <=> c.action = "get_nodes" /\ (LabelsOnly(q) \/ NodeFocus(q) # "")
  BY DEF Corrections
<1>7. t[6].when <=> PodFocus(q) # "" /\ c.action = "get_pods"
  BY DEF Corrections
<1>8. t[7].when <=> /\ PodFocus(q) # "" /\ Has(q, {"all", "list"})
                    /\ c.action \in {"investigate_pod", "get_pod_logs", "describe_pod"}
  BY DEF Corrections
<1>9. t[8].when <=> c.action = "get_deployment" /\ DeploymentFocus(q) # ""
  BY DEF Corrections
<1> HIDE DEF t
<1> QED BY <1>1, <1>2, <1>3, <1>4, <1>5, <1>6, <1>7, <1>8, <1>9 DEF t

\* The call each correction makes.
LEMMA CorrectedCalls ==
    ASSUME NEW q, NEW c, IsACall(c), NEW useful, NEW attempted
    PROVE  LET t == Corrections(q, c, useful, attempted)
               wide == NodeFocus(q)
               named == IF c.ns = "" THEN "*" ELSE c.ns
           IN  /\ t[1].call = ACall("investigate_pod", "target", Filled(c.ns), "", "", "")
               /\ t[2].call = ACall(c.action, c.pod, named, PodStatus(q), c.focus, c.node)
               /\ t[3].call = ACall("get_pods", "", "*", PodStatus(q), "", "")
               /\ t[4].call = ACall("get_nodes", "", "", "",
                                    IF wide # "" THEN wide ELSE IF LabelsOnly(q) THEN "labels_only" ELSE "", "")
               /\ t[5].call = ACall(c.action, c.pod, c.ns, c.status, IF wide # "" THEN wide ELSE "labels_only", "")
               /\ t[6].call = ACall(c.action, c.pod, named, c.status, PodFocus(q), c.node)
               /\ t[7].call = ACall("get_pods", "", "*", "", PodFocus(q), "")
               /\ t[8].call = ACall(c.action, c.pod, c.ns, c.status, DeploymentFocus(q), c.node)
<1> DEFINE t == Corrections(q, c, useful, attempted)
           wide == NodeFocus(q)
           named == IF c.ns = "" THEN "*" ELSE c.ns
           nodes == IF wide # "" THEN wide ELSE IF LabelsOnly(q) THEN "labels_only" ELSE ""
           all == IF wide # "" THEN wide ELSE "labels_only"
           none == ""
           any == "*"
           target == "target"
           pods == "get_pods"
           nodesOf == "get_nodes"
           pod == "investigate_pod"
<1>1. /\ t[1].call = WithPod(CallOf(pod), target, Filled(c.ns))
      /\ t[2].call = WithStatus(c, named, PodStatus(q))
  BY DEF Corrections, WithPod, WithStatus
<1>2. /\ t[3].call = WithStatus(CallOf(pods), any, PodStatus(q))
      /\ t[4].call = [CallOf(nodesOf) EXCEPT !.focus = nodes]
  BY DEF Corrections, WithStatus
<1>3. /\ t[5].call = WithNode(c, none, all)
      /\ t[6].call = WithFocus(c, named, PodFocus(q))
  BY DEF Corrections, WithNode, WithFocus
<1>4. /\ t[7].call = WithFocus(CallOf(pods), any, PodFocus(q))
      /\ t[8].call = [c EXCEPT !.focus = DeploymentFocus(q)]
  BY DEF Corrections, WithFocus
<1> HIDE DEF t, wide, named, nodes, all
<1>5. \A a : CallOf(a) = ACall(a, none, none, none, none, none) /\ IsACall(CallOf(a))
  BY DEF CallOf, ACall, IsACall
<1> HIDE DEF none, any, target, pods, nodesOf, pod
<1>6. t[1].call = ACall(pod, target, Filled(c.ns), none, none, none)
  <2> DEFINE d == CallOf(pod)
  <2>1. IsACall(d) /\ d = ACall(pod, none, none, none, none, none)
    BY <1>5
  <2> HIDE DEF d
  <2>2. WithPod(d, target, Filled(c.ns)) = ACall(d.action, target, Filled(c.ns), d.status, d.focus, d.node)
    BY <2>1, TwoChanged
  <2>3. d.action = pod /\ d.status = none /\ d.focus = none /\ d.node = none
    BY <2>1 DEF ACall
  <2> QED BY <1>1, <2>2, <2>3 DEF d
<1>7. t[2].call = ACall(c.action, c.pod, named, PodStatus(q), c.focus, c.node)
  BY <1>1, TwoChanged
<1>8. t[3].call = ACall(pods, none, any, PodStatus(q), none, none) /\ t[7].call = ACall(pods, none, any, none, PodFocus(q), none)
  <2> DEFINE d == CallOf(pods)
  <2>1. IsACall(d) /\ d = ACall(pods, none, none, none, none, none)
    BY <1>5
  <2> HIDE DEF d
  <2>2. /\ WithStatus(d, any, PodStatus(q)) = ACall(d.action, d.pod, any, PodStatus(q), d.focus, d.node)
        /\ WithFocus(d, any, PodFocus(q)) = ACall(d.action, d.pod, any, d.status, PodFocus(q), d.node)
    BY <2>1, TwoChanged
  <2>3. d.action = pods /\ d.pod = none /\ d.status = none /\ d.focus = none /\ d.node = none
    BY <2>1 DEF ACall
  <2> QED BY <1>2, <1>4, <2>2, <2>3 DEF d
<1>9. t[4].call = ACall(nodesOf, none, none, none, nodes, none)
  <2> DEFINE d == CallOf(nodesOf)
  <2>1. d = ACall(nodesOf, none, none, none, none, none)
    BY <1>5
  <2> HIDE DEF d
  <2>2. [d EXCEPT !.focus = nodes] = ACall(nodesOf, none, none, none, nodes, none)
    BY <2>1 DEF ACall
  <2> QED BY <1>2, <2>2 DEF d
<1>10. t[5].call = ACall(c.action, c.pod, c.ns, c.status, all, none)
  BY <1>3, TwoChanged
<1>11. t[6].call = ACall(c.action, c.pod, named, c.status, PodFocus(q), c.node)
  BY <1>3, TwoChanged
<1>12. t[8].call = ACall(c.action, c.pod, c.ns, c.status, DeploymentFocus(q), c.node)
  <2>1. [c EXCEPT !.focus = DeploymentFocus(q)] = ACall(c.action, c.pod, c.ns, c.status, DeploymentFocus(q), c.node)
    BY DEF ACall, IsACall
  <2> QED BY <1>4, <2>1
<1> QED BY <1>6, <1>7, <1>8, <1>9, <1>10, <1>11, <1>12
        DEF t, wide, named, nodes, all, none, any, target, pods, nodesOf, pod

\* The first correction that applies is made.
LEMMA FirstCorrects ==
    ASSUME NEW q, NEW c, NEW useful \in BOOLEAN, NEW attempted \in BOOLEAN
    PROVE  LET t == Corrections(q, c, useful, attempted)
               out == CoerceActionForQuestion(q, c, useful, attempted)
           IN  \/ out = c /\ \A i \in 1..8 : ~t[i].when
               \/ \E i \in 1..8 : out = t[i].call /\ t[i].when /\ \A j \in 1..(i - 1) : ~t[j].when
<1> DEFINE t == Corrections(q, c, useful, attempted)
           applies == {i \in DOMAIN t : t[i].when}
           out == CoerceActionForQuestion(q, c, useful, attempted)
           m == Min(applies)
<1>1. DOMAIN t = 1..8
  BY DEF Corrections
<1>2. out = IF applies = {} THEN c ELSE t[m].call
  BY DEF CoerceActionForQuestion
<1> HIDE DEF t, out
<1>3. CASE applies = {}
  <2>1. \A i \in 1..8 : ~t[i].when
    BY <1>1, <1>3
  <2>2. out = c
    BY <1>2, <1>3
  <2> QED BY <2>1, <2>2 DEF t, out
<1>4. CASE applies # {}
  <2>1. m \in applies /\ \A i \in applies : m <= i
    <3>1. applies \subseteq Nat
      BY <1>1
    <3> HIDE DEF applies
    <3> QED BY <1>4, <3>1, MinIs
  <2>2. out = t[m].call
    BY <1>2, <1>4
  <2> HIDE DEF m
  <2>3. m \in 1..8 /\ t[m].when
    BY <1>1, <2>1
  <2>4. ASSUME NEW j \in 1..(m - 1), t[j].when PROVE FALSE
    <3>1. j \in 1..8 /\ ~(m <= j)
      BY <2>3
    <3>2. j \in applies
      BY <1>1, <2>4, <3>1
    <3> HIDE DEF applies
    <3> QED BY <2>1, <3>1, <3>2
  <2> QED BY <2>2, <2>3, <2>4 DEF t, out
<1> QED BY <1>3, <1>4

\* What becomes of a call: the conditions, and each of the eight corrections.
Blank == ""

PodCalls == {"investigate_pod", "get_pod_logs", "describe_pod"}

OtherCalls == {"list_namespace_resources", "get_events"}

Asked4Status(q) == PodStatus(q) # Blank /\ SimplePodStatusInventory(q)

EveryNode(q) == AsksNodeInventory(q) \/ AsksNodeLabels(q) \/ (NodeFocus(q) # Blank /\ Has(q, {"nodes"}))

Urgent(q, c, useful, attempted) ==
    /\ PodFailureTarget(q) /\ PodStatus(q) # Blank /\ ~useful /\ ~attempted
    /\ c.action \notin {"investigate_pod", "investigate_workload", "answer"}

Listing(q, c) == Asked4Status(q) /\ c.action \in {"get_pods"} \cup OtherCalls \cup PodCalls

WideNs(c) == IF c.ns = Blank THEN "*" ELSE c.ns

ByTarget(q, c, out) == out = ACall("investigate_pod", "target", Filled(c.ns), Blank, Blank, Blank)

ByStatus(q, c, out) ==
    Asked4Status(q) /\ c.action = "get_pods" /\ out = ACall(c.action, c.pod, WideNs(c), PodStatus(q), c.focus, c.node)

ByListing(q, c, out) ==
    /\ Asked4Status(q) /\ c.action \in OtherCalls \cup PodCalls
    /\ out = ACall("get_pods", Blank, "*", PodStatus(q), Blank, Blank)

WideFocus(q) == IF NodeFocus(q) # Blank THEN NodeFocus(q) ELSE IF LabelsOnly(q) THEN "labels_only" ELSE Blank

ByNodes(q, c, out) ==
    /\ c.action = "investigate_node" /\ EveryNode(q)
    /\ out = ACall("get_nodes", Blank, Blank, Blank, WideFocus(q), Blank)

ByNodeFocus(q, c, out) ==
    /\ c.action = "get_nodes" /\ (LabelsOnly(q) \/ NodeFocus(q) # Blank)
    /\ out = ACall(c.action, c.pod, c.ns, c.status, IF NodeFocus(q) # Blank THEN NodeFocus(q) ELSE "labels_only", Blank)

ByPodFocus(q, c, out) ==
    c.action = "get_pods" /\ PodFocus(q) # Blank /\ out = ACall(c.action, c.pod, WideNs(c), c.status, PodFocus(q), c.node)

ByPodsFocus(q, c, out) ==
    /\ c.action \in PodCalls /\ PodFocus(q) # Blank /\ Has(q, {"all", "list"})
    /\ out = ACall("get_pods", Blank, "*", Blank, PodFocus(q), Blank)

ByDeployment(q, c, out) ==
    /\ c.action = "get_deployment" /\ DeploymentFocus(q) # Blank
    /\ out = ACall(c.action, c.pod, c.ns, c.status, DeploymentFocus(q), c.node)

LeftAlone(q, c, out) ==
    /\ out = c
    /\ ~(c.action = "investigate_node" /\ EveryNode(q))
    /\ ~(c.action = "get_nodes" /\ (LabelsOnly(q) \/ NodeFocus(q) # Blank))
    /\ ~(c.action = "get_pods" /\ PodFocus(q) # Blank)
    /\ ~(c.action \in PodCalls /\ PodFocus(q) # Blank /\ Has(q, {"all", "list"}))
    /\ ~(c.action = "get_deployment" /\ DeploymentFocus(q) # Blank)

Corrected(q, c, useful, attempted, out) ==
    \/ Urgent(q, c, useful, attempted) /\ ByTarget(q, c, out)
    \/ ~Urgent(q, c, useful, attempted) /\ (ByStatus(q, c, out) \/ ByListing(q, c, out))
    \/ /\ ~Urgent(q, c, useful, attempted) /\ ~Listing(q, c)
       /\ \/ ByNodes(q, c, out)
          \/ ByNodeFocus(q, c, out)
          \/ ByPodFocus(q, c, out)
          \/ ByPodsFocus(q, c, out)
          \/ ByDeployment(q, c, out)
          \/ LeftAlone(q, c, out)

\* One correction of a call: the first that applies is made, or none applies and the call is left.
LEMMA CorrectedOnce ==
    ASSUME NEW q, NEW c, IsACall(c), NEW useful \in BOOLEAN, NEW attempted \in BOOLEAN
    PROVE  Corrected(q, c, useful, attempted, CoerceActionForQuestion(q, c, useful, attempted))
<1> DEFINE t == Corrections(q, c, useful, attempted)
           out == CoerceActionForQuestion(q, c, useful, attempted)
           urgent == Urgent(q, c, useful, attempted)
<1>1. \/ out = c /\ \A i \in 1..8 : ~t[i].when
      \/ \E i \in 1..8 : out = t[i].call /\ t[i].when /\ \A j \in 1..(i - 1) : ~t[j].when
  BY FirstCorrects
<1>2. /\ t[1].when <=> urgent
      /\ t[2].when <=> Asked4Status(q) /\ c.action = "get_pods"
      /\ t[3].when <=> Asked4Status(q) /\ c.action \in OtherCalls \cup PodCalls
      /\ t[4].when <=> c.action = "investigate_node" /\ EveryNode(q)
      /\ t[5].when <=> c.action = "get_nodes" /\ (LabelsOnly(q) \/ NodeFocus(q) # Blank)
      /\ t[6].when <=> PodFocus(q) # Blank /\ c.action = "get_pods"
      /\ t[7].when <=> PodFocus(q) # Blank /\ Has(q, {"all", "list"}) /\ c.action \in PodCalls
      /\ t[8].when <=> c.action = "get_deployment" /\ DeploymentFocus(q) # Blank
  <2>1. t[1].when <=> urgent
    BY CorrectsWhen DEF Blank, Urgent
  <2>2. t[2].when <=> Asked4Status(q) /\ c.action = "get_pods"
    BY CorrectsWhen DEF Blank, Asked4Status
  <2>3. t[3].when <=> Asked4Status(q) /\ c.action \in OtherCalls \cup PodCalls
    BY CorrectsWhen DEF Blank, Asked4Status, OtherCalls, PodCalls
  <2>4. t[4].when <=> c.action = "investigate_node" /\ EveryNode(q)
    BY CorrectsWhen DEF Blank, EveryNode
  <2>5. t[5].when <=> c.action = "get_nodes" /\ (LabelsOnly(q) \/ NodeFocus(q) # Blank)
    BY CorrectsWhen DEF Blank
  <2>6. t[6].when <=> PodFocus(q) # Blank /\ c.action = "get_pods"
    BY CorrectsWhen DEF Blank
  <2>7. t[7].when <=> PodFocus(q) # Blank /\ Has(q, {"all", "list"}) /\ c.action \in PodCalls
    BY CorrectsWhen DEF Blank, PodCalls
  <2>8. t[8].when <=> c.action = "get_deployment" /\ DeploymentFocus(q) # Blank
    BY CorrectsWhen DEF Blank
  <2> HIDE DEF t, urgent
  <2> QED BY <2>1, <2>2, <2>3, <2>4, <2>5, <2>6, <2>7, <2>8
<1>3. /\ t[1].call = ACall("investigate_pod", "target", Filled(c.ns), Blank, Blank, Blank)
      /\ t[2].call = ACall(c.action, c.pod, WideNs(c), PodStatus(q), c.focus, c.node)
      /\ t[3].call = ACall("get_pods", Blank, "*", PodStatus(q), Blank, Blank)
      /\ t[4].call = ACall("get_nodes", Blank, Blank, Blank, WideFocus(q), Blank)
      /\ t[5].call = ACall(c.action, c.pod, c.ns, c.status, IF NodeFocus(q) # Blank THEN NodeFocus(q) ELSE "labels_only", Blank)
      /\ t[6].call = ACall(c.action, c.pod, WideNs(c), c.status, PodFocus(q), c.node)
      /\ t[7].call = ACall("get_pods", Blank, "*", Blank, PodFocus(q), Blank)
      /\ t[8].call = ACall(c.action, c.pod, c.ns, c.status, DeploymentFocus(q), c.node)
  BY CorrectedCalls DEF Blank, WideNs, WideFocus
<1> HIDE DEF t, out, urgent
<1>4. (~t[2].when /\ ~t[3].when) => ~Listing(q, c)
  BY <1>2 DEF Listing
<1>5. CASE out = c /\ \A i \in 1..8 : ~t[i].when
  <2>1. ~t[1].when /\ ~t[2].when /\ ~t[3].when /\ ~t[4].when /\ ~t[5].when /\ ~t[6].when /\ ~t[7].when /\ ~t[8].when
    BY <1>5
  <2>2. LeftAlone(q, c, out)
    BY <1>2, <1>5, <2>1 DEF LeftAlone
  <2> QED BY <1>2, <1>4, <2>1, <2>2 DEF Corrected, urgent, out
<1>6. ASSUME NEW i \in 1..8, out = t[i].call, t[i].when, \A j \in 1..(i - 1) : ~t[j].when
      PROVE  Corrected(q, c, useful, attempted, out)
  <2>1. i > 1 => ~t[1].when
    BY <1>6
  <2>2. i > 3 => ~t[2].when /\ ~t[3].when
    BY <1>6
  <2>3. i > 1 => ~urgent
    BY <1>2, <2>1
  <2>4. i > 3 => ~Listing(q, c)
    BY <1>4, <2>2
  <2>5. CASE i = 1
    BY <1>2, <1>3, <1>6, <2>5 DEF Corrected, ByTarget, urgent
  <2>6. CASE i = 2
    <3>1. ByStatus(q, c, out)
      BY <1>2, <1>3, <1>6, <2>6 DEF ByStatus
    <3> QED BY <2>3, <2>6, <3>1 DEF Corrected, urgent
  <2>7. CASE i = 3
    <3>1. ByListing(q, c, out)
      BY <1>2, <1>3, <1>6, <2>7 DEF ByListing
    <3> QED BY <2>3, <2>7, <3>1 DEF Corrected, urgent
  <2>8. CASE i = 4
    <3>1. ByNodes(q, c, out)
      BY <1>2, <1>3, <1>6, <2>8 DEF ByNodes
    <3> QED BY <2>3, <2>4, <2>8, <3>1 DEF Corrected, urgent
  <2>9. CASE i = 5
    <3>1. ByNodeFocus(q, c, out)
      BY <1>2, <1>3, <1>6, <2>9 DEF ByNodeFocus
    <3> QED BY <2>3, <2>4, <2>9, <3>1 DEF Corrected, urgent
  <2>10. CASE i = 6
    <3>1. ByPodFocus(q, c, out)
      BY <1>2, <1>3, <1>6, <2>10 DEF ByPodFocus
    <3> QED BY <2>3, <2>4, <2>10, <3>1 DEF Corrected, urgent
  <2>11. CASE i = 7
    <3>1. ByPodsFocus(q, c, out)
      BY <1>2, <1>3, <1>6, <2>11 DEF ByPodsFocus
    <3> QED BY <2>3, <2>4, <2>11, <3>1 DEF Corrected, urgent
  <2>12. CASE i = 8
    <3>1. ByDeployment(q, c, out)
      BY <1>2, <1>3, <1>6, <2>12 DEF ByDeployment
    <3> QED BY <2>3, <2>4, <2>12, <3>1 DEF Corrected, urgent
  <2>13. i = 1 \/ i = 2 \/ i = 3 \/ i = 4 \/ i = 5 \/ i = 6 \/ i = 7 \/ i = 8
    OBVIOUS
  <2> QED BY <2>5, <2>6, <2>7, <2>8, <2>9, <2>10, <2>11, <2>12, <2>13
<1> QED BY <1>1, <1>5, <1>6 DEF out

\* What a correction leaves is a call.
LEMMA CorrectedIsACall ==
    ASSUME NEW q, NEW c, IsACall(c), NEW useful \in BOOLEAN, NEW attempted \in BOOLEAN
    PROVE  IsACall(CoerceActionForQuestion(q, c, useful, attempted))
<1> DEFINE out == CoerceActionForQuestion(q, c, useful, attempted)
<1>1. \A a, p, n, s, f, d : IsACall(ACall(a, p, n, s, f, d))
  BY DEF IsACall, ACall
<1>2. out = c \/ \E a, p, n, s, f, d : out = ACall(a, p, n, s, f, d)
  <2>1. Corrected(q, c, useful, attempted, out)
    BY CorrectedOnce
  <2> HIDE DEF out
  <2> QED BY <2>1 DEF Corrected, ByTarget, ByStatus, ByListing, ByNodes, ByNodeFocus, ByPodFocus, ByPodsFocus, ByDeployment, LeftAlone
<1> HIDE DEF out
<1>3. IsACall(out)
  BY <1>1, <1>2
<1> QED BY <1>3 DEF out

\* The fields of a call.
LEMMA CallFields ==
    ASSUME NEW a, NEW p, NEW n, NEW s, NEW f, NEW d
    PROVE  /\ ACall(a, p, n, s, f, d).action = a
           /\ ACall(a, p, n, s, f, d).pod = p
           /\ ACall(a, p, n, s, f, d).ns = n
           /\ ACall(a, p, n, s, f, d).status = s
           /\ ACall(a, p, n, s, f, d).focus = f
           /\ ACall(a, p, n, s, f, d).node = d
BY DEF ACall

\* The fields of a corrected call: by the pod the question is about.
LEMMA FieldsByTarget ==
    ASSUME NEW q, NEW c, NEW out, ByTarget(q, c, out)
    PROVE  out.action = "investigate_pod"
BY DEF ByTarget, ACall

\* The same, by the status of an inventory.
LEMMA FieldsByStatus ==
    ASSUME NEW q, NEW c, NEW out, ByStatus(q, c, out)
    PROVE  /\ Asked4Status(q) /\ c.action = "get_pods" /\ out.action = "get_pods"
           /\ out.status = PodStatus(q) /\ out.ns = WideNs(c)
<1>1. out = ACall(c.action, c.pod, WideNs(c), PodStatus(q), c.focus, c.node) /\ Asked4Status(q) /\ c.action = "get_pods"
  BY DEF ByStatus
<1> QED BY <1>1, CallFields

\* The same, by an inventory in place of another call.
LEMMA FieldsByListing ==
    ASSUME NEW q, NEW c, NEW out, ByListing(q, c, out)
    PROVE  /\ Asked4Status(q) /\ c.action \in OtherCalls \cup PodCalls /\ out.action = "get_pods"
           /\ out.status = PodStatus(q) /\ out.ns = "*"
<1>1. out = ACall("get_pods", Blank, "*", PodStatus(q), Blank, Blank) /\ Asked4Status(q) /\ c.action \in OtherCalls \cup PodCalls
  BY DEF ByListing
<1> QED BY <1>1, CallFields

\* The same, by every node in place of one.
LEMMA FieldsByNodes ==
    ASSUME NEW q, NEW c, NEW out, ByNodes(q, c, out)
    PROVE  /\ c.action = "investigate_node" /\ EveryNode(q) /\ out.action = "get_nodes"
           /\ out.node = Blank /\ out.focus = WideFocus(q)
<1>1. out = ACall("get_nodes", Blank, Blank, Blank, WideFocus(q), Blank) /\ c.action = "investigate_node" /\ EveryNode(q)
  BY DEF ByNodes
<1> QED BY <1>1, CallFields

\* The same, by the focus on nodes.
LEMMA FieldsByNodeFocus ==
    ASSUME NEW q, NEW c, NEW out, ByNodeFocus(q, c, out)
    PROVE  /\ c.action = "get_nodes" /\ (LabelsOnly(q) \/ NodeFocus(q) # Blank) /\ out.action = "get_nodes" /\ out.node = Blank
           /\ out.focus = IF NodeFocus(q) # Blank THEN NodeFocus(q) ELSE "labels_only"
<1> DEFINE focus == IF NodeFocus(q) # Blank THEN NodeFocus(q) ELSE "labels_only"
<1>1. /\ out = ACall(c.action, c.pod, c.ns, c.status, focus, Blank) /\ c.action = "get_nodes"
      /\ LabelsOnly(q) \/ NodeFocus(q) # Blank
  BY DEF ByNodeFocus
<1>2. out.action = "get_nodes" /\ out.node = Blank /\ out.focus = focus
  <2> HIDE DEF focus
  <2> QED BY <1>1, CallFields
<1> QED BY <1>1, <1>2

\* The same, by the focus on pods.
LEMMA FieldsByPodFocus ==
    ASSUME NEW q, NEW c, NEW out, ByPodFocus(q, c, out)
    PROVE  c.action = "get_pods" /\ PodFocus(q) # Blank /\ out.action = "get_pods" /\ out.ns = WideNs(c) /\ out.focus = PodFocus(q)
<1>1. out = ACall(c.action, c.pod, WideNs(c), c.status, PodFocus(q), c.node) /\ c.action = "get_pods" /\ PodFocus(q) # Blank
  BY DEF ByPodFocus
<1> QED BY <1>1, CallFields

\* The same, by every pod in place of one.
LEMMA FieldsByPodsFocus ==
    ASSUME NEW q, NEW c, NEW out, ByPodsFocus(q, c, out)
    PROVE  c.action \in PodCalls /\ PodFocus(q) # Blank /\ out.action = "get_pods" /\ out.ns = "*" /\ out.focus = PodFocus(q)
<1>1. out = ACall("get_pods", Blank, "*", Blank, PodFocus(q), Blank) /\ c.action \in PodCalls /\ PodFocus(q) # Blank
  BY DEF ByPodsFocus
<1>2. out.action = "get_pods" /\ out.ns = "*" /\ out.focus = PodFocus(q)
  <2> QED BY <1>1, CallFields
<1> QED BY <1>1, <1>2

\* The same, by the focus on a deployment.
LEMMA FieldsByDeployment ==
    ASSUME NEW q, NEW c, NEW out, ByDeployment(q, c, out)
    PROVE  c.action = "get_deployment" /\ out.action = "get_deployment" /\ out.focus = DeploymentFocus(q)
<1>1. out = ACall(c.action, c.pod, c.ns, c.status, DeploymentFocus(q), c.node) /\ c.action = "get_deployment"
  BY DEF ByDeployment
<1> QED BY <1>1, CallFields

\* What a second correction may be, of a call that is not urgent.
LEMMA NotUrgentAgain ==
    ASSUME NEW q, NEW c, NEW useful \in BOOLEAN, NEW attempted \in BOOLEAN, NEW out,
           Corrected(q, c, useful, attempted, out), ~Urgent(q, c, useful, attempted), ~Listing(q, c)
    PROVE  \/ ByNodes(q, c, out) \/ ByNodeFocus(q, c, out) \/ ByPodFocus(q, c, out)
           \/ ByPodsFocus(q, c, out) \/ ByDeployment(q, c, out) \/ LeftAlone(q, c, out)
<1>1. ~(ByStatus(q, c, out) \/ ByListing(q, c, out))
  BY DEF ByStatus, ByListing, Listing
<1> QED BY <1>1 DEF Corrected

\* A corrected call is not corrected again: what each correction leaves is what it would make.
LEMMA CorrectedTwice ==
    ASSUME NEW q, NEW c, IsACall(c), NEW useful \in BOOLEAN, NEW attempted \in BOOLEAN,
           ~(PodFailureTarget(q) /\ (PodFocus(q) # Blank \/ SimplePodStatusInventory(q)))
    PROVE  LET out == CoerceActionForQuestion(q, c, useful, attempted)
           IN  CoerceActionForQuestion(q, out, useful, attempted) = out
<1> DEFINE out == CoerceActionForQuestion(q, c, useful, attempted)
           again == CoerceActionForQuestion(q, out, useful, attempted)
           urgent == Urgent(q, c, useful, attempted)
           more == Urgent(q, out, useful, attempted)
<1>1. Corrected(q, c, useful, attempted, out)
  BY CorrectedOnce
<1>2. IsACall(out)
  BY CorrectedIsACall
<1>3. Corrected(q, out, useful, attempted, again)
  <2> HIDE DEF out
  <2> QED BY <1>2, CorrectedOnce
<1> HIDE DEF out, again
<1>4. WideNs(c) # Blank /\ "*" # Blank
  BY Zenon DEF WideNs, Blank
<1>5. out = ACall(out.action, out.pod, out.ns, out.status, out.focus, out.node)
  BY <1>2 DEF IsACall
<1>6. again = out
  <2>1. ASSUME out.action = "investigate_pod", PodFailureTarget(q) PROVE again = out
    <3>1. PodFocus(q) = Blank /\ ~SimplePodStatusInventory(q)
      BY <2>1
    <3>2. ~more /\ ~Listing(q, out)
      BY <2>1, <3>1 DEF Urgent, Listing, Asked4Status
    <3>3. \/ ByNodes(q, out, again) \/ ByNodeFocus(q, out, again) \/ ByPodFocus(q, out, again)
          \/ ByPodsFocus(q, out, again) \/ ByDeployment(q, out, again) \/ LeftAlone(q, out, again)
      BY <1>3, <3>2, NotUrgentAgain
    <3>4. LeftAlone(q, out, again)
      BY <2>1, <3>1, <3>3 DEF ByNodes, ByNodeFocus, ByPodFocus, ByPodsFocus, ByDeployment
    <3> QED BY <3>4 DEF LeftAlone
  <2>2. ASSUME ~urgent, out.action = "get_pods", out.status = PodStatus(q), Asked4Status(q), out.ns # Blank
        PROVE  again = out
    <3>1. ~PodFailureTarget(q)
      BY <2>2 DEF Asked4Status
    <3>2. ~more /\ Listing(q, out)
      BY <2>2, <3>1 DEF Urgent, Listing
    <3>3. ByStatus(q, out, again) \/ ByListing(q, out, again)
      BY <1>3, <3>2 DEF Corrected
    <3>4. ~ByListing(q, out, again)
      BY <2>2 DEF ByListing, OtherCalls, PodCalls
    <3>5. again = ACall(out.action, out.pod, WideNs(out), PodStatus(q), out.focus, out.node)
      BY <3>3, <3>4 DEF ByStatus
    <3>6. WideNs(out) = out.ns
      BY <2>2 DEF WideNs
    <3> QED BY <1>5, <2>2, <3>5, <3>6
  <2>3. ASSUME out.action = "get_nodes", out.node = Blank, ~more,
               (LabelsOnly(q) \/ NodeFocus(q) # Blank) => out.focus = IF NodeFocus(q) # Blank THEN NodeFocus(q) ELSE "labels_only"
        PROVE  again = out
    <3>1. ~Listing(q, out)
      BY <2>3 DEF Listing, OtherCalls, PodCalls
    <3>2. \/ ByNodes(q, out, again) \/ ByNodeFocus(q, out, again) \/ ByPodFocus(q, out, again)
          \/ ByPodsFocus(q, out, again) \/ ByDeployment(q, out, again) \/ LeftAlone(q, out, again)
      BY <1>3, <2>3, <3>1, NotUrgentAgain
    <3>3. ByNodeFocus(q, out, again) \/ LeftAlone(q, out, again)
      BY <2>3, <3>2 DEF ByNodes, ByPodFocus, ByPodsFocus, ByDeployment, PodCalls
    <3>4. ASSUME ByNodeFocus(q, out, again) PROVE again = out
      <4> DEFINE focus == IF NodeFocus(q) # Blank THEN NodeFocus(q) ELSE "labels_only"
      <4>1. (LabelsOnly(q) \/ NodeFocus(q) # Blank) /\ again = ACall(out.action, out.pod, out.ns, out.status, focus, Blank)
        BY <3>4 DEF ByNodeFocus
      <4>2. out.focus = focus
        BY <2>3, <4>1
      <4> HIDE DEF focus
      <4> QED BY <1>5, <2>3, <4>1, <4>2
    <3> QED BY <3>3, <3>4 DEF LeftAlone
  <2>4. ASSUME out.action = "get_pods", out.ns # Blank, out.focus = PodFocus(q), PodFocus(q) # Blank, ~Asked4Status(q)
        PROVE  again = out
    <3>1. ~more /\ ~Listing(q, out)
      BY <2>4 DEF Urgent, Listing
    <3>2. \/ ByNodes(q, out, again) \/ ByNodeFocus(q, out, again) \/ ByPodFocus(q, out, again)
          \/ ByPodsFocus(q, out, again) \/ ByDeployment(q, out, again) \/ LeftAlone(q, out, again)
      BY <1>3, <3>1, NotUrgentAgain
    <3>3. ByPodFocus(q, out, again)
      BY <2>4, <3>2 DEF ByNodes, ByNodeFocus, ByPodsFocus, ByDeployment, LeftAlone, PodCalls
    <3>4. again = ACall(out.action, out.pod, WideNs(out), out.status, PodFocus(q), out.node)
      BY <3>3 DEF ByPodFocus
    <3>5. WideNs(out) = out.ns
      BY <2>4 DEF WideNs
    <3> QED BY <1>5, <2>4, <3>4, <3>5
  <2>5. ASSUME ~more, ~Listing(q, out), out.action = "get_deployment", out.focus = DeploymentFocus(q) PROVE again = out
    <3>1. \/ ByNodes(q, out, again) \/ ByNodeFocus(q, out, again) \/ ByPodFocus(q, out, again)
          \/ ByPodsFocus(q, out, again) \/ ByDeployment(q, out, again) \/ LeftAlone(q, out, again)
      BY <1>3, <2>5, NotUrgentAgain
    <3>2. ByDeployment(q, out, again) \/ LeftAlone(q, out, again)
      BY <2>5, <3>1 DEF ByNodes, ByNodeFocus, ByPodFocus, ByPodsFocus, PodCalls
    <3>3. ByDeployment(q, out, again) => again = out
      BY <1>5, <2>5 DEF ByDeployment
    <3> QED BY <3>2, <3>3 DEF LeftAlone
  <2>6. ASSUME ~urgent, c.action \notin {"investigate_pod", "investigate_workload", "answer"} PROVE ~more
    BY <2>6 DEF Urgent
  <2>7. CASE urgent /\ ByTarget(q, c, out)
    BY <2>1, <2>7, FieldsByTarget DEF Urgent
  <2>8. CASE ~urgent /\ ByStatus(q, c, out)
    BY <1>4, <2>2, <2>8, FieldsByStatus
  <2>9. CASE ~urgent /\ ByListing(q, c, out)
    BY <1>4, <2>2, <2>9, FieldsByListing
  <2>10. CASE ~urgent /\ ByNodes(q, c, out)
    <3>1. ~more
      BY <2>6, <2>10, FieldsByNodes
    <3>2. out.action = "get_nodes" /\ out.node = Blank /\ out.focus = WideFocus(q)
      BY <2>10, FieldsByNodes
    <3>3. (LabelsOnly(q) \/ NodeFocus(q) # Blank) => out.focus = IF NodeFocus(q) # Blank THEN NodeFocus(q) ELSE "labels_only"
      BY <3>2 DEF WideFocus
    <3> QED BY <2>3, <3>1, <3>2, <3>3
  <2>11. CASE ~urgent /\ ByNodeFocus(q, c, out)
    <3>1. ~more
      BY <2>6, <2>11, FieldsByNodeFocus
    <3> QED BY <2>3, <2>11, <3>1, FieldsByNodeFocus
  <2>12. CASE ~Listing(q, c) /\ ByPodFocus(q, c, out)
    <3>1. ~Asked4Status(q)
      BY <2>12, FieldsByPodFocus DEF Listing
    <3> QED BY <1>4, <2>4, <2>12, <3>1, FieldsByPodFocus
  <2>13. CASE ~Listing(q, c) /\ ByPodsFocus(q, c, out)
    <3>1. ~Asked4Status(q)
      BY <2>13, FieldsByPodsFocus DEF Listing
    <3> QED BY <1>4, <2>4, <2>13, <3>1, FieldsByPodsFocus
  <2>14. CASE ~urgent /\ ByDeployment(q, c, out)
    <3>1. out.action = "get_deployment" /\ out.focus = DeploymentFocus(q) /\ ~more
      BY <2>6, <2>14, FieldsByDeployment
    <3>2. ~Listing(q, out)
      BY <3>1 DEF Listing, OtherCalls, PodCalls
    <3> QED BY <2>5, <3>1, <3>2
  <2>15. CASE LeftAlone(q, c, out)
    BY <2>15 DEF LeftAlone, again, out
  <2> HIDE DEF urgent, more
  <2>16. \/ urgent /\ ByTarget(q, c, out)
         \/ ~urgent /\ (ByStatus(q, c, out) \/ ByListing(q, c, out))
         \/ /\ ~urgent /\ ~Listing(q, c)
            /\ \/ ByNodes(q, c, out) \/ ByNodeFocus(q, c, out) \/ ByPodFocus(q, c, out)
               \/ ByPodsFocus(q, c, out) \/ ByDeployment(q, c, out) \/ LeftAlone(q, c, out)
    BY <1>1 DEF Corrected, urgent
  <2> QED BY <2>7, <2>8, <2>9, <2>10, <2>11, <2>12, <2>13, <2>14, <2>15, <2>16
<1> QED BY <1>6 DEF again, out

\* Corrections settle.
LEMMA Settled ==
    ASSUME NEW q, NEW c, IsACall(c), NEW useful \in BOOLEAN, NEW attempted \in BOOLEAN
    PROVE  CorrectionSettles(q, c, useful, attempted, CoerceActionForQuestion(q, c, useful, attempted))
<1> DEFINE out == CoerceActionForQuestion(q, c, useful, attempted)
           urgent == Urgent(q, c, useful, attempted)
           mixed == PodFailureTarget(q) /\ (PodFocus(q) # "" \/ SimplePodStatusInventory(q))
           good == /\ out.action \in {c.action, "investigate_pod", "get_pods", "get_nodes"}
                   /\ c.action = "answer" => out = c
                   /\ AsksNodeInventory(q) => out.action # "investigate_node"
                   /\ (out.action = "get_nodes" /\ LabelsOnly(q)) => out.node = Blank
                   /\ (out.action = "get_pods" /\ Asked4Status(q)) => out.status = PodStatus(q)
<1>1. Corrected(q, c, useful, attempted, out)
  BY CorrectedOnce
<1>2. CoerceActionForQuestion(q, out, useful, attempted) = out \/ mixed
  BY CorrectedTwice DEF Blank
<1> HIDE DEF out, mixed
<1>3. good
  <2>1. CASE urgent /\ ByTarget(q, c, out)
    BY <2>1, FieldsByTarget DEF Urgent
  <2>2. CASE ByStatus(q, c, out)
    BY <2>2, FieldsByStatus
  <2>3. CASE ByListing(q, c, out)
    BY <2>3, FieldsByListing DEF OtherCalls, PodCalls
  <2>4. CASE ByNodes(q, c, out)
    BY <2>4, FieldsByNodes
  <2>5. CASE ByNodeFocus(q, c, out)
    BY <2>5, FieldsByNodeFocus
  <2>6. CASE ~Listing(q, c) /\ ByPodFocus(q, c, out)
    BY <2>6, FieldsByPodFocus DEF Listing
  <2>7. CASE ~Listing(q, c) /\ ByPodsFocus(q, c, out)
    BY <2>7, FieldsByPodsFocus DEF Listing, PodCalls
  <2>8. CASE ByDeployment(q, c, out)
    BY <2>8, FieldsByDeployment
  <2>9. CASE ~Listing(q, c) /\ LeftAlone(q, c, out)
    <3>1. out = c
      BY <2>9 DEF LeftAlone
    <3>2. AsksNodeInventory(q) => c.action # "investigate_node"
      BY <2>9 DEF LeftAlone, EveryNode
    <3>3. ~(c.action = "get_nodes" /\ LabelsOnly(q))
      BY <2>9 DEF LeftAlone
    <3>4. ~(c.action = "get_pods" /\ Asked4Status(q))
      BY <2>9 DEF Listing
    <3> QED BY <3>1, <3>2, <3>3, <3>4
  <2> HIDE DEF urgent, good
  <2>10. \/ urgent /\ ByTarget(q, c, out)
         \/ ByStatus(q, c, out) \/ ByListing(q, c, out)
         \/ /\ ~Listing(q, c)
            /\ \/ ByNodes(q, c, out) \/ ByNodeFocus(q, c, out) \/ ByPodFocus(q, c, out)
               \/ ByPodsFocus(q, c, out) \/ ByDeployment(q, c, out) \/ LeftAlone(q, c, out)
    BY <1>1 DEF Corrected, urgent
  <2> QED BY <2>1, <2>2, <2>3, <2>4, <2>5, <2>6, <2>7, <2>8, <2>9, <2>10
<1>4. (out.action = "get_nodes" /\ LabelsOnly(q)) => out.node = ""
  BY <1>3, Zenon DEF Blank
<1>5. (out.action = "get_pods" /\ PodStatus(q) # "" /\ SimplePodStatusInventory(q)) => out.status = PodStatus(q)
  BY <1>3, Zenon DEF Asked4Status, Blank
<1>6. CorrectionSettles(q, c, useful, attempted, out)
  BY <1>2, <1>3, <1>4, <1>5, Zenon DEF CorrectionSettles, mixed, out
<1> QED BY <1>6 DEF out

\* A failing pod that was found is what runs next.
LEMMA Followed ==
    ASSUME NEW q, NEW c, IsACall(c), NEW T, NEW pods \in Seq(T), NEW useful \in BOOLEAN
    PROVE  LET found == DiscoverFailingPod(q, "get_pods", pods, FALSE)
           IN  DiscoveryIsFollowed(c, found, useful, CoerceAfterPodDiscovery(q, c, found, useful))
<1> DEFINE found == DiscoverFailingPod(q, "get_pods", pods, FALSE)
           out == CoerceAfterPodDiscovery(q, c, found, useful)
<1>1. found # <<>> => PodFailureTarget(q) /\ PodStatus(q) # "" /\ found[1].ns # ""
  <2> DEFINE Matches(p) == /\ p.named
                           /\ \/ p.status = PodStatus(q)
                              \/ PodStatus(q) = "CrashLoopBackOff" /\ p.status \notin {"", "Running", "Succeeded"}
             I == {i \in DOMAIN pods : pods[i].ns # "" /\ Matches(pods[i])}
  <2>1. found = IF ~PodFailureTarget(q) \/ PodStatus(q) = "" \/ I = {} THEN <<>> ELSE <<pods[Min(I)]>>
    BY DEF DiscoverFailingPod
  <2> DEFINE somewhere == {i \in DOMAIN pods : pods[i].ns # ""}
  <2> HIDE DEF Matches, found
  <2>2. I \subseteq somewhere
    BY Zenon
  <2>3. somewhere \subseteq DOMAIN pods /\ \A i \in somewhere : pods[i].ns # ""
    BY Zenon
  <2>4. DOMAIN pods \subseteq Nat
    OBVIOUS
  <2> HIDE DEF I, somewhere
  <2>5. I # {} => Min(I) \in somewhere
    BY <2>2, <2>3, <2>4, MinIs
  <2>6. I # {} => pods[Min(I)].ns # ""
    BY <2>3, <2>5, Zenon
  <2>7. CASE I = {}
    BY <2>1, <2>7
  <2>8. CASE I # {}
    BY <2>1, <2>6, <2>8
  <2> QED BY <2>7, <2>8
<1> HIDE DEF found
<1>2. useful => out = c
  BY DEF CoerceAfterPodDiscovery
<1>3. ASSUME found # <<>>, ~useful
      PROVE  /\ out.action = "investigate_pod" /\ out.ns # "" /\ out.pod # ""
             /\ out.ns # found[1].ns \/ out.pod # "found" => c.action = "investigate_pod"
             /\ out.ns \in {c.ns, found[1].ns} /\ out.pod \in {c.pod, "found"}
  <2>1. CASE c.action = "investigate_pod"
    <3> DEFINE ns == IF c.ns = "" THEN found[1].ns ELSE c.ns
               pod == IF c.pod = "" THEN "found" ELSE c.pod
    <3>1. out = [c EXCEPT !.ns = ns, !.pod = pod]
      BY <1>1, <1>3, <2>1 DEF CoerceAfterPodDiscovery, IsACall, ACall
    <3>2. ns # "" /\ pod # "" /\ ns \in {c.ns, found[1].ns} /\ pod \in {c.pod, "found"}
      BY <1>1, <1>3
    <3> HIDE DEF ns, pod, out
    <3>3. out.action = c.action /\ out.ns = ns /\ out.pod = pod
      BY <3>1 DEF IsACall, ACall
    <3> QED BY <2>1, <3>2, <3>3
  <2>2. CASE c.action # "investigate_pod"
    <3> DEFINE d == CallOf("investigate_pod")
               ns == found[1].ns
    <3>1. out = [d EXCEPT !.ns = ns, !.pod = "found"]
      BY <1>1, <1>3, <2>2 DEF CoerceAfterPodDiscovery
    <3>2. d.action = "investigate_pod" /\ IsACall(d)
      BY DEF CallOf, IsACall, ACall
    <3> HIDE DEF d, out
    <3>3. out.action = d.action /\ out.ns = ns /\ out.pod = "found"
      BY <3>1, <3>2 DEF IsACall, ACall
    <3> QED BY <1>1, <1>3, <3>2, <3>3
  <2> QED BY <2>1, <2>2
<1>4. DiscoveryIsFollowed(c, found, useful, out)
  <2> HIDE DEF out
  <2> QED BY <1>2, <1>3 DEF DiscoveryIsFollowed
<1> QED BY <1>4 DEF found

\* A reply is kept: what is read of it is in it.
LEMMA ReplyKept == ASSUME NEW reply PROVE ReplyIsKept(reply, ParseReactResponse(reply))
<1> DEFINE out == ParseReactResponse(reply)
           Said(action, params) == <<[action |-> action, params |-> params]>>
           none == ""
<1>1. DOMAIN <<>> = {} /\ \A a, p : DOMAIN Said(a, p) = {1} /\ Said(a, p)[1].action = a /\ Said(a, p)[1].params = p
  OBVIOUS
<1> HIDE DEF none
<1>2. ASSUME NEW said, DOMAIN said = {1},
             reply.action # none => said[1].action = reply.action,
             reply.action = none => said[1].action \in {none, "answer"} /\ ~(reply.form = "cut" /\ reply.marked),
             said[1].params # "none" => said[1].params = reply.params
      PROVE  ReplyIsKept(reply, said)
  BY <1>2, Zenon DEF ReplyIsKept, none
<1>3. CASE reply.form \in {"whole", "within", "headless"}
  <2>1. out = Said(reply.action, reply.params)
    BY <1>3, Zenon DEF ParseReactResponse
  <2>2. reply.form # "cut"
    BY <1>3
  <2> HIDE DEF out, Said
  <2> QED BY <1>1, <1>2, <2>1, <2>2 DEF out
<1>4. CASE reply.form = "cut" /\ reply.action = "answer"
  <2>1. out = Said("answer", "none") \/ out = <<>>
    <3>1. CASE reply.text
      BY <1>4, <3>1, Zenon DEF ParseReactResponse
    <3>2. CASE ~reply.text
      BY <1>4, <3>2, Zenon DEF ParseReactResponse
    <3> QED BY <3>1, <3>2
  <2>2. "answer" # none
    BY Zenon DEF none
  <2> HIDE DEF out, Said
  <2>3. CASE out = <<>>
    BY <1>1, <2>3, Zenon DEF ReplyIsKept, out
  <2>4. CASE out = Said("answer", "none")
    BY <1>1, <1>2, <1>4, <2>2, <2>4 DEF out
  <2> QED BY <2>1, <2>3, <2>4
<1>5. CASE reply.form = "cut" /\ reply.action \notin {"answer", none}
  <2> DEFINE params == IF reply.params = "flat" THEN "flat" ELSE "none"
  <2>1. out = Said(reply.action, params)
    BY <1>5, Zenon DEF ParseReactResponse, none
  <2>2. params # "none" => params = reply.params
    OBVIOUS
  <2> HIDE DEF out, Said, params
  <2> QED BY <1>1, <1>2, <1>5, <2>1, <2>2 DEF out
<1>6. CASE reply.form = "cut" /\ reply.action = none
  <2>1. (out = Said("answer", "none") /\ ~reply.marked) \/ out = <<>>
    <3>1. "answer" # none
      BY Zenon DEF none
    <3>2. CASE reply.marked
      BY <1>6, <3>1, <3>2, Zenon DEF ParseReactResponse, none
    <3>3. CASE ~reply.marked /\ reply.text
      BY <1>6, <3>1, <3>3, Zenon DEF ParseReactResponse, none
    <3>4. CASE ~reply.marked /\ ~reply.text
      BY <1>6, <3>1, <3>4, Zenon DEF ParseReactResponse, none
    <3> QED BY <3>2, <3>3, <3>4
  <2> HIDE DEF out, Said
  <2>2. CASE out = <<>>
    BY <1>1, <2>2, Zenon DEF ReplyIsKept, out
  <2>3. CASE out = Said("answer", "none") /\ ~reply.marked
    BY <1>1, <1>2, <1>6, <2>3 DEF out
  <2> QED BY <2>1, <2>2, <2>3
<1>7. CASE reply.form \notin {"whole", "within", "headless", "cut"}
  <2>1. out = <<>>
    BY <1>7, Zenon DEF ParseReactResponse
  <2> HIDE DEF out
  <2> QED BY <1>1, <2>1, Zenon DEF ReplyIsKept, out
<1> QED BY <1>3, <1>4, <1>5, <1>6, <1>7

\* What a search or an inventory leaves on show.
Quiet == {"get_namespaces", "find_workload", "kb_search"}

\* When a result takes the place of the one on show.
LEMMA ReplaceIs ==
    ASSUME NEW current, NEW new
    PROVE  ShouldReplacePrimary(current, new) <=>
              /\ new \notin Quiet
              /\ \/ current = Blank
                 \/ new \in ShownInvestigations /\ (new = "investigate_pod" \/ current \notin ShownInvestigations)
<1>1. CASE new \in Quiet
  BY <1>1, Zenon DEF ShouldReplacePrimary, Quiet
<1>2. CASE new \notin Quiet /\ current = Blank
  BY <1>2, Zenon DEF ShouldReplacePrimary, Quiet, Blank
<1>3. CASE new \notin Quiet /\ current # Blank
  BY <1>3, Zenon DEF ShouldReplacePrimary, Quiet, Blank
<1> QED BY <1>1, <1>2, <1>3

\* What is on show after k calls: the most specific of their investigations, or what was called first.
IsShown(calls, k, tool) ==
    /\ (\E i \in 1..k : calls[i].tool = "investigate_pod") => tool = "investigate_pod"
    /\ (\E i \in 1..k : calls[i].tool \in ShownInvestigations) => tool \in ShownInvestigations
    /\ tool \notin ShownInvestigations =>
          \A i \in 1..k : calls[i].tool \notin Quiet => \E j \in 1..i : calls[j].tool = tool
    /\ tool # Blank => \E j \in 1..k : calls[j].tool = tool

\* One more call keeps it so.
LEMMA ShownIs ==
    ASSUME NEW calls, NEW k \in Nat \ {0}, NEW tool, IsShown(calls, k - 1, tool), \A i \in 1..k : calls[i].tool # Blank
    PROVE  IsShown(calls, k, IF ShouldReplacePrimary(tool, calls[k].tool) THEN calls[k].tool ELSE tool)
<1> DEFINE t == calls[k].tool
<1>1. \A i \in 1..k : i \in 1..(k - 1) \/ i = k
  OBVIOUS
<1>2. k \in 1..k /\ \A i \in 1..(k - 1) : i \in 1..k
  OBVIOUS
<1>3. Blank \notin ShownInvestigations /\ "investigate_pod" \in ShownInvestigations /\ Quiet \cap ShownInvestigations = {}
  <2>1. Blank \notin ShownInvestigations
    BY Zenon DEF Blank, ShownInvestigations
  <2>2. "investigate_pod" \in ShownInvestigations /\ Quiet \cap ShownInvestigations = {}
    BY DEF ShownInvestigations, Quiet
  <2> QED BY <2>1, <2>2
<1> DEFINE replaced == ShouldReplacePrimary(tool, t)
<1>4. replaced <=> /\ t \notin Quiet
                   /\ tool = Blank \/ (t \in ShownInvestigations /\ (t = "investigate_pod" \/ tool \notin ShownInvestigations))
  BY ReplaceIs
<1> HIDE DEF replaced, t
<1>5. CASE replaced
  <2>1. (\E i \in 1..k : calls[i].tool = "investigate_pod") => t = "investigate_pod"
    BY <1>1, <1>3, <1>4, <1>5 DEF IsShown, t
  <2>2. (\E i \in 1..k : calls[i].tool \in ShownInvestigations) => t \in ShownInvestigations
    BY <1>1, <1>3, <1>4, <1>5 DEF IsShown, t
  <2>3. ASSUME t \notin ShownInvestigations, NEW i \in 1..k, calls[i].tool \notin Quiet PROVE \E j \in 1..i : calls[j].tool = t
    <3>1. tool = Blank
      BY <1>4, <1>5, <2>3
    <3>2. i \notin 1..(k - 1)
      <4>1. SUFFICES ASSUME i \in 1..(k - 1) PROVE FALSE
        OBVIOUS
      <4>2. PICK j \in 1..i : calls[j].tool = tool
        BY <1>3, <2>3, <3>1, <4>1 DEF IsShown
      <4>3. j \in 1..k
        BY <4>1
      <4> QED BY <3>1, <4>2, <4>3
    <3> QED BY <1>1, <1>2, <3>2 DEF t
  <2>4. IsShown(calls, k, t)
    BY <1>2, <2>1, <2>2, <2>3 DEF IsShown, t
  <2> QED BY <1>5, <2>4 DEF replaced, t
<1>6. CASE ~replaced
  <2>1. (\E i \in 1..k : calls[i].tool = "investigate_pod") => tool = "investigate_pod"
    BY <1>1, <1>3, <1>4, <1>6 DEF IsShown, t
  <2>2. (\E i \in 1..k : calls[i].tool \in ShownInvestigations) => tool \in ShownInvestigations
    BY <1>1, <1>3, <1>4, <1>6 DEF IsShown, t
  <2>3. ASSUME tool \notin ShownInvestigations, NEW i \in 1..k, calls[i].tool \notin Quiet PROVE \E j \in 1..i : calls[j].tool = tool
    <3>1. CASE i \in 1..(k - 1)
      BY <2>3, <3>1 DEF IsShown
    <3>2. CASE i = k
      <4>1. tool # Blank
        BY <1>4, <1>6, <2>3, <3>2 DEF t
      <4>2. PICK j \in 1..(k - 1) : calls[j].tool = tool
        BY <4>1 DEF IsShown
      <4> QED BY <1>2, <3>2, <4>2
    <3> QED BY <1>1, <3>1, <3>2
  <2>4. tool # Blank => \E j \in 1..k : calls[j].tool = tool
    BY <1>2 DEF IsShown
  <2>5. IsShown(calls, k, tool)
    BY <2>1, <2>2, <2>3, <2>4 DEF IsShown
  <2> QED BY <1>6, <2>5 DEF replaced, t
<1> QED BY <1>5, <1>6

\* Calls of a session: each names its tool.
Calls(V) == {s \in Seq([tool : V, of : V, useful : BOOLEAN]) : \A i \in 1..Len(s) : s[i].tool # Blank}

\* The most specific investigation stays on show, however many calls were made.
LEMMA MostSpecific ==
    ASSUME NEW V, NEW calls \in Calls(V)
    PROVE  MostSpecificIsShown(calls, PrimaryAfter(calls))
<1> DEFINE n == Len(calls)
           S == [tool : V \cup {Blank}, of : V \cup {Blank}, useful : BOOLEAN]
           start == [tool |-> Blank, of |-> Blank, useful |-> FALSE]
           Move(p, k) == IF ShouldReplacePrimary(p.tool, calls[k].tool) THEN Result(calls, k) ELSE p
           next == [k \in 1..n |-> [p \in S |-> Move(p, k)]]
           By(r) == r = [k \in 0..n |-> IF k = 0 THEN start ELSE Move(r[k - 1], k)]
<1>0. n \in Nat /\ DOMAIN calls = 1..n
  BY DEF Calls
<1>1. start \in S
  OBVIOUS
<1>2. ASSUME NEW k \in 1..n PROVE calls[k].tool # Blank /\ Result(calls, k) \in S /\ Result(calls, k).tool = calls[k].tool
  <2> DEFINE R == [tool : V, of : V, useful : BOOLEAN]
  <2>1. calls[k] \in R /\ calls[k].tool # Blank
    <3> HIDE DEF R
    <3>1. calls \in Seq(R) /\ \A i \in 1..Len(calls) : calls[i].tool # Blank
      BY DEF Calls, R
    <3> QED BY <3>1
  <2> QED BY <2>1 DEF Result
<1>3. ASSUME NEW k \in 1..n, NEW p \in S PROVE Move(p, k) \in S
  <2> HIDE DEF S, n
  <2> QED BY <1>2
<1> HIDE DEF S, start, Move
<1>4. next \in Turns(n, S)
  <2> HIDE DEF n
  <2> QED BY <1>3 DEF Turns
<1>5. PICK r \in [0..n -> S] : r[0] = start /\ \A k \in 1..n : r[k] = next[k][r[k - 1]]
  <2> HIDE DEF n, next
  <2>1. HasHistory(n, S, start, next)
    BY <1>0, <1>1, <1>4, Iterates
  <2> QED BY <2>1 DEF HasHistory
<1> HIDE DEF n
<1>6. ASSUME NEW k \in 1..n PROVE r[k] = Move(r[k - 1], k)
  <2>1. k - 1 \in 0..n
    BY <1>0
  <2>2. r[k - 1] \in S
    BY <2>1
  <2> QED BY <1>5, <2>2
<1> HIDE DEF next
<1>7. \A k \in 0..n : IsShown(calls, k, r[k].tool)
  <2> DEFINE G == {k \in 0..n : IsShown(calls, k, r[k].tool)}
  <2>1. 0 \in G
    <3>1. r[0].tool = Blank
      BY <1>5 DEF start
    <3>2. IsShown(calls, 0, Blank)
      BY DEF IsShown
    <3> QED BY <1>0, <3>1, <3>2
  <2>2. ASSUME NEW k \in 1..n, k - 1 \in G PROVE k \in G
    <3>1. IsShown(calls, k - 1, r[k - 1].tool) /\ k \in 0..n /\ k \in Nat \ {0} /\ \A i \in 1..k : i \in 1..n
      BY <1>0, <2>2
    <3>2. IsShown(calls, k, IF ShouldReplacePrimary(r[k - 1].tool, calls[k].tool) THEN calls[k].tool ELSE r[k - 1].tool)
      BY <1>2, <3>1, ShownIs
    <3>3. r[k].tool = IF ShouldReplacePrimary(r[k - 1].tool, calls[k].tool) THEN calls[k].tool ELSE r[k - 1].tool
      BY <1>2, <1>6 DEF Move
    <3> QED BY <3>1, <3>2, <3>3
  <2> HIDE DEF G
  <2>3. \A k \in 0..n : k \in G
    BY <1>0, <2>1, <2>2, Climb
  <2> QED BY <2>3 DEF G
<1>8. By(r)
  <2>1. ASSUME NEW k \in 0..n PROVE r[k] = IF k = 0 THEN start ELSE Move(r[k - 1], k)
    <3>1. CASE k = 0
      BY <1>5, <3>1
    <3>2. CASE k # 0
      <4>1. k \in 1..n
        BY <1>0, <3>2
      <4> QED BY <1>6, <3>2, <4>1
    <3> QED BY <3>1, <3>2
  <2> QED BY <2>1
<1> DEFINE P == CHOOSE x : By(x)
<1>9. By(P)
  <2> HIDE DEF By
  <2> QED BY <1>8
<1>10. PrimaryAfter(calls) = P[n]
  BY Zenon DEF PrimaryAfter, Primary, n, start, Move, Blank
<1> HIDE DEF P
<1>11. \A k \in 0..n : P[k] = r[k]
  <2> DEFINE G == {j \in 0..n : P[j] = r[j]}
  <2>1. 0 \in G
    BY <1>0, <1>5, <1>9
  <2>2. ASSUME NEW j \in 1..n, j - 1 \in G PROVE j \in G
    <3>1. j \in 0..n /\ j # 0 /\ P[j - 1] = r[j - 1]
      BY <1>0, <2>2
    <3> QED BY <1>8, <1>9, <3>1
  <2> HIDE DEF G
  <2>3. \A j \in 0..n : j \in G
    BY <1>0, <2>1, <2>2, Climb
  <2> QED BY <2>3 DEF G
<1> HIDE DEF By
<1> DEFINE out == P[n]
<1>12. n \in 0..n
  BY <1>0
<1>13. IsShown(calls, n, out.tool)
  BY <1>7, <1>11, <1>12
<1> HIDE DEF out
<1>14. MostSpecificIsShown(calls, out)
  <2> DEFINE tools == {calls[i].tool : i \in DOMAIN calls}
  <2>1. "investigate_pod" \in tools => out.tool = "investigate_pod"
    BY <1>0, <1>13 DEF IsShown
  <2>2. tools \cap ShownInvestigations # {} => out.tool \in ShownInvestigations
    BY <1>0, <1>13 DEF IsShown
  <2>3. out.tool \notin ShownInvestigations =>
           \A i \in DOMAIN calls : calls[i].tool \notin Quiet => \E j \in 1..i : calls[j].tool = out.tool
    BY <1>0, <1>13 DEF IsShown
  <2> QED BY <2>1, <2>2, <2>3 DEF MostSpecificIsShown, Quiet
<1> QED BY <1>10, <1>14 DEF out

\* A question about the loop, of any size: an answer's lists have any length, observations any sizes,
\* a call any of its fields, a session any number of calls.
LoopQuestion ==
    /\ question.part = "envelope" => IsAnswer(question.result)
    /\ question.part = "budget" => question.sizes \in Seq(Nat) /\ question.works \in [1..3 -> BOOLEAN]
    /\ question.part = "steps" => \E T : question.steps \in Seq(T)
    /\ question.part = "call" => /\ IsACall(question.call) /\ question.useful \in BOOLEAN /\ question.attempted \in BOOLEAN
                                 /\ \E T : question.pods \in Seq(T)
    /\ question.part = "shown" => \E V : question.calls \in Calls(V)

\* The wrapping of answers, the budget of the prompt, the fallback, the correction of calls, the
\* result on show and the reading of replies, asked such a question.
LoopSpec == answer = <<>> /\ LoopQuestion /\ [][LoopSteps]_exchange

\* The loop is faithful: what it makes of a tool's answer says what failed, what was found and in what
\* order; the prompt loses no observation and pays for at most its rounds of summaries; the call that
\* runs is the one the question asks for, corrected once; the most specific result stays on show; and
\* what is read of a reply is in it (mcp/services/tool_envelope.py, context_manager.py, react.py
\* 850-862, 1086-1109, 1393-1397, 1463-1540, 3070-3508 and 3819-4102).  TLC asks bounded questions; here their size has
\* no bound.
THEOREM LoopHolds == LoopSpec => []LoopIsFaithful
<1> DEFINE Inv == LoopQuestion /\ LoopIsFaithful
<1>1. answer = <<>> /\ LoopQuestion => Inv
  BY DEF LoopIsFaithful, ObservationsAreFaithful, CallsAreCorrected, Answered
<1>2. Inv /\ [LoopSteps]_exchange => Inv'
  <2>1. SUFFICES ASSUME Inv, [LoopSteps]_exchange PROVE Inv'
    OBVIOUS
  <2>2. CASE UNCHANGED exchange
    BY <2>1, <2>2 DEF exchange, LoopQuestion, LoopIsFaithful, ObservationsAreFaithful, CallsAreCorrected, Answered, Out
  <2>3. CASE WrapAnswer
    <3>1. question' = question /\ question.part = "envelope" /\ Out' = GenericEnvelope(question.result, 2)
      BY <2>3 DEF WrapAnswer, Asked, Out
    <3>2. IsAnswer(question.result)
      BY <2>1, <3>1 DEF LoopQuestion
    <3>3. FailureIsTold(question.result, GenericEnvelope(question.result, 2))
      BY FailureTold
    <3>4. /\ ModesAreInOrder(question.result, GenericEnvelope(question.result, 2), 2)
          /\ RecordIsFocused(question.result, question.result.pods, 1) /\ CardsAgree(question.result)
      <4>1. 1 \in Nat /\ 2 \in Nat
        OBVIOUS
      <4> QED BY <3>2, <4>1, ToldInOrder, RecordFocused, CardsSame
    <3> QED BY <2>1, <3>1, <3>3, <3>4 DEF LoopQuestion, LoopIsFaithful, ObservationsAreFaithful, CallsAreCorrected, Answered
  <2>4. CASE CompactPrompt
    <3>1. /\ question' = question /\ question.part = "budget"
          /\ Out' = PromptAfter(question.sizes, question.budget, 3, question.works)
      BY <2>4 DEF CompactPrompt, Asked, Out
    <3>2. CompactionIsSafe(question.sizes, question.budget, 3,
                           PromptAfter(question.sizes, question.budget, 3, question.works), question.works)
      <4>1. question.sizes \in Seq(Nat) /\ question.works \in [1..3 -> BOOLEAN] /\ 3 \in Nat
        BY <2>1, <3>1 DEF LoopQuestion
      <4> QED BY <4>1, PromptIs
    <3> QED BY <2>1, <3>1, <3>2 DEF LoopQuestion, LoopIsFaithful, ObservationsAreFaithful, CallsAreCorrected, Answered
  <2>5. CASE FallBack
    <3>1. question' = question /\ question.part = "steps"
      BY <2>5 DEF FallBack, Asked
    <3>2. NothingIsWithheld(question.steps)
      BY <2>1, <3>1, SomethingTold DEF LoopQuestion
    <3> QED BY <2>1, <3>1, <3>2 DEF LoopQuestion, LoopIsFaithful, ObservationsAreFaithful, CallsAreCorrected, Answered
  <2>6. CASE CorrectCall
    <3> DEFINE first == CoerceActionForQuestion(question.q, question.call, question.useful, question.attempted)
               found == DiscoverFailingPod(question.q, "get_pods", question.pods, FALSE)
               second == CoerceAfterPodDiscovery(question.q, first, found, question.useful)
    <3>1. /\ question' = question /\ question.part = "call"
          /\ Out' = [found |-> found, first |-> first, second |-> second]
      BY <2>6 DEF CorrectCall, Asked, Out
    <3>2. /\ IsACall(question.call) /\ question.useful \in BOOLEAN /\ question.attempted \in BOOLEAN
          /\ \E T : question.pods \in Seq(T)
      BY <2>1, <3>1 DEF LoopQuestion
    <3>3. CorrectionSettles(question.q, question.call, question.useful, question.attempted, first) /\ IsACall(first)
      BY <3>2, Settled, CorrectedIsACall
    <3> HIDE DEF first
    <3>4. DiscoveryIsFollowed(first, found, question.useful, second)
      BY <3>2, <3>3, Followed
    <3> HIDE DEF found, second
    <3>5. Out'.first = first /\ Out'.found = found /\ Out'.second = second
      BY <3>1
    <3> QED BY <2>1, <3>1, <3>3, <3>4, <3>5 DEF LoopQuestion, LoopIsFaithful, ObservationsAreFaithful, CallsAreCorrected, Answered
  <2>7. CASE ShowResult
    <3>1. question' = question /\ question.part = "shown" /\ Out' = PrimaryAfter(question.calls)
      BY <2>7 DEF ShowResult, Asked, Out
    <3>2. MostSpecificIsShown(question.calls, PrimaryAfter(question.calls))
      BY <2>1, <3>1, MostSpecific DEF LoopQuestion
    <3> QED BY <2>1, <3>1, <3>2 DEF LoopQuestion, LoopIsFaithful, ObservationsAreFaithful, CallsAreCorrected, Answered
  <2>8. CASE ReadReply
    <3>1. question' = question /\ question.part = "reply" /\ Out' = ParseReactResponse(question.reply)
      BY <2>8 DEF ReadReply, Asked, Out
    <3> QED BY <2>1, <3>1, ReplyKept DEF LoopQuestion, LoopIsFaithful, ObservationsAreFaithful, CallsAreCorrected, Answered
  <2> QED BY <2>1, <2>2, <2>3, <2>4, <2>5, <2>6, <2>7, <2>8 DEF LoopSteps
<1>3. Inv => LoopIsFaithful
  OBVIOUS
<1> QED BY <1>1, <1>2, <1>3, PTL DEF LoopSpec

\* The questions TLC asks of the loop (LoopQuestions, in MCTools) are among these.
LEMMA LoopQuestionsAsked == LoopQuestions => LoopQuestion
<1>1. ASSUME NEW S, NEW n \in Nat, NEW s \in UpTo(S, n) PROVE s \in Seq(S)
  <2>1. PICK k \in 0..n : s \in [1..k -> S]
    BY <1>1 DEF UpTo
  <2>2. k \in Nat
    OBVIOUS
  <2> QED BY <2>1, <2>2, SeqDef
<1>2. ASSUME question \in BudgetQuestions PROVE LoopQuestion
  <2>1. question.part = "budget" /\ question.sizes \in UpTo({1, 4, 9}, 4) /\ question.works \in [1..3 -> BOOLEAN]
    BY <1>2 DEF BudgetQuestions
  <2>2. question.sizes \in Seq({1, 4, 9})
    BY <1>1, <2>1
  <2>3. question.sizes \in Seq(Nat)
    BY <2>2
  <2> QED BY <2>1, <2>3 DEF LoopQuestion
<1>3. ASSUME question \in StepQuestions PROVE LoopQuestion
  <2> DEFINE R == [action : {"answer", "get_pods"}, observed : BOOLEAN]
  <2>1. question.part = "steps" /\ question.steps \in UpTo(R, 3)
    BY <1>3 DEF StepQuestions
  <2> HIDE DEF R
  <2>2. question.steps \in Seq(R)
    BY <1>1, <2>1
  <2> QED BY <2>1, <2>2 DEF LoopQuestion
<1>4. ASSUME question \in ShownQuestions PROVE LoopQuestion
  <2> DEFINE V == {"find_workload", "get_pods", "investigate_pod", "investigate_workload", "a", "b"}
             R == [tool : V, of : V, useful : BOOLEAN]
  <2>1. question.part = "shown" /\ question.calls \in UpTo(TriedCalls, 3)
    BY <1>4 DEF ShownQuestions
  <2>2. TriedCalls \subseteq R
    BY DEF TriedCalls
  <2>3. \A c \in TriedCalls : c.tool # Blank
    <3>1. \A t \in {"find_workload", "get_pods", "investigate_pod", "investigate_workload"} : t # Blank
      BY Zenon DEF Blank
    <3> QED BY <3>1 DEF TriedCalls
  <2> HIDE DEF R, V
  <2>4. question.calls \in Seq(TriedCalls)
    BY <1>1, <2>1
  <2>5. question.calls \in Seq(R)
    BY <2>2, <2>4
  <2>6. \A i \in 1..Len(question.calls) : question.calls[i].tool # Blank
    BY <2>3, <2>4
  <2>7. question.calls \in Calls(V)
    BY <2>5, <2>6 DEF Calls, R
  <2> QED BY <2>1, <2>7 DEF LoopQuestion
<1>5. ASSUME question \in ReplyQuestions PROVE LoopQuestion
  <2>1. \E r : question = [part |-> "reply", reply |-> r]
    BY <1>5, Zenon DEF ReplyQuestions
  <2> QED BY <2>1 DEF LoopQuestion
<1>6. ASSUME question \in CallQuestions PROVE LoopQuestion
  <2>1. PICK w \in AskedWords, c \in Wanted, u \in 0..2, p \in {<<>>, FailingPods} :
           question = [part |-> "call", q |-> [words |-> w, target |-> "why" \in w \/ "root-cause" \in w], call |-> c,
                       useful |-> u = 2, attempted |-> u > 0, pods |-> p]
    BY <1>6 DEF CallQuestions
  <2>2. /\ question.part = "call" /\ question.call = c /\ question.useful \in BOOLEAN /\ question.attempted \in BOOLEAN
        /\ question.pods = p
    BY <2>1
  <2>3. \E T : p \in Seq(T)
    <3> DEFINE x == [ns |-> "", named |-> TRUE, status |-> "CrashLoopBackOff"]
               y == [ns |-> "shop", named |-> TRUE, status |-> "Error"]
    <3>1. FailingPods = <<x, y>>
      BY Zenon DEF FailingPods
    <3> HIDE DEF x, y
    <3>2. <<x, y>> \in Seq({x, y})
      OBVIOUS
    <3>3. p \in Seq({x, y})
      BY <3>1, <3>2, EmptySeq
    <3> QED BY <3>3
  <2>4. IsACall(c)
    <3>1. \E a, n, o : c = WantedCall(a, n, o)
      BY <2>1 DEF Wanted
    <3> PICK a, n, pod : c = WantedCall(a, n, pod)
      BY <3>1
    <3> DEFINE node == Given(a \in {"get_nodes", "investigate_node"})
               S == {a, n, Blank, pod, node}
    <3>2. c = [CallOf(a) EXCEPT !.ns = n, !.pod = pod, !.node = node]
      BY Zenon DEF WantedCall
    <3> HIDE DEF node
    <3>3. CallOf(a) \in [action : S, pod : S, ns : S, status : S, focus : S, node : S]
      <4>1. CallOf(a) = [action |-> a, pod |-> Blank, ns |-> Blank, status |-> Blank, focus |-> Blank, node |-> Blank]
        BY Zenon DEF CallOf, Blank
      <4> QED BY <4>1
    <3>4. c \in [action : S, pod : S, ns : S, status : S, focus : S, node : S]
      BY <3>2, <3>3
    <3> HIDE DEF S
    <3> QED BY <3>4 DEF IsACall, ACall
  <2> QED BY <2>2, <2>3, <2>4 DEF LoopQuestion
<1>7. ASSUME NEW tool, NEW keys \in {KeysOf, KeysOf \cup {"error"}, {"namespace"}, {}, {"error"}, {"replicas"}},
             NEW r, r.keys = keys, NEW T, {r.events, r.pods, r.deps, r.logs, r.secondary} \subseteq Seq(T)
      PROVE  IsAnswer(r)
  <2>1. "payload" \notin keys /\ "verification_report" \notin keys
    BY <1>7 DEF KeysOf
  <2> QED BY <1>7, <2>1 DEF IsAnswer
<1>8. \A tool, keys : LET b == ToolAnswer(tool, keys)
                      IN  /\ b.keys = keys /\ b.events = <<>> /\ b.pods = <<>> /\ b.deps = <<>> /\ b.logs = <<>> /\ b.secondary = <<>>
  BY DEF ToolAnswer
<1>9. ASSUME NEW r \in PodAnswers PROVE IsAnswer(r)
  <2> DEFINE T == {"svc", "panic"}
  <2>1. PICK k, a, s, m, n, o, d, l, t :
           /\ r = PodAnswer(k, a, s, m, n, o, d, l, t)
           /\ k \in {KeysOf, KeysOf \cup {"error"}, {"namespace"}} /\ d \in {<<>>, <<"svc">>} /\ l \in {<<>>, <<"panic">>}
    BY DEF PodAnswers
  <2> HIDE DEF T
  <2>2. /\ r.keys = k /\ r.events = <<>> /\ r.pods = <<>> /\ r.deps = d /\ r.logs = l /\ r.secondary = <<>>
    BY <2>1 DEF ToolAnswer, PodAnswer
  <2>3. d \in Seq(T) /\ l \in Seq(T) /\ <<>> \in Seq(T)
    <3>1. <<"svc">> \in Seq(T) /\ <<"panic">> \in Seq(T)
      BY DEF T
    <3> QED BY <2>1, <3>1, EmptySeq
  <2>4. {r.events, r.pods, r.deps, r.logs, r.secondary} \subseteq Seq(T)
    BY <2>2, <2>3
  <2> QED BY <1>7, <2>1, <2>2, <2>4
<1>10. ASSUME NEW r \in EventAnswers PROVE IsAnswer(r)
  <2>1. PICK k \in {{}, {"error"}}, e \in UpTo(Happenings, 4) : r = [ToolAnswer("get_events", k) EXCEPT !.events = e]
    BY DEF EventAnswers
  <2>2. /\ r.keys = k /\ r.events = e /\ r.pods = <<>> /\ r.deps = <<>> /\ r.logs = <<>> /\ r.secondary = <<>>
    BY <2>1 DEF ToolAnswer
  <2>3. e \in Seq(Happenings) /\ <<>> \in Seq(Happenings)
    BY <1>1, EmptySeq
  <2>4. {r.events, r.pods, r.deps, r.logs, r.secondary} \subseteq Seq(Happenings)
    BY <2>2, <2>3
  <2> QED BY <1>7, <2>2, <2>4
<1>11. ASSUME NEW r \in OtherAnswers PROVE IsAnswer(r)
  <2> DEFINE R == {[status |-> "Running", ready |-> TRUE], [status |-> "Failed", ready |-> FALSE]}
  <2>1. \E t, k, s, c, n, p : /\ r = OtherAnswer(t, k, s, p, n, c)
                              /\ k \in {{"replicas"}, {"error"}} /\ p \in UpTo(R, 2)
    BY DEF OtherAnswers
  <2> PICK t, k, s, c, n, p : /\ r = OtherAnswer(t, k, s, p, n, c)
                              /\ k \in {{"replicas"}, {"error"}} /\ p \in UpTo(R, 2)
    BY <2>1
  <2> HIDE DEF R
  <2>2. /\ r.keys = k /\ r.events = <<>> /\ r.pods = p /\ r.deps = <<>> /\ r.logs = <<>> /\ r.secondary = <<>>
    BY DEF ToolAnswer, OtherAnswer
  <2>3. p \in Seq(R) /\ <<>> \in Seq(R)
    BY <1>1, EmptySeq
  <2>4. {r.events, r.pods, r.deps, r.logs, r.secondary} \subseteq Seq(R)
    BY <2>2, <2>3
  <2> QED BY <1>7, <2>2, <2>4
<1>12. ASSUME question \in AnswerQuestions PROVE LoopQuestion
  <2>1. question.part = "envelope" /\ question.result \in PodAnswers \cup EventAnswers \cup OtherAnswers
    BY <1>12 DEF AnswerQuestions
  <2>2. IsAnswer(question.result)
    BY <1>9, <1>10, <1>11, <2>1
  <2> QED BY <2>1, <2>2 DEF LoopQuestion
<1> QED BY <1>2, <1>3, <1>4, <1>5, <1>6, <1>12 DEF LoopQuestions
=============================================================================
