------------------------ MODULE AlertPipelineProofs ------------------------
(***************************************************************************)
(* Theorems about AlertPipeline, for every set of alerts, investigations   *)
(* and incidents, every window, and with or without faults.                *)
(***************************************************************************)
EXTENDS AlertPipeline, TLAPS

\* What a save, a resolution, an attachment or a repeated delivery makes of
\* an existing row.
Rewrite(r, q) ==
    /\ q \in RowType /\ q.status # "absent"
    /\ q.alert = r.alert /\ q.count >= r.count

LEMMA RowRewrite ==
    ASSUME NEW r \in RowType, r.status # "absent"
    PROVE  /\ \A s \in Open \cup Terminal :
                Rewrite(r, [r EXCEPT !.status = s])
           /\ \A m \in 0..DedupWindow :
                Rewrite(r, [r EXCEPT !.status = "resolved", !.mttr = m])
           /\ \A c \in Incidents : Rewrite(r, [r EXCEPT !.incident = c])
           /\ r.count < MaxCount
                => Rewrite(r, [r EXCEPT !.count = r.count + 1])
<1> USE AlertAssumption DEF RowType
<1>1. ASSUME NEW s \in Open \cup Terminal
      PROVE  Rewrite(r, [r EXCEPT !.status = s])
  <2>1. [r EXCEPT !.status = s] \in RowType
    OBVIOUS
  <2>2. s # "absent"
    BY DEF Open, Terminal
  <2> QED
    BY <2>1, <2>2 DEF Rewrite
<1>2. ASSUME NEW m \in 0..DedupWindow
      PROVE  Rewrite(r, [r EXCEPT !.status = "resolved", !.mttr = m])
  <2>1. [r EXCEPT !.status = "resolved", !.mttr = m] \in RowType
    BY DEF Terminal
  <2> QED
    BY <2>1 DEF Rewrite
<1>3. ASSUME NEW c \in Incidents
      PROVE  Rewrite(r, [r EXCEPT !.incident = c])
  <2>1. [r EXCEPT !.incident = c] \in RowType
    OBVIOUS
  <2> QED
    BY <2>1 DEF Rewrite
<1>4. ASSUME r.count < MaxCount
      PROVE  Rewrite(r, [r EXCEPT !.count = r.count + 1])
  <2>1. [r EXCEPT !.count = r.count + 1] \in RowType
    BY <1>4
  <2> QED
    BY <2>1 DEF Rewrite
<1> QED
  BY <1>1, <1>2, <1>3, <1>4

\* What a request or a task works on has been saved.
Present ==
    \A i \in Ids :
        i = handler.id \/ i \in handler.added \/ task[i] # "none"
          => row[i].status # "absent"

\* The part of the type invariant that is about rows.
RowsOK ==
    /\ row \in [Ids -> RowType]
    /\ \A i \in Ids :
         IF row[i].status = "absent" THEN row[i] = NoRow
         ELSE row[i].alert # None /\ row[i].count > 0

\* The handler has in scope what the code has.
HandlerOK ==
    /\ handler \in HandlerType
    /\ handler.at \in {"saved", "found"} <=> handler.id # None
    /\ handler.at \in {"found", "closing"} <=> handler.incident # None

\* The type invariant in five parts.
LEMMA TypeParts ==
    TypeOK <=> /\ RowsOK /\ HandlerOK /\ Present
               /\ incident \in [Incidents -> IncidentType]
               /\ task \in [Ids -> {"none", "queued", "running"}]
               /\ restarts \in 0..MaxRestarts
  BY DEF TypeOK, RowsOK, HandlerOK, Present

\* Rewriting one existing row keeps all of them in order.
LEMMA RowsUpdate ==
    ASSUME RowsOK, NEW i \in Ids, row[i].status # "absent", NEW q,
           Rewrite(row[i], q), row' = [row EXCEPT ![i] = q]
    PROVE  /\ RowsOK'
           /\ \A j \in Ids : row[j].status # "absent" => row'[j].status # "absent"
<1>1. row[i].count \in Nat /\ q.count \in Nat
  BY DEF RowsOK, RowType, Rewrite
<1>2. row' \in [Ids -> RowType]
  BY DEF RowsOK, Rewrite
<1>3. ASSUME NEW j \in Ids
      PROVE  IF row'[j].status = "absent" THEN row'[j] = NoRow
             ELSE row'[j].alert # None /\ row'[j].count > 0
  <2>1. CASE j = i
    BY <1>1, <2>1 DEF RowsOK, Rewrite
  <2>2. CASE j # i
    BY <2>2 DEF RowsOK
  <2> QED
    BY <2>1, <2>2
<1>4. ASSUME NEW j \in Ids, row[j].status # "absent"
      PROVE  row'[j].status # "absent"
  BY <1>4 DEF RowsOK, Rewrite
<1> QED
  BY <1>2, <1>3, <1>4 DEF RowsOK

\* A new row is a row, and so is the absence of one.
LEMMA RowNew ==
    /\ NoRow \in RowType
    /\ \A a \in Alerts \cup {Manual} :
         /\ NewRow(a) \in RowType /\ NewRow(a).alert # None
         /\ NewRow(a).status # "absent" /\ NewRow(a).count > 0
    /\ NoRow.status = "absent"
  BY AlertAssumption DEF RowType, NoRow, NewRow, Open, Terminal

\* Ages never shrink, and saturate one past the window.
LEMMA OlderBounds ==
    ASSUME NEW w \in Nat, NEW n \in 0..(w + 1)
    PROVE  /\ Older(n, w) \in 0..(w + 1)
           /\ Older(n, w) >= n
  BY DEF Older

\* Two handler records that occur often.
LEMMA HandlerShapes ==
    /\ Idle \in HandlerType /\ Idle.at = "idle" /\ Idle.id = None
    /\ Idle.incident = None /\ Idle.added = {}
    /\ HandlerOK /\ handler.id \in Ids
         => /\ Added \in HandlerType /\ Added.at \in {"ready", "answering"}
            /\ Added.id = None /\ Added.incident = None
            /\ Added.added = handler.added \cup {handler.id}
  BY DEF HandlerOK, HandlerType, Idle, Added

\* Every variable keeps its type, the handler its shape, and no request or
\* task works on a row that was never saved.
THEOREM TypeCorrect == Spec => []TypeOK
<1> USE AlertAssumption
<1>1. Init => TypeOK
  BY RowNew DEF Init, TypeOK, NoIncident, IncidentType, Idle, HandlerType
<1>2. TypeOK /\ [Next]_vars => TypeOK'
  <2> SUFFICES ASSUME TypeOK, [Next]_vars
               PROVE  TypeOK'
    OBVIOUS
  <2>r. /\ RowsOK /\ HandlerOK /\ Present
        /\ incident \in [Incidents -> IncidentType]
        /\ task \in [Ids -> {"none", "queued", "running"}]
        /\ restarts \in 0..MaxRestarts
    BY TypeParts
  <2>p. ASSUME RowsOK', HandlerOK', Present',
               incident' \in [Incidents -> IncidentType],
               task' \in [Ids -> {"none", "queued", "running"}],
               restarts' \in 0..MaxRestarts
        PROVE  TypeOK'
    BY <2>p DEF TypeOK, RowsOK, HandlerOK, Present
  <2>h. ASSUME handler.at \in {"saved", "found"}
        PROVE  handler.id \in Ids /\ row[handler.id].status # "absent"
    BY <2>h, <2>r DEF HandlerOK, HandlerType, Present
  <2>c. ASSUME handler.at \in {"found", "closing"}
        PROVE  handler.incident \in Incidents
    BY <2>c, <2>r DEF HandlerOK, HandlerType
  <2>1. CASE Receive
    <3>1. HandlerOK' /\ handler'.id = None /\ handler'.added = {}
      BY <2>1 DEF Receive, Idle, HandlerOK, HandlerType
    <3> QED
      BY <2>1, <2>r, <2>p, <3>1 DEF Receive, RowsOK, Present
  <2>2. ASSUME NEW a \in Alerts, AlertResolved(a)
        PROVE  TypeOK'
    <3> PICK i \in FindOpen(a) :
          /\ row' = [row EXCEPT ![i] = [row[i] EXCEPT !.status = "resolved",
                                                     !.mttr = row[i].age]]
          /\ handler' = IF row[i].incident = None THEN handler
                        ELSE [handler EXCEPT !.at = "closing",
                                             !.incident = row[i].incident]
      BY <2>2 DEF AlertResolved
    <3>1. i \in Ids /\ row[i].status # "absent" /\ row[i].age <= DedupWindow
      BY DEF FindOpen, OpenRows, Live, Open
    <3>2. row[i] \in RowType
      BY <2>r, <3>1 DEF RowsOK
    <3>3. /\ row[i].age \in 0..DedupWindow
          /\ row[i].incident \in Incidents \cup {None}
      BY <3>1, <3>2 DEF RowType
    <3>4. Rewrite(row[i], [row[i] EXCEPT !.status = "resolved",
                                         !.mttr = row[i].age])
      BY <3>1, <3>2, <3>3, RowRewrite
    <3>5. /\ RowsOK'
          /\ \A j \in Ids : row[j].status # "absent" => row'[j].status # "absent"
      BY <2>r, <3>1, <3>4, RowsUpdate
    <3>6. HandlerOK' /\ handler'.id = None /\ handler'.added = handler.added
      BY <2>2, <2>r, <3>3 DEF AlertResolved, HandlerOK, HandlerType
    <3> QED
      BY <2>2, <2>r, <2>p, <3>5, <3>6 DEF AlertResolved, Present
  <2>3. CASE Close
    <3>1. handler.incident \in Incidents
      BY <2>3, <2>c DEF Close
    <3>2. incident' \in [Incidents -> IncidentType]
      <4>1. [incident[handler.incident] EXCEPT !.closed = TRUE] \in IncidentType
        <5>1. incident[handler.incident] \in IncidentType
          BY <2>r, <3>1
        <5> QED
          BY <5>1 DEF IncidentType
      <4> QED
        BY <2>3, <2>r, <3>1, <4>1 DEF Close
    <3>3. HandlerOK' /\ handler'.id = None /\ handler'.added = handler.added
      BY <2>3, <2>r DEF Close, HandlerOK, HandlerType
    <3> QED
      BY <2>3, <2>r, <2>p, <3>2, <3>3 DEF Close, RowsOK, Present
  <2>4. ASSUME NEW a \in Alerts, Recur(a)
        PROVE  TypeOK'
    <3> PICK i \in FindOpen(a) :
          /\ row[i].count < MaxCount
          /\ row' = [row EXCEPT ![i] = [row[i] EXCEPT !.count = row[i].count + 1]]
      BY <2>4 DEF Recur
    <3>1. i \in Ids /\ row[i] \in RowType /\ row[i].status # "absent"
      BY <2>r DEF FindOpen, OpenRows, Live, Open, RowsOK
    <3>2. Rewrite(row[i], [row[i] EXCEPT !.count = row[i].count + 1])
      BY <3>1, RowRewrite
    <3>3. /\ RowsOK'
          /\ \A j \in Ids : row[j].status # "absent" => row'[j].status # "absent"
      BY <2>r, <3>1, <3>2, RowsUpdate
    <3> QED
      BY <2>4, <2>r, <2>p, <3>3 DEF Recur, HandlerOK, Present
  <2>5. ASSUME NEW a \in Alerts \cup {Manual}, NEW i \in Ids,
               row' = [row EXCEPT ![i] = NewRow(a)], HandlerOK',
               handler'.id = i, handler'.added \in SUBSET handler.added,
               UNCHANGED <<incident, task, restarts>>
        PROVE  TypeOK'
    <3>1. RowsOK' /\ row'[i].status # "absent"
      BY <2>5, <2>r, RowNew DEF RowsOK
    <3>2. Present'
      BY <2>5, <2>r, <3>1 DEF Present, RowsOK
    <3> QED
      BY <2>5, <2>r, <2>p, <3>1, <3>2
  <2>6. ASSUME NEW a \in Alerts, NEW i \in Ids, New(a, i)
        PROVE  TypeOK'
    <3>1. HandlerOK' /\ handler'.id = i /\ handler'.added = handler.added
      BY <2>6, <2>r DEF New, HandlerOK, HandlerType
    <3> QED
      BY <2>6, <2>5, <3>1 DEF New
  <2>7. ASSUME NEW i \in Ids, ManualRequest(i)
        PROVE  TypeOK'
    <3>1. HandlerOK' /\ handler'.id = i /\ handler'.added = {}
      BY <2>7, <2>r DEF ManualRequest, Idle, HandlerOK, HandlerType
    <3> QED
      BY <2>7, <2>5, <3>1 DEF ManualRequest
  <2>8. CASE Correlate
    <3>1. incident' \in [Incidents -> IncidentType]
      <4>1. CASE \E c \in Incidents : incident' = [incident EXCEPT ![c].idle = 0]
        BY <4>1, <2>r DEF IncidentType
      <4>2. CASE \E c \in Incidents :
                   incident' = [incident EXCEPT ![c] =
                                  NewIncident(WorkloadOf[row[handler.id].alert])]
        <5>1. WorkloadOf[row[handler.id].alert] \in Workloads \cup {None}
          BY <2>8 DEF Correlate, Groupable
        <5>2. NewIncident(WorkloadOf[row[handler.id].alert]) \in IncidentType
          BY AlertAssumption, <5>1 DEF NewIncident, NoIncident, IncidentType
        <5> QED
          BY <4>2, <5>2, <2>r
      <4> QED
        BY <2>8, <4>1, <4>2 DEF Correlate, FindIncident
    <3>2. PICK c \in Incidents :
            handler' = [handler EXCEPT !.at = "found", !.incident = c]
      BY <2>8 DEF Correlate, FindIncident
    <3>3. /\ HandlerOK' /\ handler'.id = handler.id
          /\ handler'.added = handler.added
      BY <2>8, <2>r, <3>2 DEF Correlate, HandlerOK, HandlerType
    <3> QED
      BY <2>8, <2>r, <2>p, <3>1, <3>3 DEF Correlate, RowsOK, Present
  <2>9. CASE Unroutable
    <3>1. handler.id \in Ids /\ row[handler.id].status # "absent"
      BY <2>9, <2>h DEF Unroutable
    <3>2. Rewrite(row[handler.id],
                  [row[handler.id] EXCEPT !.status = "needs_config"])
      BY <2>r, <3>1, RowRewrite DEF RowsOK, Terminal
    <3>3. /\ RowsOK'
          /\ \A j \in Ids : row[j].status # "absent" => row'[j].status # "absent"
      BY <2>9, <2>r, <3>1, <3>2, RowsUpdate DEF Unroutable
    <3>4. /\ HandlerOK' /\ handler'.id = None
          /\ handler'.added \in SUBSET handler.added
      BY <2>9, <2>r, HandlerShapes DEF Unroutable, HandlerOK, HandlerType
    <3> QED
      BY <2>9, <2>r, <2>p, <3>3, <3>4 DEF Unroutable, Present
  <2>10. CASE Attach
    <3>1. /\ handler.id \in Ids /\ row[handler.id].status # "absent"
          /\ handler.incident \in Incidents
      BY <2>10, <2>h, <2>c DEF Attach
    <3>2. Rewrite(row[handler.id],
                  [row[handler.id] EXCEPT !.incident = handler.incident])
      BY <2>r, <3>1, RowRewrite DEF RowsOK
    <3>3. /\ RowsOK'
          /\ \A j \in Ids : row[j].status # "absent" => row'[j].status # "absent"
      BY <2>10, <2>r, <3>1, <3>2, RowsUpdate DEF Attach
    <3>4. /\ HandlerOK' /\ handler'.id = None
          /\ handler'.added = handler.added \cup {handler.id}
      BY <2>10, <2>r, <3>1, HandlerShapes DEF Attach, HandlerOK
    <3> QED
      BY <2>10, <2>r, <2>p, <3>1, <3>3, <3>4 DEF Attach, Present
  <2>11. CASE Uncorrelated
    <3>1. handler.id \in Ids /\ row[handler.id].status # "absent"
      BY <2>11, <2>h DEF Uncorrelated
    <3>2. /\ HandlerOK' /\ handler'.id = None
          /\ handler'.added = handler.added \cup {handler.id}
      BY <2>11, <2>r, <3>1, HandlerShapes DEF Uncorrelated, HandlerOK
    <3> QED
      BY <2>11, <2>r, <2>p, <3>1, <3>2 DEF Uncorrelated, RowsOK, Present
  <2>12. CASE Respond \/ Abort
    <3>1. HandlerOK' /\ handler'.id = None /\ handler'.added = {}
      BY <2>12, HandlerShapes DEF Respond, Abort, HandlerOK
    <3>2. /\ task' \in [Ids -> {"none", "queued", "running"}]
          /\ \A i \in Ids : task'[i] # "none"
                 => task[i] # "none" \/ i \in handler.added
      BY <2>12, <2>r DEF Respond, Abort
    <3> QED
      BY <2>12, <2>r, <2>p, <3>1, <3>2 DEF Respond, Abort, RowsOK, Present
  <2>13. CASE Restart
    <3>1. RowsOK'
      BY <2>13, <2>r DEF Restart, Swept, RowsOK, RowType, Terminal
    <3>2. HandlerOK' /\ handler'.id = None /\ handler'.added = {}
      BY <2>13, HandlerShapes DEF Restart, HandlerOK
    <3> QED
      BY <2>13, <2>r, <2>p, <3>1, <3>2 DEF Restart, Present
  <2>14. CASE Tick
    <3>1. RowsOK' /\ \A i \in Ids : row'[i].status = row[i].status
      <4>1. ASSUME NEW i \in Ids, row[i].status # "absent"
            PROVE  LET r == [row[i] EXCEPT !.age = Older(row[i].age, DedupWindow)]
                   IN  /\ r \in RowType /\ r.status = row[i].status
                       /\ r.alert = row[i].alert /\ r.count = row[i].count
        <5>1. row[i] \in RowType /\ row[i].age \in 0..(DedupWindow + 1)
          BY <2>r DEF RowsOK, RowType
        <5>2. Older(row[i].age, DedupWindow) \in 0..(DedupWindow + 1)
          BY <5>1, OlderBounds
        <5> QED
          BY <5>1, <5>2 DEF RowType
      <4>2. ASSUME NEW i \in Ids
            PROVE  /\ row'[i] \in RowType /\ row'[i].status = row[i].status
                   /\ IF row'[i].status = "absent" THEN row'[i] = NoRow
                      ELSE row'[i].alert # None /\ row'[i].count > 0
        BY <2>14, <2>r, <4>1 DEF Tick, RowsOK
      <4>3. row' = [i \in Ids |-> row'[i]]
        BY <2>14 DEF Tick
      <4> QED
        BY <4>2, <4>3 DEF RowsOK
    <3>2. incident' \in [Incidents -> IncidentType]
      BY <2>14, <2>r, OlderBounds DEF Tick, IncidentType
    <3> QED
      BY <2>14, <2>r, <2>p, <3>1, <3>2 DEF Tick, HandlerOK, Present
  <2>15. ASSUME NEW i \in Ids, TaskStep(i) \/ Progress(i)
         PROVE  TypeOK'
    <3>1. row[i].status # "absent"
      BY <2>15, <2>r DEF Present, TaskStep, Progress, Begin, Complete, Fail
    <3>2. PICK s \in Open \cup Terminal :
            row' = [row EXCEPT ![i] = [row[i] EXCEPT !.status = s]]
      BY <2>15 DEF TaskStep, Progress, Begin, Complete, Fail, Saved,
                   Open, Terminal
    <3>3. /\ RowsOK'
          /\ \A j \in Ids : row[j].status # "absent" => row'[j].status # "absent"
      <4>1. Rewrite(row[i], [row[i] EXCEPT !.status = s])
        BY <2>r, <3>1, RowRewrite DEF RowsOK
      <4> QED
        BY <2>r, <3>1, <3>2, <4>1, RowsUpdate
    <3>4. /\ task' \in [Ids -> {"none", "queued", "running"}]
          /\ \A j \in Ids : task'[j] # "none" => task[j] # "none"
          /\ UNCHANGED <<incident, handler, restarts>>
      BY <2>15, <2>r DEF TaskStep, Progress, Begin, Complete, Fail
    <3> QED
      BY <2>r, <2>p, <3>3, <3>4 DEF HandlerOK, Present
  <2>16. CASE UNCHANGED vars
    BY <2>16 DEF vars, TypeOK
  <2> QED
    BY <2>1, <2>2, <2>3, <2>4, <2>6, <2>7, <2>8, <2>9, <2>10, <2>11, <2>12,
       <2>13, <2>14, <2>15, <2>16 DEF Next, HandlerStep
<1> QED
  BY <1>1, <1>2, PTL DEF Spec

-----------------------------------------------------------------------------
\* A row says resolved only with the clock of its resolution.
ResolvedHasClock ==
    \A i \in Ids : row[i].status = "resolved" => row[i].mttr # None

\* What the request in progress relies on: its row and the rows whose tasks it
\* has added are untouched by any task, and the incident it found is open.
HandlerAgrees ==
    /\ \A i \in Ids : i = handler.id =>
         /\ row[i].status = "received" /\ row[i].incident = None
         /\ task[i] = "none" /\ i \notin handler.added
    /\ \A i \in handler.added :
         task[i] = "none" /\ row[i].status \in {"received", "resolved"}
    /\ \A c \in Incidents :
         handler.at = "found" /\ handler.incident = c => ~incident[c].closed

\* The inductive invariant.
IInv ==
    /\ TypeOK /\ TaskMatchesRow /\ ResolvedHasClock /\ HandlerAgrees
    /\ DedupHolds /\ ClosedIsSettled

\* An open row that was never resolved: what dedup and settling count on.
Fresh(i) == row[i].status \in Open /\ row[i].mttr = None

\* If no row becomes fresh, dedup is preserved.
LEMMA DedupKept ==
    ASSUME TypeOK, TypeOK', DedupHolds,
           \A i \in Ids : Fresh(i)' => /\ Fresh(i)
                                       /\ row'[i].alert = row[i].alert
                                       /\ row'[i].age >= row[i].age
    PROVE  DedupHolds'
<1> SUFFICES ASSUME NEW i \in Ids, NEW j \in Ids, i # j,
                    row'[i].alert = row'[j].alert, row'[i].alert \in Alerts,
                    Live(i)', Live(j)', row'[i].mttr = None, row'[j].mttr = None
             PROVE  FALSE
  BY DEF DedupHolds
<1>1. Fresh(i)' /\ Fresh(j)'
  BY DEF Fresh, Live
<1>2. /\ row[i].age \in Int /\ row'[i].age \in Int
      /\ row[j].age \in Int /\ row'[j].age \in Int /\ DedupWindow \in Int
  BY AlertAssumption DEF TypeOK, RowType
<1>3. Live(i) /\ Live(j)
  BY <1>1, <1>2 DEF Live, Fresh
<1> QED
  BY <1>1, <1>3 DEF DedupHolds, Fresh

\* If moreover no row changes incident and none closes, so is settling.
LEMMA SettledKept ==
    ASSUME ClosedIsSettled,
           \A i \in Ids : Fresh(i)' => /\ Fresh(i)
                                       /\ row'[i].incident = row[i].incident,
           \A c \in Incidents : incident'[c].closed => incident[c].closed
    PROVE  ClosedIsSettled'
  BY DEF ClosedIsSettled, Fresh

\* TaskMatchesRow, ResolvedHasClock and HandlerAgrees, DedupHolds and
\* ClosedIsSettled support one another; together they are inductive.
LEMMA Inductive == IInv /\ TypeOK' /\ [Next]_vars => IInv'
<1> SUFFICES ASSUME IInv, TypeOK', [Next]_vars
             PROVE  IInv'
  OBVIOUS
<1> USE AlertAssumption DEF IInv
<1>t. /\ row \in [Ids -> RowType] /\ task \in [Ids -> {"none", "queued", "running"}]
      /\ handler \in HandlerType /\ incident \in [Incidents -> IncidentType]
      /\ \A i \in Ids : row[i].status = "absent" => row[i] = NoRow
  BY DEF TypeOK
<1>h. ASSUME handler.at \in {"saved", "found"}
      PROVE  handler.id \in Ids
  BY <1>h DEF TypeOK, HandlerType
<1>n. None \notin Ids /\ None \notin Incidents
  OBVIOUS
<1>1. CASE Receive
  BY <1>1, <1>t DEF Receive, Idle, TaskMatchesRow, ResolvedHasClock, HandlerAgrees,
                    DedupHolds, ClosedIsSettled, Live
<1>2. ASSUME NEW a \in Alerts, AlertResolved(a)
      PROVE  IInv'
  <2> PICK i \in FindOpen(a) :
        /\ row' = [row EXCEPT ![i] = [row[i] EXCEPT !.status = "resolved",
                                                   !.mttr = row[i].age]]
        /\ handler' = IF row[i].incident = None THEN handler
                      ELSE [handler EXCEPT !.at = "closing",
                                           !.incident = row[i].incident]
    BY <1>2 DEF AlertResolved
  <2>1. /\ i \in Ids /\ row[i].status \in Open /\ row[i].age # None
        /\ handler.at = "ready" /\ handler.id = None
    BY <1>2, <1>t DEF FindOpen, OpenRows, Live, RowType, AlertResolved, TypeOK
  <2>2. /\ row'[i].status = "resolved" /\ row'[i].mttr # None
        /\ \A j \in Ids \ {i} : row'[j] = row[j]
    BY <2>1, <1>t DEF RowType
  <2>3. /\ handler'.id = None /\ handler'.added = handler.added
        /\ handler'.at \in {"ready", "closing"}
    BY <2>1, <1>t DEF HandlerType
  <2>4. \A j \in Ids : Fresh(j)' => /\ Fresh(j) /\ row'[j] = row[j]
    BY <2>2 DEF Fresh
  <2>5. DedupHolds'
    BY <2>4, <1>t, DedupKept DEF TypeOK, RowType
  <2>6. ClosedIsSettled'
    BY <1>2, <2>4, SettledKept DEF AlertResolved
  <2> QED
    BY <1>2, <1>n, <2>1, <2>2, <2>3, <2>5, <2>6
       DEF AlertResolved, TaskMatchesRow, ResolvedHasClock, HandlerAgrees, Open
<1>3. CASE Close
  <2>1. /\ handler'.id = None /\ handler'.added = handler.added
        /\ handler'.at = "ready" /\ UNCHANGED <<row, task>>
    BY <1>3, <1>t DEF Close, TypeOK, HandlerType
  <2>2. ClosedIsSettled'
    BY <1>3, <1>t, <2>1 DEF Close, Settled, ClosedIsSettled, IncidentType
  <2>3. DedupHolds'
    BY <2>1 DEF DedupHolds, Live
  <2> QED
    BY <1>n, <2>1, <2>2, <2>3 DEF TaskMatchesRow, ResolvedHasClock, HandlerAgrees
<1>4. ASSUME NEW a \in Alerts, Recur(a)
      PROVE  IInv'
  <2>1. /\ UNCHANGED <<incident, task, handler>>
        /\ \A j \in Ids : /\ row'[j].status = row[j].status
                          /\ row'[j].mttr = row[j].mttr
                          /\ row'[j].alert = row[j].alert
                          /\ row'[j].age = row[j].age
                          /\ row'[j].incident = row[j].incident
    BY <1>4, <1>t DEF Recur, FindOpen, OpenRows, RowType
  <2>2. DedupHolds'
    BY <2>1, <1>t, DedupKept DEF Fresh, TypeOK, RowType
  <2>3. ClosedIsSettled'
    BY <2>1, SettledKept DEF Fresh
  <2>4. TaskMatchesRow' /\ ResolvedHasClock'
    BY <2>1 DEF TaskMatchesRow, ResolvedHasClock
  <2>5. HandlerAgrees'
    <3>1. handler.added \in SUBSET Ids
      BY <1>t DEF HandlerType
    <3> QED
      BY <2>1, <3>1 DEF HandlerAgrees
  <2> QED
    BY <2>2, <2>3, <2>4, <2>5
<1>5. ASSUME NEW a \in Alerts \cup {Manual}, NEW i \in Ids,
             row[i].status = "absent", row' = [row EXCEPT ![i] = NewRow(a)],
             a = Manual \/ OpenRows(a) = {},
             handler'.id = i, handler'.at = "saved",
             handler'.added \in SUBSET handler.added,
             UNCHANGED <<incident, task>>
      PROVE  IInv'
  <2>1. /\ row'[i].status = "received" /\ row'[i].mttr = None
        /\ row'[i].incident = None /\ row'[i].alert = a
        /\ \A j \in Ids \ {i} : row'[j] = row[j]
    BY <1>5, <1>t DEF NewRow
  <2>2. task[i] = "none" /\ i \notin handler.added
    BY <1>5 DEF TaskMatchesRow, HandlerAgrees, Open
  <2>3. DedupHolds'
    BY <1>5, <2>1 DEF DedupHolds, OpenRows, Live
  <2>4. ClosedIsSettled'
    BY <1>5, <1>n, <2>1 DEF ClosedIsSettled
  <2> QED
    BY <1>5, <2>1, <2>2, <2>3, <2>4
       DEF TaskMatchesRow, ResolvedHasClock, HandlerAgrees
<1>6. ASSUME NEW a \in Alerts, NEW i \in Ids, New(a, i)
      PROVE  IInv'
  BY <1>5, <1>6, <1>t DEF New, HandlerType
<1>7. ASSUME NEW i \in Ids, ManualRequest(i)
      PROVE  IInv'
  BY <1>5, <1>7, <1>t DEF ManualRequest, Idle, HandlerType
<1>8. CASE Correlate
  <2>1. PICK c \in Incidents :
          /\ handler' = [handler EXCEPT !.at = "found", !.incident = c]
          /\ \/ c \in FindIncident(WorkloadOf[row[handler.id].alert])
                /\ incident' = [incident EXCEPT ![c].idle = 0]
             \/ incident' = [incident EXCEPT ![c] =
                               NewIncident(WorkloadOf[row[handler.id].alert])]
    BY <1>8 DEF Correlate, FindIncident
  <2>2. /\ ~incident'[c].closed
        /\ \A d \in Incidents : incident'[d].closed => incident[d].closed
    BY <2>1, <1>t DEF FindIncident, Active, NewIncident, IncidentType
  <2>3. /\ handler'.id = handler.id /\ handler'.added = handler.added
        /\ handler'.incident = c /\ UNCHANGED <<row, task>>
    BY <1>8, <1>t, <2>1 DEF Correlate, HandlerType
  <2> QED
    BY <2>2, <2>3 DEF TaskMatchesRow, ResolvedHasClock, HandlerAgrees, DedupHolds,
                      ClosedIsSettled, Live
<1>9. CASE Unroutable
  <2>1. handler.id \in Ids /\ row[handler.id].status = "received"
    BY <1>9, <1>h DEF Unroutable, HandlerAgrees
  <2>2. /\ row'[handler.id].status = "needs_config"
        /\ \A j \in Ids \ {handler.id} : row'[j] = row[j]
        /\ task[handler.id] = "none" /\ handler.id \notin handler.added
    BY <1>9, <1>t, <2>1 DEF Unroutable, RowType, HandlerAgrees
  <2>3. /\ handler'.id = None /\ handler'.at # "found"
        /\ handler'.added \in SUBSET handler.added
    BY <1>9, <1>t, HandlerShapes DEF Unroutable, HandlerType
  <2>4. \A j \in Ids : Fresh(j)' => Fresh(j) /\ row'[j] = row[j]
    BY <2>2 DEF Fresh, Open
  <2>5. DedupHolds' /\ ClosedIsSettled'
    BY <1>9, <2>4, <1>t, DedupKept, SettledKept DEF Unroutable, TypeOK, RowType
  <2> QED
    BY <1>9, <1>n, <2>1, <2>2, <2>3, <2>5
       DEF Unroutable, TaskMatchesRow, ResolvedHasClock, HandlerAgrees
<1>10. CASE Attach
  <2>1. /\ handler.id \in Ids /\ handler.incident \in Incidents
        /\ row[handler.id].status = "received" /\ task[handler.id] = "none"
        /\ ~incident[handler.incident].closed
    BY <1>10, <1>h DEF Attach, HandlerAgrees, TypeOK, HandlerType
  <2>2. /\ row'[handler.id].status = "received"
        /\ row'[handler.id].incident = handler.incident
        /\ row'[handler.id].mttr = row[handler.id].mttr
        /\ row'[handler.id].alert = row[handler.id].alert
        /\ row'[handler.id].age = row[handler.id].age
        /\ \A j \in Ids \ {handler.id} : row'[j] = row[j]
        /\ UNCHANGED <<incident, task>>
    BY <1>10, <1>t, <2>1 DEF Attach, RowType
  <2>3. /\ handler'.id = None /\ handler'.at # "found"
        /\ handler'.added = handler.added \cup {handler.id}
    BY <1>10, <2>1, HandlerShapes DEF Attach, HandlerOK, TypeOK
  <2>4. DedupHolds'
    <3>1. \A j \in Ids : Fresh(j)' => /\ Fresh(j)
                                       /\ row'[j].alert = row[j].alert
                                       /\ row'[j].age = row[j].age
      BY <2>1, <2>2 DEF Fresh
    <3> QED
      BY <3>1, <1>t, DedupKept DEF TypeOK, RowType
  <2>5. ClosedIsSettled'
    BY <2>1, <2>2 DEF ClosedIsSettled
  <2>6. TaskMatchesRow' /\ ResolvedHasClock'
    BY <2>1, <2>2 DEF TaskMatchesRow, ResolvedHasClock, Open
  <2>7. HandlerAgrees'
    <3>1. handler.added \in SUBSET Ids
      BY <1>t DEF HandlerType
    <3> QED
      BY <1>n, <2>1, <2>2, <2>3, <3>1 DEF HandlerAgrees
  <2> QED
    BY <2>4, <2>5, <2>6, <2>7
<1>11. CASE Uncorrelated
  <2>1. /\ handler.id \in Ids
        /\ row[handler.id].status = "received" /\ task[handler.id] = "none"
    BY <1>11, <1>h DEF Uncorrelated, HandlerAgrees
  <2>2. /\ handler'.id = None /\ handler'.at # "found"
        /\ handler'.added = handler.added \cup {handler.id}
        /\ UNCHANGED <<row, incident, task>>
    BY <1>11, <2>1, HandlerShapes DEF Uncorrelated, HandlerOK, TypeOK
  <2> QED
    BY <1>n, <2>1, <2>2
       DEF TaskMatchesRow, ResolvedHasClock, HandlerAgrees, DedupHolds,
           ClosedIsSettled, Live
<1>12. CASE Respond \/ Abort
  <2>1. /\ handler' = Idle /\ UNCHANGED <<row, incident>>
        /\ \A i \in Ids : \/ task'[i] = task[i]
                          \/ i \in handler.added /\ task'[i] = "queued"
    BY <1>12 DEF Respond, Abort
  <2>2. TaskMatchesRow'
    BY <2>1 DEF TaskMatchesRow, HandlerAgrees, Open
  <2> QED
    BY <1>n, <2>1, <2>2, HandlerShapes
       DEF ResolvedHasClock, HandlerAgrees, DedupHolds, ClosedIsSettled, Live
<1>13. CASE Restart
  <2>1. /\ handler' = Idle /\ UNCHANGED incident
        /\ \A i \in Ids : /\ task'[i] = "none" /\ row'[i].status # "running"
                          /\ row'[i] = row[i] \/ row'[i].status = "failed"
    BY <1>13, <1>t DEF Restart, Swept, RowType
  <2>2. \A j \in Ids : Fresh(j)' => Fresh(j) /\ row'[j] = row[j]
    BY <2>1 DEF Fresh, Open
  <2>3. DedupHolds' /\ ClosedIsSettled'
    BY <2>1, <2>2, <1>t, DedupKept, SettledKept DEF TypeOK, RowType
  <2> QED
    BY <1>n, <2>1, <2>3, HandlerShapes
       DEF TaskMatchesRow, ResolvedHasClock, HandlerAgrees
<1>14. CASE Tick
  <2>1. ASSUME NEW j \in Ids
        PROVE  /\ row'[j].status = row[j].status /\ row'[j].mttr = row[j].mttr
               /\ row'[j].alert = row[j].alert /\ row'[j].age >= row[j].age
               /\ row'[j].incident = row[j].incident
    <3>1. row[j] \in RowType /\ row[j].age \in 0..(DedupWindow + 1)
      BY <1>t DEF RowType
    <3>2. CASE row[j].status = "absent"
      <4>1. row'[j] = row[j]
        BY <1>14, <3>2 DEF Tick
      <4> QED
        BY <3>1, <4>1
    <3>3. CASE row[j].status # "absent"
      <4>1. row'[j] = [row[j] EXCEPT !.age = Older(row[j].age, DedupWindow)]
        BY <1>14, <3>3 DEF Tick
      <4>2. Older(row[j].age, DedupWindow) >= row[j].age
        BY <3>1, OlderBounds
      <4> QED
        BY <3>1, <4>1, <4>2 DEF RowType
    <3> QED
      BY <3>2, <3>3
  <2>2. ASSUME NEW c \in Incidents
        PROVE  incident'[c].closed = incident[c].closed
    <3>1. incident[c] \in IncidentType
      BY <1>t
    <3>2. incident'[c] \in {incident[c],
              [incident[c] EXCEPT
                 !.idle = Older(incident[c].idle, CorrelationWindow),
                 !.opened = Older(incident[c].opened, IncidentLifetime)]}
      BY <1>14 DEF Tick
    <3> QED
      BY <3>1, <3>2 DEF IncidentType
  <2>3. UNCHANGED <<task, handler>>
    BY <1>14 DEF Tick
  <2>4. DedupHolds' /\ ClosedIsSettled'
    BY <2>1, <2>2, DedupKept, SettledKept DEF Fresh
  <2>5. TaskMatchesRow' /\ ResolvedHasClock'
    BY <2>1, <2>3 DEF TaskMatchesRow, ResolvedHasClock
  <2>6. HandlerAgrees'
    <3>1. handler.added \in SUBSET Ids
      BY <1>t DEF HandlerType
    <3> QED
      BY <2>1, <2>2, <2>3, <3>1 DEF HandlerAgrees
  <2> QED
    BY <2>4, <2>5, <2>6
<1>15. ASSUME NEW i \in Ids, TaskStep(i) \/ Progress(i)
       PROVE  IInv'
  <2>1. task[i] \in {"queued", "running"} /\ UNCHANGED <<incident, handler>>
    BY <1>15 DEF TaskStep, Progress, Begin, Complete, Fail
  <2>2. PICK s \in {"running", "completed", "failed"} :
          row' = [row EXCEPT ![i] = [row[i] EXCEPT !.status = s]]
    BY <1>15 DEF TaskStep, Progress, Begin, Complete, Fail, Saved
  <2>3. /\ row'[i].status = s /\ row'[i].mttr = row[i].mttr
        /\ row'[i].alert = row[i].alert /\ row'[i].age = row[i].age
        /\ row'[i].incident = row[i].incident
        /\ \A j \in Ids \ {i} : row'[j] = row[j]
    BY <2>2, <1>t DEF RowType
  <2>4. /\ s = "running" => task'[i] = "running"
        /\ s # "running" => task'[i] = "none"
        /\ \A j \in Ids \ {i} : task'[j] = task[j]
    <3>1. row'[i].status \in {"running", "completed", "failed"}
      BY <2>3
    <3> QED
      BY <1>15, <1>t, <2>2, <2>3
         DEF TaskStep, Progress, Begin, Complete, Fail, Saved, RowType
  <2>5. Fresh(i)' => Fresh(i)
    BY <2>1, <2>3 DEF Fresh, TaskMatchesRow, ResolvedHasClock
  <2>6. DedupHolds' /\ ClosedIsSettled'
    <3>1. \A j \in Ids : Fresh(j)' => /\ Fresh(j)
                                       /\ row'[j].alert = row[j].alert
                                       /\ row'[j].age = row[j].age
                                       /\ row'[j].incident = row[j].incident
      BY <2>3, <2>5 DEF Fresh
    <3> QED
      BY <2>1, <3>1, <1>t, DedupKept, SettledKept DEF TypeOK, RowType
  <2>7. TaskMatchesRow' /\ ResolvedHasClock'
    BY <2>1, <2>3, <2>4 DEF TaskMatchesRow, ResolvedHasClock, Open
  <2>8. HandlerAgrees'
    <3>1. handler.added \in SUBSET Ids
      BY <1>t DEF HandlerType
    <3>2. i # handler.id /\ i \notin handler.added
      BY <2>1 DEF HandlerAgrees
    <3> QED
      BY <2>1, <2>3, <2>4, <3>1, <3>2 DEF HandlerAgrees
  <2> QED
    BY <2>6, <2>7, <2>8
<1>16. CASE UNCHANGED vars
  BY <1>16 DEF vars, TaskMatchesRow, ResolvedHasClock, HandlerAgrees, DedupHolds,
               ClosedIsSettled, Live
<1> QED
  BY <1>1, <1>2, <1>3, <1>4, <1>6, <1>7, <1>8, <1>9, <1>10, <1>11, <1>12,
     <1>13, <1>14, <1>15, <1>16 DEF Next, HandlerStep

\* The invariant holds of every reachable state.
THEOREM InvariantHolds == Spec => []IInv
<1>1. Init => TaskMatchesRow /\ ResolvedHasClock /\ HandlerAgrees
                /\ DedupHolds /\ ClosedIsSettled
  BY AlertAssumption DEF Init, NoRow, Idle, Open, Live, TaskMatchesRow,
     ResolvedHasClock, HandlerAgrees, DedupHolds, ClosedIsSettled
<1>2. TypeOK /\ TypeOK' /\ IInv /\ [Next]_vars => IInv'
  BY Inductive
<1>3. TypeOK /\ TaskMatchesRow /\ ResolvedHasClock /\ HandlerAgrees
        /\ DedupHolds /\ ClosedIsSettled => IInv
  BY DEF IInv
<1> QED
  BY <1>1, <1>2, <1>3, TypeCorrect, PTL DEF Spec

\* A row that says running has a task that runs, and no task works on a row that
\* is over, unless a resolved delivery ended it under the task.
THEOREM TaskMatchesRowHolds == Spec => []TaskMatchesRow
<1>1. IInv => TaskMatchesRow
  BY DEF IInv
<1> QED
  BY <1>1, InvariantHolds, PTL

\* Two open rows absorb the same alert only after one of them was resolved.
THEOREM DedupIsKept == Spec => []DedupHolds
<1>1. IInv => DedupHolds
  BY DEF IInv
<1> QED
  BY <1>1, InvariantHolds, PTL

\* Rows, tasks and deliveries agree.
THEOREM RowsAreTrackedHolds == Spec => []RowsAreTracked
<1>1. TypeOK /\ TaskMatchesRow /\ DedupHolds => RowsAreTracked
  BY DEF RowsAreTracked
<1> QED
  BY <1>1, TypeCorrect, TaskMatchesRowHolds, DedupIsKept, PTL

\* A closed incident has no investigation open that was not resolved before.
THEOREM ClosedIsSettledHolds == Spec => []ClosedIsSettled
<1>1. IInv => ClosedIsSettled
  BY DEF IInv
<1> QED
  BY <1>1, InvariantHolds, PTL

-----------------------------------------------------------------------------
\* Time only retires incidents.
LEMMA TickRetires ==
    ASSUME TypeOK, Tick, NEW c \in Incidents
    PROVE  /\ incident'[c].workload = incident[c].workload
           /\ incident[c].workload # None /\ Active(c)' => Active(c)
<1>1. incident[c] \in IncidentType
  BY DEF TypeOK
<1>2. CASE incident[c].workload = None
  BY <1>1, <1>2 DEF Tick
<1>3. CASE incident[c].workload # None
  <2>1. incident'[c] = [incident[c] EXCEPT
                         !.idle = Older(incident[c].idle, CorrelationWindow),
                         !.opened = Older(incident[c].opened, IncidentLifetime)]
    BY <1>3 DEF Tick
  <2>2. /\ incident[c].idle \in 0..(CorrelationWindow + 1)
        /\ incident[c].opened \in 0..(IncidentLifetime + 1)
    BY <1>1 DEF IncidentType
  <2>3. /\ Older(incident[c].idle, CorrelationWindow) \in Nat
        /\ Older(incident[c].idle, CorrelationWindow) >= incident[c].idle
        /\ Older(incident[c].opened, IncidentLifetime) \in Nat
        /\ Older(incident[c].opened, IncidentLifetime) >= incident[c].opened
    <3>1. CorrelationWindow \in Nat /\ IncidentLifetime \in Nat
      BY AlertAssumption
    <3>2. /\ Older(incident[c].idle, CorrelationWindow) \in 0..(CorrelationWindow + 1)
          /\ Older(incident[c].idle, CorrelationWindow) >= incident[c].idle
      BY <2>2, <3>1, OlderBounds
    <3>3. /\ Older(incident[c].opened, IncidentLifetime) \in 0..(IncidentLifetime + 1)
          /\ Older(incident[c].opened, IncidentLifetime) >= incident[c].opened
      BY <2>2, <3>1, OlderBounds
    <3> QED
      BY <3>1, <3>2, <3>3
  <2>4. /\ incident'[c].workload = incident[c].workload
        /\ incident'[c].closed = incident[c].closed
        /\ incident'[c].idle = Older(incident[c].idle, CorrelationWindow)
        /\ incident'[c].opened = Older(incident[c].opened, IncidentLifetime)
    BY <1>1, <2>1 DEF IncidentType
  <2> QED
    BY <2>2, <2>3, <2>4, AlertAssumption DEF Active
<1> QED
  BY <1>2, <1>3

\* A workload has at most one incident that takes alerts: a second one is opened
\* only when the query found none, and nothing but a new alert revives one.
THEOREM OneActiveIncidentHolds == Spec => []OneActiveIncident
<1>1. Init => OneActiveIncident
  BY DEF Init, NoIncident, OneActiveIncident
<1>2. TypeOK /\ TypeOK' /\ OneActiveIncident /\ [Next]_vars => OneActiveIncident'
  <2> SUFFICES ASSUME TypeOK, OneActiveIncident, [Next]_vars
               PROVE  OneActiveIncident'
    OBVIOUS
  <2>t. incident \in [Incidents -> IncidentType]
    BY DEF TypeOK
  <2>1. CASE UNCHANGED incident
    BY <2>1 DEF OneActiveIncident, Active
  <2>2. CASE Close
    <3>1. ASSUME NEW c \in Incidents
          PROVE  /\ incident'[c].workload = incident[c].workload
                 /\ Active(c)' => Active(c)
      <4>1. incident[c] \in IncidentType
        BY <2>t
      <4>2. incident'[c] \in {incident[c], [incident[c] EXCEPT !.closed = TRUE]}
        BY <2>2, <2>t DEF Close
      <4>3. CASE incident'[c] = incident[c]
        BY <4>3 DEF Active
      <4>4. CASE incident'[c] = [incident[c] EXCEPT !.closed = TRUE]
        BY <4>1, <4>4 DEF Active, IncidentType
      <4> QED
        BY <4>2, <4>3, <4>4
    <3> QED
      BY <3>1 DEF OneActiveIncident
  <2>3. CASE Correlate
    <3> DEFINE w == WorkloadOf[row[handler.id].alert]
    <3>1. CASE \E c \in FindIncident(w) :
                 incident' = [incident EXCEPT ![c].idle = 0]
      <4> PICK c \in FindIncident(w) : incident' = [incident EXCEPT ![c].idle = 0]
        BY <3>1
      <4>1. c \in Incidents /\ Active(c) /\ incident[c] \in IncidentType
        BY <2>t DEF FindIncident
      <4>2. /\ incident'[c].workload = incident[c].workload
            /\ \A d \in Incidents \ {c} : incident'[d] = incident[d]
        BY <4>1, <2>t DEF IncidentType
      <4> QED
        BY <4>1, <4>2 DEF OneActiveIncident, Active
    <3>2. CASE /\ FindIncident(w) = {}
               /\ \E c \in Incidents :
                    incident' = [incident EXCEPT ![c] = NewIncident(w)]
      BY <3>2, <2>t DEF FindIncident, OneActiveIncident, Active, NewIncident
    <3> QED
      BY <2>3, <3>1, <3>2 DEF Correlate
  <2>4. CASE Tick
    BY <2>4, TickRetires DEF OneActiveIncident
  <2> QED
    BY <2>1, <2>2, <2>3, <2>4
       DEF Next, HandlerStep, TaskStep, Receive, AlertResolved, Recur, New,
           Unroutable, Attach, Uncorrelated, ManualRequest, Respond, Abort, Begin,
           Progress, Complete, Fail, Restart, vars
<1> QED
  BY <1>1, <1>2, TypeCorrect, PTL DEF Spec

\* A workload has one active incident, and a closed one is settled.
THEOREM IncidentsHoldForEver == Spec => []IncidentsHold
<1>1. OneActiveIncident /\ ClosedIsSettled => IncidentsHold
  BY DEF IncidentsHold
<1> QED
  BY <1>1, OneActiveIncidentHolds, ClosedIsSettledHolds, PTL

\* The upsert of a task never loses a counted delivery or a grouping.
THEOREM IngestFieldsAreKept == Spec => IngestFieldsKept
<1> DEFINE Kept == \A i \in Ids :
             /\ row'[i].count >= row[i].count
             /\ row[i].incident # None => row'[i].incident = row[i].incident
<1>1. IInv /\ [Next]_vars => Kept
  <2> SUFFICES ASSUME IInv, [Next]_vars, NEW i \in Ids
               PROVE  /\ row'[i].count >= row[i].count
                      /\ row[i].incident # None
                           => row'[i].incident = row[i].incident
    OBVIOUS
  <2>t. /\ row \in [Ids -> RowType] /\ row[i] \in RowType /\ row[i].count \in Int
        /\ row[i].status = "absent" => row[i] = NoRow
    BY AlertAssumption DEF IInv, TypeOK, RowType
  <2>1. CASE row'[i] = row[i]
    BY <2>1, <2>t
  <2>2. CASE /\ row'[i].count = row[i].count /\ row'[i].incident = row[i].incident
    BY <2>2, <2>t
  <2>3. ASSUME NEW a \in Alerts, Recur(a)
        PROVE  /\ row'[i].count >= row[i].count
               /\ row'[i].incident = row[i].incident
    <3> PICK j \in Ids :
          row' = [row EXCEPT ![j] = [row[j] EXCEPT !.count = row[j].count + 1]]
      BY <2>3 DEF Recur, FindOpen, OpenRows
    <3>1. CASE i = j
      <4>1. row'[i] = [row[i] EXCEPT !.count = row[i].count + 1]
        BY <3>1, <2>t
      <4> QED
        BY <4>1, <2>t DEF RowType
    <3>2. CASE i # j
      BY <3>2, <2>t
    <3> QED
      BY <3>1, <3>2
  <2>4. ASSUME NEW a \in Alerts, AlertResolved(a)
        PROVE  row'[i].count = row[i].count /\ row'[i].incident = row[i].incident
    <3> PICK j \in Ids :
          row' = [row EXCEPT ![j] = [row[j] EXCEPT !.status = "resolved",
                                                   !.mttr = row[j].age]]
      BY <2>4 DEF AlertResolved, FindOpen, OpenRows
    <3> QED
      BY <2>t DEF RowType
  <2>5. ASSUME NEW a \in Alerts \cup {Manual}, NEW j \in Ids,
               row[j].status = "absent", row' = [row EXCEPT ![j] = NewRow(a)]
        PROVE  /\ row'[i].count >= row[i].count
               /\ row[i].incident # None => row'[i].incident = row[i].incident
    <3>1. CASE i = j
      <4>1. row[i].count = 0 /\ row[i].incident = None
        BY <2>5, <2>t, <3>1 DEF NoRow
      <4> QED
        BY <2>5, <2>t, <3>1, <4>1 DEF NewRow
    <3>2. CASE i # j
      BY <2>5, <2>t, <3>2
    <3> QED
      BY <3>1, <3>2
  <2>6. CASE Attach
    <3>1. handler.id \in Ids /\ row[handler.id].incident = None
      BY <2>6 DEF Attach, IInv, HandlerAgrees, TypeOK, HandlerType
    <3>2. CASE i = handler.id
      <4>1. row'[i] = [row[i] EXCEPT !.incident = handler.incident]
        BY <2>6, <2>t, <3>2 DEF Attach
      <4> QED
        BY <2>t, <3>1, <3>2, <4>1 DEF RowType
    <3>3. CASE i # handler.id
      BY <2>6, <2>t, <3>3 DEF Attach
    <3> QED
      BY <3>2, <3>3
  <2>7. ASSUME Unroutable \/ \E j \in Ids : TaskStep(j) \/ Progress(j)
        PROVE  row'[i].count = row[i].count /\ row'[i].incident = row[i].incident
    <3> PICK j, s : row' = [row EXCEPT ![j] = [row[j] EXCEPT !.status = s]]
      BY <2>7 DEF Unroutable, TaskStep, Progress, Begin, Complete, Fail, Saved
    <3> QED
      BY <2>t DEF RowType
  <2>8. CASE Tick
    <3>1. row'[i] \in {row[i], [row[i] EXCEPT
                                 !.age = Older(row[i].age, DedupWindow)]}
      BY <2>8 DEF Tick
    <3> QED
      BY <2>2, <2>t, <3>1 DEF RowType
  <2>10. CASE Restart
    <3>1. row'[i] \in {row[i], [row[i] EXCEPT !.status = "failed"]}
      BY <2>10 DEF Restart, Swept
    <3> QED
      BY <2>2, <2>t, <3>1 DEF RowType
  <2>9. CASE UNCHANGED row
    BY <2>9, <2>1
  <2> QED
    BY <2>1, <2>2, <2>3, <2>4, <2>5, <2>6, <2>7, <2>8, <2>9, <2>10
       DEF Next, HandlerStep, New, ManualRequest, Receive, Close, Correlate,
           Uncorrelated, Respond, Abort, vars
<1> QED
  BY <1>1, InvariantHolds, PTL DEF Spec, IngestFieldsKept

=============================================================================
