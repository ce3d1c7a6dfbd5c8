--------------------------- MODULE AlertPipeline ---------------------------
(***************************************************************************)
(* Alert ingestion: POST /api/alerts/webhook and /manual of                *)
(* ui/backend/routers/alerts.py, the background task that investigates     *)
(* (orchestrate_investigation over orchestrator/engine.py), and the tables *)
(* investigations and incidents of ui/backend/db.py.                       *)
(*                                                                         *)
(* The webhook handler contains no await that yields, so no task of the    *)
(* event loop runs inside it; but each of its database calls commits by    *)
(* itself, so an exception or a crash keeps the calls made so far.  The    *)
(* tasks it added start only once it has answered.  A task yields at its   *)
(* tool and model calls; what it does between two of them is one action.   *)
(*                                                                         *)
(*   row[i]       the row of investigations: the alert (its fingerprint),  *)
(*                status, age since created_at, occurrence_count,          *)
(*                incident_id and mttr_seconds                             *)
(*   incident[c]  the row of incidents: its workload, the ages of          *)
(*                last_active_at and opened_at, and whether it is closed   *)
(*   task[i]      the background task: none, queued or running             *)
(*   handler      the request in progress: where it is, the row and the    *)
(*                incident it is about, and the tasks it has added         *)
(*                                                                         *)
(* A silenced delivery, and a resolved one that finds no open row, change  *)
(* none of this and take no step.  Ages saturate just past the largest     *)
(* window they are compared with.                                          *)
(***************************************************************************)
EXTENDS Integers, FiniteSets

CONSTANTS
    Ids,                \* investigation ids
    Incidents,          \* incident ids
    Alerts,             \* fingerprints delivered to the webhook
    Workloads,          \* (namespace, workload) pairs
    WorkloadOf,         \* the pair each alert's labels give, or None
    Manual,             \* the alert of a manual request
    None,
    DedupWindow,        \* find_open_investigation's within_hours
    CorrelationWindow,  \* alert_correlation_window_minutes
    IncidentLifetime,   \* alert_incident_max_lifetime_hours
    Faults,             \* whether database calls may raise
    MaxCount,           \* bound: deliveries counted on one row
    MaxRestarts         \* bound: restarts of the process

ASSUME AlertAssumption ==
    /\ WorkloadOf \in [Alerts -> Workloads \cup {None}]
    /\ Manual \notin Alerts
    /\ None \notin Ids \cup Incidents \cup Workloads \cup Alerts \cup {Manual}
    /\ None \notin Nat
    /\ DedupWindow \in Nat /\ CorrelationWindow \in Nat
    /\ IncidentLifetime \in Nat
    /\ MaxCount \in Nat \ {0} /\ MaxRestarts \in Nat
    /\ Faults \in BOOLEAN

VARIABLES row, incident, task, handler, restarts

vars == <<row, incident, task, handler, restarts>>

Open == {"received", "running"}

Terminal == {"completed", "failed", "resolved", "needs_config"}

NoRow == [alert |-> None, status |-> "absent", age |-> 0, count |-> 0,
          incident |-> None, mttr |-> None]

(* An insert that leaves the count to a default of zero. *)
BugNewRow(a) == [alert |-> a, status |-> "received", age |-> 0, count |-> 0,
                 incident |-> None, mttr |-> None]

NewRow(a) == [alert |-> a, status |-> "received", age |-> 0, count |-> 1,
              incident |-> None, mttr |-> None]

NoIncident == [workload |-> None, idle |-> 0, opened |-> 0, closed |-> FALSE]

NewIncident(w) == [workload |-> w, idle |-> 0, opened |-> 0, closed |-> FALSE]

Idle == [at |-> "idle", id |-> None, incident |-> None, added |-> {}]

Init ==
    /\ row = [i \in Ids |-> NoRow]
    /\ incident = [c \in Incidents |-> NoIncident]
    /\ task = [i \in Ids |-> "none"]
    /\ handler = Idle
    /\ restarts = 0

-----------------------------------------------------------------------------
(* Lookups.                                                                *)

Live(i) == row[i].status \in Open /\ row[i].age <= DedupWindow

(* The query without its bound on age. *)
BugOpenRows(a) == {i \in Ids : row[i].alert = a /\ row[i].status \in Open}

(* The query that only looks at investigations already started. *)
BugRunningRows(a) ==
    {i \in Ids : row[i].alert = a /\ Live(i) /\ row[i].status = "running"}

(* The open rows of the last 24 hours. *)
OpenRows(a) == {i \in Ids : row[i].alert = a /\ Live(i)}

(* find_open_investigation: the newest of them. *)
FindOpen(a) ==
    {i \in OpenRows(a) : \A j \in OpenRows(a) : row[i].age <= row[j].age}

Active(c) ==
    /\ ~incident[c].closed
    /\ incident[c].idle <= CorrelationWindow
    /\ incident[c].opened <= IncidentLifetime

(* The query with an exclusive bound on last_active_at. *)
BugFindIncident(w) ==
    {c \in Incidents : incident[c].workload = w /\ Active(c)
                         /\ incident[c].idle < CorrelationWindow}

(* find_or_open_incident's query. *)
FindIncident(w) == {c \in Incidents : incident[c].workload = w /\ Active(c)}

-----------------------------------------------------------------------------
(* The webhook handler.                                                    *)

Receive ==
    /\ handler.at = "idle"
    /\ handler' = [Idle EXCEPT !.at = "ready"]
    /\ UNCHANGED <<row, incident, task, restarts>>

(* A resolved delivery that matches an open row. *)
AlertResolved(a) ==
    /\ handler.at = "ready"
    /\ \E i \in FindOpen(a) :
         /\ row' = [row EXCEPT ![i].status = "resolved",
                               ![i].mttr = row[i].age]
         /\ handler' = IF row[i].incident = None THEN handler
                       ELSE [handler EXCEPT !.at = "closing",
                                            !.incident = row[i].incident]
    /\ UNCHANGED <<incident, task, restarts>>

(* Settled once any of the incident's rows is over. *)
BugSettled(c) ==
    \E i \in Ids : row[i].incident = c /\ row[i].status \notin Open

(* The count of close_incident_if_settled: some row, and none open. *)
Settled(c) ==
    /\ \E i \in Ids : row[i].incident = c
    /\ \A i \in Ids : row[i].incident = c => row[i].status \notin Open

(* close_incident_if_settled, or its exception, which is swallowed. *)
Close ==
    /\ handler.at = "closing"
    /\ \/ /\ Settled(handler.incident)
          /\ incident' = [incident EXCEPT ![handler.incident].closed = TRUE]
       \/ /\ ~Settled(handler.incident) \/ Faults
          /\ UNCHANGED incident
    /\ handler' = [handler EXCEPT !.at = "ready", !.incident = None]
    /\ UNCHANGED <<row, task, restarts>>

(* A firing delivery of an alert that has an open row. *)
Recur(a) ==
    /\ handler.at = "ready"
    /\ \E i \in FindOpen(a) :
         /\ row[i].count < MaxCount
         /\ row' = [row EXCEPT ![i].count = @ + 1]
    /\ UNCHANGED <<incident, task, handler, restarts>>

(* A firing delivery of an alert that has none: save the new row. *)
New(a, i) ==
    /\ handler.at = "ready"
    /\ OpenRows(a) = {}
    /\ row[i].status = "absent"
    /\ row' = [row EXCEPT ![i] = NewRow(a)]
    /\ handler' = [handler EXCEPT !.at = "saved", !.id = i]
    /\ UNCHANGED <<incident, task, restarts>>

(* The new row's task is added to the request; a webhook goes on to its     *)
(* next alert, a manual request answers.                                    *)
Added ==
    [Idle EXCEPT !.at = IF row[handler.id].alert = Manual THEN "answering"
                        ELSE "ready",
                 !.added = handler.added \cup {handler.id}]

(* The alert's cluster label has no usable row in the registry: the row is  *)
(* marked and no task is added.  A manual request ends with a 400.          *)
Unroutable ==
    /\ handler.at = "saved"
    /\ row' = [row EXCEPT ![handler.id].status = "needs_config"]
    /\ handler' = IF row[handler.id].alert = Manual THEN Idle
                  ELSE [handler EXCEPT !.at = "ready", !.id = None]
    /\ UNCHANGED <<incident, task, restarts>>

(* correlation_key of a webhook alert names a namespace and a workload. *)
Groupable(i) == row[i].alert \in Alerts /\ WorkloadOf[row[i].alert] # None

(* find_or_open_incident for the alert's workload. *)
Correlate ==
    /\ handler.at = "saved"
    /\ Groupable(handler.id)
    /\ LET w == WorkloadOf[row[handler.id].alert] IN
       \/ \E c \in FindIncident(w) :
            /\ incident' = [incident EXCEPT ![c].idle = 0]
            /\ handler' = [handler EXCEPT !.at = "found", !.incident = c]
       \/ /\ FindIncident(w) = {}
          /\ \E c \in Incidents :
               /\ incident[c].workload = None
               /\ incident' = [incident EXCEPT ![c] = NewIncident(w)]
               /\ handler' = [handler EXCEPT !.at = "found", !.incident = c]
    /\ UNCHANGED <<row, task, restarts>>

(* attach_to_incident, and the task. *)
Attach ==
    /\ handler.at = "found"
    /\ row' = [row EXCEPT ![handler.id].incident = handler.incident]
    /\ handler' = Added
    /\ UNCHANGED <<incident, task, restarts>>

(* A manual request or labels that name no workload, or a correlation that  *)
(* raised: the task only.                                                   *)
Uncorrelated ==
    /\ \/ handler.at = "saved" /\ ~Groupable(handler.id)
       \/ handler.at \in {"saved", "found"} /\ Faults
    /\ handler' = Added
    /\ UNCHANGED <<row, incident, task, restarts>>

(* POST /manual: save the row; there is no look for an open one. *)
ManualRequest(i) ==
    /\ handler.at = "idle"
    /\ row[i].status = "absent"
    /\ row' = [row EXCEPT ![i] = NewRow(Manual)]
    /\ handler' = [Idle EXCEPT !.at = "saved", !.id = i]
    /\ UNCHANGED <<incident, task, restarts>>

(* Only the last task added is kept. *)
BugRespond ==
    /\ handler.at \in {"ready", "answering"}
    /\ \/ handler.added = {} /\ UNCHANGED task
       \/ \E i \in handler.added : task' = [task EXCEPT ![i] = "queued"]
    /\ handler' = Idle
    /\ UNCHANGED <<row, incident, restarts>>

(* The response is sent, and the tasks it carries may start. *)
Respond ==
    /\ handler.at \in {"ready", "answering"}
    /\ task' = [i \in Ids |-> IF i \in handler.added THEN "queued"
                              ELSE task[i]]
    /\ handler' = Idle
    /\ UNCHANGED <<row, incident, restarts>>

(* An exception nothing catches: a 500, which carries no tasks. *)
Abort ==
    /\ Faults
    /\ handler.at # "idle"
    /\ handler' = Idle
    /\ UNCHANGED <<row, incident, task, restarts>>

-----------------------------------------------------------------------------
(* The investigation task.                                                 *)

(* An upsert that rewrites the whole row from the document. *)
BugSaved(i, s) ==
    [row EXCEPT ![i].status = s, ![i].count = 1, ![i].incident = None]

(* SqliteInvestigationRepository.save of an existing row: the columns that  *)
(* ingestion owns are kept, the status is whatever the task last set.       *)
Saved(i, s) == [row EXCEPT ![i].status = s]

(* From the start to the first tool or model call. *)
Begin(i) ==
    /\ handler.at = "idle" /\ task[i] = "queued"
    /\ task' = [task EXCEPT ![i] = "running"]
    /\ row' = Saved(i, "running")
    /\ UNCHANGED <<incident, handler, restarts>>

(* A tool answered: the evidence is saved, and the status with it. *)
Progress(i) ==
    /\ handler.at = "idle" /\ task[i] = "running"
    /\ row' = Saved(i, "running")
    /\ UNCHANGED <<incident, task, handler, restarts>>

(* The root cause is written. *)
Complete(i) ==
    /\ handler.at = "idle" /\ task[i] = "running"
    /\ task' = [task EXCEPT ![i] = "none"]
    /\ row' = Saved(i, "completed")
    /\ UNCHANGED <<incident, handler, restarts>>

(* The exception handler that logs and leaves the row alone. *)
BugFail(i) ==
    /\ handler.at = "idle" /\ task[i] \in {"queued", "running"}
    /\ task' = [task EXCEPT ![i] = "none"]
    /\ UNCHANGED <<row, incident, handler, restarts>>

(* No usable cluster, or any exception. *)
Fail(i) ==
    /\ handler.at = "idle" /\ task[i] \in {"queued", "running"}
    /\ task' = [task EXCEPT ![i] = "none"]
    /\ row' = Saved(i, "failed")
    /\ UNCHANGED <<incident, handler, restarts>>

-----------------------------------------------------------------------------
(* The environment.                                                        *)

Swept ==
    [i \in Ids |-> IF row[i].status = "running"
                   THEN [row[i] EXCEPT !.status = "failed"] ELSE row[i]]

(* The process stops at any point and starts again: its tasks are gone, and *)
(* sweep_orphaned_investigations runs before any request is served.         *)
Restart ==
    /\ restarts < MaxRestarts
    /\ restarts' = restarts + 1
    /\ task' = [i \in Ids |-> "none"]
    /\ handler' = Idle
    /\ row' = Swept
    /\ UNCHANGED incident

Older(age, last) == IF age > last THEN age ELSE age + 1

Tick ==
    /\ row' = [i \in Ids |-> IF row[i].status = "absent" THEN row[i]
                ELSE [row[i] EXCEPT !.age = Older(@, DedupWindow)]]
    /\ incident' = [c \in Incidents |->
                     IF incident[c].workload = None THEN incident[c]
                     ELSE [incident[c] EXCEPT
                             !.idle = Older(@, CorrelationWindow),
                             !.opened = Older(@, IncidentLifetime)]]
    /\ UNCHANGED <<task, handler, restarts>>

HandlerStep == Close \/ Unroutable \/ Correlate \/ Attach \/ Uncorrelated

TaskStep(i) == Begin(i) \/ Complete(i) \/ Fail(i)

Next ==
    \/ Receive \/ HandlerStep \/ Respond \/ Abort \/ Restart \/ Tick
    \/ \E a \in Alerts : AlertResolved(a) \/ Recur(a)
    \/ \E a \in Alerts, i \in Ids : New(a, i)
    \/ \E i \in Ids : ManualRequest(i) \/ TaskStep(i) \/ Progress(i)

Spec == Init /\ [][Next]_vars

(* The loop's ready queue is first in, first out, a handler that has begun  *)
(* runs to its end, and every tool and model call has a timeout.            *)
Fairness ==
    /\ WF_vars(HandlerStep) /\ WF_vars(Respond) /\ WF_vars(Tick)
    /\ \A i \in Ids : SF_vars(TaskStep(i))

FairSpec == Spec /\ Fairness

-----------------------------------------------------------------------------
(* Properties.                                                             *)

RowType ==
    [alert : Alerts \cup {Manual, None},
     status : Open \cup Terminal \cup {"absent"},
     age : 0..(DedupWindow + 1), count : 0..MaxCount,
     incident : Incidents \cup {None}, mttr : (0..DedupWindow) \cup {None}]

IncidentType ==
    [workload : Workloads \cup {None}, idle : 0..(CorrelationWindow + 1),
     opened : 0..(IncidentLifetime + 1), closed : BOOLEAN]

HandlerType ==
    [at : {"idle", "ready", "saved", "found", "closing", "answering"},
     id : Ids \cup {None}, incident : Incidents \cup {None},
     added : SUBSET Ids]

(* Type invariant: every variable has its type, a row exists with a count   *)
(* of at least one or not at all, what a request or a task works on has been *)
(* saved, and the handler has an investigation and an incident exactly where *)
(* the code has them in scope.                                               *)
TypeOK ==
    /\ row \in [Ids -> RowType]
    /\ incident \in [Incidents -> IncidentType]
    /\ task \in [Ids -> {"none", "queued", "running"}]
    /\ handler \in HandlerType
    /\ restarts \in 0..MaxRestarts
    /\ \A i \in Ids :
         IF row[i].status = "absent" THEN row[i] = NoRow
         ELSE row[i].alert # None /\ row[i].count > 0
    /\ \A i \in Ids :
         i = handler.id \/ i \in handler.added \/ task[i] # "none"
           => row[i].status # "absent"
    /\ handler.at \in {"saved", "found"} <=> handler.id # None
    /\ handler.at \in {"found", "closing"} <=> handler.incident # None

(* A row that says running has a task that runs, through faults, deliveries *)
(* that resolve it and restarts: the sweep's promise.  And a row for a       *)
(* cluster nobody can reach is never investigated: a task only exists for a  *)
(* row that is open, or that a resolved delivery closed under it.            *)
TaskMatchesRow ==
    \A i \in Ids :
        /\ row[i].status = "running" => task[i] = "running"
        /\ task[i] # "none" => row[i].status \in Open \cup {"resolved"}

(* Dedup: two open rows of one alert, both young enough to absorb its       *)
(* deliveries, exist only if one of them had been resolved and its task      *)
(* reopened it.  Neither a fault, a restart nor the window makes a second.   *)
DedupHolds ==
    \A i, j \in Ids :
        i # j /\ row[i].alert = row[j].alert /\ row[i].alert \in Alerts
            /\ Live(i) /\ Live(j)
        => row[i].mttr # None \/ row[j].mttr # None

(* Rows, tasks and deliveries agree: a running row has its task, and an      *)
(* alert has one live row.                                                   *)
RowsAreTracked == TypeOK /\ TaskMatchesRow /\ DedupHolds

(* Correlation: a workload has at most one incident that takes new alerts,  *)
(* however its window slides and whatever failed between opening it and      *)
(* attaching to it.                                                          *)
OneActiveIncident ==
    \A c, d \in Incidents :
        incident[c].workload # None /\ incident[c].workload = incident[d].workload
            /\ Active(c) /\ Active(d)
        => c = d

(* A closed incident stays settled: none of its investigations is open,     *)
(* except one that was resolved and that its own task has reopened.          *)
ClosedIsSettled ==
    \A i \in Ids : \A c \in Incidents :
        row[i].incident = c /\ incident[c].closed /\ row[i].status \in Open
        => row[i].mttr # None

(* Incidents from both ends: one takes a workload's alerts, and a closed one *)
(* is over.                                                                  *)
IncidentsHold == OneActiveIncident /\ ClosedIsSettled

(* What ingestion owns survives the task's saves: a count never falls and   *)
(* an investigation never leaves its incident.                               *)
IngestFieldsKept ==
    [][\A i \in Ids :
        /\ row'[i].count >= row[i].count
        /\ row[i].incident # None => row'[i].incident = row[i].incident]_vars

(* No row absorbs an alert's deliveries for ever, not even one whose task   *)
(* was lost: again and again a delivery would be investigated afresh.        *)
AlertNeverMuted == \A a \in Alerts : []<>(OpenRows(a) = {})

(* Without faults, every row that was saved reaches a terminal status, but  *)
(* for those whose task a restart lost.                                      *)
RowSettles ==
    \A i \in Ids : row[i].status # "absent" ~>
                       row[i].status \in Terminal \/ restarts > 0

(* No alert is muted for ever and no row waits for ever.                     *)
AlertsSettle == AlertNeverMuted /\ RowSettles

=============================================================================
