---------------------------- MODULE DesktopAlerts ----------------------------
(***************************************************************************)
(* Alert notifications on the desktop: the AlertPoller thread of           *)
(* desktop_alerts.py, the settings and notifications endpoints of          *)
(* routers/desktop.py that wake and drain it, and the shell's notifier     *)
(* loop (start_notifier in desktop/src-tauri/src/main.rs).                 *)
(*                                                                         *)
(*   firing       the alerts Alertmanager reports                          *)
(*   notifying    notifications_enabled, with a URL                        *)
(*   poller       where the polling thread is; raw what it has fetched     *)
(*   primed       a poll has succeeded since notifications were enabled    *)
(*   seen, queue  the remembered fingerprints and the announcements        *)
(*   inHand       what the shell has drained and not shown yet             *)
(* History, since the launch: shown[a] counts the notifications of an alert *)
(* that has not been forgotten; forgotten are the alerts evicted from seen; *)
(* backlog those remembered without being announced; heard[a]: a has been  *)
(* announced since it last started firing.                                 *)
(***************************************************************************)
EXTENDS Naturals, FiniteSets, Sequences, SequencesExt

CONSTANTS Alerts,
    MaxQueued,       \* MAX_QUEUED
    MaxRemembered    \* MAX_REMEMBERED

ASSUME AlertsAssumption ==
    /\ MaxQueued \in Nat \ {0}
    /\ MaxRemembered \in Nat \ {0}
    /\ IsFiniteSet(Alerts)

VARIABLES firing, notifying, poller, raw, primed, seen, queue, inHand,
          shown, backlog, forgotten, heard

alertsVars == <<firing, notifying, poller, raw, primed, seen, queue, inHand,
                shown, backlog, forgotten, heard>>
memoryVars == <<primed, seen, queue, shown, backlog, forgotten, heard>>

AlertsInit ==
    /\ firing = {}
    /\ notifying = FALSE
    /\ poller = "checking"
    /\ raw = <<>>
    /\ primed = FALSE
    /\ seen = <<>>
    /\ queue = <<>>
    /\ inHand = <<>>
    /\ shown = [a \in Alerts |-> 0]
    /\ backlog = {} /\ forgotten = {}
    /\ heard = [a \in Alerts |-> FALSE]

-----------------------------------------------------------------------------
(* The cluster and the user. *)

Fire(a) ==
    /\ a \notin firing
    /\ firing' = firing \cup {a}
    /\ heard' = [heard EXCEPT ![a] = FALSE]
    /\ UNCHANGED <<notifying, poller, raw, primed, seen, queue, inHand, shown, backlog, forgotten>>

Subside(a) ==
    /\ a \in firing
    /\ firing' = firing \ {a}
    /\ UNCHANGED <<notifying, poller, raw, inHand, memoryVars>>

(* A settings change wakes the poller, unless it is refused; the poller is *)
(* polling or about to when it is awake.                                   *)
Switch ==
    /\ notifying' = ~notifying
    /\ poller' = IF poller = "sleeping" THEN "checking" ELSE poller
    /\ UNCHANGED <<firing, raw, inHand, memoryVars>>

-----------------------------------------------------------------------------
(* The polling thread. *)

(* One turn of the loop: poll, or forget the primer. *)
Check ==
    /\ poller = "checking"
    /\ poller' = IF notifying THEN "fetching" ELSE "sleeping"
    /\ primed' = (primed /\ notifying)
    /\ UNCHANGED <<firing, notifying, raw, seen, queue, inHand, shown, backlog,
                   forgotten, heard>>

(* The ways Alertmanager may list a set of alerts. *)
Listings == [S \in SUBSET Alerts |-> SetToSeqs(S)]

(* The answer, in whatever order Alertmanager lists it. *)
Fetch ==
    /\ poller = "fetching"
    /\ raw' \in Listings[firing]
    /\ poller' = "ingesting"
    /\ UNCHANGED <<firing, notifying, inHand, memoryVars>>

FetchFails ==
    /\ poller = "fetching"
    /\ poller' = "sleeping"
    /\ UNCHANGED <<firing, notifying, raw, inHand, memoryVars>>

\* mutant: one more than the cap is kept
BugNewest(s, n) == IF Len(s) > n THEN SubSeq(s, Len(s) - n, Len(s)) ELSE s
(* What is kept when a bounded structure overflows. *)
Newest(s, n) == IF Len(s) > n THEN SubSeq(s, Len(s) - n + 1, Len(s)) ELSE s

(* _remember *)
Remembered(s, a) == Newest(Append(s, a), MaxRemembered)

\* mutant: the first alert of the first poll ends the priming
BugIngestOne(acc, a) ==
    IF a \in ToSet(acc.seen) THEN acc
    ELSE [seen |-> Remembered(acc.seen, a),
          fresh |-> IF primed \/ acc.seen # <<>> THEN Append(acc.fresh, a) ELSE acc.fresh]
\* mutant: a poll announces one alert
BugAnnounceOne(acc, a) ==
    IF a \in ToSet(acc.seen) THEN acc
    ELSE [seen |-> Remembered(acc.seen, a),
          fresh |-> IF primed /\ acc.fresh = <<>> THEN <<a>> ELSE acc.fresh]
(* One alert of a poll: known, remembered silently, or announced. *)
IngestOne(acc, a) ==
    IF a \in ToSet(acc.seen) THEN acc
    ELSE [seen |-> Remembered(acc.seen, a),
          fresh |-> IF primed THEN Append(acc.fresh, a) ELSE acc.fresh]

Ingested ==
    LET after[i \in 0..Len(raw)] ==
            IF i = 0 THEN [seen |-> seen, fresh |-> <<>>]
            ELSE IngestOne(after[i - 1], raw[i])
    IN  after[Len(raw)]

(* ingest, under the lock. *)
Ingest ==
    /\ poller = "ingesting"
    /\ LET new == Ingested
           known == ToSet(new.seen)
           told == ToSet(new.fresh)
       IN  /\ seen' = new.seen
           /\ queue' = Newest(queue \o new.fresh, MaxQueued)
           /\ backlog' = IF primed THEN backlog ELSE backlog \cup (known \ ToSet(seen))
           /\ forgotten' = forgotten \cup ((ToSet(seen) \cup ToSet(raw)) \ known)
                                   \cup (told \cap ToSet(seen))
           /\ heard' = [a \in Alerts |-> heard[a] \/ a \in told]
    /\ primed' = TRUE
    /\ raw' = <<>>
    /\ poller' = "sleeping"
    /\ UNCHANGED <<firing, notifying, inHand, shown>>

(* The interval has passed. *)
Wake ==
    /\ poller = "sleeping"
    /\ poller' = "checking"
    /\ UNCHANGED <<firing, notifying, raw, inHand, memoryVars>>

-----------------------------------------------------------------------------
(* The shell. *)

\* mutant: the queue is answered and kept until the shell acknowledges it
BugDrain ==
    /\ inHand = <<>> /\ queue # <<>>
    /\ inHand' = queue
    /\ UNCHANGED <<firing, notifying, poller, raw, memoryVars>>
(* Every fifteen seconds the notifier takes the whole queue. *)
Drain ==
    /\ inHand = <<>> /\ queue # <<>>
    /\ inHand' = queue
    /\ queue' = <<>>
    /\ UNCHANGED <<firing, notifying, poller, raw, primed, seen, shown, backlog,
                   forgotten, heard>>

(* The answer did not arrive, or could not be parsed: it is not repeated. *)
LoseAnswer ==
    /\ inHand # <<>>
    /\ inHand' = <<>>
    /\ UNCHANGED <<firing, notifying, poller, raw, memoryVars>>

Show ==
    /\ inHand # <<>>
    /\ shown' = IF Head(inHand) \in forgotten THEN shown
                ELSE [shown EXCEPT ![Head(inHand)] = @ + 1]
    /\ inHand' = Tail(inHand)
    /\ UNCHANGED <<firing, notifying, poller, raw, primed, seen, queue, backlog,
                   forgotten, heard>>

(* The app is closed and opened again: the poller starts from nothing. *)
Relaunch ==
    /\ poller' = "checking"
    /\ raw' = <<>>
    /\ primed' = FALSE
    /\ seen' = <<>>
    /\ queue' = <<>>
    /\ inHand' = <<>>
    /\ shown' = [a \in Alerts |-> 0]
    /\ backlog' = {} /\ forgotten' = {}
    /\ heard' = [a \in Alerts |-> FALSE]
    /\ UNCHANGED <<firing, notifying>>

AlertsNext ==
    \/ \E a \in Alerts : Fire(a) \/ Subside(a)
    \/ Switch \/ Relaunch
    \/ Check \/ Fetch \/ FetchFails \/ Ingest \/ Wake
    \/ Drain \/ LoseAnswer \/ Show

(* The thread never dies, every request has a timeout, and Alertmanager is *)
(* reachable again and again.                                              *)
PollerStep == Check \/ Ingest \/ Wake

AlertsFairness == WF_alertsVars(PollerStep) /\ SF_alertsVars(Fetch)

AlertsSpec == AlertsInit /\ [][AlertsNext]_alertsVars /\ AlertsFairness

-----------------------------------------------------------------------------
(* Properties. *)

\* Every variable of the notifications' model keeps its type.
AlertsTypeOK ==
    /\ firing \subseteq Alerts
    /\ notifying \in BOOLEAN /\ primed \in BOOLEAN
    /\ poller \in {"checking", "fetching", "ingesting", "sleeping"}
    /\ raw \in Seq(Alerts)
    /\ seen \in Seq(Alerts) /\ Len(seen) <= MaxRemembered
    /\ queue \in Seq(Alerts) /\ Len(queue) <= MaxQueued
    /\ inHand \in Seq(Alerts)
    /\ shown \in [Alerts -> Nat]
    /\ backlog \subseteq Alerts /\ forgotten \subseteq Alerts
    /\ heard \in [Alerts -> BOOLEAN]

Occurrences(s, a) == Cardinality({i \in DOMAIN s : s[i] = a})

\* Between two launches an alert that was never forgotten is notified at most
\* once, counting what is queued and what the shell holds, and never if it was
\* already firing when notifications were switched on, however often the shell
\* drains, loses an answer or the switch is flipped (ingest, drain, priming).
NotifiedOnce ==
    \A a \in Alerts \ forgotten :
        shown[a] + Occurrences(queue, a) + Occurrences(inHand, a)
            <= IF a \in backlog THEN 0 ELSE 1

\* An alert that nothing remembers and that fires while the poller is primed
\* is announced, unless it subsides or the poller is switched off or closed
\* first: no wake-up is missed and no failed poll hides it for good.
NewAlertAnnounced ==
    \A a \in Alerts :
        (a \in firing /\ a \notin ToSet(seen) /\ primed /\ notifying)
            ~> (heard[a] \/ a \notin firing \/ ~primed \/ ~notifying)

\* What the notifications endpoint promises: alerts that have started firing.
StartedIsAnnounced ==
    \A a \in Alerts :
        (a \in firing /\ ~heard[a] /\ a \notin backlog /\ primed /\ notifying)
            ~> (heard[a] \/ a \notin firing \/ ~primed \/ ~notifying)
=============================================================================
