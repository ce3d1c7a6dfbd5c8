--------------------------- MODULE HealthAnalysis ---------------------------
(***************************************************************************)
(* The rule-based health analyser (mcp/k8s/analyzer) and the parsers of    *)
(* kubectl's JSON it and the read tools share (mcp/k8s/parsers.py).        *)
(*                                                                         *)
(* A container status is [state, reason, last, restarts, ready]: state is  *)
(* "waiting", "running" or "terminated", reason the reason of that state   *)
(* ("" if it has none) and last the reason of lastState.terminated ("" if  *)
(* the container has no last state).  A pod is [ns, name, phase, main,     *)
(* init] with two sequences of container statuses.  Titles, advice and     *)
(* suggested commands of a finding are left out: a finding is what it is   *)
(* about and which rule speaks.                                            *)
(***************************************************************************)
EXTENDS Integers, FiniteSets, Sequences, SequencesExt

------------------------------------------------------------- (* parsers *)

Restarts(pod) == FoldLeft(LAMBDA n, c : n + c.restarts, 0, pod.main)

ReadyCount(pod) == Len(SelectSeq(pod.main, LAMBDA c : c.ready))

StuckReasons == {"CrashLoopBackOff", "ImagePullBackOff", "ErrImagePull",
                 "CreateContainerConfigError", "InvalidImageName", "RunContainerError"}

\* A container whose state replaces the phase "Running" in a listing.
Tells(pod, c) ==
    \/ c.state = "waiting" /\ c.reason \in StuckReasons
    \/ c.state = "terminated" /\ c.reason \in {"OOMKilled", "Error"} /\ Restarts(pod) > 0

\* The first telling container gives the status; a waiting init container overrides it.
EffectiveStatus(pod) ==
    LET telling == SelectSeq(pod.main, LAMBDA c : Tells(pod, c))
        initing == SelectSeq(pod.init, LAMBDA c : c.state = "waiting" /\ c.reason # "")
    IN  IF initing # <<>> THEN [of |-> "init", is |-> Head(initing).reason]
        ELSE IF telling # <<>> THEN [of |-> "main", is |-> Head(telling).reason]
        ELSE [of |-> "phase", is |-> pod.phase]

ParsedPod(pod) ==
    [ns |-> pod.ns, name |-> pod.name, phase |-> pod.phase, status |-> EffectiveStatus(pod),
     ready |-> ReadyCount(pod), of |-> Len(pod.main), restarts |-> Restarts(pod)]

\* A mutant: addresses that are not ready count.
BugParsedEndpoints(subsets) ==
    LET ready == FoldLeft(LAMBDA n, s : n + s.ready + s.notReady, 0, subsets)
    IN  [ready |-> ready, notReady |-> 0, has |-> ready > 0,
         hint |-> IF ready > 0 THEN "none" ELSE "no_endpoints"]

\* Endpoints: subsets of ready and of not ready addresses.
ParsedEndpoints(subsets) ==
    LET ready    == FoldLeft(LAMBDA n, s : n + s.ready, 0, subsets)
        notReady == FoldLeft(LAMBDA n, s : n + s.notReady, 0, subsets)
    IN  [ready |-> ready, notReady |-> notReady, has |-> ready > 0,
         hint |-> CASE ready > 0                  -> "none"
                    [] ready = 0 /\ notReady = 0  -> "no_endpoints"
                    [] OTHER                      -> "not_ready"]

\* EndpointSlices: an endpoint's conditions are TRUE, FALSE or absent ("nil"), and only an
\* explicit TRUE counts as ready.
ParsedSlices(endpoints) ==
    LET Those(cond, value) == Len(SelectSeq(endpoints, LAMBDA e : e[cond] = value))
    IN  [ready |-> Those("ready", "true"), notReady |-> Those("ready", "false"),
         serving |-> Those("serving", "true"), terminating |-> Those("terminating", "true"),
         has |-> Those("ready", "true") > 0,
         hint |-> CASE endpoints = <<>>                   -> "no_endpoints"
                    [] endpoints # <<>> /\ Those("ready", "true") = 0 -> "not_ready"
                    [] Those("ready", "true") > 0 /\ Those("terminating", "true") > 0
                                                          -> "terminating"
                    [] OTHER                              -> "none"]


\* A mutant: in the order they came.
BugParsedEvents(events) == SelectSeq(events, LAMBDA e : e.readable)

\* Events newest first; the sort is stable.  An item that cannot be read is left out.
ParsedEvents(events) ==
    LET whole == SelectSeq(events, LAMBDA e : e.readable)
        Newer(i, j) == \/ whole[i].last > whole[j].last
                       \/ whole[i].last = whole[j].last /\ i < j
        ranked == SetToSortSeq(DOMAIN whole, Newer)
    IN  [k \in DOMAIN ranked |-> whole[ranked[k]]]

------------------------------------------------------------ (* collector *)

AllKinds == {"pods", "events", "nodes", "services", "endpoints", "deployments", "pvcs"}

\* What a scope asks the cluster for.
KindsOf(scope) ==
    CASE scope = "cluster"   -> AllKinds
      [] scope = "namespace" -> AllKinds \ {"nodes"}
      [] scope = "workload"  -> AllKinds \ {"nodes", "pvcs"}
      [] scope = "pod"       -> {"pods", "events"}
      [] scope = "node"      -> {"nodes", "events"}

\* A request that fails leaves its list empty; the analysis goes on (_safe_run_json).
SafeRunJson(world, kind, failed) == IF kind \in failed THEN {} ELSE world[kind]

CollectEvidence(world, scope, failed) ==
    [kind \in AllKinds |->
        IF kind \in KindsOf(scope) THEN SafeRunJson(world, kind, failed) ELSE {}]

---------------------------------------------------------------- (* rules *)

Finding(rule, severity, object, part) ==
    [rule |-> rule, severity |-> severity, object |-> object, part |-> part]

\* Rules 1 to 3: an if/elif chain over the waiting reason.
WaitingRule(c) ==
    CASE c.state # "waiting"                                    -> {}
      [] c.reason = "CrashLoopBackOff"                          -> {"pod_waiting_crashloopbackoff"}
      [] c.reason \in {"ImagePullBackOff", "ErrImagePull"}      -> {"pod_waiting_image_pull"}
      [] c.reason \in {"CreateContainerConfigError", "CreateContainerError"}
                                                                -> {"pod_create_container_config_error"}
      [] OTHER                                                  -> {}

\* Rule 4 reads the current termination only when there is no last one.
OomRule(c) ==
    LET terminated == IF c.last # "" THEN c.last
                      ELSE IF c.state = "terminated" THEN c.reason ELSE ""
    IN  IF terminated = "OOMKilled" THEN {"pod_oomkilled"} ELSE {}


\* A mutant: one restart too late.
BugRestartRule(c, threshold) ==
    IF c.restarts > threshold /\ c.reason # "CrashLoopBackOff" THEN {"pod_high_restart_count"} ELSE {}

\* Rule 5 compares the waiting reason, not the termination's.
RestartRule(c, threshold) ==
    IF c.restarts >= threshold /\ ~(c.state = "waiting" /\ c.reason \in {"CrashLoopBackOff", "OOMKilled"})
    THEN {"pod_high_restart_count"} ELSE {}

PodRules(pods, threshold) ==
    UNION {LET statuses == pod.main \o pod.init
           IN  UNION {LET c == statuses[i]
                          At(rules, severity) ==
                             {Finding(r, severity, <<pod.ns, pod.name>>, i) : r \in rules}
                      IN  At(WaitingRule(c), "critical") \cup At(OomRule(c), "critical")
                             \cup At(RestartRule(c, threshold), "warning") :
                      i \in DOMAIN statuses} :
           pod \in pods}


\* A mutant: a pod is stuck when no event says it was scheduled.
BugSchedulingRule(pods, events) ==
    {Finding("pod_pending_failed_scheduling", "warning", <<pod.ns, pod.name>>, 0) :
        pod \in {p \in pods : p.phase = "Pending" /\ ~\E e \in events : e.name = p.name}}

\* Events are matched by the name of their object alone, not by its namespace or kind.
SchedulingRule(pods, events) ==
    {Finding("pod_pending_failed_scheduling", "warning", <<pod.ns, pod.name>>, 0) :
        pod \in {p \in pods : p.phase = "Pending" /\
                    \E e \in events : e.name = p.name /\ e.reason \in {"FailedScheduling", "FailedBinding"}}}

NodeRules(nodes) ==
    {Finding("node_not_ready", "critical", <<"", n.name>>, 0) : n \in {m \in nodes : m.ready = "no"}}
        \cup UNION {{Finding("node_pressure", "warning", <<"", n.name>>, c) : c \in DOMAIN n.pressures} : n \in nodes}

ServiceRule(services, endpoints) ==
    {Finding("service_no_endpoints", "warning", <<s.ns, s.name>>, 0) :
        s \in {t \in services : /\ t.type # "ExternalName" /\ t.selector
                                /\ ~\E e \in endpoints : e.ns = t.ns /\ e.name = t.name /\ e.ready > 0}}

RolloutRules(deployments, pvcs) ==
    {Finding("rollout_progress_deadline_exceeded", "critical", <<d.ns, d.name>>, 0) : d \in {x \in deployments : x.stuck}}
        \cup {Finding("pvc_pending", "warning", <<v.ns, v.name>>, 0) : v \in {x \in pvcs : x.phase = "Pending"}}

RunHealthAnalyzer(world, scope, failed, threshold) ==
    LET ev == CollectEvidence(world, scope, failed)
        findings == PodRules(ev.pods, threshold) \cup SchedulingRule(ev.pods, ev.events)
                       \cup NodeRules(ev.nodes) \cup ServiceRule(ev.services, ev.endpoints)
                       \cup RolloutRules(ev.deployments, ev.pvcs)
    IN  [findings |-> findings, count |-> Cardinality(findings),
         summary  |-> [s \in {"critical", "warning", "info"} |->
                          Cardinality({f \in findings : f.severity = s})]]

----------------------------------------------------------- (* properties *)

\* The listing and the analyser classify a pod independently (parsers.py, rules.py).  What the
\* listing calls crash looping, an image pull failure or a configuration error is a critical
\* finding, and a pod listed as OOMKilled is one unless an earlier termination hides it.
ListingAgrees(pod, listed, out) ==
    (listed.status.of = "main" /\ listed.status.is \in {"CrashLoopBackOff", "ImagePullBackOff",
        "ErrImagePull", "CreateContainerConfigError", "OOMKilled"})
    => \/ \E f \in out.findings : f.severity = "critical" /\ f.object = <<pod.ns, pod.name>>
       \/ /\ listed.status.is = "OOMKilled"
          /\ \E i \in DOMAIN pod.main : pod.main[i].last \notin {"", "OOMKilled"}

\* A container that has been restarted too often is never passed over in silence, whatever it
\* does now.
RestartsAreNoticed(pod, out, threshold) ==
    \A i \in DOMAIN pod.main : pod.main[i].restarts >= threshold
        => \E f \in out.findings : f.part = i /\ f.object = <<pod.ns, pod.name>>

\* Requests that fail hide findings and never add one, but for the service rule, which reads a
\* failed Endpoints request as a service without endpoints.
FailuresOnlyHide(world, scope, failed, out) ==
    LET all == RunHealthAnalyzer(world, scope, {}, 5).findings
    IN  \A f \in out.findings \ all : f.rule = "service_no_endpoints" /\ "endpoints" \in failed

\* A service's endpoints read through Endpoints and through EndpointSlices: both say whether
\* there is a ready one, and name the same trouble, unless a slice leaves a condition open.
EndpointViewsAgree(endpoints, slices, subsets) ==
    /\ slices.has <=> subsets.has
    /\ (\A i \in DOMAIN endpoints : endpoints[i].ready # "nil") =>
          \/ slices.hint = subsets.hint
          \/ slices.hint = "terminating" /\ subsets.hint = "none"

\* Events are listed newest first, equals in the order they came, and only unreadable ones go.
NewestFirst(events, out) ==
    /\ \A i, j \in DOMAIN out : i < j => out[i].last >= out[j].last
    /\ \A n \in {events[i].last : i \in DOMAIN events} :
          Len(SelectSeq(out, LAMBDA e : e.last = n))
             = Len(SelectSeq(events, LAMBDA e : e.last = n /\ e.readable))
=============================================================================
