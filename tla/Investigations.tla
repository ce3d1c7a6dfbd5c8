---------------------------- MODULE Investigations ----------------------------
(***************************************************************************)
(* The deterministic investigations over the read tools (mcp/k8s/          *)
(* wrappers.py, lines 1465 to 2128, 2434 to 2835 and 4283 to 4829).        *)
(*                                                                         *)
(* A container of a pod is <<"init", i>> or <<"main", i>>.  A log is the   *)
(* set of the marks a tool looks for in it ("line" when there is text at   *)
(* all).  Labels and selectors are sets of pairs.  `failed' is the set of  *)
(* requests that fail; every request but those that say so is read again   *)
(* at each call.                                                           *)
(***************************************************************************)
EXTENDS ClusterReads

------------------------------------------------------ (* investigate_pod *)

ModeOf(reason) ==
    CASE reason \in {"ImagePullBackOff", "ErrImagePull", "InvalidImageName"} -> "ImagePullBackOff"
      [] reason = "CrashLoopBackOff" -> "CrashLoopBackOff"
      [] OTHER -> "other"

Numbered(kind, statuses) == [i \in DOMAIN statuses |-> [id |-> <<kind, i>>, status |-> statuses[i]]]

\* A mutant: the phase is asked before the containers.
BugClassifyPodFailureMode(pod) ==
    LET stuck == SelectSeq(Numbered("init", pod.init) \o Numbered("main", pod.main),
                           LAMBDA c : c.status.state = "waiting" /\ ModeOf(c.status.reason) # "other")
    IN  IF pod.phase = "Pending" THEN [mode |-> "Pending", container |-> <<>>]
        ELSE IF stuck # <<>> THEN [mode |-> ModeOf(Head(stuck).status.reason), container |-> Head(stuck).id]
        ELSE [mode |-> "other", container |-> <<>>]

\* Init containers first; a container that waits for a known reason before the phase.
ClassifyPodFailureMode(pod) ==
    LET stuck == SelectSeq(Numbered("init", pod.init) \o Numbered("main", pod.main),
                           LAMBDA c : c.status.state = "waiting" /\ ModeOf(c.status.reason) # "other")
    IN  IF stuck # <<>> THEN [mode |-> ModeOf(Head(stuck).status.reason), container |-> Head(stuck).id]
        ELSE IF pod.phase = "Pending" THEN [mode |-> "Pending", container |-> <<>>]
        ELSE [mode |-> "other", container |-> <<>>]

\* The main containers that deserve a look: all but a ready one that runs and never ended.
ContainerStatusFindings(pod) ==
    Mapped(LAMBDA c : [container |-> c.id, restarts |-> c.status.restarts,
                       reason |-> IF c.status.reason # "" THEN c.status.reason ELSE c.status.last],
           SelectSeq(Numbered("main", pod.main), LAMBDA c :
               c.status.state # "running" \/ c.status.last # "" \/ c.status.restarts > 0 \/ ~c.status.ready))

\* A log that cannot be read is empty, whether kubectl failed or the request did.
LogOf(world, container, previous, failed) ==
    IF <<"logs", container, previous>> \in failed THEN {} ELSE world.logs[<<container, previous>>]

CollectContainerLogFindings(world, pod, primary, failed) ==
    LET own == ContainerStatusFindings(pod)
        all == IF \E i \in DOMAIN own : own[i].container = primary THEN own
               ELSE <<[container |-> primary, restarts |-> 0, reason |-> "selected_by_classification"]>> \o own
    IN  Mapped(LAMBDA f : f @@ [current  |-> LogOf(world, f.container, FALSE, failed),
                                previous |-> LogOf(world, f.container, TRUE, failed)], all)

\* Any failure of a request is read as an absence.
ServiceDependencyCheck(world, service, failed) ==
    LET subsets == IF <<"endpoints", service>> \in failed \/ service \notin DOMAIN world.endpoints THEN <<>>
                   ELSE world.endpoints[service]
    IN  [service |-> service, exists |-> service \in world.services /\ <<"service", service>> \notin failed,
         endpoints |-> subsets # <<>>, ready |-> ParsedEndpoints(subsets).ready]

Cause(kind, about) == [kind |-> kind, about |-> about]

NoCause == Cause("", <<>>)

DependencyCause(check, before) ==
    IF ~check.exists THEN Cause("missing_service", check.service)
    ELSE IF ~check.endpoints \/ check.ready = 0 THEN Cause("no_endpoints", check.service)
    ELSE before

\* A mutant: the first trouble is kept, and a trouble of the logs hides a dependency's.
BugBuildInvestigationEvidence(world, logs, findings, failed) ==
    [cause |-> IF "issue" \in logs THEN Cause("logs", <<"all">>) ELSE NoCause, checks |-> <<>>, secondary |-> <<>>,
     evidence |-> logs # {}]

\* The last dependency in trouble gives the cause; a conflict the logs name replaces it.  An
\* external host is not checked.  A container's excerpt is its previous log, or its current one.
BuildInvestigationEvidence(world, logs, findings, failed) ==
    LET inside == SelectSeq(world.hosts, LAMBDA h : h # "external")
        checks == Mapped(LAMBDA h : ServiceDependencyCheck(world, h, failed), inside)
        depend == FoldLeft(LAMBDA cause, check : DependencyCause(check, cause), NoCause, checks)
        Conflict(cause, f) == IF "issue" \in f.current \cup f.previous THEN Cause("logs", f.container) ELSE cause
        Excerpt(f) == IF f.previous # {} THEN f.previous ELSE f.current
    IN  [cause |-> FoldLeft(Conflict, IF "issue" \in logs THEN Cause("logs", <<"all">>) ELSE depend, findings),
         checks |-> checks,
         secondary |-> Mapped(LAMBDA f : f.container, SelectSeq(findings, LAMBDA f : "jmx" \in Excerpt(f))),
         evidence |-> world.hosts # <<>> \/ "issue" \in logs
                         \/ \E i \in DOMAIN findings : findings[i].reason # "" \/ findings[i].restarts > 0]

\* Only a pod that crashes has its logs read.  A describe that fails takes the whole
\* investigation with it; logs and events that fail do not.
InvestigatePod(world, pod, failed) ==
    LET class    == ClassifyPodFailureMode(pod)
        primary  == IF class.container # <<>> THEN class.container ELSE <<"main", 1>>
        crashing == class.mode = "CrashLoopBackOff"
        findings == IF crashing THEN CollectContainerLogFindings(world, pod, primary, failed) ELSE <<>>
        logs     == IF crashing THEN LogOf(world, primary, FALSE, failed) \cup LogOf(world, primary, TRUE, failed) ELSE {}
        built    == BuildInvestigationEvidence(world, logs, findings, failed)
    IN  IF <<"pod">> \in failed THEN [answer |-> "failed"]
        ELSE IF <<"describe">> \in failed THEN [answer |-> "raised"]
        ELSE [answer |-> "told", mode |-> class.mode, findings |-> findings, cause |-> built.cause, checks |-> built.checks,
              secondary |-> built.secondary, evidence |-> built.evidence \/ built.checks # <<>>,
              steps |-> <<"describe_pod">> \o (IF crashing THEN <<"get_pod_logs", "get_pod_logs_previous">> ELSE <<>>)
                           \o <<"get_events">> \o (IF findings # <<>> THEN <<"collect_container_log_findings">> ELSE <<>>)]

-------------------------------------------------- (* investigate_ingress *)

\* The backends of an ingress: those of its rules and the default one; unnamed ones are left out.
ParseIngress(ingress) ==
    SelectSeq(ingress.paths, LAMBDA s : s # "") \o (IF ingress.default = "" THEN <<>> ELSE <<ingress.default>>)

\* A service is asked for once.  A request that fails is read as a missing service.
BackendFinding(world, service, failed) ==
    IF service = "invalid" THEN "invalid_backend_service"
    ELSE IF service \notin world.services \/ {<<"service", service>>, <<"endpoints", service>>} \cap failed # {}
         THEN "missing_backend_service"
    ELSE IF ParsedEndpoints(world.endpoints[service]).ready = 0 THEN "no_ready_endpoints" ELSE ""

\* runner.run answers a missing secret with a non-zero exit, which nobody looks at: only a
\* request that raises is a missing secret.
SecretFound(world, secret, failed) == <<"secret", secret>> \notin failed

\* A mutant: a service named twice is judged by its first check alone only when that failed.
BugIngressFindings(world, ingress, failed) ==
    LET named == SelectSeq(ParseIngress(ingress), LAMBDA s : s # ingress.default)
    IN  {<<BackendFinding(world, s, failed), s>> : s \in {x \in ToSet(named) : BackendFinding(world, x, failed) # ""}}

IngressFindings(world, ingress, failed) ==
    {<<BackendFinding(world, s, failed), s>> :
        s \in {x \in ToSet(ParseIngress(ingress)) : BackendFinding(world, x, failed) # ""}}
      \cup {<<"missing_tls_secret", s>> : s \in {x \in ToSet(ingress.tls) : x # "" /\ ~SecretFound(world, x, failed)}}

InvestigateIngress(world, ingress, failed) ==
    LET findings == IF <<"ingress">> \in failed THEN {<<"ingress_not_found", "">>} ELSE IngressFindings(world, ingress, failed)
        backends == IF <<"ingress">> \in failed THEN <<>> ELSE SelectSeq(ParseIngress(ingress), LAMBDA s : s # "invalid")
    IN  [findings |-> findings,
         status   |-> IF \E f \in findings : f[1] # "missing_tls_secret" THEN "CRITICAL"
                      ELSE IF findings # {} THEN "DEGRADED" ELSE "HEALTHY",
         verified |-> Mapped(LAMBDA s : [service |-> s, exists |-> BackendFinding(world, s, failed) # "missing_backend_service",
                                         ready |-> IF BackendFinding(world, s, failed) = "missing_backend_service" THEN 0
                                                   ELSE ParsedEndpoints(world.endpoints[s]).ready], backends),
         secrets  |-> {[secret |-> s, exists |-> SecretFound(world, s, failed)] : s \in ToSet(ingress.tls) \ {""}}]

---------------------------------------- (* analyze_namespace, the graph *)

\* A kind that cannot be read is an empty list.
ListNamespaceResources(world, failed) ==
    [kind \in {"pods", "services", "workloads", "ingresses"} |-> IF <<kind>> \in failed THEN {} ELSE world[kind]]

\* A mutant: one pair in common is enough.
BugMatchesSelector(labels, selector) == selector \cap labels # {}

MatchesSelector(labels, selector) == selector # {} /\ selector \subseteq labels

ServiceEndpointCheck(world, resources, service, failed) ==
    [service  |-> service.name, selects |-> service.selector # {},
     matching |-> Cardinality({p \in resources.pods : MatchesSelector(p.labels, service.selector)}),
     ready    |-> LET subsets == world.endpoints[service.name]
                      slices  == world.slices[service.name]
                      unread  == <<"endpointslices", service.name>> \in failed
                  IN  /\ <<"endpoints", service.name>> \notin failed
                      /\ \/ GetEndpoints(subsets, slices, unread).has
                         \/ ParsedEndpoints(subsets).ready > 0
                         \/ ~unread /\ ParsedSlices(slices).ready > 0]

WorkloadUnavailable(w) == w.desired > 0 /\ w.ready < w.desired

\* Warnings of one reason and object are one group, which adds their counts up.
EventGroups(events) ==
    LET warnings == SelectSeq(events, LAMBDA e : e.type \in {"Warning", ""})
        keys == {<<warnings[i].reason, warnings[i].on>> : i \in DOMAIN warnings}
    IN  [key \in keys |-> FoldLeft(LAMBDA n, e : n + (IF e.count > 0 THEN e.count ELSE 1), 0,
                              SelectSeq(warnings, LAMBDA e : <<e.reason, e.on>> = key))]

AnalyzeNamespace(world, failed) ==
    LET resources == ListNamespaceResources(world, failed)
        checks    == {ServiceEndpointCheck(world, resources, s, failed) : s \in resources.services}
    IN  [unhealthy    |-> {p.name : p \in {x \in resources.pods : x.phase \notin {"Running", "Succeeded"} \/ ~x.ready}},
         unavailable  |-> {w.name : w \in {x \in resources.workloads : WorkloadUnavailable(x)}},
         groups       |-> EventGroups(IF <<"events">> \in failed THEN <<>> ELSE world.events),
         withoutReady |-> {c.service : c \in {x \in checks : x.selects /\ ~x.ready}},
         mismatched   |-> {c.service : c \in {x \in checks : x.selects /\ x.matching = 0}}]

\* The graph of a namespace is all or nothing, but for ingresses, which may be missing.
GetResourceGraph(world, failed) ==
    LET resources == ListNamespaceResources(world, failed)
        Edges(from, owners) == UNION {{<<<<from, o.name>>, <<"pod", p.name>>>> :
                                          p \in {x \in resources.pods : MatchesSelector(x.labels, o.selector)}} : o \in owners}
    IN  IF {<<"pods">>, <<"services">>, <<"workloads">>} \cap failed # {} THEN [success |-> FALSE, nodes |-> {}, edges |-> {}]
        ELSE [success |-> TRUE,
              nodes   |-> UNION {{<<k[2], o.name>> : o \in resources[k[1]]} :
                                 k \in {<<"workloads", "deploy">>, <<"services", "svc">>, <<"ingresses", "ing">>, <<"pods", "pod">>}},
              edges   |-> Edges("svc", resources.services) \cup Edges("deploy", resources.workloads)
                             \cup UNION {{<<<<"ing", i.name>>, <<"svc", s>>>> : s \in ToSet(i.paths) \ {""}} : i \in resources.ingresses}]

---------------------------------------------------- (* investigate_workload *)

\* A workload is healthy when it wants pods and has exactly those.
WorkloadSummary(w) == IF w.ready = w.desired /\ w.desired > 0 THEN "healthy" ELSE "unhealthy"

\* Pods and events that cannot be read are left out in silence.
InvestigateWorkload(world, w, failed) ==
    IF <<"workloads">> \in failed THEN [success |-> FALSE]
    ELSE [success |-> TRUE, health |-> WorkloadSummary(w),
          pods    |-> IF <<"pods">> \in failed THEN {} ELSE {p \in world.pods : MatchesSelector(p.labels, w.selector)},
          events  |-> IF <<"events">> \in failed THEN <<>> ELSE SelectSeq(world.events, LAMBDA e : e.on = w.name),
          steps   |-> {"get_workload"} \cup (IF w.selector # {} /\ <<"pods">> \notin failed THEN {"get_pods"} ELSE {})
                         \cup (IF <<"events">> \notin failed THEN {"get_events"} ELSE {})]

------------------------------------------------------- (* recent changes *)

\* The deployment controller keeps one ReplicaSet for each template a workload ever had, created
\* when the template first came; a return to a template takes the old one up again.
ReplicaSetsOf(history) ==
    LET first == SelectSeq([i \in DOMAIN history |-> i], LAMBDA i : \A j \in 1..(i - 1) : history[j].image # history[i].image)
    IN  [k \in DOMAIN first |-> [at |-> history[first[k]].at, image |-> history[first[k]].image, dated |-> history[first[k]].dated]]

NoChange == [at |-> 0, from |-> "", to |-> ""]

\* A mutant: the oldest is taken for the previous one.
BugDescribeRollout(replicasets, cutoff) ==
    LET dated  == SelectSeq(replicasets, LAMBDA r : r.dated)
        newest == CHOOSE i \in DOMAIN dated : \A j \in DOMAIN dated : dated[j].at <= dated[i].at
        oldest == CHOOSE i \in DOMAIN dated : \A j \in DOMAIN dated : dated[j].at >= dated[i].at
    IN  IF dated = <<>> THEN NoChange ELSE IF dated[newest].at < cutoff THEN NoChange
        ELSE [at |-> dated[newest].at, to |-> dated[newest].image,
              from |-> IF newest = oldest THEN "" ELSE dated[oldest].image]

\* The newest ReplicaSet against the one before it, if it is young enough.  One whose date
\* cannot be read is left out.
DescribeRollout(replicasets, cutoff) ==
    LET dated   == SelectSeq(replicasets, LAMBDA r : r.dated)
        Newest(s) == CHOOSE i \in DOMAIN s : \A j \in DOMAIN s : s[j].at < s[i].at \/ (s[j].at = s[i].at /\ i <= j)
        newest  == dated[Newest(dated)]
        earlier == SelectSeq(dated, LAMBDA r : r # newest)
    IN  IF dated = <<>> THEN NoChange ELSE IF newest.at < cutoff THEN NoChange
        ELSE [at |-> newest.at, to |-> newest.image, from |-> IF earlier = <<>> THEN "" ELSE earlier[Newest(earlier)].image]

GetRecentChanges(histories, now, window, failed) ==
    LET changes == SelectSeq([w \in DOMAIN histories |->
                       DescribeRollout(ReplicaSetsOf(histories[w]), now - window) @@ [workload |-> w]],
                       LAMBDA c : c.at > 0)
    IN  IF failed THEN [error |-> TRUE, changes |-> <<>>]
        ELSE [error |-> FALSE, changes |-> SortSeq(changes, LAMBDA a, b : a.at > b.at)]

----------------------------------------------------------- (* properties *)

\* The cause an investigation names is there: a service it calls missing is not in the namespace,
\* or was not to be read; one without endpoints has none ready; a conflict is in a log it read.
CauseIsThere(world, failed, out) ==
    out.answer = "told" =>
        LET About == out.cause.about
        IN  CASE out.cause.kind = "missing_service" -> About \notin world.services \/ <<"service", About>> \in failed
              [] out.cause.kind = "no_endpoints" -> \/ <<"endpoints", About>> \in failed
                                                    \/ ParsedEndpoints(world.endpoints[About]).ready = 0
              [] out.cause.kind = "logs" -> \E i \in DOMAIN out.findings : "issue" \in out.findings[i].current \cup out.findings[i].previous
              [] OTHER -> /\ \A i \in DOMAIN out.checks : out.checks[i].exists /\ out.checks[i].ready > 0
                          /\ \A i \in DOMAIN out.findings : "issue" \notin out.findings[i].current \cup out.findings[i].previous

\* A pod the listing calls crashing or without its image gets the playbook of that trouble,
\* however far it came; and a crashing pod has the logs of each of its troubled containers read.
PlaybookFits(pod, failed, out) ==
    LET listed == ParsedPod(pod).status
    IN  out.answer = "told" =>
            /\ listed.of \in {"init", "main"} /\ ModeOf(listed.is) # "other" => out.mode \in {"CrashLoopBackOff", "ImagePullBackOff"}
            /\ out.mode = "CrashLoopBackOff" =>
                  \A i \in DOMAIN pod.main : (~pod.main[i].ready \/ pod.main[i].restarts > 0)
                     => \E f \in DOMAIN out.findings : out.findings[f].container = <<"main", i>>
            /\ \A i, j \in DOMAIN out.findings : out.findings[i].container = out.findings[j].container => i = j

\* An ingress is called healthy only if each backend is there and ready; each backend service
\* that is not is told once, whatever else fails; only a failed request is told as an absence.
IngressIsJudged(world, ingress, failed, out) ==
    LET Backends == ToSet(ParseIngress(ingress))
        Serves(s) == s \in world.services /\ ParsedEndpoints(world.endpoints[s]).ready > 0
    IN  IF <<"ingress">> \in failed THEN out.status = "CRITICAL"
        ELSE /\ out.status # "CRITICAL" => \A s \in Backends : Serves(s)
             /\ \A s \in Backends : ~Serves(s) => \E f \in out.findings : f[2] = s
             /\ \A f \in out.findings : f[2] \in Backends /\ Serves(f[2])
                    => failed \cap {<<"service", f[2]>>, <<"endpoints", f[2]>>, <<"secret", f[2]>>} # {}
             /\ Len(out.verified) = Len(SelectSeq(ParseIngress(ingress), LAMBDA s : s # "invalid"))

ServedAnywhere(world, service) ==
    \/ ParsedEndpoints(world.endpoints[service]).ready > 0
    \/ \E i \in DOMAIN world.slices[service] : world.slices[service][i].ready = "true"

\* The summary of a namespace names a service for what it is: without ready endpoints, or with a
\* selector that matches nothing, unless the request that says so failed.
IssuesAreThere(world, failed, out) ==
    /\ \A s \in world.services :
          /\ s.name \in out.withoutReady =>
                <<"endpoints", s.name>> \in failed \/ ParsedEndpoints(world.endpoints[s.name]).ready = 0
          /\ (<<"services">> \notin failed /\ s.selector # {} /\ ~\E p \in world.pods : s.selector \subseteq p.labels)
                => s.name \in out.mismatched
          /\ s.name \in out.mismatched => <<"pods">> \in failed \/ ~\E p \in world.pods : s.selector \subseteq p.labels
          /\ (<<"services">> \notin failed /\ s.selector # {} /\ ~ServedAnywhere(world, s.name)) => s.name \in out.withoutReady
          /\ s.selector = {} => s.name \notin out.withoutReady \cup out.mismatched
    /\ \A w \in world.workloads : w.name \in out.unavailable => WorkloadSummary(w) = "unhealthy"
    /\ <<"events">> \notin failed =>
          MapThenSumSet(LAMBDA k : out.groups[k], DOMAIN out.groups)
             >= Len(SelectSeq(world.events, LAMBDA e : e.type = "Warning"))

\* An edge of the graph starts at a node of it, and ends at one unless an ingress names a service
\* that is not there; the graph and the summary agree on who is selected.
GraphIsSound(world, graph, out) ==
    /\ \A e \in graph.edges : e[1] \in graph.nodes /\ (e[2] \in graph.nodes \/ e[1][1] = "ing")
    /\ graph.success => \A s \in world.services :
          s.selector # {} => (s.name \in out.mismatched <=> ~\E e \in graph.edges : e[1] = <<"svc", s.name>>)

LastChange(history) == history[Len(history)]

\* Each change told is the coming of a template, from the one that came before it, newest first;
\* the latest change of a workload is told unless it returned to an earlier template.
ChangesAreTrue(histories, now, window, out) ==
    /\ \A i \in 1..(Len(out.changes) - 1) : out.changes[i].at >= out.changes[i + 1].at
    /\ \A i \in DOMAIN out.changes : out.changes[i].at >= now - window
    /\ \A w \in DOMAIN histories :
          LET h == histories[w]
              n == Len(h)
              anew == \A j \in 1..(n - 1) : h[j].image # h[n].image
          IN  (~out.error /\ h[n].at >= now - window /\ anew /\ (\A j \in 1..n : h[j].dated)) =>
                 \E i \in DOMAIN out.changes : /\ out.changes[i].workload = w
                                               /\ out.changes[i].at = h[n].at /\ out.changes[i].to = h[n].image
                                               /\ (n > 1 /\ \A j \in 1..(n - 2) : h[j].image # h[n - 1].image)
                                                     => out.changes[i].from = h[n - 1].image
=============================================================================
