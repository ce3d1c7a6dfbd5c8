----------------------------- MODULE ClusterReads -----------------------------
(***************************************************************************)
(* The read tools over one kubectl (mcp/k8s/wrappers.py, lines 47 to 1462  *)
(* and 2131 to 2431).                                                      *)
(*                                                                         *)
(* A world gives, for each kind, the sequence of objects each namespace    *)
(* holds, the namespaces in the cluster's order.  `failed' is the set of   *)
(* requests <<kind, namespace>> that fail, "*" standing for all            *)
(* namespaces.  A query is the set of names that contain it.  A pod is a   *)
(* pod of HealthAnalysis; what a tool only copies is left out.             *)
(***************************************************************************)
EXTENDS HealthAnalysis

InOrder(world, kind) == FlattenSeq([i \in DOMAIN world.order |-> world[kind][world.order[i]]])

Mapped(f(_), s) == [i \in DOMAIN s |-> f(s[i])]

------------------------------------------------------- (* find_workload *)

\* One request for all namespaces, or one for each; a failed one leaves nothing and is not told.
SearchAllNamespaces(world, kind, failed) ==
    IF <<kind, "*">> \in failed THEN <<>> ELSE InOrder(world, kind)

SearchPerNamespace(world, kind, namespaces, failed) ==
    FlattenSeq([i \in DOMAIN namespaces |->
        IF <<kind, namespaces[i]>> \in failed THEN <<>> ELSE world[kind][namespaces[i]]])

\* A mutant: only the namespaces of the environment are searched.
BugPrioritized(namespaces, hint) ==
    IF hint = {} THEN namespaces ELSE SelectSeq(namespaces, LAMBDA ns : ns \in hint)

\* The namespaces that carry the environment's name first.
Prioritized(namespaces, hint) ==
    SelectSeq(namespaces, LAMBDA ns : ns \in hint) \o SelectSeq(namespaces, LAMBDA ns : ns \notin hint)

AllStatuses(pod) == pod.init \o pod.main

AllRestarts(pod) == FoldLeft(LAMBDA n, c : n + c.restarts, 0, AllStatuses(pod))

\* The search looks at the init containers too, in one pass over all the containers.
FoundStatus(pod) ==
    LET telling == SelectSeq(AllStatuses(pod), LAMBDA c :
            \/ c.state = "waiting" /\ c.reason \in {"CrashLoopBackOff", "ImagePullBackOff", "ErrImagePull",
                                                    "CreateContainerConfigError", "OOMKilled"}
            \/ c.state = "terminated" /\ c.reason \in {"OOMKilled", "Error"} /\ AllRestarts(pod) > 0)
    IN  IF telling # <<>> THEN Head(telling).reason ELSE pod.phase

FindWorkload(world, query, allowed, hint, failed) ==
    LET Of(kind) == SelectSeq(IF allowed = <<"*">> THEN SearchAllNamespaces(world, kind, failed)
                              ELSE SearchPerNamespace(world, kind, Prioritized(allowed, hint), failed),
                              LAMBDA item : item.name \in query)
        Pod(p)   == [ns |-> p.ns, name |-> p.name, status |-> FoundStatus(p), restarts |-> AllRestarts(p),
                     ready |-> ReadyCount(p), of |-> Len(p.main)]
    IN  [deployments |-> Of("deployments"), services |-> Of("services"), pods |-> Mapped(Pod, Of("pods"))]

------------------------------------------------------------ (* get_pods *)

\* kubectl's table: the first container with a reason gives the status, a waiting init
\* container overrides it.
Printed(pod) ==
    LET initing == SelectSeq(pod.init, LAMBDA c : c.state = "waiting")
        telling == SelectSeq(pod.main, LAMBDA c : c.reason # "")
    IN  [ns |-> pod.ns, name |-> pod.name, ready |-> ReadyCount(pod), of |-> Len(pod.main), restarts |-> Restarts(pod),
         status |-> IF initing # <<>> THEN [of |-> "init", is |-> Head(initing).reason]
                    ELSE IF telling # <<>> THEN [of |-> "main", is |-> Head(telling).reason]
                    ELSE [of |-> "phase", is |-> pod.phase]]

\* The table tells no phase: a status that is none counts as running.
ParsePodTextOutput(rows) ==
    Mapped(LAMBDA row : row @@ [phase |-> IF row.status.of = "phase" THEN row.status.is ELSE "Running"], rows)

UnhealthyStatuses ==
    {"CrashLoopBackOff", "Error", "OOMKilled", "ImagePullBackOff", "ErrImagePull", "CreateContainerError",
     "RunContainerError", "InvalidImageName", "ImageInspectError", "ErrImageNeverPull"}

Unhealthy(p) == p.status.of = "main" /\ p.status.is \in UnhealthyStatuses

BuildHealthSummary(pods) ==
    [total     |-> Len(pods),
     unhealthy |-> SelectSeq(pods, Unhealthy),
     restarted |-> SelectSeq(pods, LAMBDA p : p.restarts >= 5 /\ ~Unhealthy(p)),
     counts    |-> [s \in {pods[i].status : i \in DOMAIN pods} |-> Len(SelectSeq(pods, LAMBDA p : p.status = s))]]

Failure == [error |-> TRUE]

\* A mutant: a namespace that cannot be read is passed over.
BugNeededRequests(world, job) ==
    IF job.ns # "*" THEN {<<"pods", job.ns>>} ELSE IF ~job.json THEN {<<"pods", "*">>} ELSE {<<"namespaces", "*">>}

\* One namespace, all of them in one table, or each in its own JSON request when a filter, a
\* focus or details need more than the table has.
NeededRequests(world, job) ==
    IF job.ns # "*" THEN {<<"pods", job.ns>>}
    ELSE IF ~job.json THEN {<<"pods", "*">>}
    ELSE {<<"namespaces", "*">>} \cup {<<"pods", ns>> : ns \in ToSet(world.order)}

\* No request may fail.
ListPods(world, job, failed) ==
    IF NeededRequests(world, job) \cap failed # {} THEN Failure
    ELSE [pods |-> IF job.ns # "*" THEN Mapped(ParsedPod, world.pods[job.ns])
                   ELSE IF job.json THEN Mapped(ParsedPod, SearchPerNamespace(world, "pods", world.order, failed))
                   ELSE ParsePodTextOutput(Mapped(Printed, InOrder(world, "pods")))]

\* `filter' is {} or the statuses that contain the one asked for.
GetPods(world, job, failed) ==
    LET listed == ListPods(world, job, failed)
    IN  IF listed = Failure THEN Failure
        ELSE LET filtered == IF job.filter = {} THEN listed.pods
                             ELSE SelectSeq(listed.pods, LAMBDA p : p.status.is \in job.filter)
                 shown == IF job.ns # "*" THEN filtered
                          ELSE SelectSeq(filtered, LAMBDA p : p.ns \notin job.excluded)
             IN  [error |-> FALSE, pods |-> shown, health |-> BuildHealthSummary(shown),
                  all   |-> IF job.filter # {} THEN BuildHealthSummary(listed.pods) ELSE BuildHealthSummary(<<>>),
                  perNs |-> [ns \in {shown[i].ns : i \in DOMAIN shown} |->
                                Len(SelectSeq(shown, LAMBDA p : p.ns = ns))]]

--------------------------------------------------- (* focused answers *)

\* What a tool can be asked to show alone, in the order it looks for it.
PodFocuses        == <<"labels", "images", "resources", "placement">>
NodeFocuses       == <<"labels", "taints", "conditions", "addresses">>
DeploymentFocuses == <<"labels", "images", "resources", "template">>
ServiceFocuses    == <<"ports", "selector", "traffic_policy">>
IngressFocuses    == <<"rules", "tls", "backends">>

\* A mutant: the last one asked for is shown.
BugFocusedAnswer(order, modes) ==
    LET named == SelectSeq(order, LAMBDA m : m \in modes)
    IN  [named |-> named, shown |-> IF named = <<>> THEN "whole" ELSE Last(named)]

\* The first focus asked for is shown; the answer names them all.
FocusedAnswer(order, modes) ==
    [named |-> SelectSeq(order, LAMBDA m : m \in modes),
     shown |-> LET First(i) == order[i] \in modes /\ \A j \in 1..(i - 1) : order[j] \notin modes
               IN  IF \E i \in DOMAIN order : First(i) THEN order[CHOOSE i \in DOMAIN order : First(i)] ELSE "whole"]

------------------------------------------------------- (* get_pod_logs *)

\* What runner.run hands over of a log of n lines: the last `tail' of them; of an output over
\* its limit the first part and a marker (-1).  0 is the empty text after the last newline.
RunLogs(n, tail, limit) ==
    LET asked == [i \in 1..(IF n < tail THEN n ELSE tail) |-> n - (IF n < tail THEN n ELSE tail) + i]
    IN  IF Len(asked) > limit THEN [lines |-> SubSeq(asked, 1, limit) \o <<-1>>, cut |-> TRUE]
        ELSE [lines |-> asked \o <<0>>, cut |-> FALSE]

TruncateLogs(lines, max) ==
    IF Len(lines) <= max THEN [lines |-> lines, cut |-> FALSE]
    ELSE [lines |-> SubSeq(lines, Len(lines) - max + 1, Len(lines)), cut |-> TRUE]

ValidateTailLines(tail, max) == IF tail > max THEN max ELSE tail

\* kubectl's own failure (a non-zero exit) is an empty log and a success; only a request that
\* raises, a timeout, is a failure.
GetPodLogs(job) ==
    LET got  == RunLogs(IF job.outcome = "ok" THEN job.n ELSE 0, ValidateTailLines(job.tail, job.max), job.limit)
        kept == TruncateLogs(got.lines, job.max)
    IN  IF job.outcome = "raised" THEN [success |-> FALSE, logs |-> <<>>, truncated |-> FALSE]
        ELSE [success |-> TRUE, logs |-> SelectSeq(kept.lines, LAMBDA l : l > 0), truncated |-> kept.cut \/ got.cut]

--------------------------------------------- (* get_events, get_endpoints *)

\* Any failure is an answer without events that carries the error.
GetEvents(events, failed, max) ==
    LET parsed == ParsedEvents(events)
        kept   == IF Len(parsed) > max THEN SubSeq(parsed, 1, max) ELSE parsed
    IN  IF failed THEN [events |-> <<>>, error |-> TRUE, truncated |-> FALSE, original |-> 0]
        ELSE [events |-> kept, error |-> FALSE, truncated |-> Len(parsed) > max, original |-> Len(parsed)]

\* The slices refine what the Endpoints object says, when they can be read and hold something.
GetEndpoints(subsets, slices, sliceFails) ==
    LET old == ParsedEndpoints(subsets)
        new == ParsedSlices(slices)
    IN  IF sliceFails THEN old
        ELSE [old EXCEPT !.has  = IF slices # <<>> THEN new.has ELSE @,
                         !.hint = IF new.hint # "none" /\ (@ = "none" \/ new.ready = 0) THEN new.hint ELSE @]

--------------------------------------------------------- (* ConfigMaps *)

\* Previews share a budget: a key whose turn comes when it is spent is only named.  Values and
\* previews are their lengths; -1 is the marker of an omitted one.
Previews(sizes, cap, total) ==
    FoldLeft(LAMBDA acc, n :
        IF acc.budget <= 0 THEN [acc EXCEPT !.shown = Append(@, -1)]
        ELSE LET shown == Min({n, cap, acc.budget})
             IN  [shown |-> Append(acc.shown, shown), budget |-> acc.budget - shown],
        [shown |-> <<>>, budget |-> total], sizes).shown

\* A key matches by its name, or by the first line of its value that matches.
KeyMatches(key) == key.named \/ \E i \in DOMAIN key.lines : key.lines[i]

KeyMatch(map, key) ==
    [map |-> map, key |-> key.key,
     line |-> IF key.named THEN 0 ELSE CHOOSE i \in DOMAIN key.lines : key.lines[i] /\ \A j \in 1..(i - 1) : ~key.lines[j]]

\* A mutant: a search that stops inside a map does not say so.
BugSearchConfigmaps(maps, asked, default, ceiling) ==
    LET limit == Min({IF asked > 0 THEN asked ELSE default, ceiling})
        all == FlattenSeq([m \in DOMAIN maps |->
                   Mapped(LAMBDA key : KeyMatch(m, key), SelectSeq(maps[m], KeyMatches))])
    IN  [matches |-> SubSeq(all, 1, Min({limit, Len(all)})), truncated |-> FALSE, searched |-> Len(maps)]

\* The search stops at its limit: before the next map, or before the next key of a map.
SearchConfigmaps(maps, asked, default, ceiling) ==
    LET limit == Min({IF asked > 0 THEN asked ELSE default, ceiling})
        Look(acc, m, key) ==
            IF Len(acc.matches) >= limit THEN [acc EXCEPT !.truncated = TRUE]
            ELSE IF KeyMatches(key) THEN [acc EXCEPT !.matches = Append(@, KeyMatch(m, key))]
            ELSE acc
        OneMap(acc, m) ==
            IF Len(acc.matches) >= limit THEN [acc EXCEPT !.truncated = TRUE]
            ELSE FoldLeft(LAMBDA a, key : Look(a, m, key), acc, maps[m])
        out == FoldLeft(OneMap, [matches |-> <<>>, truncated |-> FALSE], [m \in DOMAIN maps |-> m])
    IN  out @@ [searched |-> Len(maps)]

-------------------------------------------------------------- (* nodes *)

\* The exact name first, then the one name that contains the query.
ResolveNodeFromList(query, nodes) ==
    LET exact == SelectSeq(nodes, LAMBDA n : n = query.name)
        hits  == SelectSeq(nodes, LAMBDA n : n \in query.within)
    IN  IF exact # <<>> THEN [error |-> "", node |-> Head(exact)]
        ELSE IF Len(hits) = 1 THEN [error |-> "", node |-> Head(hits)]
        ELSE [error |-> IF hits # <<>> THEN "ambiguous_node_name" ELSE "node_not_found", node |-> ""]

\* A quantity is [n, unit]; fractions are cut off and what cannot be read counts as nothing.
ParseCpuMillicores(q) ==
    CASE q.unit = "" -> q.n * 1000 [] q.unit = "m" -> q.n [] q.unit = "u" -> q.n \div 1000
      [] q.unit = "n" -> q.n \div 1000000 [] OTHER -> 0

\* A mutant: an init container's share is added to the others'.
BugPodResourceTotals(pod) ==
    FoldLeft(LAMBDA n, q : n + ParseCpuMillicores(q), 0, pod.apps \o pod.inits)

\* The containers run together, after the init containers ran one by one.
PodResourceTotals(pod) ==
    LET app == FoldLeft(LAMBDA n, q : n + ParseCpuMillicores(q), 0, pod.apps)
    IN  Max({app} \cup {ParseCpuMillicores(pod.inits[i]) : i \in DOMAIN pod.inits})

Ended(pod) == pod.phase \in {"Succeeded", "Failed"}

InvestigateNode(query, nodes, pods) ==
    LET at  == ResolveNodeFromList(query, nodes)
        its == SelectSeq(pods, LAMBDA p : p.node = at.node /\ ~Ended(p))
    IN  at @@ [pods |-> IF at.error = "" THEN Len(its) ELSE 0,
               requests |-> IF at.error = "" THEN FoldLeft(LAMBDA n, p : n + PodResourceTotals(p), 0, its) ELSE 0]

----------------------------------------------------------- (* properties *)

\* A search finds the same whether it asks once or once for each namespace, and whatever the
\* environment's name; a failed request hides the objects it asked for and no others.
SearchIsComplete(world, query, allowed, hint, failed, out) ==
    LET Named(kind) == {item \in ToSet(InOrder(world, kind)) : item.name \in query}
        Asked1(kind, ns) == IF allowed = <<"*">> THEN <<kind, "*">> ELSE <<kind, ns>>
    IN  \A kind \in {"deployments", "pods", "services"} :
            {<<o.ns, o.name>> : o \in ToSet(out[kind])}
                = {<<o.ns, o.name>> : o \in {x \in Named(kind) : /\ Asked1(kind, x.ns) \notin failed
                                                                  /\ (allowed = <<"*">> \/ x.ns \in ToSet(allowed))}}

\* A listing passes no part for the whole: it is an error, or holds every pod that was asked
\* for; its summary hides none that is in trouble, and counts each pod once.
ListingIsWhole(world, job, out) ==
    out.error \/
        /\ \A p \in ToSet(InOrder(world, "pods")) :
              LET entry == IF job.ns = "*" /\ ~job.json THEN Printed(p) ELSE ParsedPod(p)
              IN  (\E i \in DOMAIN out.pods : out.pods[i].ns = p.ns /\ out.pods[i].name = p.name)
                     <=> /\ (job.filter = {} \/ entry.status.is \in job.filter)
                         /\ IF job.ns = "*" THEN p.ns \notin job.excluded ELSE p.ns = job.ns
        /\ \A i \in DOMAIN out.pods :
              (out.pods[i].restarts >= 5 \/ Unhealthy(out.pods[i]))
                 => out.pods[i] \in ToSet(out.health.unhealthy \o out.health.restarted)
        /\ MapThenSumSet(LAMBDA s : out.health.counts[s], DOMAIN out.health.counts) = Len(out.pods)
        /\ job.filter # {} => Len(out.all.unhealthy) >= Len(out.health.unhealthy)

\* The table and the JSON listing of a pod with one container: what the JSON calls stuck the
\* table calls stuck as well; and the search never calls healthy what the listing calls stuck
\* in the same terms.
ListingsAgree(pod) ==
    LET json == ParsedPod(pod)
    IN  /\ Len(pod.main) = 1 /\ Unhealthy(json) => Unhealthy(Printed(pod))
        /\ (json.status.of = "main" /\ json.status.is \notin {"RunContainerError", "InvalidImageName"})
              => FoundStatus(pod) # pod.phase

\* A focused answer shows one thing it names, a whole one is whole.
FocusIsNamed(out) ==
    IF out.named = <<>> THEN out.shown = "whole" ELSE out.shown = Head(out.named)

\* Logs are the newest lines in their order, unless the runner cut its output; at most one line
\* of those asked for is missing, and nothing is missing unsaid.
LogsAreTheNewest(job, out) ==
    LET Kept == ValidateTailLines(job.tail, job.max)
        N    == IF job.outcome = "ok" THEN job.n ELSE 0
        Due  == Min({N, Kept})
    IN  /\ \A i \in 1..(Len(out.logs) - 1) : out.logs[i + 1] = out.logs[i] + 1
        /\ Len(out.logs) < Due /\ job.outcome # "raised" => out.truncated
        /\ (job.outcome = "ok" /\ Due <= job.limit) =>
              /\ Len(out.logs) >= Due - 1
              /\ Len(out.logs) > 0 => out.logs[Len(out.logs)] = N

\* A service is said to have endpoints exactly when the newest source that can be read and
\* holds something says so.
EndpointsFollowSlices(subsets, slices, sliceFails, out) ==
    out.has <=> IF sliceFails \/ slices = <<>> THEN ParsedEndpoints(subsets).has
                ELSE \E i \in DOMAIN slices : slices[i].ready = "true"

\* Previews stay within the budget and leave no key unnamed.
PreviewsFit(sizes, total, out) ==
    /\ Len(out) = Len(sizes)
    /\ FoldLeft(LAMBDA n, s : IF s > 0 THEN n + s ELSE n, 0, out) <= total

\* A search that does not say it was cut short found every key that matches; no answer is
\* longer than its limit.
SearchIsHonest(maps, asked, default, ceiling, out) ==
    LET All == FoldLeft(LAMBDA n, m : n + Len(SelectSeq(m, KeyMatches)), 0, maps)
    IN  /\ Len(out.matches) <= Min({IF asked > 0 THEN asked ELSE default, ceiling})
        /\ ~out.truncated => Len(out.matches) = All
        /\ All > Len(out.matches) => out.truncated

\* A node's requests are what the scheduler counts: enough for each moment of each of its live
\* pods, and never more than some moment needs; a node is never guessed among several.
NodeIsAccounted(query, nodes, pods, out) ==
    LET Sum(q) == FoldLeft(LAMBDA n, x : n + ParseCpuMillicores(x), 0, q)
        Moments(p) == {Sum(p.apps)} \cup {Sum(<<p.inits[i]>>) : i \in DOMAIN p.inits}
        Its == {i \in DOMAIN pods : pods[i].node = out.node /\ ~Ended(pods[i])}
    IN  IF out.error = ""
        THEN /\ (out.node = query.name \/ \A n \in ToSet(nodes) : n \in query.within => n = out.node)
             /\ \E need \in [Its -> UNION {Moments(pods[i]) : i \in Its}] :
                   /\ \A i \in Its : need[i] \in Moments(pods[i]) /\ \A m \in Moments(pods[i]) : need[i] >= m
                   /\ MapThenSumSet(LAMBDA i : need[i], Its) = out.requests
        ELSE query.name \notin ToSet(nodes) /\ Cardinality(ToSet(nodes) \cap query.within) # 1
=============================================================================
