-------------------------------- MODULE MCTools --------------------------------
(***************************************************************************)
(* The read tools and investigations, the dispatch of tools, what the      *)
(* ReAct loop makes of their answers and of the model's next call, and the *)
(* pilots, put to bounded inputs: a behaviour asks one question and        *)
(* answers it in one step.  Each action is one tool, and each property     *)
(* speaks of every answer of its tools.                                    *)
(***************************************************************************)
EXTENDS Investigations, ToolDispatch, ToolObservations, CallCorrection, UpgradePilot

VARIABLES question, answer

exchange == <<question, answer>>

Asked(part) == question.part = part /\ answer = <<>>

Answered(part) == question.part = part /\ answer # <<>>

Out == answer[1]

UpTo(S, n) == UNION {[1..k -> S] : k \in 0..n}

------------------------------------------------------------- (* listings *)

AContainer(state, reason, restarts) ==
    [state |-> state, reason |-> reason, last |-> IF restarts > 0 THEN "Error" ELSE "", restarts |-> restarts,
     ready |-> state = "running" /\ restarts < 5]

ContainerStatuses ==
    {AContainer("running", "", 0), AContainer("running", "", 5), AContainer("waiting", "CrashLoopBackOff", 1),
     AContainer("waiting", "ErrImagePull", 0), AContainer("waiting", "RunContainerError", 0),
     AContainer("waiting", "ContainerCreating", 0), AContainer("terminated", "Error", 1), AContainer("terminated", "Error", 0)}

Inits == {<<>>, <<AContainer("waiting", "CrashLoopBackOff", 1)>>, <<AContainer("waiting", "PodInitializing", 0)>>}

TroublePods(ns, name) ==
    {[ns |-> ns, name |-> name, phase |-> p, main |-> m, init |-> i] :
        p \in {"Running", "Pending"}, m \in {s \in UpTo(ContainerStatuses, 2) : s # <<>>}, i \in Inits}

Plain(ns, name) == [ns |-> ns, name |-> name, phase |-> "Running", main |-> <<AContainer("running", "", 0)>>, init |-> <<>>]

Named(ns, name) == [ns |-> ns, name |-> name]

TwoSpaces(pod, a, b) ==
    [order |-> <<"shop", "prod">>,
     pods |-> [ns \in {"shop", "prod"} |-> IF ns = "shop" THEN <<pod>> ELSE <<Plain("prod", "web-2")>>],
     deployments |-> [ns \in {"shop", "prod"} |-> IF ns = "shop" THEN a ELSE b],
     services |-> [ns \in {"shop", "prod"} |-> IF ns = "shop" THEN <<Named("shop", "web")>> ELSE <<>>]]

Apps(ns) == {<<>>, <<Named(ns, "web"), Named(ns, "db")>>}

Requests == {"deployments", "pods", "services"} \X {"*", "shop", "prod"}

SearchQuestions ==
    {[part |-> "search", world |-> TwoSpaces(p, a, b), query |-> q, allowed |-> l, hint |-> h, failed |-> f] :
        p \in {Plain("shop", "web-1")}, a \in Apps("shop"), b \in Apps("prod"), q \in {{"web"}, {"web", "web-1", "web-2"}, {"x"}},
        l \in {<<"*">>, <<"shop">>, <<"shop", "prod">>}, h \in {{}, {"prod"}},
        f \in {g \in SUBSET Requests : Cardinality(g) <= 2}}

ListQuestions ==
    {[part |-> "list", world |-> TwoSpaces(p, <<>>, <<>>), failed |-> f,
      job |-> [ns |-> n, json |-> j, filter |-> IF j THEN t ELSE {}, excluded |-> x]] :
        p \in {q \in TroublePods("shop", "web-1") : q.phase = "Running"}, n \in {"*", "shop"}, j \in BOOLEAN,
        t \in {{}, {"CrashLoopBackOff"}}, x \in {{}, {"prod"}},
        f \in {{}, {<<"pods", "prod">>}, {<<"pods", "*">>}, {<<"namespaces", "*">>}}}

LogQuestions ==
    {[part |-> "logs", job |-> [n |-> n, tail |-> t, max |-> 3, limit |-> l, outcome |-> o]] :
        n \in 0..5, t \in 0..5, l \in 1..6, o \in {"ok", "failed", "raised"}}

EndpointQuestions ==
    {[part |-> "endpoints", subsets |-> s, slices |-> e, fails |-> f] :
        s \in UpTo([ready : 0..1, notReady : 0..1], 2),
        e \in UpTo([ready : {"true", "false", "nil"}, serving : {"true"}, terminating : {"true", "false"}], 2), f \in BOOLEAN}

MapKeys == [key : {"k"}, named : BOOLEAN, lines : {<<>>, <<FALSE, TRUE>>}]

MapQuestions ==
    {[part |-> "maps", maps |-> m, asked |-> a, sizes |-> s] :
        m \in UpTo(UpTo(MapKeys, 2), 2), a \in {-1, 1, 2, 9}, s \in UpTo({0, 3, 5}, 3)}

Cpu == {[n |-> 1, unit |-> ""], [n |-> 300, unit |-> "m"], [n |-> 1500, unit |-> "u"], [n |-> 7, unit |-> "x"]}

NodePods == [node : {"n1", "n12"}, phase : {"Running", "Succeeded"}, apps : UpTo(Cpu, 2), inits : UpTo(Cpu, 1)]

NodeQuestions ==
    {[part |-> "node", query |-> q, nodes |-> n, pods |-> p] :
        q \in {[name |-> "n1", within |-> {"n1", "n12"}], [name |-> "n", within |-> {"n1", "n12"}],
               [name |-> "n12", within |-> {"n12"}], [name |-> "m", within |-> {}]},
        n \in {<<"n12", "n1">>, <<"n12">>, <<>>}, p \in UpTo({x \in NodePods : x.inits # <<>> => x.apps # <<>>}, 1)}
      \cup {[part |-> "node", query |-> [name |-> "n1", within |-> {"n1", "n12"}], nodes |-> <<"n1", "n12">>, pods |-> p] :
        p \in UpTo({x \in NodePods : Len(x.apps) = 1 /\ x.apps[1].unit # "x"}, 2)}

FocusQuestions ==
    {[part |-> "focus", order |-> o, modes |-> m] :
        o \in {PodFocuses, NodeFocuses, DeploymentFocuses, ServiceFocuses, IngressFocuses},
        m \in SUBSET UNION {ToSet(x) : x \in {PodFocuses, NodeFocuses, DeploymentFocuses, ServiceFocuses, IngressFocuses}}}

SearchWorkload ==
    /\ Asked("search")
    /\ answer' = <<FindWorkload(question.world, question.query, question.allowed, question.hint, question.failed)>>
    /\ UNCHANGED question

ListPodsOf ==
    /\ Asked("list")
    /\ answer' = <<GetPods(question.world, question.job, question.failed)>>
    /\ UNCHANGED question

ReadLogs ==
    /\ Asked("logs")
    /\ answer' = <<GetPodLogs(question.job)>>
    /\ UNCHANGED question

ReadEndpoints ==
    /\ Asked("endpoints")
    /\ answer' = <<GetEndpoints(question.subsets, question.slices, question.fails)>>
    /\ UNCHANGED question

ReadMaps ==
    /\ Asked("maps")
    /\ answer' = <<[found |-> SearchConfigmaps(question.maps, question.asked, 2, 3), previews |-> Previews(question.sizes, 4, 6)]>>
    /\ UNCHANGED question

FocusAnswer ==
    /\ Asked("focus")
    /\ answer' = <<FocusedAnswer(question.order, question.modes)>>
    /\ UNCHANGED question

ReadNode ==
    /\ Asked("node")
    /\ answer' = <<InvestigateNode(question.query, question.nodes, question.pods)>>
    /\ UNCHANGED question

\* What a read tool leaves out it says, or nobody asked for it: searches and listings are whole,
\* logs are the newest, a search that was cut short says so, and a node's requests add up
\* (mcp/k8s/wrappers.py 47 to 1462 and 2131 to 2431).
ReadsAreHonest ==
    /\ Answered("search") => SearchIsComplete(question.world, question.query, question.allowed, question.hint, question.failed, Out)
    /\ Answered("list") => /\ ListingIsWhole(question.world, question.job, Out)
                           /\ ListingsAgree(question.world.pods["shop"][1])
    /\ Answered("logs") => LogsAreTheNewest(question.job, Out)
    /\ Answered("endpoints") => EndpointsFollowSlices(question.subsets, question.slices, question.fails, Out)
    /\ Answered("maps") => /\ SearchIsHonest(question.maps, question.asked, 2, 3, Out.found)
                           /\ PreviewsFit(question.sizes, 6, Out.previews)
    /\ Answered("focus") => FocusIsNamed(Out)
    /\ Answered("node") => NodeIsAccounted(question.query, question.nodes, question.pods, Out)

------------------------------------------------------- (* investigations *)

Readiness == {<<>>, <<[ready |-> 0, notReady |-> 1]>>, <<[ready |-> 1, notReady |-> 0]>>}

LogsFor(main1, main2) ==
    [k \in ({"init", "main"} \X {1, 2}) \X BOOLEAN |->
        IF k = <<<<"main", 1>>, TRUE>> THEN main1 ELSE IF k = <<<<"main", 2>>, FALSE>> THEN main2 ELSE {}]

Marks == {{}, {"line", "issue"}, {"line", "jmx"}}

Surroundings ==
    {[hosts |-> h, services |-> s, endpoints |-> [zk |-> a, kafka |-> <<>>], logs |-> LogsFor(m, n)] :
        h \in {<<>>, <<"zk">>, <<"kafka", "zk">>, <<"zk", "external">>}, s \in {{"zk", "kafka"}, {"kafka"}}, a \in Readiness,
        m \in Marks, n \in Marks}

PodFailures == {{}, {<<"pod">>}, {<<"describe">>}, {<<"service", "zk">>}, {<<"endpoints", "zk">>}, {<<"logs", <<"main", 1>>, TRUE>>}}

InvestigatedPods ==
    {p \in TroublePods("shop", "web-1") :
        Len(p.main) = 1 \/ (p.phase = "Running" /\ p.main[2] \in {AContainer("running", "", 0), AContainer("terminated", "Error", 1)})}

PodCases ==
    {[part |-> "investigate", world |-> w, pod |-> p, failed |-> f] :
        w \in {x \in Surroundings : x.logs[<<<<"main", 2>>, FALSE>>] = {}}, p \in {q \in InvestigatedPods : Len(q.main) = 1},
        f \in PodFailures}
      \cup {[part |-> "investigate", world |-> w, pod |-> p, failed |-> f] :
        w \in {x \in Surroundings : x.hosts = <<>> /\ x.services = {"kafka"} /\ x.endpoints.zk = <<>>}, p \in InvestigatedPods,
        f \in {{}, {<<"logs", <<"main", 1>>, TRUE>>}}}

Ingresses ==
    [name : {"ing"}, paths : UpTo({"", "web", "api", "invalid"}, 2), default : {"", "web"}, tls : UpTo({"", "cert"}, 1)]

IngressCases ==
    {[part |-> "ingress", ingress |-> i, failed |-> f,
      world |-> [services |-> s, endpoints |-> [web |-> a, api |-> b], secrets |-> t]] :
        i \in Ingresses, s \in SUBSET {"web", "api"}, a \in Readiness, b \in {<<>>, <<[ready |-> 1, notReady |-> 0]>>}, t \in {{}, {"cert"}},
        f \in {{}, {<<"ingress">>}, {<<"service", "web">>}, {<<"endpoints", "api">>}, {<<"secret", "cert">>}}}

SpacePods == [name : {"a", "b"}, phase : {"Running", "Pending", "Succeeded"}, ready : BOOLEAN, labels : {{"app=a"}, {"app=a", "tier=b"}}]

Incidents == [type : {"Warning", "Normal", ""}, reason : {"BackOff"}, on : {"a", "web"}, count : {0, 2}]

Slice(ready) == [ready |-> ready, serving |-> "true", terminating |-> "false"]

SpaceCase(pods, events, selector, endpoints, slices, desired, failed) ==
    [part |-> "namespace", failed |-> failed,
     world |-> [pods |-> pods, events |-> events, ingresses |-> {[name |-> "ing", paths |-> <<"web", "gone">>]},
                services |-> {[name |-> "web", selector |-> selector]}, endpoints |-> [web |-> endpoints],
                slices |-> [web |-> slices],
                workloads |-> {[name |-> "dep", selector |-> selector, desired |-> desired, ready |-> 1]}]]

SpaceCases ==
    {SpaceCase(p, <<>>, s, r, l, d, f) :
        p \in {{}} \cup {{x} : x \in SpacePods}, s \in {{}, {"app=a", "tier=b"}},
        r \in {<<>>, <<[ready |-> 1, notReady |-> 0]>>}, l \in {<<>>, <<Slice("true")>>, <<Slice("false")>>}, d \in {0, 2},
        f \in {{}, {<<"pods">>}, {<<"services">>}, {<<"ingresses">>}, {<<"endpoints", "web">>}, {<<"endpointslices", "web">>}}}
      \cup {SpaceCase({}, e, {"app=a"}, <<>>, <<>>, 2, f) : e \in UpTo(Incidents, 2), f \in {{}, {<<"events">>}}}

Rollouts ==
    {h \in UNION {[1..n -> [at : 1..4, image : {"v1", "v2", "v3"}, dated : BOOLEAN]] : n \in 1..3} :
        \A i \in 1..(Len(h) - 1) : h[i].at < h[i + 1].at /\ h[i].image # h[i + 1].image}

ChangeCases ==
    {[part |-> "changes", histories |-> <<a, b>>, window |-> w, failed |-> f] :
        a \in Rollouts, b \in {<<[at |-> 2, image |-> "v1", dated |-> TRUE]>>, <<[at |-> 1, image |-> "v1", dated |-> FALSE]>>},
        w \in 0..3, f \in BOOLEAN}

LookIntoPod ==
    /\ Asked("investigate")
    /\ answer' = <<InvestigatePod(question.world, question.pod, question.failed)>>
    /\ UNCHANGED question

LookIntoIngress ==
    /\ Asked("ingress")
    /\ answer' = <<InvestigateIngress(question.world, question.ingress, question.failed)>>
    /\ UNCHANGED question

LookIntoNamespace ==
    /\ Asked("namespace")
    /\ answer' = <<[issues |-> AnalyzeNamespace(question.world, question.failed),
                    graph |-> GetResourceGraph(question.world, question.failed),
                    workloads |-> {InvestigateWorkload(question.world, w, question.failed) : w \in question.world.workloads}]>>
    /\ UNCHANGED question

LookForChanges ==
    /\ Asked("changes")
    /\ answer' = <<GetRecentChanges(question.histories, 4, question.window, question.failed)>>
    /\ UNCHANGED question

\* What an investigation names is there: the cause of a pod's trouble, a backend of an ingress,
\* an issue of a namespace, an edge of its graph, a change; and trouble that is there is named.
InvestigationsAreWitnessed ==
    /\ Answered("investigate") => /\ CauseIsThere(question.world, question.failed, Out)
                                  /\ PlaybookFits(question.pod, question.failed, Out)
    /\ Answered("ingress") => IngressIsJudged(question.world, question.ingress, question.failed, Out)
    /\ Answered("namespace") => /\ IssuesAreThere(question.world, question.failed, Out.issues)
                                /\ GraphIsSound(question.world, Out.graph, Out.issues)
    /\ Answered("changes") => ChangesAreTrue(question.histories, 4, question.window, Out)

\* What _describe_rollout promises (wrappers.py:4742): the most recent rollout of a workload, if it
\* falls inside the window.
RecentChangesAreTold ==
    (Answered("changes") /\ ~Out.error) =>
        \A w \in DOMAIN question.histories :
            LET last == LastChange(question.histories[w])
            IN  (last.at >= 4 - question.window /\ \A i \in DOMAIN question.histories[w] : question.histories[w][i].dated) =>
                    \E i \in DOMAIN Out.changes : Out.changes[i].workload = w /\ Out.changes[i].to = last.image

ReadQuestions ==
    \/ question \in SearchQuestions
    \/ question \in ListQuestions
    \/ question \in LogQuestions
    \/ question \in EndpointQuestions
    \/ question \in MapQuestions
    \/ question \in NodeQuestions
    \/ question \in {q \in FocusQuestions : q.modes \subseteq ToSet(q.order)}
    \/ question \in PodCases
    \/ question \in IngressCases
    \/ question \in SpaceCases
    \/ question \in ChangeCases

------------------------------------------------------------ (* dispatch *)

Called ==
    {"investigate_pod", "get_pod_logs", "get_service", "get_deployment", "get_nodes", "investigate_node", "get_pvc", "analyze_error",
     "describe_node", "describe_deployment", "describe_pod", "delete_pod", "scale_deployment", "execute_plan_step",
     "get_persistent_volume_claim", "prom_query", "get_recent_alerts", "read_file", "list_pods", "analyze_namespace", "no_such_tool"}

Bags ==
    UNION {[S -> {"x", "y"}] :
        S \in {{}, {"name"}, {"pod_name"}, {"name", "pod_name"}, {"pod", "name"}, {"namespace", "pod_name"}, {"deployment"}, {"node"},
               {"namespace", "deployment_name", "replicas"}, {"namespace", "name"}, {"claim_name"}, {"query"}, {"error_text", "log"}}}

AskedCalls ==
    [name : Called, surface : {"mcp", "chat", "react", "playbook"}, params : Bags, outcome : {"ok", "not found", "not json"},
     finds : {TRUE}, desktop : {FALSE}]
      \cup [name : Called, surface : {"mcp", "chat", "react", "playbook"}, params : {[p \in {"name", "namespace"} |-> "x"]},
            outcome : {"ok", "not found", "failed"}, finds : BOOLEAN, desktop : {TRUE}]

DispatchQuestions == [part : {"dispatch"}, call : AskedCalls]

ServerQuestions == [part : {"server"}, call : {c \in AskedCalls : c.surface = "mcp"}]

PodNames == {<<"web">>, <<"web", "7f">>, <<"my", "web">>, <<"web", "pod">>, <<"db">>}

SomePods == UpTo([ns : {"shop", "prod"}, name : PodNames], 2)

NamedWorlds ==
    {[pods |-> p, deployments |-> d, services |-> d, fails |-> f] :
        p \in SomePods, d \in {<<>>, <<[ns |-> "prod", name |-> <<"web">>]>>}, f \in SUBSET {"list", "find"}}

NamedQuestions ==
    [part : {"named"}, ns : {"", "shop"}, world : NamedWorlds,
     phrase : {[words |-> <<"web">>, glued |-> "web"], [words |-> <<"web", "pod">>, glued |-> "webpod"]}]

SwitchQuestions ==
    [part : {"switch"}, conn : {<<>>, <<[mode |-> "kubeconfig", path |-> "p", context |-> "old", ns |-> "shop"]>>},
     world : [reachable : BOOLEAN, ns : {"", "shop", "malformed"}]]

KbQuestions ==
    [part : {"kb"},
     job : [coll : {"known", "unknown"}, connects : BOOLEAN, given : SUBSET {"namespace", "cluster"}, verified : BOOLEAN]]

ScopeQuestions ==
    [part : {"scope"}, hits : SUBSET ToSet(ScopeOrder), available : {ReactTools(FALSE), ReactTools(TRUE), {"get_pods", "kb_search"}}]

DispatchTool ==
    /\ Asked("dispatch")
    /\ answer' = <<Dispatch(question.call)>>
    /\ UNCHANGED question

ServeTool ==
    /\ Asked("server")
    /\ answer' = <<CallTool(question.call)>>
    /\ UNCHANGED question

FindNamedPod ==
    /\ Asked("named")
    /\ answer' = <<[pod |-> ResolvePodNsAndName(question.world, question.phrase, question.ns),
                    service |-> ServiceTarget(question.world, question.phrase.words)]>>
    /\ UNCHANGED question

SwitchTheContext ==
    /\ Asked("switch")
    /\ answer' = <<SwitchContext(question.conn, "new", question.world)>>
    /\ UNCHANGED question

SearchTheBase ==
    /\ Asked("kb")
    /\ answer' = <<KbSearch(question.job)>>
    /\ UNCHANGED question

ScopeThePrompt ==
    /\ Asked("scope")
    /\ answer' = <<ScopeForPrompt(question.hits, question.available)>>
    /\ UNCHANGED question

\* A tool runs only where it was registered, whatever name it was called by, with the parameters it
\* was given and on the workload that was meant; what is offered can be called and what fails is
\* told (mcp/tool_registry.py, mcp/mcp_server/tools.py, ui/backend/tool_scoper.py).
DispatchIsSound ==
    /\ Answered("dispatch") =>
          /\ DispatchIsContained(question.call, Out)
          /\ ParamsAreKept(question.call)
          /\ \A s \in {"mcp", "chat", "react"} : HintsAreUsable(s, question.call.desktop)
    /\ Answered("server") => McpIsWhole(question.call, Out)
    /\ Answered("named") => /\ PodIsTheOne(question.world, question.phrase, question.ns, Out.pod)
                            /\ ServiceIsTheOne(question.world, question.phrase.words, Out.service)
    /\ Answered("switch") => SwitchIsChecked(question.conn, question.world, Out)
    /\ Answered("kb") => Out = HandKbSearch(question.job)
    /\ Answered("scope") => ScopeIsUsable(question.hits, question.available, Out)

ToolQuestions ==
    \/ question \in DispatchQuestions
    \/ question \in ServerQuestions
    \/ question \in NamedQuestions
    \/ question \in SwitchQuestions
    \/ question \in KbQuestions
    \/ question \in ScopeQuestions

ToolSteps == DispatchTool \/ ServeTool \/ FindNamedPod \/ SwitchTheContext \/ SearchTheBase \/ ScopeThePrompt

------------------------------------------------------ (* tools' answers *)

KeysOf == {"pod_name", "namespace", "summary", "other"}

Causes == {"", "no endpoints"}

PodAnswer(k, a, s, m, n, r, d, l, t) ==
    [ToolAnswer("investigate_pod", k) EXCEPT
        !.asked = a, !.success = s, !.mode = m, !.restarts = n, !.root = r, !.deps = d, !.logs = l, !.timeline = t]

PodAnswers ==
    {PodAnswer(k, a, s, m, n, r, d, l, t) :
        k \in {KeysOf, KeysOf \cup {"error"}, {"namespace"}}, a \in {{"pod_name"}, {"pod_name", "namespace"}}, s \in {"yes", "no", "absent"},
        m \in {"unknown", "CrashLoopBackOff", "Pending"}, n \in 0..1, r \in Causes,
        d \in {<<>>, <<"svc">>}, l \in {<<>>, <<"panic">>}, t \in 0..1}

Happenings == [type : {"Warning", "Normal"}, reason : {"BackOff", "Pulled", "Killing"}]

EventAnswers ==
    {[ToolAnswer("get_events", k) EXCEPT !.events = e] : k \in {{}, {"error"}}, e \in UpTo(Happenings, 4)}

OtherAnswer(t, k, s, p, n, c) ==
    [ToolAnswer(t, k) EXCEPT !.success = s, !.pods = p, !.ready = n, !.errors = n, !.cut = c]

OtherAnswers ==
    {OtherAnswer(t, k, s, p, n, c) :
        t \in {"get_pod_logs", "get_deployment", "get_endpoints", "get_rollout_status", "investigate_workload",
               "analyze_namespace", "investigate_node", "get_nodes", "cluster_report"},
        k \in {{"replicas"}, {"error"}}, s \in {"yes", "no", "absent"}, c \in BOOLEAN, n \in 0..1,
        p \in UpTo({[status |-> "Running", ready |-> TRUE], [status |-> "Failed", ready |-> FALSE]}, 2)}

AnswerQuestions == [part : {"envelope"}, result : PodAnswers \cup EventAnswers \cup OtherAnswers]

BudgetQuestions ==
    [part : {"budget"}, sizes : UpTo({1, 4, 9}, 4), budget : {4, 12}, works : [1..3 -> BOOLEAN]]

WrapAnswer ==
    /\ Asked("envelope")
    /\ answer' = <<GenericEnvelope(question.result, 2)>>
    /\ UNCHANGED question

StepQuestions == [part : {"steps"}, steps : UpTo([action : {"answer", "get_pods"}, observed : BOOLEAN], 3)]

CompactPrompt ==
    /\ Asked("budget")
    /\ answer' = <<PromptAfter(question.sizes, question.budget, 3, question.works)>>
    /\ UNCHANGED question

FallBack ==
    /\ Asked("steps")
    /\ answer' = <<EmergencyAnswer(question.steps)>>
    /\ UNCHANGED question

\* What the loop makes of a tool's answer says what the answer said: failures are told, warnings
\* and causes come first, the two cards agree, and a prompt over its budget loses no observation
\* (mcp/services/tool_envelope.py, react.py 3845-4102, context_manager.py).
ObservationsAreFaithful ==
    /\ Answered("envelope") =>
          /\ FailureIsTold(question.result, Out)
          /\ ModesAreInOrder(question.result, Out, 2)
          /\ RecordIsFocused(question.result, question.result.pods, 1)
          /\ question.result.tool = "investigate_pod" => CardsAgree(question.result)
    /\ Answered("budget") => CompactionIsSafe(question.sizes, question.budget, 3, Out, question.works)
    /\ Answered("steps") => NothingIsWithheld(question.steps)

------------------------------------------------------- (* the next call *)

QuestionWords == {"why", "root-cause", "list", "all", "pods", "node", "nodes", "deployments", "crash", "pending",
                  "labels", "status", "images", "memory", "taints"}

AskedWords == UNION {kSubset(n, QuestionWords) : n \in 0..4}

MaybeGiven == {"", "given", EmptyText}

Given(is) == IF is THEN "given" ELSE ""

WantedCall(a, n, p) ==
    [CallOf(a) EXCEPT !.ns = n, !.pod = p, !.node = Given(a \in {"get_nodes", "investigate_node"})]

WantedPods(a) == IF a = "investigate_pod" THEN MaybeGiven ELSE {""}

Wanted ==
    UNION {{WantedCall(a, n, p) : n \in MaybeGiven, p \in WantedPods(a)} :
              a \in {"answer", "get_pods", "get_nodes", "investigate_pod", "investigate_node", "get_events",
                     "get_deployment"}}

FailingPods == <<[ns |-> "", named |-> TRUE, status |-> "CrashLoopBackOff"], [ns |-> "shop", named |-> TRUE, status |-> "Error"]>>

CallQuestions ==
    {[part |-> "call", q |-> [words |-> w, target |-> "why" \in w \/ "root-cause" \in w], call |-> c,
      useful |-> u = 2, attempted |-> u > 0, pods |-> p] :
        w \in AskedWords, c \in Wanted, u \in 0..2, p \in {<<>>, FailingPods}}

TriedCalls == [tool : {"find_workload", "get_pods", "investigate_pod", "investigate_workload"}, of : {"a", "b"},
          useful : BOOLEAN]

ShownQuestions == [part : {"shown"}, calls : UpTo(TriedCalls, 3)]

ReplyQuestions ==
    {[part |-> "reply", reply |-> r] :
        r \in [form : {"whole", "within", "headless", "cut"}, action : {"answer", "get_pods", "delete_pod", ""},
               params : {"flat", "nested", "none"}, text : BOOLEAN, marked : BOOLEAN]}

CorrectCall ==
    /\ Asked("call")
    /\ LET found  == DiscoverFailingPod(question.q, "get_pods", question.pods, FALSE)
           first  == CoerceActionForQuestion(question.q, question.call, question.useful, question.attempted)
           second == CoerceAfterPodDiscovery(question.q, first, found, question.useful)
       IN  answer' = <<[found |-> found, first |-> first, second |-> second]>>
    /\ UNCHANGED question

ShowResult ==
    /\ Asked("shown")
    /\ answer' = <<PrimaryAfter(question.calls)>>
    /\ UNCHANGED question

ReadReply ==
    /\ Asked("reply")
    /\ answer' = <<ParseReactResponse(question.reply)>>
    /\ UNCHANGED question

\* The call that runs is the one the question needs: corrections do not undo each other, a found
\* pod is investigated, the most specific result stays on show, and a reply cut short turns no
\* call into an answer (react.py 3070-3508 and 3819-3838).
CallsAreCorrected ==
    /\ Answered("call") =>
          /\ CorrectionSettles(question.q, question.call, question.useful, question.attempted, Out.first)
          /\ DiscoveryIsFollowed(Out.first, Out.found, question.useful, Out.second)
    /\ Answered("shown") => MostSpecificIsShown(question.calls, Out)
    /\ Answered("reply") => ReplyIsKept(question.reply, Out)

\* What the loop is told is what the tool said, and what it calls is what it meant to.
LoopIsFaithful == ObservationsAreFaithful /\ CallsAreCorrected

LoopQuestions ==
    \/ question \in AnswerQuestions
    \/ question \in BudgetQuestions
    \/ question \in StepQuestions
    \/ question \in CallQuestions
    \/ question \in ShownQuestions
    \/ question \in ReplyQuestions

LoopSteps == WrapAnswer \/ CompactPrompt \/ FallBack \/ CorrectCall \/ ShowResult \/ ReadReply

---------------------------------------------------------- (* resilience *)

AnApp ==
    [name |-> "app", ports |-> TRUE, ready |-> "http", live |-> "", hook |-> TRUE, sleep |-> <<>>,
     requests |-> {"cpu", "memory"}, limit |-> TRUE, pinned |-> TRUE]

AnObject(kind, name, spec) ==
    [kind |-> kind, ns |-> <<"shop">>, name |-> name, at |-> 1, helm |-> FALSE, ignores |-> {}, spec |-> spec]

AWorkload(kind, name, replicas) ==
    AnObject(kind, name,
        [replicas |-> replicas, labels |-> [app |-> "web"], selector |-> <<>>, grace |-> <<>>, spread |-> TRUE,
         strategy |-> "RollingUpdate", maxUnavailable |-> <<>>, surge |-> TRUE, containers |-> <<AnApp>>])

ABudget(name, min, max) ==
    AnObject("PDB", name, [selector |-> <<[labels |-> [app |-> "web"], exprs |-> {}]>>,
                           minAvailable |-> min, maxUnavailable |-> max])

AnHpa(min, max) ==
    AnObject("HPA", <<"web">>, [api |-> "v1", metrics |-> {}, target |-> <<"Deployment", <<"web">>>>,
                                minReplicas |-> min, maxReplicas |-> max])

AService(ports) == AnObject("Service", <<"web">>, [selector |-> [app |-> "web"], external |-> FALSE, ports |-> ports])

NoConfig == [disable |-> {}, severity |-> <<>>]

Context(objs, static) ==
    [objs |-> objs, static |-> static, config |-> NoConfig, facts |-> [nodes |-> IF static THEN <<>> ELSE <<3>>, zones |-> 0]]

OneOf(S) == {<<>>} \cup {<<x>> : x \in S}

\* Budgets and what they select: the amounts around the replicas, and a sum of which a hundredth
\* is more than one pod.
BudgetCases ==
    {Context(<<[AWorkload("Deployment", <<"web">>, <<n>>) EXCEPT !.helm = h]>> \o more \o hpa
               \o <<AService({"http"}), [ABudget(<<"web">>, a, b) EXCEPT !.ignores = i, !.helm = h]>>, ~h) :
        n \in {1, 2, 3, 150}, h \in BOOLEAN, more \in OneOf({AWorkload("StatefulSet", <<"db">>, <<2>>)}),
        hpa \in OneOf({AnHpa(<<Num(3)>>, <<>>)}), a \in OneOf({Num(n) : n \in {0, 1, 2, 4}} \cup {Percent(n) : n \in {34, 99, 100}}),
        b \in OneOf({Num(0), Num(1), Percent(0)}), i \in {{}, {"RES001"}}}

RolloutCases ==
    {Context(<<[AWorkload(k, <<"web">>, <<n>>) EXCEPT !.helm = h, !.spec.maxUnavailable = d, !.spec.surge = u,
                    !.spec.strategy = t, !.spec.spread = p,
                    !.spec.containers[1].hook = k = "StatefulSet"]>> \o hpa \o <<AService(IF p THEN {"http"} ELSE {"metrics"})>>, ~h) :
        k \in Replicated, n \in {1, 2, 5}, h \in BOOLEAN, u \in BOOLEAN, p \in BOOLEAN, t \in {"RollingUpdate", "Recreate"},
        d \in OneOf({Num(0), Num(1), Num(5), Percent(50), Percent(100)}),
        hpa \in OneOf({AnHpa(<<>>, <<Num(1)>>), AnHpa(<<Num(1)>>, <<Num(5)>>)})}

SomeContainers ==
    {[AnApp EXCEPT !.sleep = z, !.hook = z # <<>> \/ p, !.ports = p, !.ready = r, !.live = l] :
        z \in OneOf({5, 40}), p \in BOOLEAN, r \in {"", "http"}, l \in {"", "http"}}

ContainerCases ==
    {Context(<<[AWorkload("Deployment", <<"web">>, <<2>>) EXCEPT !.spec.grace = g, !.spec.containers = <<a>> \o b]>> \o v, TRUE) :
        g \in OneOf({Num(5), Num(50)}), a \in SomeContainers,
        b \in OneOf({[AnApp EXCEPT !.name = "side", !.sleep = z, !.hook = z # <<>>, !.requests = {"cpu"}] : z \in OneOf({5, 50})}),
        v \in OneOf({AService({"http"})})}

SomeLabels == {[app |-> "web"], [app |-> "web", tier |-> "front"], [app |-> "db"]}

SomeSelectors ==
    OneOf({[labels |-> l, exprs |-> e] :
        l \in {<<>>, [app |-> "web"]},
        e \in {{}, {[key |-> "tier", op |-> "Exists", values |-> {}]}, {[key |-> "tier", op |-> "NotIn", values |-> {"front"}]}}})

\* Who selects whom, over two namespaces, documents without one, and objects that opt out.
WiringCases ==
    {[Context(<<[AWorkload("Deployment", <<"web">>, <<1>>) EXCEPT !.spec.labels = l, !.ns = n],
                [AWorkload(o[1], o[2], <<1>>) EXCEPT !.ns = <<"shop", "web">>],
                [ABudget(<<"web">>, <<>>, <<Num(1)>>) EXCEPT !.spec.selector = e, !.ns = n],
                [AService({"http"}) EXCEPT !.ns = v, !.spec.selector = q, !.ignores = i]>>, i = {})
        EXCEPT !.config = IF v = <<"shop">> THEN NoConfig ELSE [disable |-> {"RES011"}, severity |-> [RES002 |-> "high"]]] :
        l \in SomeLabels, n \in {<<>>, <<"shop">>}, o \in {<<"Deployment", <<"web">>>>, <<"Job", <<"a">>>>},
        e \in SomeSelectors, v \in {<<"shop">>, <<"shop", "web">>}, q \in {[app |-> "web"], <<>>}, i \in {{}, {"RES002", "RES013"}, {"*"}}}

\* Two overlays of one workload, and a workload whose namespace and name join to those of another.
TwiceCases ==
    {Context(<<AWorkload("Deployment", <<"web", "a">>, <<2>>),
               [AWorkload("Deployment", <<"a">>, <<n>>) EXCEPT !.ns = m, !.spec.spread = FALSE],
               [AWorkload("Deployment", <<"web", "a">>, <<n>>) EXCEPT !.at = 2, !.spec.spread = FALSE]>>, TRUE) :
        n \in 1..3, m \in {<<"shop">>, <<"shop", "web">>}}

LiveWorlds ==
    {[objs |-> <<AService({"http"}), [AService({"http"}) EXCEPT !.ns = <<"kube", "system">>],
                 [AService({"http"}) EXCEPT !.ns = <<"kube">>]>>,
      failed |-> f, nodesFail |-> n, nodes |-> {[cordoned |-> FALSE, zone |-> "a"], [cordoned |-> c, zone |-> "b"]}] :
        f \in SUBSET {<<"shop">>, <<"*">>, <<"kube", "system">>}, n \in BOOLEAN, c \in BOOLEAN}

LiveQuestions ==
    [part : {"live"}, world : LiveWorlds,
     ask : [namespace : {<<>>, <<"shop">>, <<"kube", "system">>}, system : BOOLEAN,
            allowed : {{<<"*">>}, {<<"shop">>}, {<<"shop">>, <<"kube", "system">>}}]]

AssessManifests ==
    /\ Asked("resilience")
    /\ answer' = <<AssessResilience(question.c)>>
    /\ UNCHANGED question

CollectObjects ==
    /\ Asked("live")
    /\ answer' = <<CollectLive(question.world, question.ask)>>
    /\ UNCHANGED question

\* The fixes that are proposed for what a drain or a rollout runs into do end it and start nothing
\* new, the score is nobody else's, and what could not be read is not assessed (mcp/services/
\* resilience, cli/src/kubeastra/resilience.py).
FixesAreSound ==
    /\ Answered("resilience") =>
          /\ EvictionsAreJudged(question.c, Out)
          /\ FixesHold(question.c, Out)
          /\ PrsAreMakeable(question.c, Out)
          /\ ScoresAreFair(question.c, Out)
          /\ GateIsHonest(Out, <<50>>)
    /\ Answered("live") => LiveIsWhole(question.world, question.ask, Out)
    /\ Answered("pilot") => DrainsAreRead(question.req, question.world, Out)

---------------------------------------------------- (* the other pilots *)

Removed ==
    [deps |-> <<[api |-> "ext/v1beta1", kind |-> "Ingress", deprecated |-> 14, removed |-> 22, replacement |-> "net/v1"],
                [api |-> "net/v1beta1", kind |-> "Ingress", deprecated |-> 19, removed |-> 25, replacement |-> "net/v1"],
                [api |-> "ext/v1beta1", kind |-> "PSP", deprecated |-> 21, removed |-> 25, replacement |-> ""],
                [api |-> "crd/v1beta1", kind |-> "CustomResourceDefinition", deprecated |-> 16, removed |-> 22,
                 replacement |-> "crd/v1"]>>,
     compat |-> [cert |-> [v \in {24, 26} |-> IF v = 24 THEN 3 ELSE 5]]]

ADoc(api, kind, ns, name) == [api |-> api, kind |-> kind, ns |-> ns, name |-> name, owned |-> FALSE, helm |-> FALSE]

Documents ==
    {[ADoc(a, "Ingress", n, <<"web">>) EXCEPT !.helm = h] :
        a \in {"ext/v1beta1", "net/v1beta1", "net/v1"}, n \in {<<>>, <<"shop">>}, h \in BOOLEAN}
      \cup {[ADoc("ext/v1beta1", "PSP", <<>>, <<"web">>) EXCEPT !.owned = o] : o \in BOOLEAN}
      \cup {ADoc("crd/v1beta1", "CustomResourceDefinition", <<>>, <<"web">>)}

UpgradeQuestions ==
    {[part |-> "upgrade", target |-> t, maps |-> Removed, files |-> <<[parses |-> TRUE, docs |-> d], [parses |-> p, docs |-> <<d[1]>>]>>,
      world |-> [served |-> s, failed |-> f, docs |-> d, kubelets |-> {t - b}, groups |-> {"cert", "other"}]] :
        t \in {22, 26}, d \in [1..2 -> Documents], p \in BOOLEAN,
        s \in {{"ext/v1beta1"}, {"ext/v1beta1", "net/v1beta1", "crd/v1beta1"}}, f \in {{}, {"ext/v1beta1"}, {"nodes", "crds"}}, b \in 2..3}

PlanQuestions ==
    {[part |-> "plan", target |-> 26, maps |-> Removed,
      snapshot |-> [mode |-> "live", kubelets |-> {22}, operators |-> {[group |-> "cert", version |-> v]},
                    objects |-> {RefOf(d[i], d[i].api, <<1, i>>) : i \in 1..3}]] :
        v \in {0, 4, 5}, d \in [1..3 -> Documents]}

PlannedSteps ==
    LET Step(kind, name, risk) ==
            [id |-> <<kind>> \o name, kind |-> kind, route |-> "", risk |-> risk, advisory |-> FALSE, of |-> [NoObject EXCEPT !.name = name]]
    IN  {Step("helm_bump", <<"web">>, "medium"), Step("manifest_pr", <<"web">>, "low"), Step("manifest_pr", <<"db">>, "high"),
         [Step("operator_bump", <<"cert">>, "medium") EXCEPT !.advisory = TRUE]}

RunQuestions ==
    {[part |-> "run", steps |-> Append(s, ControlPlaneStep), plan |-> p, individual |-> i, more |-> m, does |-> w, done |-> d,
      lock |-> l] :
        s \in {x \in UpTo(PlannedSteps, 3) : IsInjective(x)},
        p \in SUBSET {<<"helm_bump", "web">>, <<"manifest_pr", "web">>}, i \in SUBSET {<<"manifest_pr", "db">>},
        m \in {{}, {<<"helm_bump", "web">>}},
        w \in {[x \in PlannedSteps |-> IF x.risk = "low" THEN a ELSE b] : a, b \in {"works", "refuses", "lies", "raises"}},
        d \in {{}} \cup {{x} : x \in {y \in PlannedSteps : y.risk = "low"}}, l \in BOOLEAN}

FieldPaths == {<<"spec", "a">>, <<"spec", "b">>, <<"spec", "b", "c">>, <<"spec">>, <<"meta">>, <<"spec", "a", "x">>}

LiveObjects ==
    {[p \in {<<"apiVersion">>} \cup s |-> IF p = <<"apiVersion">> THEN v ELSE Last(p)] :
        v \in {"v1beta1", "v1"},
        s \in {x \in SUBSET FieldPaths : \A p, q \in x : ~IsStrictPrefix(p, q)}}

MigrationQuestions ==
    {[part |-> "migration", live |-> o, from |-> "v1beta1", to |-> "v1", renames |-> r] :
        o \in LiveObjects, r \in UpTo([src : {<<"spec", "a">>, <<"spec">>, <<"meta">>}, dst : {<<"spec", "b">>, <<"spec", "b", "c">>, <<"meta">>}], 2)}

Resources ==
    {[health |-> h, sync |-> s, message |-> m] :
        h \in {"Healthy", "Degraded", "Missing", "Progressing"}, s \in {"Synced", "OutOfSync"}, m \in {{}, {"rbac"}, {"image_pull", "failed_hook"}}}

AppQuestions ==
    {[part |-> "app", app |-> [NoApp EXCEPT !.health = h, !.sync = s, !.resources = r, !.messages = m]] :
        h \in {"Healthy", "Degraded", "Progressing", "Missing"}, s \in {"Synced", "OutOfSync", "Unknown"},
        r \in UpTo(Resources, 2), m \in {{}, {{"crd_schema_mismatch"}}, {{}, {"rbac"}}}}
    \cup {[part |-> "app", app |-> [NoApp EXCEPT !.kind = "HelmRelease", !.ready = r, !.drift = d, !.messages = m]] :
        r \in {"True", "False", "none"}, d \in BOOLEAN, m \in {{}, {{"crd_schema_mismatch"}}, {{}, {"rbac"}}}}

AWeb(ns) == <<[AWorkload("Deployment", <<"web">>, <<1>>) EXCEPT !.ns = ns], [AService({"http"}) EXCEPT !.ns = ns]>>

RequestQuestions ==
    {[part |-> "pilot",
      req |-> [pilot |-> p, target |-> t, path |-> a, object |-> o,
               ask |-> [namespace |-> n, system |-> FALSE, allowed |-> w]],
      world |-> [enabled |-> g[1], flags |-> g[2], fetchFails |-> f, app |-> [NoApp EXCEPT !.health = "Healthy", !.sync = "Synced"],
                 manifests |-> AWeb(<<>>),
                 live |-> [objs |-> AWeb(<<"shop">>), failed |-> l, nodesFail |-> d,
                           nodes |-> {[cordoned |-> FALSE, zone |-> "a"]}]]] :
        p \in PilotNames \cup {"no such pilot"}, t \in {"", "1.31", "malformed"}, a \in {"none", "inside", "outside"},
        o \in {"none", "malformed", "app", "object"}, n \in {<<>>, <<"shop">>, <<"prod">>}, w \in {{<<"*">>}, {<<"shop">>}},
        g \in {<<TRUE, PilotNames>>, <<TRUE, {"resilience"}>>, <<FALSE, PilotNames>>}, f \in BOOLEAN, l \in {{}, {<<"*">>}, {<<"shop">>}}, d \in BOOLEAN}

PlanUpgrade ==
    /\ Asked("upgrade")
    /\ answer' = <<AssessUpgrade(ScanCluster(question.world, question.maps.deps), question.target, question.maps)>>
    /\ UNCHANGED question

OrderPlan ==
    /\ Asked("plan")
    /\ LET report == AssessUpgrade(question.snapshot, question.target, question.maps)
       IN  answer' = <<[report |-> report, steps |-> MakePlan(report)]>>
    /\ UNCHANGED question

\* The plan is run, and run again when more of it was approved.
RunTwice ==
    /\ Asked("run")
    /\ LET Approved(more) == [plan |-> question.plan \cup more, individual |-> question.individual]
           first == RunPlan(question.steps, Approved({}), question.does, question.done, TRUE)
           second == RunPlan(question.steps, Approved(question.more), question.does, first.done, question.lock)
       IN  answer' = <<[first |-> first, second |-> second, approved |-> Approved(question.more)]>>
    /\ UNCHANGED question

MigrateObject ==
    /\ Asked("migration")
    /\ answer' = <<PlanMigration(question.live, question.from, question.to, question.renames)>>
    /\ UNCHANGED question

DiagnoseObject ==
    /\ Asked("app")
    /\ answer' = <<DiagnoseApp(question.app)>>
    /\ UNCHANGED question

RunPilot ==
    /\ Asked("pilot")
    /\ answer' = <<StartRun(question.req, question.world)>>
    /\ UNCHANGED question

\* What the upgrade planner finds is what the target removed, its plan is carried out in order and
\* only as approved, a migration moves nothing else, a diagnosis has something behind it, and a
\* pilot's row ends as its answer said (mcp/services/upgrade, mcp/services/reconcile,
\* ui/backend/pilots/upgrade_runner.py, ui/backend/routers/pilots.py).
UpgradesAreSound ==
    /\ Answered("upgrade") => RemovalsAreFound(question.target, question.maps, question.files, question.world)
    /\ Answered("plan") => PlanIsOrdered(Out.report, Out.steps)
    /\ Answered("run") => RunsAsApproved(question.steps, Out.approved, question.does, Out.first, Out.second)
    /\ Answered("migration") => MigrationIsGuarded(question.live, question.from, question.to, question.renames, Out)
    /\ Answered("app") => DiagnosisIsWitnessed(question.app, Out)
    /\ Answered("pilot") => RunsAreSettled(question.req, question.world, Out)

PilotQuestions ==
    \/ question \in [part : {"resilience"}, c : BudgetCases]
    \/ question \in [part : {"resilience"}, c : RolloutCases]
    \/ question \in [part : {"resilience"}, c : ContainerCases]
    \/ question \in [part : {"resilience"}, c : WiringCases]
    \/ question \in [part : {"resilience"}, c : TwiceCases]
    \/ question \in LiveQuestions
    \/ question \in UpgradeQuestions
    \/ question \in PlanQuestions
    \/ question \in RunQuestions
    \/ question \in MigrationQuestions
    \/ question \in AppQuestions
    \/ question \in RequestQuestions

PilotSteps ==
    \/ AssessManifests
    \/ CollectObjects
    \/ PlanUpgrade
    \/ OrderPlan
    \/ RunTwice
    \/ MigrateObject
    \/ DiagnoseObject
    \/ RunPilot
=============================================================================
