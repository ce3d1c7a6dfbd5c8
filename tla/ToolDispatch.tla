----------------------------- MODULE ToolDispatch -----------------------------
(***************************************************************************)
(* The shared dispatcher of the tools (mcp/tool_registry.py), the branches *)
(* the MCP server keeps beside it (mcp/mcp_server/tools.py), and the       *)
(* narrowing of the tools offered for a prompt (ui/backend/tool_scoper.py).*)
(* A name is given in its normal spelling: resolve_tool brings camel case, *)
(* spaces and hyphens to it.  The handlers' own work is an outcome.        *)
(***************************************************************************)
EXTENDS Naturals, Sequences, FiniteSets, FiniteSetsExt, SequencesExt

------------------------------------------------------- (* registrations *)

InvestigationTools ==
    {"investigate_pod", "investigate_workload", "analyze_namespace", "analyze_k8s_health", "assess_resilience",
     "get_ingress", "investigate_ingress"}
DiscoveryTools ==
    {"find_workload", "get_namespaces", "get_nodes", "investigate_node", "list_namespace_resources",
     "get_persistent_volume_claim", "search_configmaps", "get_configmap"}
HelmTools ==
    {"helm_available", "list_helm_releases", "get_helm_release", "diff_helm_revisions", "investigate_helm_release"}
ClusterTools ==
    {"get_pods", "get_pod_logs", "get_events", "prom_query", "get_deployment", "get_service", "get_endpoints",
     "get_recent_changes", "get_rollout_status", "list_services", "get_resource_graph", "list_kubeconfig_contexts",
     "switch_kubeconfig_context", "kb_search"}
AnalysisTools ==
    {"analyze_error", "get_fix_commands", "cluster_report", "error_summary", "generate_runbook", "get_recent_alerts",
     "get_investigation_details"}
WriteTools   == {"exec_pod_command", "delete_pod", "rollout_restart", "scale_deployment", "apply_patch", "execute_plan_step"}
McpOnlyTools ==
    WriteTools \cup {"describe_pod", "get_current_context", "k8sgpt_analyze", "add_kubeconfig_context",
                     "search_deployment_repo", "get_deployment_repo_file", "list_deployment_repo_path",
                     "propose_remediation_plan", "get_plan", "list_error_categories"}
EverywhereTools == InvestigationTools \cup DiscoveryTools \cup HelmTools \cup ClusterTools \cup AnalysisTools
FolderTools     == {"read_file", "list_folder", "search_files", "find_source_for_workload", "propose_file_edit"}

Surfaces(tool) ==
    CASE tool \in McpOnlyTools -> {"mcp"}
      [] tool \in FolderTools  -> {"react", "chat"}
      [] OTHER                 -> {"mcp", "chat", "react"}

\* The desktop application registers the folder tools when it starts.
Registered(desktop) == EverywhereTools \cup McpOnlyTools \cup (IF desktop THEN FolderTools ELSE {})

Aliases ==
    [describe_workload |-> "investigate_workload", list_workload_pods |-> "investigate_workload",
     describe_node |-> "investigate_node", describe_pod_pvcs |-> "list_namespace_resources",
     get_pvc |-> "get_persistent_volume_claim", describe_pvc |-> "get_persistent_volume_claim",
     list_contexts |-> "list_kubeconfig_contexts", switch_context |-> "switch_kubeconfig_context"]

Synonyms ==
    [list_pods |-> "get_pods", get_pod |-> "get_pods", list_namespaces |-> "get_namespaces", list_nodes |-> "get_nodes",
     get_node |-> "get_nodes", get_services |-> "list_services", describe_nodes |-> "investigate_node",
     describe_deployment |-> "get_deployment"]

NoTool == "no tool"

ResolveTool(name, desktop) ==
    CASE name \in Registered(desktop) -> name
      [] name \in DOMAIN Aliases      -> Aliases[name]
      [] name \in DOMAIN Synonyms     -> Synonyms[name]
      [] OTHER                        -> NoTool

ToolsForSurface(surface, desktop) == {t \in Registered(desktop) : surface \in Surfaces(t)}

\* Tools that are not shown to the loop are those registered for MCP alone.
ReactTools(desktop) == ToolsForSurface("react", desktop) \ McpOnlyTools

BuildNativeToolSpecs(allowed, desktop) == ReactTools(desktop) \cap allowed

\* A plausible bug: every registered name is offered, on whatever surface it lives.
BugValidToolNames(surface, desktop) == Registered(desktop)

ValidToolNames(surface, desktop) ==
    LET tools == IF surface = "react" THEN ReactTools(desktop) ELSE ToolsForSurface(surface, desktop)
    IN  tools \cup {a \in DOMAIN Aliases : Aliases[a] \in tools}

---------------------------------------------------------- (* parameters *)

RequiredOfReads ==
    [find_workload |-> {"name"}, investigate_node |-> {"node_name"}, get_configmap |-> {"namespace", "name"},
     search_configmaps |-> {"namespace", "query"}, get_helm_release |-> {"release", "namespace"},
     investigate_helm_release |-> {"release", "namespace"},
     diff_helm_revisions |-> {"release", "namespace", "from_revision", "to_revision"}]
RequiredOfLookups ==
    [describe_pod |-> {"namespace", "pod_name"}, get_pod_logs |-> {"pod_name"}, get_deployment |-> {"deployment_name"},
     get_service |-> {"service_name"}, get_endpoints |-> {"service_name"}, get_persistent_volume_claim |-> {"claim_name"},
     get_rollout_status |-> {"deployment_name"}, add_kubeconfig_context |-> {"ssh_connection"},
     switch_kubeconfig_context |-> {"context_name"}, search_deployment_repo |-> {"query"},
     get_deployment_repo_file |-> {"file_path"}]
RequiredOfWrites ==
    [exec_pod_command |-> {"namespace", "pod_name", "command"}, delete_pod |-> {"namespace", "pod_name"},
     rollout_restart |-> {"namespace", "deployment_name"},
     scale_deployment |-> {"namespace", "deployment_name", "replicas"},
     apply_patch |-> {"namespace", "resource_type", "resource_name", "patch"}]
RequiredOfAnalyses ==
    [investigate_pod |-> {"pod_name"}, investigate_workload |-> {"workload_name"}, analyze_namespace |-> {"namespace"},
     analyze_error |-> {"error_text"}, cluster_report |-> {"events_text"}, error_summary |-> {"errors"}]
RequiredOfPlans ==
    [propose_remediation_plan |-> {"issue", "steps"}, get_plan |-> {"plan_id"}, kb_search |-> {"query"},
     execute_plan_step |-> {"plan_id", "step_index", "confirmation_token"}, prom_query |-> {"query"},
     get_ingress |-> {"ingress_name"}, investigate_ingress |-> {"ingress_name"}]

RequiredParams(tool) ==
    CASE tool \in DOMAIN RequiredOfReads    -> RequiredOfReads[tool]
      [] tool \in DOMAIN RequiredOfLookups  -> RequiredOfLookups[tool]
      [] tool \in DOMAIN RequiredOfWrites   -> RequiredOfWrites[tool]
      [] tool \in DOMAIN RequiredOfAnalyses -> RequiredOfAnalyses[tool]
      [] tool \in DOMAIN RequiredOfPlans    -> RequiredOfPlans[tool]
      [] OTHER                              -> {}

\* The parameter a tool is about, and the shorthands a model uses for it in the order they are
\* tried (the shorthands of the focus flags are left out).
Shorthands(tool) ==
    CASE tool \in {"investigate_node", "get_nodes"}                   -> <<"node_name", <<"name", "node">>>>
      [] tool \in {"investigate_pod", "get_pod_logs", "describe_pod"} -> <<"pod_name", <<"name", "pod">>>>
      [] tool \in {"get_deployment", "get_rollout_status"}            -> <<"deployment_name", <<"name", "deployment">>>>
      [] tool \in {"get_service", "get_endpoints"}                    -> <<"service_name", <<"name", "service">>>>
      [] tool = "investigate_workload"                                -> <<"workload_name", <<"name", "workload">>>>
      [] tool \in {"analyze_error", "get_fix_commands"}               -> <<"error_text", <<"error", "message", "log">>>>
      [] tool = "cluster_report"                                      -> <<"events_text", <<"events">>>>
      [] OTHER                                                        -> <<"name", <<>>>>

\* A plausible bug: a shorthand overwrites the parameter that was given.
BugNormalizeParams(tool, params) ==
    LET words == Shorthands(tool)[2]
        given == {i \in DOMAIN words : words[i] \in DOMAIN params}
    IN  IF given = {} THEN params
        ELSE [p \in DOMAIN params \cup {Shorthands(tool)[1]} |->
                IF p = Shorthands(tool)[1] THEN params[words[Min(given)]] ELSE params[p]]

\* A shorthand fills its parameter unless that was given too.
NormalizeParams(tool, params) ==
    LET words == Shorthands(tool)[2]
        given == {i \in DOMAIN words : words[i] \in DOMAIN params}
    IN  IF given = {} THEN params
        ELSE [p \in DOMAIN params \cup {Shorthands(tool)[1]} |->
                IF p \in DOMAIN params THEN params[p] ELSE params[words[Min(given)]]]

ValidateParams(tool, params) == RequiredParams(tool) \subseteq DOMAIN params

------------------------------------------------------------ (* handlers *)

\* A name is the sequence of its words; a phrase also has a way to write it as one word.
GenericSuffixes == {"pod", "deployment", "service", "app", "application", "workload"}

HasPart(name, part) == \E i \in 1..Len(name) : IsPrefix(part, SubSeq(name, i, Len(name)))

CandidateWorkloadNames(phrase) ==
    LET words == phrase.words
    IN  <<words>> \o (IF Len(words) > 1 THEN <<<<phrase.glued>>>> ELSE <<>>)
                  \o (IF Len(words) > 1 /\ Last(words) \in GenericSuffixes THEN <<Front(words)>> ELSE <<>>)

\* Of the pods that were listed, those that fit a candidate best: the exact name, else by prefix,
\* else any.  Pods and what else is listed are told by their place in the listing.
BestMatches(pods, listed, candidate) ==
    LET exact    == {i \in listed : pods[i].name = candidate}
        prefixed == {i \in listed : IsPrefix(candidate, pods[i].name)}
    IN  CASE exact # {}                    -> exact
          [] exact = {} /\ prefixed # {} -> prefixed
          [] OTHER                         -> {i \in listed : HasPart(pods[i].name, candidate)}

\* What find_workload gives for a candidate: of the namespace that was named when there is any
\* there, else of all namespaces.
Found(world, kind, candidate, ns) ==
    LET all  == {i \in DOMAIN world[kind] : "find" \notin world.fails /\ HasPart(world[kind][i].name, candidate)}
        here == {i \in all : world[kind][i].ns = ns}
    IN  IF here # {} THEN here ELSE all

\* The first pod that was found for a candidate, else the candidate where its first deployment is.
FirstFound(world, candidate, ns) ==
    LET pods == Found(world, "pods", candidate, ns)
        deps == Found(world, "deployments", candidate, ns)
    IN  IF pods # {} THEN [ns |-> world.pods[Min(pods)].ns, name |-> world.pods[Min(pods)].name]
        ELSE [ns |-> world.deployments[Min(deps)].ns, name |-> candidate]

\* A plausible bug: a pod listed in the namespace is taken whatever fits better.
BugResolvePodNsAndName(world, phrase, ns) ==
    LET names == CandidateWorkloadNames(phrase)
        hits  == {i \in DOMAIN world.pods : \E k \in DOMAIN names : HasPart(world.pods[i].name, names[k])}
    IN  IF hits # {} THEN [ns |-> world.pods[Min(hits)].ns, name |-> world.pods[Min(hits)].name]
        ELSE [ns |-> IF ns = "" THEN "default" ELSE ns, name |-> phrase.words]

\* The candidates are tried in order: in the namespace that was named, then everywhere.
ResolvePodNsAndName(world, phrase, ns) ==
    LET names  == CandidateWorkloadNames(phrase)
        listed == {i \in DOMAIN world.pods : ns # "" /\ "list" \notin world.fails /\ world.pods[i].ns = ns}
        here   == {k \in DOMAIN names : BestMatches(world.pods, listed, names[k]) # {}}
        found  == {k \in DOMAIN names : \E kind \in {"pods", "deployments"} : Found(world, kind, names[k], ns) # {}}
    IN  CASE here # {}                 -> [ns |-> ns, name |-> world.pods[Min(BestMatches(world.pods, listed, names[Min(here)]))].name]
          [] here = {} /\ found # {} -> FirstFound(world, names[Min(found)], ns)
          [] OTHER                     -> [ns |-> IF ns = "" THEN "default" ELSE ns, name |-> phrase.words]

\* Where a tool acts: a pod's investigation and logs look the pod up, a service without a namespace
\* is looked for; every other handler takes "default" for a namespace that is not given.
NamespaceOr(params) == IF "namespace" \in DOMAIN params THEN params["namespace"] ELSE "default"

RegistryTarget(tool, params) ==
    CASE tool \in {"get_nodes", "investigate_node"} /\ "node_name" \in DOMAIN params -> <<"", params["node_name"]>>
      [] tool \in {"investigate_pod", "get_pod_logs", "describe_pod", "delete_pod", "exec_pod_command"} ->
            <<NamespaceOr(params), params["pod_name"]>>
      [] tool \in {"get_deployment", "get_rollout_status", "rollout_restart", "scale_deployment"} ->
            <<NamespaceOr(params), params["deployment_name"]>>
      [] tool \in {"get_service", "get_endpoints"} -> <<NamespaceOr(params), params["service_name"]>>
      [] tool = "investigate_workload" -> <<NamespaceOr(params), params["workload_name"]>>
      [] OTHER -> <<NamespaceOr(params), "">>

\* The destructive handlers default what is not given; nothing is confirmed by default.
Flag(params, p, default) == IF p \in DOMAIN params THEN params[p] ELSE default

WriteCall(tool, params) ==
    [tool |-> tool, target |-> RegistryTarget(tool, params), confirm |-> Flag(params, "confirm", "no"),
     token |-> Flag(params, "confirmation_token", "none"), dryRun |-> Flag(params, "dry_run", "no")]

ServiceTarget(world, name) ==
    LET found == Found(world, "services", name, "")
    IN  IF found = {} THEN [ns |-> "default", name |-> name]
        ELSE [ns |-> world.services[Min(found)].ns, name |-> world.services[Min(found)].name]

\* A session changes its context only to one that answers; the namespace is the context's own
\* when it can be read and is well formed.
SwitchContext(conn, context, world) ==
    CASE conn = <<>>            -> [success |-> FALSE, conn |-> conn]
      [] conn # <<>> /\ ~world.reachable -> [success |-> FALSE, conn |-> conn]
      [] OTHER -> [success |-> TRUE,
                   conn |-> <<[mode |-> conn[1].mode, path |-> conn[1].path, context |-> context,
                               ns |-> IF world.ns \in {"", "malformed"} THEN "default" ELSE world.ns]>>]

\* The AI tools give JSON text: MCP passes it on, the other surfaces parse it and may fail at that.
JsonTools == {"analyze_error", "get_fix_commands", "list_error_categories", "cluster_report", "error_summary", "generate_runbook"}

HandlerOutcome(call, tool) ==
    CASE call.outcome # "not json"                       -> call.outcome
      [] tool \in JsonTools /\ call.surface # "mcp" /\ call.outcome = "not json" -> "failed"
      [] OTHER                                           -> "ok"

KbSearch(job) ==
    CASE job.coll = "unknown" -> [success |-> FALSE, error |-> "unknown collection", filters |-> {}]
      [] job.coll # "unknown" /\ ~job.connects -> [success |-> FALSE, error |-> "vector DB unavailable", filters |-> {}]
      [] OTHER -> [success |-> TRUE, error |-> "", filters |-> job.given \cup (IF job.verified THEN {"verified"} ELSE {})]

------------------------------------------------------------ (* dispatch *)

\* A call names a tool, brings parameters, and comes from a surface; what the handler and the
\* search for a lost name do is the call's outcome.
Replied(call, error, ran) ==
    [error |-> error, ran |-> ran, hint |-> FALSE, enveloped |-> call.surface = "react"]

WorkloadNamed(params) ==
    \E p \in {"deployment_name", "service_name", "pod_name", "node_name", "name"} : p \in DOMAIN params

\* A plausible bug: the surface of a tool is looked at only for names in the registry.
BugDispatch(call) ==
    LET tool   == ResolveTool(call.name, call.desktop)
        params == NormalizeParams(tool, call.params)
    IN  CASE tool = NoTool -> Replied(call, "unknown_tool", NoTool)
          [] tool = call.name /\ call.surface # "playbook" /\ call.surface \notin Surfaces(tool) -> Replied(call, "tool_unavailable", NoTool)
          [] tool # NoTool /\ ~ValidateParams(tool, params) -> Replied(call, "invalid_params", NoTool)
          [] OTHER -> Replied(call, "", tool)

Dispatch(call) ==
    LET tool   == ResolveTool(call.name, call.desktop)
        params == NormalizeParams(tool, call.params)
    IN  CASE tool = NoTool -> Replied(call, "unknown_tool", NoTool)
          [] tool # NoTool /\ call.surface # "playbook" /\ call.surface \notin Surfaces(tool) ->
                Replied(call, "tool_unavailable", NoTool)
          [] tool # NoTool /\ (call.surface = "playbook" \/ call.surface \in Surfaces(tool))
                           /\ ~ValidateParams(tool, params) -> Replied(call, "invalid_params", NoTool)
          [] OTHER ->
                CASE HandlerOutcome(call, tool) = "ok" -> Replied(call, "", tool)
                  [] HandlerOutcome(call, tool) = "not found" /\ WorkloadNamed(params) /\ call.finds ->
                        [Replied(call, "", tool) EXCEPT !.hint = TRUE]
                  [] OTHER -> Replied(call, "raised", tool)

-------------------------------------------------------- (* MCP server *)

\* The tools the server declares and branches to by hand: all that were registered then.
HandWrittenTools ==
    (InvestigationTools \ {"analyze_k8s_health", "assess_resilience", "get_ingress", "investigate_ingress"})
    \cup (DiscoveryTools \ {"get_persistent_volume_claim"}) \cup HelmTools
    \cup (ClusterTools \ {"prom_query", "get_recent_changes"})
    \cup (AnalysisTools \ {"get_recent_alerts", "get_investigation_details"}) \cup McpOnlyTools

\* A plausible bug: what is registered later is declared only when it is shown to the loop.
BugRegistryBackedTools(covered, desktop) == ReactTools(desktop) \ covered

RegistryBackedTools(covered, desktop) == {t \in Registered(desktop) : "mcp" \in Surfaces(t) /\ t \notin covered}

GetToolsDefinitions(desktop) == HandWrittenTools \cup RegistryBackedTools(HandWrittenTools, desktop)

DispatchViaRegistry(call) ==
    IF call.name \in Registered(call.desktop) /\ "mcp" \in Surfaces(call.name)
    THEN Dispatch([call EXCEPT !.surface = "mcp"])
    ELSE [error |-> "unknown_tool", ran |-> NoTool, hint |-> FALSE, enveloped |-> FALSE]

\* A branch of its own validates with the same schema but knows no shorthand, and turns what is
\* raised into text.
HandBranch(call) ==
    LET told    == Replied([call EXCEPT !.surface = "mcp"], "", call.name)
        outcome == HandlerOutcome([call EXCEPT !.surface = "mcp"], call.name)
    IN  CASE ~ValidateParams(call.name, call.params) -> [told EXCEPT !.error = "Validation error", !.ran = NoTool]
          [] ValidateParams(call.name, call.params) /\ outcome # "ok" -> [told EXCEPT !.error = "raised"]
          [] OTHER -> told

CallTool(call) == IF call.name \in HandWrittenTools THEN HandBranch(call) ELSE DispatchViaRegistry(call)

HandTarget(tool, params) ==
    CASE tool \in {"get_nodes", "investigate_node"} /\ "node_name" \in DOMAIN params -> <<"", params["node_name"]>>
      [] tool \in {"investigate_pod", "get_pod_logs"} -> <<NamespaceOr(params), params["pod_name"]>>
      [] tool = "describe_pod" -> <<params["namespace"], params["pod_name"]>>
      [] tool \in {"get_deployment", "get_rollout_status"} -> <<NamespaceOr(params), params["deployment_name"]>>
      [] tool \in {"get_service", "get_endpoints"} -> <<NamespaceOr(params), params["service_name"]>>
      [] tool = "investigate_workload" -> <<NamespaceOr(params), params["workload_name"]>>
      [] OTHER -> <<NamespaceOr(params), "">>

\* A plausible bug: a branch confirms what it is not told to.
BugHandWriteCall(tool, params) == [WriteCall(tool, params) EXCEPT !.confirm = "yes"]

HandWriteCall(tool, params) ==
    [tool |-> tool,
     target |-> <<params["namespace"], params[IF tool \in {"delete_pod", "exec_pod_command"} THEN "pod_name" ELSE "deployment_name"]>>,
     confirm |-> Flag(params, "confirm", "no"), token |-> Flag(params, "confirmation_token", "none"),
     dryRun |-> Flag(params, "dry_run", "no")]

HandKbSearch(job) ==
    IF job.coll # "unknown" /\ job.connects
    THEN [success |-> TRUE, error |-> "", filters |-> (IF job.verified THEN {"verified"} ELSE {}) \cup job.given]
    ELSE [success |-> FALSE, error |-> IF job.coll = "unknown" THEN "unknown collection" ELSE "vector DB unavailable", filters |-> {}]

------------------------------------------------------------- (* scoping *)

EscapeHatches == {"get_namespaces", "kb_search"}

ScopeTools ==
    [knowledge  |-> {"kb_search", "generate_runbook", "get_fix_commands"},
     resilience |-> {"assess_resilience", "get_deployment", "get_pods", "get_nodes", "list_namespace_resources", "get_events", "find_workload"},
     pod_debug  |-> {"investigate_pod", "get_pod_logs", "get_events", "get_pods", "describe_pod", "get_deployment", "get_rollout_status", "find_workload"},
     rollout    |-> {"get_deployment", "get_rollout_status", "get_pods", "get_events", "get_resource_graph", "investigate_workload", "find_workload"},
     service    |-> {"get_service", "get_endpoints", "list_services", "get_pods", "get_resource_graph", "find_workload"},
     inventory  |-> {"get_namespaces", "get_nodes", "get_pods", "list_services", "list_namespace_resources", "list_kubeconfig_contexts", "find_workload"}]

ScopeOrder == <<"knowledge", "resilience", "pod_debug", "rollout", "service", "inventory">>

\* A plausible bug: the tools of a scope are not held against those that are available.
BugScopeForPrompt(hits, available) ==
    LET matching == {i \in DOMAIN ScopeOrder : ScopeOrder[i] \in hits}
        scope    == ScopeOrder[Min(matching)]
    IN  IF matching = {} THEN [scope |-> "broad", tools |-> available]
        ELSE [scope |-> scope, tools |-> ScopeTools[scope] \cup EscapeHatches]

\* hits are the scopes whose patterns match the prompt; the first decides.
ScopeForPrompt(hits, available) ==
    LET matching == {i \in DOMAIN ScopeOrder : ScopeOrder[i] \in hits}
        scope    == ScopeOrder[Min(matching)]
    IN  IF matching = {} THEN [scope |-> "broad", tools |-> available]
        ELSE [scope |-> scope, tools |-> (ScopeTools[scope] \cup EscapeHatches) \cap available]

---------------------------------------------------------- (* properties *)

\* Under no name, alias or synonym does a tool run on a surface it was not registered for, and so
\* no tool that changes the cluster runs for the loop or the chat (dispatch, tool_registry.py:1885);
\* what is raised is told or turned into a hint, and the loop is always given an envelope.
DispatchIsContained(call, out) ==
    /\ out.ran # NoTool => call.surface = "playbook" \/ call.surface \in Surfaces(out.ran)
    /\ call.surface \in {"react", "chat"} => out.ran \notin WriteTools
    /\ out.ran # NoTool /\ HandlerOutcome(call, out.ran) # "ok" => out.error # "" \/ out.hint
    /\ out.error = "" => ValidateParams(out.ran, NormalizeParams(out.ran, call.params))
    /\ out.enveloped = (call.surface = "react")

\* A parameter given by its own name wins over its shorthands, and nothing given is lost
\* (_normalize_params, tool_registry.py:1832).
ParamsAreKept(call) ==
    LET out == NormalizeParams(ResolveTool(call.name, call.desktop), call.params)
    IN  \A p \in DOMAIN call.params : p \in DOMAIN out /\ out[p] = call.params[p]

\* Every name that the recovery hints and the native specs offer resolves to a tool of that
\* surface, so a retry with it does not fail for its name (valid_tool_names, tool_registry.py:1874).
HintsAreUsable(surface, desktop) ==
    /\ \A n \in ValidToolNames(surface, desktop) : surface \in Surfaces(ResolveTool(n, desktop))
    /\ BuildNativeToolSpecs(Registered(desktop), desktop) \subseteq ValidToolNames("react", desktop)

\* What an IDE is shown it can call, it is shown every tool of its surface, and a branch by hand
\* acts where and as the registry would have; only the registry knows the shorthands, so with one of
\* them the two may differ (mcp_server/tools.py:533 and 574).
McpIsWhole(call, out) ==
    /\ {t \in Registered(call.desktop) : "mcp" \in Surfaces(t)} = GetToolsDefinitions(call.desktop)
    /\ call.name \in GetToolsDefinitions(call.desktop) <=> out.error # "unknown_tool"
    /\ (out.ran \in HandWrittenTools /\ ToSet(Shorthands(out.ran)[2]) \cap DOMAIN call.params = {}) =>
          IF out.ran \in {"delete_pod", "rollout_restart", "scale_deployment"}
          THEN HandWriteCall(out.ran, call.params) = WriteCall(out.ran, call.params)
          ELSE out.ran \in WriteTools \/ HandTarget(out.ran, call.params) = RegistryTarget(out.ran, call.params)

\* The pod a tool acts on is there and fits a name of the phrase, or the phrase comes back as it
\* was; a pod of the namespace that was named is taken before one elsewhere, and its exact name
\* before a longer one (_resolve_pod_ns_and_name, tool_registry.py:93).
PodIsTheOne(world, phrase, ns, out) ==
    LET names == CandidateWorkloadNames(phrase)
        Fits(p) == \E i \in DOMAIN names : HasPart(p.name, names[i])
        here  == {p \in ToSet(world.pods) : p.ns = ns /\ Fits(p)}
    IN  /\ \/ \E p \in ToSet(world.pods) : Fits(p) /\ out = [ns |-> p.ns, name |-> p.name]
           \/ \E d \in ToSet(world.deployments), i \in DOMAIN names : out = [ns |-> d.ns, name |-> names[i]]
           \/ out.name = phrase.words
        /\ (here # {} /\ "list" \notin world.fails) => out.ns = ns
        /\ (\E p \in here : p.name = names[1]) /\ "list" \notin world.fails => out.name = names[1]

\* A service asked for without a namespace is one that was found, or the name as it was given
\* (_handle_get_service, tool_registry.py:424).
ServiceIsTheOne(world, name, out) ==
    \/ \E s \in ToSet(world.services) : HasPart(s.name, name) /\ out = [ns |-> s.ns, name |-> s.name]
    \/ out = [ns |-> "default", name |-> name]

\* A session's context changes only to one that answered, within the kubeconfig it had
\* (_handle_switch_kubeconfig_context, tool_registry.py:477).
SwitchIsChecked(conn, world, out) ==
    /\ out.conn # conn => out.success /\ world.reachable
    /\ out.conn # <<>> => conn # <<>> /\ out.conn[1].path = conn[1].path /\ out.conn[1].mode = conn[1].mode

\* A scope offers tools the loop can call and more than the ways out of it, and the most specific
\* scope that matches decides (scope_for_prompt, tool_scoper.py:199).
ScopeIsUsable(hits, available, out) ==
    /\ out.tools \subseteq available
    /\ out.scope = "broad" => out.tools = available
    /\ available = ReactTools(FALSE) => EscapeHatches \subseteq out.tools /\ ~(out.tools \subseteq EscapeHatches)
=============================================================================
