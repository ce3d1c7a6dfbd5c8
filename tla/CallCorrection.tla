---------------------------- MODULE CallCorrection ----------------------------
(***************************************************************************)
(* The model's next call, as the ReAct loop reads and corrects it          *)
(* (ui/backend/react.py): the repair of a malformed reply, the corrections *)
(* by the words of the question, the call forced after a failing pod was   *)
(* found, and the result that stays on display.                            *)
(*                                                                         *)
(* A question is [words, target]: the words the classifiers look for, each *)
(* standing for its synonyms, and whether a name precedes "pods".          *)
(***************************************************************************)
EXTENDS Integers, FiniteSets, Sequences, SequencesExt

---------------------------------------------------- (* what is asked for *)

Has(q, words) == words \cap q.words # {}

PodStatus(q) == IF Has(q, {"crash"}) THEN "CrashLoopBackOff" ELSE IF Has(q, {"pending"}) THEN "Pending" ELSE ""

PodFailureTarget(q) == Has(q, {"why", "root-cause"}) /\ Has(q, {"pods"}) /\ Has(q, {"crash"}) /\ q.target

\* The exclusions spell the root cause with a space: the hyphen passes.
SimplePodStatusInventory(q) == Has(q, {"pods"}) /\ ~Has(q, {"why"}) /\ Has(q, {"list"})

PodFocus(q) ==
    IF ~Has(q, {"pods"}) THEN ""
    ELSE IF Has(q, {"labels"}) /\ ~Has(q, {"status", "images", "memory", "where", "node"}) THEN "labels_only"
    ELSE IF Has(q, {"images"}) THEN "images_only"
    ELSE IF Has(q, {"memory"}) THEN "resources_only"
    ELSE IF Has(q, {"where"}) THEN "placement_only" ELSE ""

NodeFocus(q) ==
    IF ~Has(q, {"node", "nodes"}) THEN ""
    ELSE IF Has(q, {"labels"}) /\ ~Has(q, {"status", "memory", "taints"}) THEN "labels_only"
    ELSE IF Has(q, {"taints"}) THEN "taints_only" ELSE ""

DeploymentFocus(q) ==
    IF ~Has(q, {"deployments"}) THEN ""
    ELSE IF Has(q, {"labels"}) /\ ~Has(q, {"status", "images", "memory"}) THEN "labels_only"
    ELSE IF Has(q, {"images"}) THEN "images_only"
    ELSE IF Has(q, {"memory"}) THEN "resources_only" ELSE ""

AsksNodeInventory(q) == Has(q, {"all"}) /\ Has(q, {"node", "nodes"})

AsksNodeLabels(q) == (AsksNodeInventory(q) \/ Has(q, {"nodes"})) /\ Has(q, {"labels"})

LabelsOnly(q) == AsksNodeLabels(q) /\ ~Has(q, {"status", "memory"})

----------------------------------------------------------- (* corrections *)

\* A field that is "" is not among the call's parameters; one of EmptyText is, and has no text.
EmptyText == "no text"

Filled(text) == IF text = EmptyText THEN "" ELSE text

CallOf(action) == [action |-> action, pod |-> "", ns |-> "", status |-> "", focus |-> "", node |-> ""]

\* Each correction is a condition and the call it makes.
Corrections(q, c, useful, attempted) ==
    LET status == PodStatus(q)
        wide   == NodeFocus(q)
        Named(default) == IF c.ns = "" THEN default ELSE c.ns
    IN  << [when |-> PodFailureTarget(q) /\ status # "" /\ ~useful /\ ~attempted
                     /\ c.action \notin {"investigate_pod", "investigate_workload", "answer"},
            call |-> [CallOf("investigate_pod") EXCEPT !.pod = "target", !.ns = Filled(c.ns)]],
           [when |-> status # "" /\ SimplePodStatusInventory(q) /\ c.action = "get_pods",
            call |-> [c EXCEPT !.ns = Named("*"), !.status = status]],
           [when |-> /\ status # "" /\ SimplePodStatusInventory(q)
                     /\ c.action \in {"investigate_pod", "get_pod_logs", "describe_pod",
                                      "list_namespace_resources", "get_events"},
            call |-> [CallOf("get_pods") EXCEPT !.ns = "*", !.status = status]],
           [when |-> /\ c.action = "investigate_node"
                     /\ \/ AsksNodeInventory(q)
                        \/ AsksNodeLabels(q)
                        \/ wide # "" /\ Has(q, {"nodes"}),
            call |-> [CallOf("get_nodes") EXCEPT
                         !.focus = IF wide # "" THEN wide ELSE IF LabelsOnly(q) THEN "labels_only" ELSE ""]],
           [when |-> c.action = "get_nodes" /\ (LabelsOnly(q) \/ wide # ""),
            call |-> [c EXCEPT !.node = "", !.focus = IF wide # "" THEN wide ELSE "labels_only"]],
           [when |-> PodFocus(q) # "" /\ c.action = "get_pods",
            call |-> [c EXCEPT !.ns = Named("*"), !.focus = PodFocus(q)]],
           [when |-> /\ PodFocus(q) # "" /\ Has(q, {"all", "list"})
                     /\ c.action \in {"investigate_pod", "get_pod_logs", "describe_pod"},
            call |-> [CallOf("get_pods") EXCEPT !.ns = "*", !.focus = PodFocus(q)]],
           [when |-> c.action = "get_deployment" /\ DeploymentFocus(q) # "",
            call |-> [c EXCEPT !.focus = DeploymentFocus(q)]] >>

BugCoerceActionForQuestion(q, c, useful, attempted) ==
    IF c.action = "get_nodes" /\ LabelsOnly(q) THEN [CallOf("get_nodes") EXCEPT !.focus = "labels_only"]
    ELSE IF PodFailureTarget(q) /\ PodStatus(q) # "" /\ ~attempted
         THEN [CallOf("investigate_pod") EXCEPT !.pod = "target"] ELSE c

\* The first that applies is made.
CoerceActionForQuestion(q, c, useful, attempted) ==
    LET table   == Corrections(q, c, useful, attempted)
        applies == {i \in DOMAIN table : table[i].when}
    IN  IF applies = {} THEN c ELSE table[Min(applies)].call

\* The first pod of an inventory that is named like the target and failing as asked; the
\* inventory's own fields are read, and an enveloped answer has none.
DiscoverFailingPod(q, tool, pods, enveloped) ==
    LET Matches(p) == /\ p.named
                      /\ \/ p.status = PodStatus(q)
                         \/ PodStatus(q) = "CrashLoopBackOff" /\ p.status \notin {"", "Running", "Succeeded"}
        found == {i \in DOMAIN pods : pods[i].ns # "" /\ Matches(pods[i])}
    IN  IF tool # "get_pods" \/ enveloped \/ ~PodFailureTarget(q) \/ PodStatus(q) = "" \/ found = {} THEN <<>>
        ELSE <<pods[Min(found)]>>

\* Only what the call leaves out is the found pod's: what it gives without text stays.
CoerceAfterPodDiscovery(q, c, found, useful) ==
    IF useful \/ found = <<>> \/ ~PodFailureTarget(q) \/ PodStatus(q) = "" THEN c
    ELSE IF c.action = "investigate_pod"
         THEN [c EXCEPT !.ns = IF @ = "" THEN found[1].ns ELSE @, !.pod = IF @ = "" THEN "found" ELSE @]
         ELSE [CallOf("investigate_pod") EXCEPT !.ns = found[1].ns, !.pod = "found"]

---------------------------------------------------- (* the result on show *)

ShownInvestigations == {"investigate_pod", "investigate_workload", "analyze_namespace", "investigate_node"}

BugShouldReplacePrimary(current, new) == new \in ShownInvestigations \/ current = ""

ShouldReplacePrimary(current, new) ==
    CASE new \in {"get_namespaces", "find_workload", "kb_search"}                -> FALSE
      [] new \notin {"get_namespaces", "find_workload", "kb_search"} /\ current = "" -> TRUE
      [] OTHER -> /\ new \in ShownInvestigations
                  /\ new = "investigate_pod" \/ current \notin ShownInvestigations

\* A call made before is answered with an error, which is a result like any other: it may take
\* the place of the investigation it repeats.
Result(calls, k) ==
    LET again == \E j \in 1..(k - 1) : calls[j].tool = calls[k].tool /\ calls[j].of = calls[k].of
    IN  [tool |-> calls[k].tool, of |-> calls[k].of, useful |-> calls[k].useful /\ ~again]

\* What is on show after each call.
Primary(calls) ==
    LET shown[k \in 0..Len(calls)] ==
            IF k = 0 THEN [tool |-> "", of |-> "", useful |-> FALSE]
            ELSE IF ShouldReplacePrimary(shown[k - 1].tool, calls[k].tool) THEN Result(calls, k) ELSE shown[k - 1]
    IN  shown

PrimaryAfter(calls) == Primary(calls)[Len(calls)]

--------------------------------------------------- (* the reply, repaired *)

BugParseReactResponse(reply) ==
    IF reply.form \in {"whole", "within", "headless"} THEN <<[action |-> reply.action, params |-> reply.params]>>
    ELSE <<[action |-> "answer", params |-> "none"]>>

\* A reply is [form, action, params, text, marked]: it parses as a whole, or within other text or
\* without its opening; or it is cut short.  text says whether a cut answer has any of its text,
\* marked whether a quoted field name is in it.  Of a cut call only flat parameters are read.
ParseReactResponse(reply) ==
    CASE reply.form \in {"whole", "within", "headless"} ->
            <<[action |-> reply.action, params |-> reply.params]>>
      [] reply.form = "cut" /\ reply.action = "answer" /\ reply.text ->
            <<[action |-> "answer", params |-> "none"]>>
      [] reply.form = "cut" /\ reply.action \notin {"answer", ""} ->
            <<[action |-> reply.action, params |-> IF reply.params = "flat" THEN "flat" ELSE "none"]>>
      [] reply.form = "cut" /\ ~reply.marked /\ reply.action = "" ->
            IF reply.text THEN <<[action |-> "answer", params |-> "none"]>> ELSE <<>>
      [] OTHER -> <<>>

---------------------------------------------------------- (* what is meant *)

\* Corrections name the tools they may, leave an answer alone, widen what is asked of every node,
\* and, but for questions that ask why and for an inventory at once, have nothing left to correct.
CorrectionSettles(q, c, useful, attempted, out) ==
    /\ out.action \in {c.action, "investigate_pod", "get_pods", "get_nodes"}
    /\ c.action = "answer" => out = c
    /\ AsksNodeInventory(q) => out.action # "investigate_node"
    /\ (out.action = "get_nodes" /\ LabelsOnly(q)) => out.node = ""
    /\ out.action = "get_pods" /\ PodStatus(q) # "" /\ SimplePodStatusInventory(q) => out.status = PodStatus(q)
    /\ \/ CoerceActionForQuestion(q, out, useful, attempted) = out
       \/ PodFailureTarget(q) /\ (PodFocus(q) # "" \/ SimplePodStatusInventory(q))

\* Once a failing pod is found, what runs next is an investigation with both of its parameters: the
\* found pod's in place of another call, else the call's own where it gives them, even without
\* text; until one was of use: then nothing is corrected, so that an answer can end the loop.
DiscoveryIsFollowed(c, found, useful, out) ==
    /\ useful => out = c
    /\ (found # <<>> /\ ~useful) =>
          /\ out.action = "investigate_pod" /\ out.ns # "" /\ out.pod # ""
          /\ out.ns # found[1].ns \/ out.pod # "found" => c.action = "investigate_pod"
          /\ out.ns \in {c.ns, found[1].ns} /\ out.pod \in {c.pod, "found"}

\* What stays on show is the most specific investigation made: a pod's over any other's, any
\* other's over what is no investigation.
MostSpecificIsShown(calls, shown) ==
    LET tools == {calls[i].tool : i \in DOMAIN calls}
    IN  /\ "investigate_pod" \in tools => shown.tool = "investigate_pod"
        /\ tools \cap ShownInvestigations # {} => shown.tool \in ShownInvestigations
        /\ shown.tool \notin ShownInvestigations =>
              \A i \in DOMAIN calls :
                 calls[i].tool \notin {"get_namespaces", "find_workload", "kb_search"} =>
                    \E j \in 1..i : calls[j].tool = shown.tool

\* A tool call is never shown as the answer, an answer never run, and nothing is made up of a
\* reply that held neither whole.
ReplyIsKept(reply, out) ==
    \A i \in DOMAIN out :
       /\ reply.action # "" => out[i].action = reply.action
       /\ reply.action = "" => out[i].action \in {"", "answer"} /\ ~(reply.form = "cut" /\ reply.marked)
       /\ out[i].params # "none" => out[i].params = reply.params
=============================================================================
