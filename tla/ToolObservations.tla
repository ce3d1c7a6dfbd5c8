--------------------------- MODULE ToolObservations ---------------------------
(***************************************************************************)
(* What the ReAct loop makes of a tool's answer: the envelope every tool   *)
(* is wrapped in (mcp/services/tool_envelope.py), the observation the run  *)
(* records and the one the next prompt holds (ui/backend/react.py), the    *)
(* budget that keeps the prompt short (context_manager.py), the card shown *)
(* of a pod investigation, and the corrections of the model's next call.   *)
(*                                                                         *)
(* A tool's answer is a record of what the envelopes read; keys holds the  *)
(* names of its top level fields, of which only those the readers below    *)
(* ask for matter; asked holds the names of the call's parameters.         *)
(***************************************************************************)
EXTENDS Integers, FiniteSets, Sequences, SequencesExt

ToolAnswer(tool, keys) ==
    [tool |-> tool, keys |-> keys, asked |-> {}, success |-> "absent", errors |-> 0, warns |-> 0, cut |-> FALSE,
     events |-> <<>>, mode |-> "unknown", restarts |-> 0, root |-> "", fix |-> "", deps |-> <<>>,
     logs |-> <<>>, secondary |-> <<>>, pods |-> <<>>, unhealthy |-> 0, warnings |-> 0, ready |-> 0,
     notReady |-> 0, findings |-> 0, timeline |-> 0]

FirstN(s, n) == SubSeq(s, 1, IF n < Len(s) THEN n ELSE Len(s))

\* What s holds at the places of I, in its order.
Picked(s, I) ==
    LET picked[k \in 0..Len(s)] ==
            IF k = 0 THEN <<>> ELSE IF k \in I THEN Append(picked[k - 1], s[k]) ELSE picked[k - 1]
    IN  picked[Len(s)]

OnePerReason(events) ==
    Picked(events, {i \in DOMAIN events : \A j \in 1..(i - 1) : events[j].reason # events[i].reason})

---------------------------------------------------------- (* envelopes *)

Diagnostic == {"investigate_workload", "analyze_namespace", "investigate_node", "analyze_error",
               "cluster_report", "error_summary", "generate_runbook"}
Status == {"get_deployment", "get_service", "get_endpoints", "get_rollout_status",
           "get_resource_graph", "switch_kubeconfig_context"}

HasError(r) == "error" \in r.keys

Envelope(type, verdict, complete, modes, factors) ==
    [type |-> type, verdict |-> verdict, complete |-> complete, modes |-> modes, factors |-> factors]

ToldAs(class, what) == [class |-> class, what |-> what]

AllTold(class, s) == [i \in DOMAIN s |-> ToldAs(class, s[i])]

PodLogsEnvelope(r) ==
    LET verdict == CASE r.success # "yes"                  -> "Unknown"
                     [] r.success = "yes" /\ r.errors > 0  -> "Unhealthy"
                     [] r.success = "yes" /\ r.errors = 0 /\ r.warns > 0 -> "Degraded"
                     [] OTHER                              -> "Healthy"
    IN  Envelope("log_analysis", verdict,
                 IF r.cut \/ r.success # "yes" THEN "partial" ELSE "complete", <<>>, <<>>)

BugTopMessages(events, top) == FirstN(OnePerReason(events), top)

\* An event is [type, reason, at]: warnings first, one message for each reason, at most top.
TopMessages(events, top) ==
    LET warnings == Picked(events, {i \in DOMAIN events : events[i].type = "Warning"})
    IN  FirstN(OnePerReason(warnings \o events), top)

EventsEnvelope(r, top) ==
    LET warned == \E i \in DOMAIN r.events : r.events[i].type = "Warning"
        Class(e) == IF e.type = "Warning" THEN "primary_failure" ELSE "secondary_issue"
        shown == TopMessages(r.events, top)
    IN  Envelope("log_analysis",
                 IF HasError(r) THEN "Unknown" ELSE IF warned THEN "Unhealthy" ELSE "Healthy",
                 IF r.cut \/ HasError(r) THEN "partial" ELSE "complete",
                 [i \in DOMAIN shown |-> ToldAs(Class(shown[i]), shown[i].reason)], <<>>)

BugInvestigatePodEnvelope(r) ==
    Envelope("diagnostic", IF r.mode = "unknown" THEN "Healthy" ELSE "Unhealthy", "complete",
             IF r.mode = "unknown" THEN <<>>
             ELSE <<ToldAs("primary_failure", r.mode), ToldAs("verified_root_cause", r.root)>>,
             AllTold("dependency_check", r.deps))

\* success is taken for TRUE when the answer has none, and an error alone leaves it complete.
InvestigatePodEnvelope(r) ==
    LET verdict ==
            IF r.success = "no" \/ HasError(r) THEN "Unknown"
            ELSE IF r.mode \in {"CrashLoopBackOff", "ImagePullBackOff"} THEN "Unhealthy"
            ELSE IF r.mode = "Pending" \/ r.restarts > 0 THEN "Degraded" ELSE "Healthy"
        root == IF r.root = "" THEN <<>> ELSE <<ToldAs("verified_root_cause", r.root)>>
        mode == IF r.mode = "unknown" THEN <<>> ELSE <<ToldAs("primary_failure", r.mode)>>
    IN  Envelope("diagnostic", verdict, IF r.success = "no" THEN "partial" ELSE "complete", root \o mode,
                 AllTold("dependency_check", r.deps) \o AllTold("container_log_finding", r.logs)
                    \o AllTold("secondary_issue", r.secondary))

\* The deployment's answer holds a record of replicas where the reader expects a number, and a
\* rollout's answer its text under another name: an answer without replicas, which is an error,
\* compares 0 with 0, and no rollout is ever seen to finish.
StatusVerdict(r) ==
    CASE r.tool = "get_deployment"     -> IF "replicas" \in r.keys THEN "Unhealthy" ELSE "Healthy"
      [] r.tool = "get_endpoints"      -> IF r.ready > 0 THEN "Healthy"
                                          ELSE IF r.notReady > 0 THEN "Degraded" ELSE "Unhealthy"
      [] r.tool = "get_rollout_status" -> "Unknown"
      [] r.tool = "get_resource_graph" -> "n/a"
      [] r.tool = "switch_kubeconfig_context" -> IF r.success = "yes" THEN "Healthy" ELSE "Unhealthy"
      [] OTHER                         -> "Healthy"

\* A workload's pods are [status, ready]; a node's conditions are looked for where the tool does
\* not put them, so that every node's evidence is stale.
DiagnosticEnvelope(r) ==
    LET bad == \E i \in DOMAIN r.pods : r.pods[i].status \notin {"Running", "Succeeded"} \/ ~r.pods[i].ready
        Says(verdict, modes) == Envelope("diagnostic", verdict, "complete", modes, AllTold("dependency_check", r.deps))
        Stale == Envelope("diagnostic", "Unknown", "stale", <<>>, AllTold("dependency_check", r.deps))
    IN  CASE r.tool = "investigate_node" -> Stale
          [] r.tool \in {"investigate_workload", "analyze_namespace"} /\ r.pods = <<>> -> Stale
          [] r.tool = "investigate_workload" /\ r.pods # <<>> ->
                IF bad THEN Says("Unhealthy", <<ToldAs("primary_failure", "pods")>>) ELSE Says("Healthy", <<>>)
          [] r.tool = "analyze_namespace" /\ r.pods # <<>> ->
                IF r.unhealthy > 0 THEN Says("Unhealthy", <<ToldAs("primary_failure", "pods")>>)
                ELSE IF r.warnings > 0 THEN Says("Degraded", <<ToldAs("primary_failure", "events")>>)
                ELSE Says("Healthy", <<>>)
          [] r.tool = "generate_runbook" -> Says("n/a", <<>>)
          [] OTHER -> IF r.findings > 0 THEN Says("Unhealthy", <<ToldAs("ai_advisory", "findings")>>)
                      ELSE Says("Healthy", <<>>)

\* The tools without an envelope of their own: all but these are inventories.
ByClass(r) ==
    IF r.tool \in Diagnostic THEN DiagnosticEnvelope(r)
    ELSE IF r.tool \in Status THEN Envelope("status_check", StatusVerdict(r), "complete", <<>>, <<>>)
    ELSE Envelope("inventory", "n/a", "complete", <<>>, <<>>)

\* An explicit failure has the last word, but for the three tools with an envelope of their own.
GenericEnvelope(r, top) ==
    LET e == ByClass(r)
    IN  CASE r.tool = "get_pod_logs"    -> PodLogsEnvelope(r)
          [] r.tool = "get_events"      -> EventsEnvelope(r, top)
          [] r.tool = "investigate_pod" -> InvestigatePodEnvelope(r)
          [] OTHER -> IF r.success = "no" THEN Envelope(e.type, "Unknown", "partial", e.modes, e.factors) ELSE e

---------------------------------------------------------- (* observations *)

EnvelopeKeys == {"verdict", "evidence", "raw_excerpt", "confidence_signals", "_meta"}

\* What the loop holds of an answer: its own fields, or those of its envelope with the answer
\* attached for the frontend.  The loop looks for a call's error here too: an enveloped one is
\* not seen, neither retried nor recorded as a failure.
LoopResult(r, enveloped) == IF enveloped THEN EnvelopeKeys \cup {"payload"} ELSE r.keys

Investigations == {"investigate_pod", "investigate_workload", "analyze_namespace"}

FocusKeys(tool) ==
    CASE tool \in Investigations ->
            {"pod_name", "namespace", "classification", "summary", "issue_summary", "evidence_summary",
             "container_log_findings", "related_pods_summary", "ai"}
      [] tool = "investigate_node" -> {"name", "status", "roles", "capacity", "allocated", "pods"}
      [] tool = "get_pods"         -> {"namespace", "pod_count", "health_summary", "focused_modes", "pods"}
      [] tool = "get_nodes"        -> {"node_count", "nodes"}
      [] tool = "get_deployment"   -> {"name", "namespace", "replicas", "health_status", "conditions"}
      [] tool = "list_namespace_resources" -> {"namespace", "summary", "pods", "services", "deployments"}
      [] tool = "get_endpoints"    -> {"name", "namespace", "has_endpoints", "ready_count", "endpoint_slices"}
      [] tool = "get_service"      -> {"name", "namespace", "type", "selector", "ports"}
      [] OTHER                     -> {}

\* The fields the recorded observation shows; a deployment asked for in one respect is whole.
TruncateObservation(keys, tool) ==
    LET shown == keys \ {"payload"}
    IN  IF "verification_report" \in shown THEN {"verification_report"}
        ELSE IF "error" \in shown \/ FocusKeys(tool) = {} THEN shown
        ELSE IF tool = "get_deployment" /\ "focused_modes" \in shown THEN shown
        ELSE shown \cap FocusKeys(tool)

\* Pods not running first, at most so many.
ListedPods(pods, most) ==
    LET sound == {i \in DOMAIN pods : pods[i].status \in {"Running", "Succeeded"}}
    IN  FirstN(Picked(pods, DOMAIN pods \ sound) \o Picked(pods, sound), most)

\* The next prompt holds the answer itself, redacted: every field of it, and of an enveloped one
\* the attached answer too, which its comments say is kept from the model.
PromptedObservation(r, enveloped) == LoopResult(r, enveloped)

----------------------------------------------------- (* the prompt's budget *)

\* An observation is [size, done]: done once it is summarized, truncated or failed.
Marker == 1
Small  == 2

\* A summary is short; the head and tail of text that is one line are the whole of it, and the
\* observations are JSON on one line.
Compacted(o, summarized) ==
    [size |-> (IF summarized THEN Small ELSE o.size) + Marker, done |-> TRUE]

SizeOf(obs) == FoldLeft(LAMBDA n, o : n + o.size, 0, obs)

BugBudgetCheckAndCompact(state, budget, rounds, works) ==
    IF SizeOf(state.obs) <= budget THEN state
    ELSE [state EXCEPT !.obs = [i \in DOMAIN @ |-> Compacted(@[i], TRUE)]]

\* One observation is looked at; over says that the whole fits and the pass has ended.
Visit(pass, i, budget, rounds, works) ==
    LET o     == pass.obs[i]
        tries == pass.rounds < rounds
        obs   == [pass.obs EXCEPT ![i] = Compacted(o, tries /\ works[pass.rounds + 1])]
    IN  IF pass.over \/ o.done \/ o.size <= Small THEN pass
        ELSE [obs |-> obs, rounds |-> IF tries THEN pass.rounds + 1 ELSE pass.rounds, over |-> SizeOf(obs) <= budget]

\* The pass after each observation but the latest, which is left alone.
Visited(state, budget, rounds, works) ==
    LET pass[i \in 0..(Len(state.obs) - 1)] ==
            IF i = 0 THEN [obs |-> state.obs, rounds |-> state.rounds, over |-> FALSE]
            ELSE Visit(pass[i - 1], i, budget, rounds, works)
    IN  pass

\* state = [obs, rounds]; works says of each round whether the provider answers.
BudgetCheckAndCompact(state, budget, rounds, works) ==
    IF SizeOf(state.obs) <= budget \/ Len(state.obs) <= 1 THEN state
    ELSE LET end == Visited(state, budget, rounds, works)[Len(state.obs) - 1]
         IN  [obs |-> end.obs, rounds |-> end.rounds]

Observed(state, n) == [obs |-> Append(state.obs, [size |-> n, done |-> FALSE]), rounds |-> state.rounds]

\* The loop: each answer is appended and the whole is compacted before the next prompt.
Prompts(sizes, budget, rounds, works) ==
    LET prompt[k \in 0..Len(sizes)] ==
            IF k = 0 THEN [obs |-> <<>>, rounds |-> 0]
            ELSE BudgetCheckAndCompact(Observed(prompt[k - 1], sizes[k]), budget, rounds, works)
    IN  prompt

PromptAfter(sizes, budget, rounds, works) == Prompts(sizes, budget, rounds, works)[Len(sizes)]

------------------------------------------------------- (* the cause's card *)

\* The card of a pod investigation, off the answer itself or off its envelope, which files a
\* suspected cause among the verified ones: the card then needs no corroboration.  The envelope
\* names the pod the call asked for where the answer names none.
BugRootCauseSummary(r, enveloped) ==
    IF r.root = "" THEN <<>> ELSE <<[cause |-> r.root, confidence |-> IF enveloped THEN 75 ELSE 95]>>

RootCauseSummary(r, enveloped) ==
    LET modes  == InvestigatePodEnvelope(r).modes
        sure   == {i \in DOMAIN modes : modes[i].class = "verified_root_cause"}
        cause  == IF ~enveloped THEN r.root ELSE IF sure = {} THEN "" ELSE modes[Min(sure)].what
        backed == r.deps # <<>> \/ r.logs # <<>>
        named  == r.keys \cup (IF enveloped THEN r.asked ELSE {})
    IN  IF cause = "" \/ ~({"pod_name", "namespace"} \subseteq named) THEN <<>>
        ELSE <<[cause |-> cause, confidence |-> IF enveloped \/ backed THEN 95 ELSE 75]>>

\* Another answer in the card's stead, off the raw fields only.
DeterministicInvestigatePodAnswer(r, enveloped) ==
    IF enveloped \/ (r.root = "" /\ r.logs = <<>>) THEN <<>> ELSE <<[cause |-> r.root, logs |-> FirstN(r.logs, 4)]>>

HasUsefulPodInvestigation(r, enveloped) ==
    LET e == InvestigatePodEnvelope(r)
    IN  IF enveloped THEN e.modes # <<>> \/ e.factors # <<>>
        ELSE r.root # "" \/ r.deps # <<>> \/ r.secondary # <<>> \/ r.timeline > 0
                \/ r.logs # <<>> \/ r.mode # "unknown"

\* With every other ending failed, what was observed is the answer: at most five findings.
EmergencyAnswer(steps) ==
    LET told == Picked(steps, {i \in DOMAIN steps : steps[i].action # "answer" /\ steps[i].observed})
    IN  CASE steps = <<>>                  -> [kind |-> "ask_again", findings |-> <<>>]
          [] steps # <<>> /\ told = <<>>   -> [kind |-> "incomplete", findings |-> <<>>]
          [] OTHER                         -> [kind |-> "findings", findings |-> FirstN(told, 5)]

---------------------------------------------------------- (* what is meant *)

\* An explicit failure is never a clean bill of health, but for the events, whose reader asks only
\* for an error.
FailureIsTold(r, e) ==
    (r.success = "no" /\ r.tool # "get_events") => (e.verdict = "Unknown" /\ e.complete = "partial")

\* Each reason is told once, no warning's reason is passed over for another event's, and a cause
\* comes before the mode it explains.
ModesAreInOrder(r, e, top) ==
    /\ \A i, j \in DOMAIN e.modes :
          (i < j) => /\ e.modes[j].class # "verified_root_cause"
                     /\ e.modes[i] = e.modes[j] => r.tool # "get_events"
                     /\ (e.modes[j].class = "primary_failure" /\ r.tool = "get_events") =>
                           e.modes[i].class = "primary_failure"
    /\ r.tool = "get_events" =>
          \A i \in DOMAIN r.events :
             \/ \E j \in DOMAIN e.modes : e.modes[j].what = r.events[i].reason
             \/ Len(e.modes) = top

\* A card off the answer is on the envelope too, with the same cause and no less sure of it; the
\* envelope has one more only where the answer does not name its pod, and then of the cause the
\* answer suspects; an answer with a card is useful, and what the envelope finds useful the
\* answer shows to be.
CardsAgree(r) ==
    LET raw  == RootCauseSummary(r, FALSE)
        env  == RootCauseSummary(r, TRUE)
        said == DeterministicInvestigatePodAnswer(r, FALSE)
    IN  /\ raw # <<>> => env # <<>> /\ raw[1].confidence <= env[1].confidence
        /\ (env # <<>> /\ raw = <<>>) => ~({"pod_name", "namespace"} \subseteq r.keys)
        /\ \A card \in Range(raw) \cup Range(env) : said # <<>> /\ said[1].cause = card.cause
        /\ HasUsefulPodInvestigation(r, TRUE) => HasUsefulPodInvestigation(r, FALSE)
        /\ env # <<>> => HasUsefulPodInvestigation(r, TRUE)

\* What a step records shows nothing that the next prompt does not hold, and of an enveloped
\* answer less: the attached answer is in the prompt only, and with it any error that the loop
\* has not seen.  An error it has seen is recorded with what it says, and a pod that fails is
\* shown before any that runs.
RecordIsFocused(r, pods, most) ==
    /\ \A e \in BOOLEAN :
          LET shown == TruncateObservation(LoopResult(r, e), r.tool)
          IN  /\ "payload" \notin shown /\ shown \subseteq PromptedObservation(r, e)
              /\ HasError(r) => {"error", "payload"} \cap PromptedObservation(r, e) # {}
    /\ HasError(r) => TruncateObservation(LoopResult(r, FALSE), r.tool) = r.keys
    /\ LET shown == ListedPods(pods, most)
           fails == {p \in Range(pods) : p.status \notin {"Running", "Succeeded"}}
       IN  fails \subseteq Range(shown) \/ Range(shown) \subseteq fails

\* When nothing else could be said, something that was observed is.
NothingIsWithheld(steps) ==
    (\E i \in DOMAIN steps : steps[i].observed /\ steps[i].action # "answer") =>
        EmergencyAnswer(steps).findings # <<>>

\* Compaction loses no observation, leaves the latest as it came, and pays for at most so many
\* summaries; each observation is compacted once, and where every round succeeds none but the
\* latest is long when the whole is over the budget.
CompactionIsSafe(sizes, budget, rounds, out, works) ==
    /\ Len(out.obs) = Len(sizes)
    /\ out.rounds <= rounds
    /\ sizes # <<>> => out.obs[Len(sizes)] = [size |-> sizes[Len(sizes)], done |-> FALSE]
    /\ \A i \in DOMAIN sizes :
          /\ ~out.obs[i].done => out.obs[i].size = sizes[i]
          /\ out.obs[i].done => out.obs[i].size \in {Small + Marker, sizes[i] + Marker}
    /\ \/ SizeOf(out.obs) <= budget
       \/ \A i \in 1..(Len(sizes) - 1) : out.obs[i].done \/ out.obs[i].size <= Small
=============================================================================
