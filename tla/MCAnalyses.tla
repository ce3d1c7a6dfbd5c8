------------------------------ MODULE MCAnalyses ------------------------------
(***************************************************************************)
(* The analysers that keep no state, put to bounded inputs like the read   *)
(* tools of MCTools.                                                       *)
(***************************************************************************)
EXTENDS MCTools, Playbooks, EvidenceRanking, FinalAnswer

------------------------------------------------------- (* health analyser *)

Containers ==
    {[state |-> s[1], reason |-> s[2], last |-> l, restarts |-> n, ready |-> s[1] = "running"] :
        s \in {<<"waiting", "CrashLoopBackOff">>, <<"waiting", "ErrImagePull">>,
               <<"waiting", "CreateContainerConfigError">>, <<"waiting", "RunContainerError">>,
               <<"waiting", "ContainerCreating">>, <<"running", "">>, <<"terminated", "OOMKilled">>,
               <<"terminated", "Error">>},
        l \in {"", "OOMKilled", "Error"}, n \in {0, 1, 5}}

PodsOf(name) ==
    {[ns |-> "shop", name |-> name, phase |-> p, main |-> <<a, b>>, init |-> i] :
        p \in {"Running"}, a \in Containers, b \in {c \in Containers : c.restarts # 1 /\ c.last # "Error"},
        i \in {<<>>, <<[state |-> "waiting", reason |-> "PodInitializing", last |-> "", restarts |-> 0,
                        ready |-> FALSE]>>}}

PodWorld(pod) ==
    [pods |-> {pod}, events |-> {}, nodes |-> {}, services |-> {}, endpoints |-> {},
     deployments |-> {}, pvcs |-> {}]

APod(name, phase) ==
    [ns |-> "shop", name |-> name, phase |-> phase, init |-> <<>>,
     main |-> <<[state |-> IF phase = "Pending" THEN "waiting" ELSE "running",
                 reason |-> IF phase = "Pending" THEN "ContainerCreating" ELSE "",
                 last |-> "", restarts |-> 7, ready |-> phase = "Running"]>>]

Worlds ==
    {[pods |-> {APod("web", "Pending"), APod("db", "Running")},
      events |-> {[name |-> "web", reason |-> r]},
      nodes |-> {[name |-> "n1", ready |-> d, pressures |-> <<"memory">>]},
      services |-> {[ns |-> "shop", name |-> "web", type |-> t, selector |-> s]},
      endpoints |-> {[ns |-> "shop", name |-> "web", ready |-> e]},
      deployments |-> {[ns |-> "shop", name |-> "web", stuck |-> TRUE]},
      pvcs |-> {[ns |-> "shop", name |-> "data", phase |-> "Pending"]}] :
        r \in {"FailedScheduling", "Pulled"}, d \in {"yes", "no"}, t \in {"ClusterIP", "ExternalName"},
        s \in BOOLEAN, e \in 0..1}

PodQuestions == [part : {"pod"}, pod : PodsOf("web")]

ClusterQuestions ==
    [part : {"cluster"}, world : Worlds, failed : SUBSET AllKinds,
     scope : {"cluster", "namespace", "workload", "pod", "node"}]

ListedEndpoints == UpTo([ready : {"true", "false", "nil"}, serving : {"true"}, terminating : {"true", "false"}], 3)

ListingQuestions == [part : {"listing"}, endpoints : ListedEndpoints]

EventQuestions == [part : {"listed_events"}, events : UpTo([last : 0..2, readable : BOOLEAN], 4)]

AnalysePod ==
    /\ Asked("pod")
    /\ answer' = <<[listed |-> ParsedPod(question.pod),
                    health |-> RunHealthAnalyzer(PodWorld(question.pod), "pod", {}, 5)]>>
    /\ UNCHANGED question

AnalyseCluster ==
    /\ Asked("cluster")
    /\ answer' = <<RunHealthAnalyzer(question.world, question.scope, question.failed, 5)>>
    /\ UNCHANGED question

\* The endpoints controller keeps one subset for the addresses of a service.
AsSubset(endpoints) ==
    [ready    |-> Len(SelectSeq(endpoints, LAMBDA e : e.ready = "true")),
     notReady |-> Len(SelectSeq(endpoints, LAMBDA e : e.ready = "false"))]

ListEndpoints ==
    /\ Asked("listing")
    /\ answer' = <<[slices |-> ParsedSlices(question.endpoints),
                    subsets |-> ParsedEndpoints(<<AsSubset(question.endpoints)>>)]>>
    /\ UNCHANGED question

ListEvents ==
    /\ Asked("listed_events")
    /\ answer' = <<ParsedEvents(question.events)>>
    /\ UNCHANGED question

\* The listings and the analyser, which classify the same objects independently, agree on what
\* is wrong, a much restarted container is never passed over, and a request that fails hides
\* findings but adds none (but for the service rule): mcp/k8s/parsers.py, analyzer/rules.py and
\* analyzer/collectors.py.
HealthIsReported ==
    /\ Answered("pod") =>
          /\ ListingAgrees(question.pod, Out.listed, Out.health)
          /\ RestartsAreNoticed(question.pod, Out.health, 5)
    /\ Answered("cluster") => FailuresOnlyHide(question.world, question.scope, question.failed, Out)
    /\ Answered("listing") => EndpointViewsAgree(question.endpoints, Out.slices, Out.subsets)
    /\ Answered("listed_events") => NewestFirst(question.events, Out)

-------------------------------------------------------------- (* playbooks *)

Files ==
    LET Content(n) ==
           CASE n = "a" -> [tools |-> {"t1"}, steps |-> <<"s1">>, abstract |-> FALSE,
                            rules |-> <<[id |-> "ra", steps |-> {"s1", "s3"}, tools |-> {"t1", "t2"}]>>]
             [] n = "b" -> [tools |-> {"t2"}, steps |-> <<"s2">>, abstract |-> TRUE, rules |-> <<>>]
             [] n = "c" -> [tools |-> {"t1", "t3"}, steps |-> <<"s3">>, abstract |-> FALSE,
                            rules |-> <<[id |-> "rc", steps |-> {"s2"}, tools |-> {"t1"}]>>]
        File(n, e, i) == Content(n) @@ [extends |-> e, includes |-> i]
        Links == {NoFile, "a", "b", "c"} \X {<<>>, <<"b">>, <<"c">>, <<"b", "c">>, <<"ghost">>}
    IN  {[n \in {"a", "b", "c"} |-> File(n, l[n][1], l[n][2])] : l \in [{"a", "b", "c"} -> Links]}

FileQuestions == [part : {"files"}, files : Files]

RegexRules == [hit : BOOLEAN, playbook : {"crash", "gone"}, conf : {20, 50, 90}]
OneRule    == {<<>>} \cup {<<[hit |-> TRUE, playbook |-> p, conf |-> 50]>> : p \in {"crash", "gone"}}

AlertQuestions ==
    [part : {"alert"}, rules : [exact : OneRule, regex : [1..2 -> RegexRules], labels : OneRule]]

Atom(f) == [kind |-> "atom", fact |-> f]
Group(all, any) == [kind |-> "group", all |-> all, any |-> any]

Conditions ==
    {[kind |-> "none"], Atom("f1"), Group(<<>>, <<>>), Group(<<Atom("f1")>>, <<Atom("f2"), Atom("f3")>>),
     Group(<<>>, <<Atom("f2"), Group(<<Atom("f1"), Atom("f3")>>, <<>>)>>),
     [kind |-> "list", items |-> <<Atom("f1"), Atom("f2")>>], [kind |-> "other"]}

AnyAlert == [categories |-> {}, names |-> {}, reasons |-> {}]

DecisionRules ==
    {[when |-> w, priority |-> p, applies |-> [AnyAlert EXCEPT !.reasons = a],
      prefer |-> IF p = 1 THEN <<"s2", "s3">> ELSE <<"s3">>, use |-> IF p = 1 THEN <<"t1">> ELSE <<"tx", "t2">>] :
        w \in Conditions, p \in 1..2, a \in {{}, {"OOMKilled"}}}

Remaining == <<[id |-> "s1", tool |-> "t1"], [id |-> "s2", tool |-> "t2"], [id |-> "s4", tool |-> "t3"],
               [id |-> "s3", tool |-> "t2"], [id |-> "s5", tool |-> "t3"]>>

RuleQuestions ==
    {[part |-> "rules", rules |-> r, facts |-> f, alert |-> [AnyAlert EXCEPT !.reasons = a]] :
        r \in [1..2 -> DecisionRules], f \in SUBSET {"f1", "f2", "f3"}, a \in {{"OOMKilled"}, {"Evicted"}}}

LoadFiles ==
    /\ Asked("files")
    /\ answer' = <<[one |-> Load(question.files, "a"), all |-> LoadAll(question.files, <<"a", "b", "c">>)]>>
    /\ UNCHANGED question

ClassifyAlert ==
    /\ Asked("alert")
    /\ answer' = <<Classify(question.rules, {"crash", "generic"})>>
    /\ UNCHANGED question

RankTheSteps ==
    /\ Asked("rules")
    /\ LET guidance == EvaluateDecisionRules([rules |-> question.rules, tools |-> {"t1", "t2"}],
                                             question.alert, question.facts)
       IN  answer' = <<[guidance |-> guidance, steps |-> RankSteps(Remaining, guidance)]>>
    /\ UNCHANGED question

\* A playbook inherits everything its files hold and loops are refused, an alert is given a
\* playbook that is loaded, and a decision rule reorders the steps without losing one or
\* preferring a tool the playbook does not allow: mcp/alerts/playbooks/loader.py, classifier.py
\* and decision_engine.py.
PlaybooksAreSound ==
    /\ Answered("files") =>
          /\ CyclesAreRefused(question.files, "a", Out.one)
          /\ LoadedIsWhole(question.files, "a", Out.one)
          /\ Out.all.ok => \A n \in {"a", "c"} : n \in Range(Out.all.ids)
    /\ Answered("alert") => ChosenIsLoaded(question.rules, {"crash", "generic"}, Out)
    /\ Answered("rules") =>
          /\ GuidanceIsAllowed([tools |-> {"t1", "t2"}], Out.guidance)
          /\ RankingIsFair(Remaining, Out.guidance, Out.steps)

------------------------------------------------------------ (* root causes *)

Pieces ==
    {[Ev("describe_pod") EXCEPT !.restarts = 120], [Ev("describe_pod") EXCEPT !.reason = "CrashLoopBackOff"],
     [Ev("investigate_pod") EXCEPT !.reason = "OOMKilled", !.restarts = 3, !.previous = {"oom", "wal"}],
     [Ev("investigate_pod") EXCEPT !.cause = [by |-> "summary", conf |-> 40], !.reason = "other"],
     [Ev("investigate_pod") EXCEPT !.cause = [by |-> "ai", conf |-> 90]],
     [Ev("get_logs") EXCEPT !.current = {"oom"}], [Ev("get_pod_logs") EXCEPT !.previous = {"wal"}],
     [Ev("get_logs") EXCEPT !.current = {"spin", "alloc"}], [Ev("get_events") EXCEPT !.reason = "BackOff"],
     [Ev("describe_pod_pvcs") EXCEPT !.pvcs = {[data |-> TRUE, bound |-> FALSE]}],
     [Ev("prom_query") EXCEPT !.hits = 0], [Ev("prom_query") EXCEPT !.error = TRUE]}

CauseCandidates ==
    << [id |-> "oom", max |-> 100, high |-> 70, medium |-> 40,
        rules |-> <<[fact |-> <<"reason", "OOMKilled">>, points |-> 60],
                    [fact |-> <<"signal", "process_killed_or_memory_exhaustion">>, points |-> 50],
                    [fact |-> <<"current", "spin">>, points |-> -40]>>],
       [id |-> "wal", max |-> 90, high |-> 80, medium |-> 50,
        rules |-> <<[fact |-> <<"signal", "wal_replay_from_persistent_storage_suspected">>, points |-> 70],
                    [fact |-> <<"signal", "pod_restarting">>, points |-> 40],
                    [fact |-> <<"current", "empty">>, points |-> -20]>>] >>

CauseQuestions == [part : {"causes"}, evidence : UpTo(Pieces, 3)]

FindCause ==
    /\ Asked("causes")
    /\ answer' = <<Diagnose(CauseCandidates, question.evidence)>>
    /\ UNCHANGED question

\* A diagnosis rests on its evidence, in whatever order the tools brought it: the combined signal
\* has its witnesses, more evidence silences no signal, the winner has the most points and the
\* label its thresholds give (mcp/alerts/rca_context.py, rca_scoring.py, engine.py).
CausesAreWitnessed ==
    Answered("causes") =>
        /\ ReplaySignalIsWitnessed(question.evidence, Out)
        /\ EvidenceOnlyAdds(CauseCandidates, question.evidence, Out)
        /\ WinnerIsBest(CauseCandidates, question.evidence, Out)

------------------------------------------------------- (* ranked evidence *)

Item(field, has, class) ==
    [field |-> field, has |-> has, class |-> class, rank |-> 0, trusted |-> FALSE, oom |-> FALSE,
     cause |-> "c1"]

Verified == Item("failure_modes", {"root_cause", "mode"}, "")
Advice   == [Item("contributing_factors", {"ai"}, "") EXCEPT !.rank = 120, !.trusted = TRUE]

Env(key, verdict, items) ==
    [key |-> key, target |-> "pod", type |-> "diagnostic", verdict |-> verdict, complete |-> "complete",
     items |-> items]

Envelopes ==
    {Env("k1", "Unhealthy", <<Verified>>), [Env("k1", "Healthy", <<>>) EXCEPT !.type = "status_check"],
     Env("k2", "Unhealthy", <<[Verified EXCEPT !.cause = "c2"]>>),
     Env("k2", "Unhealthy", <<Advice, Item("failure_modes", {"mode"}, "")>>),
     [Env("k2", "Unknown", <<>>) EXCEPT !.complete = "partial"],
     [Env("k3", "Unhealthy", <<Item("drift", {"no_service"}, ""), Item("timeline", {"reason"}, "")>>)
         EXCEPT !.type = "log_analysis"],
     Env("k3", "Degraded", <<Advice, Item("failure_modes", {"container", "excerpt"}, "ai_advisory"),
                             Item("top_messages", {"container", "reason"}, ""),
                             [Item("drift", {"findings"}, "") EXCEPT !.oom = TRUE],
                             Item("timeline", {}, "")>>),
     [Env("k4", "Healthy", <<>>) EXCEPT !.type = "inventory", !.target = "ns"]}

History(s) == [i \in DOMAIN s |-> s[i] @@ [step |-> i]]

RankQuestions ==
    {[part |-> "rank", history |-> History(s), exhausted |-> x] : s \in UpTo(Envelopes, 4), x \in BOOLEAN}

CallSteps ==
    {[tool |-> "get_pods", subject |-> "shop", found |-> f, cites |-> 0] : f \in {{}, {"web"}, {"web", "db"}}}
        \cup {[tool |-> "investigate_pod", subject |-> p, found |-> {"svc"}, cites |-> c] :
                 p \in {"web", "db"}, c \in {0, 1, 9}}
        \cup {[tool |-> "get_service", subject |-> "svc", found |-> {}, cites |-> 1]}

ChainQuestions == [part : {"chain"}, steps : UpTo(CallSteps, 4)]

RankEvidence ==
    /\ Asked("rank")
    /\ answer' = <<Rank(question.history, question.exhausted)>>
    /\ UNCHANGED question

LinkSteps ==
    /\ Asked("chain")
    /\ answer' = <<BuildCausalityChain(question.steps)>>
    /\ UNCHANGED question

\* What the loop tells the model of its own steps: the latest result of each call, a verified
\* cause before everything else, causes before their effects, and a confidence that does not
\* depend on the order of the tools (react.py 1716-2260 and 2357-2495).
EvidenceIsRanked ==
    /\ Answered("rank") =>
          /\ VerifiedComesFirst(Out)
          /\ LatestIsRead(question.history, Out)
          /\ BandIsOrderFree(question.history, question.exhausted, Out)
    /\ Answered("chain") => CausesComeFirst(question.steps, Out)

---------------------------------------------------------- (* final answer *)

Retries == {[ok |-> FALSE, text |-> <<>>], [ok |-> TRUE, text |-> <<"text", "heading", "safe">>],
            [ok |-> TRUE, text |-> <<"heading", "risky">>]}

Replies == {[heard |-> FALSE, fails |-> Checks], [heard |-> TRUE, fails |-> {}],
            [heard |-> TRUE, fails |-> {"recency_correct"}]}

StreamQuestions ==
    {[part |-> "stream",
      job |-> [text |-> t, n |-> n, part |-> p, end |-> e, cancel |-> c, critic |-> r, retry |-> y,
               band |-> b, evidence |-> v, exhausted |-> x]] :
        t \in {<<"text", "text">>, <<"text", "heading", "safe">>, <<"text", "heading", "risky", "safe">>,
               <<"heading", "risky">>},
        n \in 0..4, p \in BOOLEAN, e \in {"done", "cancel", "fail"}, c \in {0, 2, 9}, r \in Replies,
        y \in Retries, b \in {"low", "high"}, v \in BOOLEAN, x \in BOOLEAN}

Streamed(q) == q.job.n <= Len(q.job.text)

Blocks ==
    {[section |-> "diagnosis", items |-> <<"d">>, band |-> ""],
     [section |-> "evidence", items |-> <<"e">>, band |-> ""],
     [section |-> "recommended_actions", items |-> <<"x", "none_applicable">>, band |-> ""],
     [section |-> "recommended_actions", items |-> <<"y">>, band |-> ""],
     [section |-> "uncertainty", items |-> <<>>, band |-> ""],
     [section |-> "uncertainty", items |-> <<>>, band |-> "high"]}

DocQuestions == [part : {"document"}, doc : UpTo(Blocks, 5)]

Command(id, verb) ==
    [id |-> id, verb |-> verb, clean |-> TRUE, target |-> TRUE, ns |-> TRUE, docs |-> <<>>, llm |-> "yes"]

Commands ==
    {Command("p", "delete pod"), [Command("p", "delete pod") EXCEPT !.ns = FALSE],
     [Command("s", "scale") EXCEPT !.llm = "error"], Command("s", "scale"),
     [Command("c", "cordon") EXCEPT !.ns = FALSE], [Command("r", "rollout restart") EXCEPT !.clean = FALSE],
     [Command("a", "apply") EXCEPT !.docs = <<[kind |-> "cluster", target |-> TRUE, ns |-> FALSE],
                                              [kind |-> "namespaced", target |-> TRUE, ns |-> FALSE]>>],
     [Command("a", "apply") EXCEPT !.docs = <<[kind |-> "namespaced", target |-> TRUE, ns |-> TRUE]>>],
     Command("g", "get pods"), Command("l", "label")}

ActionQuestions ==
    {[part |-> "actions",
      job |-> [analysis |-> <<a>>, fixes |-> <<f>>, blocks |-> <<b>>, commands |-> m, primary |-> p,
               verified |-> v, sourced |-> v]] :
        a \in Commands, f \in Commands, b \in Commands,
        m \in {<<>>, <<Command("u", "uncordon"), Command("l", "label"), Command("s", "scale")>>},
        p \in {"none", "verified_root_cause", "primary_failure", "secondary_issue"}, v \in BOOLEAN}

VerifyQuestions ==
    {[part |-> "verify", job |-> [action |-> a, deployment |-> d, bad |-> b, llm |-> m, db |-> w]] :
        a \in {"rollout_restart", "scale_deployment", "apply_patch", "delete_pod"}, d \in BOOLEAN,
        b \in SUBSET {"get_rollout_status", "get_deployment", "get_pods"}, m \in BOOLEAN,
        w \in SUBSET {"create", "finish"}}

FinalizeAnswer ==
    /\ Asked("stream")
    /\ answer' = <<StreamFinalizeWithCritic(question.job)>>
    /\ UNCHANGED question

ParseAnswer ==
    /\ Asked("document")
    /\ answer' = <<ParseMarkdownSynthesis(question.doc)>>
    /\ UNCHANGED question

OfferActions ==
    /\ Asked("actions")
    /\ answer' = <<ExtractActions(question.job)>>
    /\ UNCHANGED question

VerifyAction ==
    /\ Asked("verify")
    /\ answer' = <<RunVerificationSubRun(question.job)>>
    /\ UNCHANGED question

\* The end of an investigation: what is shown is what is kept, a destructive proposal is shown
\* only after the critic read it, no action is lost or made up by the parser, and every button
\* passed both reviews; an executed action is looked at afterwards (react.py 2572-3024 and 4144-4942).
AnswersAreReviewed ==
    /\ Answered("stream") =>
          /\ ShownIsKept(question.job, Out)
          /\ RiskyIsReviewed(question.job, Out)
          /\ RejectedIsRewritten(question.job, Out)
    /\ Answered("document") => ParsedIsWhole(question.doc, Out)
    /\ Answered("actions") => ButtonsAreReviewed(question.job, Out)
    /\ Answered("verify") => VerifiedWhateverFails(question.job, Out)

----------------------------------------------------------- (* the instance *)

Init ==
    /\ answer = <<>>
    /\ \/ ReadQuestions
       \/ ToolQuestions
       \/ PilotQuestions
       \/ LoopQuestions
       \/ question \in PodQuestions
       \/ question \in ClusterQuestions
       \/ question \in ListingQuestions
       \/ question \in EventQuestions
       \/ question \in FileQuestions
       \/ question \in AlertQuestions
       \/ question \in RuleQuestions
       \/ question \in CauseQuestions
       \/ question \in RankQuestions
       \/ question \in ChainQuestions
       \/ question \in {q \in StreamQuestions : Streamed(q)}
       \/ question \in DocQuestions
       \/ question \in ActionQuestions
       \/ question \in VerifyQuestions

Next ==
    \/ ToolSteps
    \/ PilotSteps
    \/ LoopSteps
    \/ SearchWorkload
    \/ ListPodsOf
    \/ ReadLogs
    \/ ReadEndpoints
    \/ ReadMaps
    \/ ReadNode
    \/ FocusAnswer
    \/ LookIntoPod
    \/ LookIntoIngress
    \/ LookIntoNamespace
    \/ LookForChanges
    \/ AnalysePod
    \/ AnalyseCluster
    \/ ListEndpoints
    \/ ListEvents
    \/ LoadFiles
    \/ ClassifyAlert
    \/ RankTheSteps
    \/ FindCause
    \/ RankEvidence
    \/ LinkSteps
    \/ FinalizeAnswer
    \/ ParseAnswer
    \/ OfferActions
    \/ VerifyAction

Spec == Init /\ [][Next]_exchange

------------------------------------------------------------ (* together *)

\* What is said to be wrong has something in the cluster behind it, and what is proposed for it
\* ends it: the health analyser, the playbooks that choose what to look at, the root causes, and the
\* resilience pilot.
DiagnosesAreWitnessed == HealthIsReported /\ PlaybooksAreSound /\ CausesAreWitnessed /\ FixesAreSound

\* What the reader is shown was ranked by what was verified, and reviewed.
AnswersAreGrounded == EvidenceIsRanked /\ AnswersAreReviewed
=============================================================================
