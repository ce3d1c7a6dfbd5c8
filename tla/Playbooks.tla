------------------------------ MODULE Playbooks ------------------------------
(***************************************************************************)
(* Alert playbooks: how a YAML file and the files it extends and includes  *)
(* become one playbook (loader.py), how an alert is given a playbook       *)
(* (classifier.py) and how a playbook's decision rules order the steps     *)
(* that are left (decision_engine.py).                                     *)
(*                                                                         *)
(* A file is [extends, includes, tools, steps, rules, abstract]; a rule is *)
(* [id, steps, tools, when, applies, priority].  A condition of a rule is  *)
(* a tagged record, an atom of it the name of a fact, and the facts of an  *)
(* alert the set of the atoms that hold.  RECURSIVE: inheritance and       *)
(* condition groups nest, so nothing is proved about this module.          *)
(***************************************************************************)
EXTENDS Integers, FiniteSets, Sequences, SequencesExt

NoFile == "nofile"

OrderedUnique(s) ==
    FoldLeft(LAMBDA acc, x : IF x \in Range(acc) THEN acc ELSE Append(acc, x), <<>>, s)

Concat(f, s) == FoldLeft(LAMBDA acc, x : acc \o f[x], <<>>, s)

------------------------------------------------------------- (* loader *)

Nothing == [ok |-> TRUE, err |-> "", tools |-> {}, steps |-> <<>>, rules |-> <<>>, warned |-> {}]

Refused(why) == [Nothing EXCEPT !.ok = FALSE, !.err = why]


\* A mutant: the child's rules replace those of its parent.
BugMergePayloads(parent, child) ==
    [ok |-> TRUE, err |-> "", tools |-> parent.tools \cup child.tools,
     steps |-> parent.steps \o child.steps, rules |-> child.rules,
     warned |-> IF "warned" \in DOMAIN child THEN child.warned ELSE parent.warned]

\* Lists of steps and rules are concatenated, tools united; a child that brings warnings
\* (it was resolved itself) replaces those of its parent.
MergePayloads(parent, child) ==
    [ok |-> TRUE, err |-> "", tools |-> parent.tools \cup child.tools,
     steps |-> parent.steps \o child.steps, rules |-> parent.rules \o child.rules,
     warned |-> IF "warned" \in DOMAIN child THEN child.warned ELSE parent.warned]

MissingSteps(r, steps) == r.steps \ Range(steps)

\* Checked at every level of the inheritance: a rule must find its tools where it stands, its
\* steps may come later or never.
ValidateResolvedPayload(p) ==
    IF Cardinality(Range(p.steps)) < Len(p.steps) THEN Refused("duplicate_steps")
    ELSE IF \E i \in DOMAIN p.rules : ~(p.rules[i].tools \subseteq p.tools) THEN Refused("unknown_tools")
    ELSE [p EXCEPT !.warned = @ \cup
             {p.rules[i].id : i \in {j \in DOMAIN p.rules : MissingSteps(p.rules[j], p.steps) # {}}}]

\* seen holds the file names on the path from the playbook to here.
RECURSIVE ResolvePayload(_, _, _)
ResolveRef(files, ref, seen) ==
    IF ref \notin DOMAIN files THEN Refused("missing")
    ELSE IF ref \in seen THEN Refused("cycle")
    ELSE ResolvePayload(files, ref, seen \cup {ref})

ResolvePayload(files, name, seen) ==
    LET own  == files[name]
        base == IF own.extends = NoFile THEN Nothing ELSE ResolveRef(files, own.extends, seen)
        Include(acc, ref) ==
            IF ~acc.ok THEN acc
            ELSE LET inc == ResolveRef(files, ref, seen)
                 IN  IF inc.ok THEN MergePayloads(acc, inc) ELSE inc
        whole == FoldLeft(Include, base, own.includes)
    IN  IF ~whole.ok THEN whole
        ELSE ValidateResolvedPayload(
                MergePayloads(whole, [tools |-> own.tools, steps |-> own.steps, rules |-> own.rules]))

Load(files, name) == ResolvePayload(files, name, {name})

\* Files in name order; one that does not resolve stops the whole load.
LoadAll(files, ranked) ==
    LET Step(acc, name) ==
            IF ~acc.ok THEN acc
            ELSE LET r == Load(files, name)
                 IN  IF ~r.ok THEN [ok |-> FALSE, ids |-> <<>>]
                     ELSE IF files[name].abstract THEN acc ELSE [acc EXCEPT !.ids = Append(@, name)]
    IN  FoldLeft(Step, [ok |-> TRUE, ids |-> <<>>], ranked)

--------------------------------------------------------- (* classifier *)

\* A match that names a playbook nobody loaded is demoted to the generic one.
Classification(rule, known) ==
    IF rule.playbook \in known THEN [playbook |-> rule.playbook, conf |-> rule.conf, demoted |-> FALSE]
    ELSE [playbook |-> "generic", conf |-> IF rule.conf < 30 THEN rule.conf ELSE 30, demoted |-> TRUE]

NoMatch == [playbook |-> "none", conf |-> 0, demoted |-> FALSE]

FirstHit(rules, known) ==
    LET hits == SelectSeq(rules, LAMBDA r : r.hit)
    IN  IF hits = <<>> THEN NoMatch ELSE Classification(Head(hits), known)


\* A mutant: the confidences are compared before the demotion.
BugMatchRegexGroup(rules, known) ==
    LET hits == SelectSeq(rules, LAMBDA r : r.hit)
        best == FoldLeft(LAMBDA b, r : IF b = <<>> \/ r.conf > b[1].conf THEN <<r>> ELSE b, <<>>, hits)
    IN  IF best = <<>> THEN NoMatch ELSE Classification(best[1], known)

\* The most confident group, the first of equals: compared after the demotion.
MatchRegexGroup(rules, known) ==
    LET hits == SelectSeq(rules, LAMBDA r : r.hit)
        Better(best, r) ==
            LET c == Classification(r, known)
            IN  IF best = NoMatch \/ c.conf > best.conf THEN c ELSE best
    IN  FoldLeft(Better, NoMatch, hits)

Classify(rules, known) ==
    LET exact == FirstHit(rules.exact, known)
        regex == MatchRegexGroup(rules.regex, known)
        label == FirstHit(rules.labels, known)
    IN  CASE exact # NoMatch -> exact
          [] exact = NoMatch /\ regex # NoMatch -> regex
          [] exact = NoMatch /\ regex = NoMatch /\ label # NoMatch -> label
          [] OTHER -> Classification([playbook |-> "generic", conf |-> 30], known)

---------------------------------------------------- (* decision engine *)

RECURSIVE GroupMatches(_, _)
GroupMatches(g, facts) ==
    CASE g.kind = "none"  -> TRUE
      [] g.kind = "atom"  -> g.fact \in facts
      [] g.kind = "list"  -> \A i \in DOMAIN g.items : GroupMatches(g.items[i], facts)
      [] g.kind = "group" ->
            /\ \A i \in DOMAIN g.all : GroupMatches(g.all[i], facts)
            /\ g.any # <<>> => \E i \in DOMAIN g.any : GroupMatches(g.any[i], facts)
            /\ g.all # <<>> \/ g.any # <<>>
      [] OTHER            -> FALSE

\* applies_to: the categories, names and reasons a rule is for; none of a kind means any.
RuleApplies(r, alert) ==
    \A k \in {"categories", "names", "reasons"} :
        r.applies[k] = {} \/ r.applies[k] \cap alert[k] # {}

EvaluateDecisionRules(p, alert, facts) ==
    LET matched == SelectSeq(p.rules, LAMBDA r : RuleApplies(r, alert) /\ GroupMatches(r.when, facts))
        First(i, j) == \/ matched[i].priority > matched[j].priority
                       \/ matched[i].priority = matched[j].priority /\ i < j
        order  == SetToSortSeq(DOMAIN matched, First)
        Prefer(field) == Concat([i \in DOMAIN matched |-> matched[i][field]], order)
    IN  [steps |-> OrderedUnique(Prefer("prefer")),
         tools |-> OrderedUnique(SelectSeq(Prefer("use"), LAMBDA t : t \in p.tools))]

PlaceOf(s, x, default) == IF x \in Range(s) THEN SelectInSeq(s, LAMBDA y : y = x) ELSE default


\* A mutant: only the preferred steps are kept.
BugRankSteps(remaining, guidance) ==
    IF guidance.steps = <<>> THEN remaining
    ELSE SelectSeq(remaining, LAMBDA s : s.id \in Range(guidance.steps))

\* Preferred steps first, then the steps of preferred tools, then the rest; each group in the
\* order of the preferences, equals in the order of the playbook.
RankSteps(remaining, guidance) ==
    LET After == Len(guidance.steps)
        Key(i) == PlaceOf(guidance.steps, remaining[i].id,
                          After + PlaceOf(guidance.tools, remaining[i].tool, Len(guidance.tools) + 1))
        Before(i, j) == Key(i) < Key(j) \/ (Key(i) = Key(j) /\ i < j)
        order == SetToSortSeq(DOMAIN remaining, Before)
    IN  [k \in DOMAIN remaining |-> remaining[order[k]]]

----------------------------------------------------------- (* properties *)

\* The files a file reaches through extends and includes.
Refs(files, n) ==
    IF n \notin DOMAIN files THEN {}
    ELSE (Range(files[n].includes) \cup {files[n].extends}) \ {NoFile}

Reached(files, n) ==
    LET More(S) == S \cup UNION {Refs(files, m) : m \in S}
        Iter[k \in 0..Cardinality(DOMAIN files)] == IF k = 0 THEN Refs(files, n) ELSE More(Iter[k - 1])
    IN  Iter[Cardinality(DOMAIN files)]

\* Inheritance that loops is refused wherever the loop is, and nothing else is called circular:
\* two paths to one branch are not a loop.
CyclesAreRefused(files, n, out) ==
    LET loop == \E m \in Reached(files, n) \cup {n} : m \in Reached(files, m)
    IN  /\ loop => ~out.ok
        /\ out.err = "cycle" => loop

\* A playbook that loads has distinct steps, no rule that prefers a forbidden tool, every tool,
\* step and rule of every file it reaches, and a warning for each rule whose step never came.
LoadedIsWhole(files, n, out) ==
    out.ok =>
        /\ \A i, j \in DOMAIN out.steps : out.steps[i] = out.steps[j] => i = j
        /\ \A i \in DOMAIN out.rules :
              /\ out.rules[i].tools \subseteq out.tools
              /\ MissingSteps(out.rules[i], out.steps) # {} => out.rules[i].id \in out.warned
        /\ \A m \in Reached(files, n) \cup {n} :
              /\ files[m].tools \subseteq out.tools
              /\ Range(files[m].steps) \subseteq Range(out.steps)
              /\ Range(files[m].rules) \subseteq Range(out.rules)

\* Only playbooks that are loaded are chosen, and a demoted match never beats one that is not.
ChosenIsLoaded(rules, known, out) ==
    /\ out.playbook \in known
    /\ (out.demoted /\ ~\E i \in DOMAIN rules.exact : rules.exact[i].hit)
          => ~\E i \in DOMAIN rules.regex :
                rules.regex[i].hit /\ rules.regex[i].playbook \in known /\ rules.regex[i].conf > 30

\* Ranking loses and invents no step, puts every preferred step before every other, and keeps
\* the playbook's order among the steps nothing prefers.
RankingIsFair(remaining, guidance, out) ==
    LET Preferred(s) == s.id \in Range(guidance.steps) \/ s.tool \in Range(guidance.tools)
        Plain(s) == ~Preferred(s)
    IN  /\ \A x \in Range(remaining) :
              Len(SelectSeq(out, LAMBDA s : s = x)) = Len(SelectSeq(remaining, LAMBDA s : s = x))
        /\ \A i, j \in DOMAIN out : (i < j /\ Preferred(out[j])) => Preferred(out[i])
        /\ SelectSeq(out, Plain) = SelectSeq(remaining, Plain)

\* A rule prefers what its playbook allows, whatever the facts: a tool the playbook does not
\* name is never put first.
GuidanceIsAllowed(p, guidance) == Range(guidance.tools) \subseteq p.tools

-----------------------------------------------------------------------------
(***************************************************************************)
(* How the evidence of an alert's investigation becomes a root cause: the  *)
(* signals read off each piece of evidence (rca_context.py), the facts the *)
(* playbook's conditions see (decision_engine.py), the scores of its       *)
(* candidates (rca_scoring.py) and the diagnosis promoted from a pod       *)
(* investigation (engine.py).                                              *)
(*                                                                         *)
(* A piece of evidence is [tool, reason, restarts, current, previous, pvcs,*)
(* hits, error, cause]: a waiting reason or failure mode ("" if none), a   *)
(* restart count, the sets of kinds of line its current and previous logs  *)
(* hold, its volume claims, the series of its query (-1 when it made       *)
(* none), whether it failed, and the cause a pod investigation verified.   *)
(***************************************************************************)

Ev(tool) == [tool |-> tool, reason |-> "", restarts |-> 0, current |-> {}, previous |-> {},
             pvcs |-> {}, hits |-> -1, error |-> FALSE, cause |-> [by |-> "none", conf |-> 0]]

Signal(name, severity) == [name |-> name, severity |-> severity]

------------------------------------------------------------- (* signals *)

RestartSignals(n) ==
    IF n = 0 THEN {} ELSE {Signal("pod_restarting", IF n < 10 THEN "warning" ELSE "critical")}

\* restart_count and waiting_reasons of the payload itself: describe_pod has them.
PodSignals(e) ==
    IF e.tool # "describe_pod" THEN {}
    ELSE RestartSignals(e.restarts)
            \cup (IF e.restarts >= 100 THEN {Signal("severe_restart_loop", "critical")} ELSE {})
            \cup (IF e.reason # "" THEN {Signal("container_waiting_reason", "warning")} ELSE {})

InvestigatePodSignals(e) ==
    IF e.tool # "investigate_pod" THEN {}
    ELSE (IF e.reason \notin {"", "other"}
          THEN {Signal("pod_failure_mode",
                       IF e.reason \in {"CrashLoopBackOff", "OOMKilled"} THEN "critical" ELSE "warning")}
          ELSE {})
            \cup RestartSignals(e.restarts)
            \cup (IF e.cause.by = "summary" THEN {Signal("deterministic_root_cause", "critical")} ELSE {})

EventSignals(e) ==
    IF e.tool \in {"get_events", "investigate_pod"} /\ e.reason # ""
    THEN {Signal("kubernetes_event_reason", "warning")} ELSE {}

\* No tool is asked for: evidence that carries no logs at all reads as empty logs.
LogSignals(e) ==
    LET lines == e.current \cup e.previous
        If(kind, s) == IF kind \in lines THEN {s} ELSE {}
    IN  IF lines = {} THEN {Signal("logs_empty", "warning")}
        ELSE If("oom", Signal("process_killed_or_memory_exhaustion", "critical"))
                \cup If("wal", Signal("prometheus_wal_replay_suspected",
                                      IF "oom" \in lines THEN "critical" ELSE "warning"))
                \cup If("spin", Signal("application_cpu_intensive_work", "warning"))
                \cup If("alloc", Signal("memory_growth_pattern", "warning"))

PvcSignals(e) ==
    (IF e.pvcs # {} THEN {Signal("pod_uses_persistent_storage", "info")} ELSE {})
        \cup (IF \E v \in e.pvcs : v.data THEN {Signal("prometheus_data_pvc_mounted", "info")} ELSE {})
        \cup (IF \E v \in e.pvcs : ~v.bound THEN {Signal("pvc_not_bound", "warning")} ELSE {})

\* Any tool's error is called a query error; an empty result needs a query.
PrometheusSignals(e) ==
    (IF e.error THEN {Signal("prometheus_query_error", "warning")} ELSE {})
        \cup (IF e.hits = 0 THEN {Signal("prometheus_empty_result", "info")} ELSE {})

Names(S) == {s.name : s \in S}


\* A mutant: the volume need not be seen.
BugCrossEvidenceSignals(S) ==
    IF {"prometheus_wal_replay_suspected", "process_killed_or_memory_exhaustion"} \subseteq Names(S)
    THEN {Signal("wal_replay_from_persistent_storage_suspected", "critical")} ELSE {}

\* After all the evidence: a loop that replays its log from a volume until memory runs out.
CrossEvidenceSignals(S) ==
    IF {"prometheus_wal_replay_suspected", "process_killed_or_memory_exhaustion"} \subseteq Names(S)
          /\ Names(S) \cap {"pod_uses_persistent_storage", "prometheus_data_pvc_mounted"} # {}
    THEN {Signal("wal_replay_from_persistent_storage_suspected",
                 IF Names(S) \cap {"pod_restarting", "severe_restart_loop", "container_waiting_reason"} # {}
                 THEN "critical" ELSE "warning")}
    ELSE {}

ExtractEvidenceSignals(evidence) ==
    LET each == UNION {InvestigatePodSignals(e) \cup PodSignals(e) \cup EventSignals(e)
                          \cup LogSignals(e) \cup PvcSignals(e) \cup PrometheusSignals(e) :
                       e \in Range(evidence)}
    IN  each \cup CrossEvidenceSignals(each)

------------------------------------------------- (* facts and scoring *)

\* The fact index: which paths a piece of evidence fills, by the tool it came from.
FactIndex(evidence) ==
    UNION {LET Logs(stream) ==
                  {<<stream, l>> : l \in e[stream]} \cup {<<stream, IF e[stream] = {} THEN "empty" ELSE "some">>}
               Reason == IF e.reason = "" THEN {} ELSE {<<"reason", e.reason>>}
           IN  CASE e.tool = "describe_pod"     -> Reason \cup {<<"restarts", e.restarts>>}
                 [] e.tool = "get_logs"         -> Logs("current") \cup Logs("previous")
                 [] e.tool = "get_pod_logs"     -> IF e.previous # {} THEN Logs("previous") ELSE Logs("current")
                 [] e.tool = "investigate_pod"  -> Reason \cup {<<"restarts", e.restarts>>}
                                                      \cup {<<"current", l>> : l \in e.current}
                                                      \cup {<<"previous", l>> : l \in e.previous}
                 [] e.tool = "get_events"       -> IF e.reason = "" THEN {} ELSE {<<"event", e.reason>>}
                 [] e.tool = "describe_pod_pvcs" -> {<<"pvcs", Cardinality(e.pvcs)>>}
                 [] e.tool = "prom_query"       -> {<<"series", e.hits>>}
                 [] OTHER                       -> {} :
           e \in Range(evidence)}

\* Every signal is a fact too.
SignalFacts(signals) == {<<"signal", s.name>> : s \in signals}

Clamp(n, top) == IF n < 0 THEN 0 ELSE IF n > top THEN top ELSE n


\* A mutant: no upper bound.
BugScoreCandidate(c, facts) ==
    FoldLeft(LAMBDA n, r : IF r.fact \in facts THEN n + r.points ELSE n, 0, c.rules)

\* A candidate is [id, max, high, medium, rules] and a rule [fact, points]: contradictions are
\* the rules with negative points.
ScoreCandidate(c, facts) ==
    Clamp(FoldLeft(LAMBDA n, r : IF r.fact \in facts THEN n + r.points ELSE n, 0, c.rules), c.max)

\* The thresholds are absolute, the confidence a share of the candidate's own maximum.
ConfidenceLabel(score, c) ==
    CASE score >= c.high -> "high" [] score < c.high /\ score >= c.medium -> "medium" [] OTHER -> "low"

NoScoring == [id |-> "none", score |-> 0, label |-> "none"]

EvaluateRcaScoring(candidates, evidence, signals) ==
    LET facts == FactIndex(evidence) \cup SignalFacts(signals)
        Score(i) == ScoreCandidate(candidates[i], facts)
        scored == {i \in DOMAIN candidates : Score(i) > 0}
        win == CHOOSE i \in scored : \A j \in scored : Score(j) < Score(i) \/ (Score(j) = Score(i) /\ i <= j)
    IN  IF scored = {} THEN NoScoring
        ELSE [id |-> candidates[win].id, score |-> Score(win),
              label |-> ConfidenceLabel(Score(win), candidates[win])]

------------------------------------------------------ (* the diagnosis *)

\* What a pod investigation offers: a cause from its summary, from a verified failure mode or
\* from its own analysis by the model ("ai"), in this order.
PodConfidence(cause) ==
    LET floor == IF cause.by \in {"summary", "candidate"} THEN 95 ELSE 80
    IN  IF cause.conf > floor THEN Clamp(cause.conf, 100) ELSE floor

\* The first pod investigation that names a cause; the model is asked only when none does.
DeterministicRca(evidence) ==
    LET named == SelectSeq(evidence, LAMBDA e : e.tool = "investigate_pod" /\ e.cause.by # "none")
    IN  IF named = <<>> THEN [by |-> "model", conf |-> 0]
        ELSE [by |-> Head(named).cause.by, conf |-> PodConfidence(Head(named).cause)]

Diagnose(candidates, evidence) ==
    LET signals == ExtractEvidenceSignals(evidence)
    IN  [signals |-> signals, scoring |-> EvaluateRcaScoring(candidates, evidence, signals),
         rca |-> DeterministicRca(evidence)]

----------------------------------------------------------- (* properties *)

\* The replay-from-volume signal needs its three witnesses, wherever they come from, and is
\* critical only if the pod is seen restarting: it does not depend on the order of the evidence.
ReplaySignalIsWitnessed(evidence, out) ==
    LET Lines == UNION {e.current \cup e.previous : e \in Range(evidence)}
        Restarting == \E e \in Range(evidence) :
                         \/ e.tool \in {"describe_pod", "investigate_pod"} /\ e.restarts > 0
                         \/ e.tool = "describe_pod" /\ e.reason # ""
        Named == {s \in out.signals : s.name = "wal_replay_from_persistent_storage_suspected"}
    IN  /\ Named # {} <=> {"wal", "oom"} \subseteq Lines /\ \E e \in Range(evidence) : e.pvcs # {}
        /\ \A s \in Named : s.severity = "critical" <=> Restarting

\* More evidence never silences a signal but a warning that grows critical.
EvidenceOnlyAdds(candidates, evidence, out) ==
    \A n \in 0..(Len(evidence) - 1) :
        Names(Diagnose(candidates, SubSeq(evidence, 1, n)).signals) \subseteq Names(out.signals)

\* The winner is a candidate with points, none has more, and its label is the one its own
\* thresholds give; no winner means no candidate earned a point.
WinnerIsBest(candidates, evidence, out) ==
    LET facts == FactIndex(evidence) \cup SignalFacts(out.signals)
        Score(i) == ScoreCandidate(candidates[i], facts)
    IN  IF out.scoring.id = "none" THEN \A i \in DOMAIN candidates : Score(i) = 0
        ELSE \E i \in DOMAIN candidates :
                /\ candidates[i].id = out.scoring.id /\ Score(i) = out.scoring.score
                /\ \A j \in DOMAIN candidates : Score(j) <= Score(i)
                /\ out.scoring.score <= candidates[i].max
                /\ out.scoring.label = "high" => out.scoring.score >= candidates[i].high
=============================================================================
