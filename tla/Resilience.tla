------------------------------ MODULE Resilience ------------------------------
(***************************************************************************)
(* The Resilience Pilot (mcp/services/resilience): manifests are linked to *)
(* an inventory, fourteen rules look for what a drain, a rollout or a      *)
(* traffic spike runs into, each finding gets a fix, the scored findings a *)
(* score, and the fixes are written as patches (cli/.../resilience.py).    *)
(*                                                                         *)
(* An object is a record [kind, ns, name, at, helm, ignores, spec]; at is  *)
(* the place of its document.  A name is the sequence of its words, so     *)
(* that joining with hyphens is concatenation.  A field that may be absent *)
(* is a sequence of at most one value, and a value that may be a number or *)
(* a percentage is an amount [form, n].                                    *)
(***************************************************************************)
EXTENDS Integers, Sequences, FiniteSets, FiniteSetsExt, SequencesExt, Functions, TLC

------------------------------------------------------------- (* inventory *)

Replicated    == {"Deployment", "StatefulSet"}
WorkloadKinds == Replicated \cup {"DaemonSet", "Job", "CronJob"}
ScoredKinds   == {"Deployment", "StatefulSet", "DaemonSet"}

KeyOf(o) == <<o.kind, o.ns, o.name>>

OrElse(field, default) == IF field = <<>> THEN default ELSE field[1]

OfKind(objs, kinds) == SelectSeq(objs, LAMBDA o : o.kind \in kinds)

Ignores(o, rule) == "*" \in o.ignores \/ rule \in o.ignores

\* A document without a namespace goes wherever it is applied.
SameNamespace(a, b) == a = b \/ a = <<>> \/ b = <<>>

RequirementHolds(req, labels) ==
    CASE req.op = "In"           -> req.key \in DOMAIN labels /\ labels[req.key] \in req.values
      [] req.op = "NotIn"        -> req.key \notin DOMAIN labels \/ labels[req.key] \notin req.values
      [] req.op = "Exists"       -> req.key \in DOMAIN labels
      [] req.op = "DoesNotExist" -> req.key \notin DOMAIN labels
      [] OTHER                   -> FALSE

Within(part, whole) == \A k \in DOMAIN part : k \in DOMAIN whole /\ part[k] = whole[k]

\* No selector selects nothing, an empty one everything.
LabelSelectorMatches(selector, labels) ==
    selector # <<>> /\ Within(selector[1].labels, labels)
                    /\ \A req \in selector[1].exprs : RequirementHolds(req, labels)

MapSelectorMatches(selector, labels) == DOMAIN selector # {} /\ Within(selector, labels)

\* The first workload an autoscaler names.
HpaTarget(objs, hpa) ==
    LET hits == SelectSeq(objs, LAMBDA o : /\ o.kind \in WorkloadKinds
                                           /\ <<o.kind, o.name>> = hpa.spec.target
                                           /\ SameNamespace(o.ns, hpa.ns))
    IN  IF hits = <<>> THEN <<>> ELSE <<Head(hits)>>

\* The first autoscaler whose target a workload is.
Scaler(objs, w) ==
    LET hits == SelectSeq(objs, LAMBDA o : o.kind = "HPA" /\ HpaTarget(objs, o) = <<w>>)
    IN  IF hits = <<>> THEN <<>> ELSE <<Head(hits)>>

Selects(o, w) ==
    /\ w.kind \in WorkloadKinds \ {"Job", "CronJob"}
    /\ SameNamespace(w.ns, o.ns)
    /\ IF o.kind = "PDB" THEN LabelSelectorMatches(o.spec.selector, w.spec.labels)
                         ELSE MapSelectorMatches(o.spec.selector, w.spec.labels)

\* Targets are kept by key: of two documents with one key the last one's.
Latest(objs, o) == Last(SelectSeq(objs, LAMBDA x : KeyOf(x) = KeyOf(o)))

Selected(objs, o) == SelectSeq(objs, LAMBDA w : Selects(Latest(objs, o), w))

Scaled(objs, hpa) == HpaTarget(objs, Latest(objs, hpa))

PdbsOf(objs, w) == SelectSeq(objs, LAMBDA o : o.kind = "PDB" /\ Selects(o, w))

IsMetricsOnly(svc) == svc.spec.ports # {} /\ svc.spec.ports \subseteq {"metrics"}

Serves(objs, w) ==
    \E i \in DOMAIN objs : objs[i].kind = "Service" /\ Selects(objs[i], w) /\ ~IsMetricsOnly(objs[i])

\* The replicas to plan a disruption against: the floor of the autoscaler when there is one.
ExpectedReplicas(objs, w) ==
    LET hpa == Scaler(objs, w)
    IN  IF hpa # <<>> THEN OrElse(hpa[1].spec.minReplicas, [form |-> "int", n |-> 1]).n
                      ELSE OrElse(w.spec.replicas, 1)

Total(objs, ws) == FoldSeq(LAMBDA w, n : n + ExpectedReplicas(objs, w), 0, ws)

----------------------------------------------------------------- (* rules *)

Num(n) == [form |-> "int", n |-> n]
Percent(n) == [form |-> "pct", n |-> n]

CeilDiv(a, b) == (a + b - 1) \div b

RoundedUp(v, total)   == IF v.form = "int" THEN v.n ELSE CeilDiv(total * v.n, 100)
RoundedDown(v, total) == IF v.form = "int" THEN v.n ELSE (total * v.n) \div 100

NoData == [total |-> 0, field |-> "", form |-> "int", container |-> "", sleep |-> 0]

Hit(rule, objs) == [rule |-> rule, objs |-> objs, data |-> NoData]

\* The budgets under which no pod can ever be evicted.
Res001(c) ==
    LET Targets(p) == OfKind(Selected(c.objs, p), Replicated)
        Sum(p)     == Total(c.objs, Targets(p))
        Field(p)   == IF p.spec.minAvailable # <<>> THEN "minAvailable" ELSE "maxUnavailable"
        Blocked(p) ==
            /\ p.kind = "PDB" /\ Targets(p) # <<>> /\ Sum(p) > 0 /\ p.spec[Field(p)] # <<>>
            /\ IF Field(p) = "minAvailable" THEN RoundedUp(p.spec.minAvailable[1], Sum(p)) >= Sum(p)
                                            ELSE p.spec.maxUnavailable[1].n <= 0
        pdbs == SelectSeq(c.objs, Blocked)
    IN  [i \in DOMAIN pdbs |->
            [rule |-> "RES001", objs |-> Append(Targets(pdbs[i]), pdbs[i]),
             data |-> [NoData EXCEPT !.total = Sum(pdbs[i]), !.field = Field(pdbs[i]),
                                     !.form = pdbs[i].spec[Field(pdbs[i])][1].form]]]

\* What an autoscaler computes a utilization of: a resource, of one container or (<<>>) of all.
HpaResourceNeeds(hpa) ==
    IF hpa.spec.api = "v1" \/ hpa.spec.metrics = {} THEN {<<"cpu", "">>}
    ELSE {<<m.resource, m.container>> : m \in {x \in hpa.spec.metrics : x.utilization}}

Unrequested(hpa, w) ==
    {x \in ToSet(w.spec.containers) \X HpaResourceNeeds(hpa) : x[2][2] \in {"", x[1].name} /\ x[2][1] \notin x[1].requests}

ServingContainers(w) ==
    LET open == SelectSeq(w.spec.containers, LAMBDA c : c.ports)
    IN  IF open # <<>> THEN open ELSE w.spec.containers

Grace(w) == OrElse(w.spec.grace, Num(30)).n

TooLong(w) == SelectSeq(w.spec.containers, LAMBDA c : c.sleep # <<>> /\ Grace(w) <= c.sleep[1])

\* How many pods a rollout may take down; a StatefulSet's only when it is set.
TakenDown(w) ==
    CASE w.kind = "Deployment" /\ w.spec.strategy = "RollingUpdate" -> <<OrElse(w.spec.maxUnavailable, Percent(25))>>
      [] w.kind = "StatefulSet"                                     -> w.spec.maxUnavailable
      [] OTHER                                                      -> <<>>

\* The rules that look at one workload at a time.
Troubled(rule, c, w) ==
    CASE rule = "RES002" ->
            /\ w.kind \in Replicated /\ ExpectedReplicas(c.objs, w) = 1
            /\ PdbsOf(c.objs, w) = <<>> /\ Serves(c.objs, w)
      [] rule = "RES005" ->
            /\ OrElse(c.facts.nodes, 2) > 1
            /\ w.kind \in Replicated /\ ExpectedReplicas(c.objs, w) > 1 /\ ~w.spec.spread
      [] rule = "RES006" ->
            Serves(c.objs, w) /\ \E x \in ToSet(ServingContainers(w)) : x.ready = ""
      [] rule = "RES007" ->
            \E x \in ToSet(w.spec.containers) : x.live # "" /\ x.live = x.ready
      [] rule = "RES008" ->
            Serves(c.objs, w) /\ \A x \in ToSet(w.spec.containers) : ~x.hook
      [] rule = "RES010" ->
            \E x \in ToSet(w.spec.containers) : ~({"cpu", "memory"} \subseteq x.requests) \/ ~x.limit
      [] rule = "RES011" ->
            \E x \in ToSet(w.spec.containers) : ~x.pinned
      [] rule = "RES012" ->
            LET n == ExpectedReplicas(c.objs, w)
            IN  /\ w.kind \in Replicated /\ n >= 1 /\ TakenDown(w) # <<>>
                /\ RoundedDown(TakenDown(w)[1], n) >= n
      [] OTHER -> FALSE

Res003(c) ==
    LET hpas == SelectSeq(c.objs, LAMBDA o :
                    o.kind = "HPA" /\ \E w \in ToSet(Scaled(c.objs, o)) : Unrequested(o, w) # {})
    IN  [i \in DOMAIN hpas |-> Hit("RES003", Append(Scaled(c.objs, hpas[i]), hpas[i]))]

Res004(c) ==
    LET hpas == SelectSeq(c.objs, LAMBDA o : o.kind = "HPA" /\ OrElse(o.spec.minReplicas, Num(1)).n <= 1)
    IN  [i \in DOMAIN hpas |-> Hit("RES004", Append(Scaled(c.objs, hpas[i]), hpas[i]))]

\* One hit for every container that sleeps longer than the grace period.
Res009(c) ==
    LET ws == OfKind(c.objs, WorkloadKinds)
    IN  FlattenSeq([i \in DOMAIN ws |->
            [j \in DOMAIN TooLong(ws[i]) |->
                LET x == TooLong(ws[i])[j]
                IN  [rule |-> "RES009", objs |-> <<ws[i]>>,
                     data |-> [NoData EXCEPT !.container = x.name, !.sleep = x.sleep[1]]]]])

\* A Service, or a budget, that selects no workload.
Orphans(rule, c) ==
    LET Orphan(o) ==
            /\ o.kind = (IF rule = "RES013" THEN "Service" ELSE "PDB")
            /\ rule = "RES013" => ~o.spec.external /\ DOMAIN o.spec.selector # {}
            /\ Selected(c.objs, o) = <<>>
        orphans == SelectSeq(c.objs, Orphan)
    IN  [i \in DOMAIN orphans |-> Hit(rule, <<orphans[i]>>)]

RuleHits(rule, c) ==
    CASE rule = "RES001"             -> Res001(c)
      [] rule = "RES003"             -> Res003(c)
      [] rule = "RES004"             -> Res004(c)
      [] rule = "RES009"             -> Res009(c)
      [] rule \in {"RES013", "RES014"} -> Orphans(rule, c)
      [] OTHER ->
            LET ws == SelectSeq(c.objs, LAMBDA o : o.kind \in WorkloadKinds /\ Troubled(rule, c, o))
            IN  [i \in DOMAIN ws |->
                    [Hit(rule, <<ws[i]>>) EXCEPT
                        !.data.total = IF rule = "RES012" THEN ExpectedReplicas(c.objs, ws[i]) ELSE 0,
                        !.data.form  = IF rule = "RES012" THEN TakenDown(ws[i])[1].form ELSE "int"]]

RuleIds ==
    <<"RES001", "RES002", "RES003", "RES004", "RES005", "RES006", "RES007", "RES008", "RES009", "RES010",
      "RES011", "RES012", "RES013", "RES014">>

----------------------------------------------------------------- (* fixes *)

\* A fix changes one field to an amount, adds spread constraints or hooks to some containers, adds
\* a budget with a selector, or only advises.
Advise(o) ==
    [kind |-> "advisory", target |-> o, field |-> "", value |-> <<>>, hooks |-> {}, selector |-> <<>>, gitops |-> FALSE]

\* A pull request replaces a value that is already in the source; live, nobody knows.
FieldFix(o, field, value, c) ==
    [Advise(o) EXCEPT !.kind = "field", !.field = field, !.value = <<value>>,
                      !.gitops = ~c.static \/ o.spec[field] # <<>>]

\* A plausible bug: the percentage is rounded up, which asks for every pod again.
BugBuilder001(hit, c) ==
    LET pdb == Last(hit.objs)
        n   == hit.data.total
    IN  CASE n < 2 -> Advise(pdb)
          [] n >= 2 /\ hit.data.field = "minAvailable" ->
                FieldFix(pdb, "minAvailable", IF hit.data.form = "int" THEN Num(n - 1) ELSE Percent(CeilDiv((n - 1) * 100, n)), c)
          [] OTHER ->
                FieldFix(pdb, "maxUnavailable", IF hit.data.form = "int" THEN Num(1) ELSE Percent(Max({1, 100 \div n})), c)

\* The budget that lets one pod go, in the form the old value had.
Builder001(hit, c) ==
    LET pdb == Last(hit.objs)
        n   == hit.data.total
    IN  CASE n < 2 -> Advise(pdb)
          [] n >= 2 /\ hit.data.field = "minAvailable" ->
                FieldFix(pdb, "minAvailable", IF hit.data.form = "int" THEN Num(n - 1) ELSE Percent(((n - 1) * 100) \div n), c)
          [] OTHER ->
                FieldFix(pdb, "maxUnavailable", IF hit.data.form = "int" THEN Num(1) ELSE Percent(Max({1, 100 \div n})), c)

PodSelector(w) == IF w.spec.selector # <<>> THEN w.spec.selector ELSE <<[labels |-> w.spec.labels, exprs |-> {}]>>

Builder004(hit, c) ==
    LET hpa == Last(hit.objs)
    IN  IF hpa.spec.maxReplicas # <<>> /\ hpa.spec.maxReplicas[1].n < 2 THEN Advise(hpa)
        ELSE FieldFix(hpa, "minReplicas", Num(2), c)

Builder008(hit, c) ==
    LET w == hit.objs[1]
    IN  IF Grace(w) <= 5 THEN Advise(w)
        ELSE [Advise(w) EXCEPT !.kind = "block", !.hooks = {x.name : x \in ToSet(ServingContainers(w))}]

Builder012(hit, c) ==
    LET w == hit.objs[1]
        n == hit.data.total
        quarter == Max({1, CeilDiv(n, 4)})
    IN  CASE w.kind = "Deployment" /\ n < 2 /\ ~w.spec.surge -> Advise(w)
          [] w.kind = "Deployment" /\ (n >= 2 \/ w.spec.surge) ->
                FieldFix(w, "maxUnavailable",
                         IF hit.data.form = "pct" THEN Percent(25) ELSE IF n >= 2 THEN Num(quarter) ELSE Num(0), c)
          [] OTHER ->
                IF n < 2 \/ hit.data.form = "pct" THEN Advise(w) ELSE FieldFix(w, "maxUnavailable", Num(quarter), c)

Built(hit, c) ==
    LET o == hit.objs[1]
    IN  CASE hit.rule = "RES001" -> Builder001(hit, c)
          [] hit.rule = "RES002" -> [Advise(o) EXCEPT !.kind = "new_object", !.selector = PodSelector(o)]
          [] hit.rule = "RES004" -> Builder004(hit, c)
          [] hit.rule = "RES005" -> [Advise(o) EXCEPT !.kind = "block"]
          [] hit.rule = "RES008" -> Builder008(hit, c)
          [] hit.rule = "RES009" -> FieldFix(o, "grace", Num(hit.data.sleep + 10), c)
          [] hit.rule = "RES012" -> Builder012(hit, c)
          [] OTHER               -> Advise(o)

\* A plausible bug: what a chart renders is patched all the same.
BugBuildFix(hit, c) == Built(hit, c)

\* What Helm renders is changed in its chart; the owner is looked up by kind and name.
BuildFix(hit, c) ==
    LET fix    == Built(hit, c)
        owners == SelectSeq(hit.objs, LAMBDA o : <<o.kind, o.name>> = <<fix.target.kind, fix.target.name>>)
    IN  IF fix.kind # "advisory" /\ owners[1].helm THEN [fix EXCEPT !.kind = "advisory", !.gitops = FALSE] ELSE fix

---------------------------------------------------------------- (* engine *)

LoadRules ==
    [r \in ToSet(RuleIds) |->
        [enabled  |-> TRUE,
         severity |-> CASE r \in {"RES001", "RES003", "RES012"} -> "high"
                        [] r \in {"RES002", "RES005", "RES006", "RES009", "RES013"} -> "medium"
                        [] OTHER -> "low"]]

Weight == [high |-> 25, medium |-> 10, low |-> 3]

\* A repository's configuration, which names only rules and severities there are: else it is refused.
ApplyConfig(config) ==
    [r \in ToSet(RuleIds) |->
        [enabled  |-> r \notin config.disable,
         severity |-> IF r \in DOMAIN config.severity THEN config.severity[r] ELSE LoadRules[r].severity]]

\* A plausible bug: an object that opts out of a rule still pays for it.
BugScored(f) == ~f.advisory

Scored(f) == ~f.advisory /\ ~f.suppressed

\* What is told of the hits of a rule.
FindingsOf(rule, hits, severity, c) ==
    [i \in DOMAIN hits |->
        [rule       |-> rule,
         severity   |-> severity,
         objects    |-> hits[i].objs,
         container  |-> hits[i].data.container,
         advisory   |-> c.static /\ rule \in {"RES013", "RES014"},
         suppressed |-> \E o \in ToSet(hits[i].objs) : Ignores(o, rule),
         fix        |-> BuildFix(hits[i], c)]]

Findings(c) ==
    LET cat == ApplyConfig(c.config)
    IN  FoldLeft(LAMBDA found, r : IF cat[r].enabled THEN found \o FindingsOf(r, RuleHits(r, c), cat[r].severity, c) ELSE found,
                 <<>>, RuleIds)

\* A workload loses the weight of every scored finding that names its key.
ScoreWorkloads(objs, findings) ==
    LET ws == OfKind(objs, ScoredKinds)
        HitsOf(w) == SelectSeq(findings, LAMBDA f : Scored(f) /\ \E o \in ToSet(f.objects) : KeyOf(o) = KeyOf(w))
        ScoreOf(w) == Max({0, 100 - FoldSeq(LAMBDA f, n : n + Weight[f.severity], 0, HitsOf(w))})
    IN  [i \in DOMAIN ws |-> [workload |-> ws[i], score |-> ScoreOf(ws[i])]]

\* The rounded mean; nothing to assess has no score.
Overall(scores) ==
    IF scores = <<>> THEN <<>>
    ELSE <<(2 * FoldSeq(LAMBDA s, n : n + s.score, 0, scores) + Len(scores)) \div (2 * Len(scores))>>

Grades(score) ==
    CASE score >= 90 -> "A" [] score >= 80 /\ score < 90 -> "B" [] score >= 70 /\ score < 80 -> "C"
      [] score >= 60 /\ score < 70 -> "D" [] OTHER -> "F"

Report(findings, scores) ==
    [findings |-> findings, workloads |-> scores, score |-> Overall(scores),
     grade |-> IF scores = <<>> THEN "-" ELSE Grades(Overall(scores)[1])]

Assessed(c, findings) == Report(findings, ScoreWorkloads(c.objs, findings))

AssessResilience(c) == Assessed(c, Findings(c))

\* What a node drain runs into, shown next to an upgrade.
DrainBlockers(report) == SelectSeq(report.findings, LAMBDA f : f.rule \in {"RES001", "RES002"} /\ Scored(f))

------------------------------------------------------- (* files of fixes *)

Slug(kind, ns, name) == <<kind>> \o ns \o name

PatchOf(fix) ==
    [kind |-> fix.target.kind, ns |-> fix.target.ns, name |-> fix.target.name,
     fields |-> IF fix.field = "" THEN <<>> ELSE fix.field :> fix.value[1],
     hooks  |-> fix.hooks,
     spread |-> fix.kind = "block" /\ fix.hooks = {}]

\* A plausible bug: the later patch replaces the earlier one's containers.
BugMergePatches(a, b) ==
    [kind |-> b.kind, ns |-> IF b.ns = <<>> THEN a.ns ELSE b.ns, name |-> b.name,
     fields |-> b.fields @@ a.fields, hooks |-> b.hooks, spread |-> a.spread \/ b.spread]

\* Two patches in one file are merged: maps by key and containers by name, the later value wins.
MergePatches(a, b) ==
    [kind |-> b.kind, ns |-> IF b.ns = <<>> THEN a.ns ELSE b.ns, name |-> b.name,
     fields |-> b.fields @@ a.fields, hooks |-> a.hooks \cup b.hooks, spread |-> a.spread \/ b.spread]

AddFile(path, content, files, merged) ==
    IF merged /\ path \in DOMAIN files THEN [files EXCEPT ![path] = MergePatches(@, content)]
    ELSE (path :> content) @@ files

RenderFixes(report) ==
    LET told == SelectSeq(report.findings, LAMBDA f : ~f.suppressed)
        Put(f, files) ==
            LET t == f.fix.target
            IN  CASE f.fix.kind \in {"field", "block"} ->
                        [files EXCEPT !.patches = AddFile(Slug(t.kind, t.ns, t.name), PatchOf(f.fix), @, TRUE)]
                  [] f.fix.kind = "new_object" ->
                        [files EXCEPT !.new = AddFile(Slug("PDB", t.ns, Append(t.name, "pdb")),
                            [ns |-> t.ns, name |-> Append(t.name, "pdb"), selector |-> f.fix.selector], @, FALSE)]
                  [] OTHER -> [files EXCEPT !.advice = @ \cup {f.rule}]
    IN  FoldLeft(LAMBDA files, f : Put(f, files), [patches |-> <<>>, new |-> <<>>, advice |-> {}], told)

------------------------------------------------------------------ (* live *)

IsSystemNamespace(ns) ==
    \/ Len(ns) > 1 /\ ns[1] \in {"kube", "openshift"}
    \/ Len(ns) > 2 /\ SubSeq(ns, 1, 2) = <<"gke", "managed">>
    \/ ns \in {<<"local", "path", "storage">>, <<"gmp", "system">>, <<"gmp", "public">>}

\* A cordoned node is nowhere to go.
FactsFromNodes(nodes) ==
    LET open  == {n \in nodes : ~n.cordoned}
        zones == {n.zone : n \in open} \ {""}
    IN  [nodes |-> <<Cardinality(open)>>, zones |-> Cardinality(zones)]

ReadScopes(ask) ==
    CASE ask.namespace # <<>>                               -> {ask.namespace}
      [] ask.namespace = <<>> /\ <<"*">> \in ask.allowed    -> {<<"*">>}
      [] OTHER                                              -> ask.allowed

KeptObjects(world, ask) ==
    SelectSeq(world.objs, LAMBDA o : /\ ReadScopes(ask) = {<<"*">>} \/ o.ns \in ReadScopes(ask)
                                     /\ ask.namespace # <<>> \/ ask.system \/ ~IsSystemNamespace(o.ns))

\* A namespace that is named is read, system or not, if it is allowed; without one, every
\* allowed namespace is.  A read that fails fails the assessment.
CollectLive(world, ask) ==
    LET refused == ask.namespace # <<>> /\ ask.allowed \cap {<<"*">>, ask.namespace} = {}
    IN  IF refused \/ ReadScopes(ask) \cap world.failed # {} \/ world.nodesFail
        THEN [error |-> TRUE, objs |-> <<>>, facts |-> [nodes |-> <<>>, zones |-> 0]]
        ELSE [error |-> FALSE, objs |-> KeptObjects(world, ask), facts |-> FactsFromNodes(world.nodes)]

\* The gate of the command line.
SeverityRank == [low |-> 0, medium |-> 1, high |-> 2]

Gate(report, failUnder, failOn) ==
    \/ failUnder # <<>> /\ report.score # <<>> /\ report.score[1] < failUnder[1]
    \/ failOn # "" /\ \E f \in ToSet(report.findings) :
            Scored(f) /\ SeverityRank[f.severity] >= SeverityRank[failOn]

------------------------------------------------------------ (* properties *)

DistinctKeys(objs) == \A i, j \in DOMAIN objs : KeyOf(objs[i]) = KeyOf(objs[j]) => i = j

DistinctSlugs(objs) ==
    \A a, b \in ToSet(objs) : Slug(a.kind, a.ns, a.name) = Slug(b.kind, b.ns, b.name) => KeyOf(a) = KeyOf(b)

\* How many pods Kubernetes lets a drain evict at once under a budget.
Evictable(c, pdb) ==
    LET total == Total(c.objs, OfKind(Selected(c.objs, pdb), Replicated))
    IN  CASE pdb.spec.minAvailable # <<>> -> total - RoundedUp(pdb.spec.minAvailable[1], total)
          [] pdb.spec.minAvailable = <<>> /\ pdb.spec.maxUnavailable # <<>> ->
                RoundedUp(pdb.spec.maxUnavailable[1], total)
          [] OTHER -> total

\* What becomes of the objects when the files are applied, the patch by the key it ends up with.
Patched(o, files) ==
    LET mine == {p \in Range(files.patches) : <<p.kind, p.ns, p.name>> = KeyOf(o)}
        With(spec, p) ==
            [f \in DOMAIN spec |->
                CASE f \in DOMAIN p.fields -> <<p.fields[f]>>
                  [] f = "spread"          -> spec.spread \/ p.spread
                  [] f = "containers"      ->
                        [i \in DOMAIN spec.containers |->
                            IF spec.containers[i].name \in p.hooks
                            THEN [spec.containers[i] EXCEPT !.hook = TRUE, !.sleep = <<5>>] ELSE spec.containers[i]]
                  [] OTHER                 -> spec[f]]
    IN  IF mine = {} THEN o ELSE [o EXCEPT !.spec = With(@, CHOOSE p \in mine : TRUE)]

Fixed(objs, files) ==
    [i \in DOMAIN objs |-> Patched(objs[i], files)]
      \o SetToSeq({[kind |-> "PDB", ns |-> n.ns, name |-> n.name, at |-> 0, helm |-> FALSE, ignores |-> {},
                    spec |-> [selector |-> n.selector, minAvailable |-> <<>>, maxUnavailable |-> <<Num(1)>>]] :
                        n \in Range(files.new)})

\* Two findings are of one trouble: the same rule, on the same thing, of the same container.
SameTrouble(f, g) ==
    f.rule = g.rule /\ f.container = g.container /\ KeyOf(f.fix.target) = KeyOf(g.fix.target)

\* One file holds one grace period: with two containers that sleep too long the last one's wins.
Overruled(f) == f.rule = "RES009" /\ Len(TooLong(f.fix.target)) > 1

\* A budget is reported exactly when it can never let a pod go, and the value proposed for it does
\* let one go, and only one as long as a hundredth is at most one pod (rules.py, fix.py).
EvictionsAreJudged(c, report) ==
    \A p \in ToSet(OfKind(c.objs, {"PDB"})) :
        LET total == Total(c.objs, OfKind(Selected(c.objs, p), Replicated))
            told  == {f \in ToSet(report.findings) : f.rule = "RES001" /\ Last(f.objects) = p}
        IN  DistinctKeys(c.objs) =>
              /\ told # {} <=> total > 0 /\ Evictable(c, p) <= 0
              /\ \A f \in told : f.fix.kind = "field" =>
                    LET q   == [p EXCEPT !.spec[f.fix.field] = f.fix.value]
                        new == [c EXCEPT !.objs = [i \in DOMAIN @ |-> IF @[i] = p THEN q ELSE @[i]]]
                    IN  Evictable(new, q) >= 1 /\ (total <= 100 => Evictable(new, q) = 1)

\* Applying the files ends every trouble they hold a change for and starts no other, except that
\* an autoscaler with a higher floor has pods to spread; what Helm renders, and what nobody
\* complains of or is told to keep quiet about, stays as it is (fix.py).
FixesHold(c, report) ==
    LET files == RenderFixes(report)
        after == AssessResilience([c EXCEPT !.objs = Fixed(c.objs, files)]).findings
        changed == {f \in ToSet(report.findings) : f.fix.kind # "advisory" /\ ~f.suppressed}
    IN  DistinctKeys(c.objs) /\ DistinctSlugs(c.objs) =>
          /\ \A f \in changed : Overruled(f) \/ \A g \in ToSet(after) : ~SameTrouble(f, g)
          /\ \A g \in ToSet(after) : g.rule = "RES005" \/ \E f \in ToSet(report.findings) : SameTrouble(f, g)
          /\ \A o \in ToSet(c.objs) :
                o.helm \/ {f \in changed : KeyOf(f.fix.target) = KeyOf(o)} = {} => Patched(o, files) = o

\* A pull request is offered exactly for a change of a value that is there to be replaced and that
\* no chart renders (fix.py).
PrsAreMakeable(c, report) ==
    \A f \in ToSet(report.findings) :
        f.fix.gitops <=> f.fix.kind = "field" /\ ~f.fix.target.helm /\ (c.static => f.fix.target.spec[f.fix.field] # <<>>)

\* With one autoscaler to a workload and one workload to an autoscaler nothing depends on the order
\* of the documents; an object that opts out of every rule costs no workload anything, and nothing
\* costs a workload that opts out (model.py, score.py).
Unambiguous(objs) ==
    /\ DistinctKeys(objs)
    /\ \A h, k \in ToSet(OfKind(objs, {"HPA"})) : HpaTarget(objs, h) # <<>> /\ HpaTarget(objs, h) = HpaTarget(objs, k) => h = k
    /\ \A h \in ToSet(OfKind(objs, {"HPA"})) : HpaTarget(objs, h) = HpaTarget(Reverse(objs), h)

ScoresAreFair(c, report) ==
    LET Says(r)  == {<<f.rule, ToSet(f.objects), f.container, f.fix.value>> : f \in ToSet(r.findings)}
        turned   == AssessResilience([c EXCEPT !.objs = Reverse(@)])
        Quiet(i) == AssessResilience([c EXCEPT !.objs[i].ignores = {"*"}])
        Costs(r) == [k \in {KeyOf(s.workload) : s \in ToSet(r.workloads)} |->
                        (CHOOSE s \in ToSet(r.workloads) : KeyOf(s.workload) = k).score]
    IN  /\ Unambiguous(c.objs) => Says(report) = Says(turned) /\ report.score = turned.score
        /\ DistinctKeys(c.objs) =>
              \A i \in DOMAIN c.objs : \A k \in DOMAIN Costs(report) :
                  Costs(Quiet(i))[k] >= (IF k = KeyOf(c.objs[i]) THEN 100 ELSE Costs(report)[k])
        /\ \A s \in ToSet(report.workloads) :
              s.score < 100 => \E f \in ToSet(report.findings) : Scored(f) /\ \E o \in ToSet(f.objects) : KeyOf(o) = KeyOf(s.workload)

\* A gate at the lowest severity stops whatever a drain runs into, and what is advice or has opted
\* out stops nothing (cli/resilience.py).
GateIsHonest(report, failUnder) ==
    /\ DrainBlockers(report) # <<>> => Gate(report, <<>>, "low")
    /\ (\A f \in ToSet(report.findings) : ~Scored(f)) => ~Gate(report, failUnder, "low")

\* A live assessment sees all of what it may read and nothing else, or it fails (live.py).
LiveIsWhole(world, ask, got) ==
    LET May(ns) == <<"*">> \in ask.allowed \/ ns \in ask.allowed
    IN  /\ \A ns \in world.failed : (IF ask.namespace # <<>> THEN ns = ask.namespace ELSE ns \in ask.allowed) => got.error
        /\ ~got.error => \A o \in ToSet(world.objs) :
              o \in ToSet(got.objs) <=> /\ May(o.ns)
                                        /\ IF ask.namespace # <<>> THEN o.ns = ask.namespace
                                           ELSE ask.system \/ ~IsSystemNamespace(o.ns)
=============================================================================
