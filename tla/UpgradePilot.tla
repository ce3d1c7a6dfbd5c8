----------------------------- MODULE UpgradePilot -----------------------------
(***************************************************************************)
(* The other pilots: the upgrade planner and its guarded migration         *)
(* (mcp/services/upgrade), the runner of an approved plan                  *)
(* (ui/backend/pilots/upgrade_runner.py), the diagnosis of a GitOps        *)
(* application (mcp/services/reconcile), and the endpoint that runs a pilot*)
(* and keeps a row of it (ui/backend/routers/pilots.py).                   *)
(*                                                                         *)
(* A Kubernetes version is its minor number.  An API is the record         *)
(* [api, kind]; the map of deprecations says in which version it was       *)
(* deprecated and removed and what replaces it ("" for nothing).           *)
(***************************************************************************)
EXTENDS Resilience

------------------------------------------------------------ (* scanning *)

\* Who owns an object: its controller, the chart that renders it, or a manifest.
SourceOf(doc) == CASE doc.owned -> "operator" [] ~doc.owned /\ doc.helm -> "helm" [] OTHER -> "manifest"

\* at is where the document was read: its file or its request, and its place in there.
RefOf(doc, api, at) ==
    [at |-> at, api |-> api, kind |-> doc.kind, ns |-> doc.ns, name |-> doc.name, source |-> SourceOf(doc)]

\* Manifests are taken as they are written; of a file that does not parse nothing is.
ScanManifests(files) ==
    LET read   == UNION {{i} \X DOMAIN files[i].docs : i \in {f \in DOMAIN files : files[f].parses}}
        Doc(p) == files[p[1]].docs[p[2]]
    IN  [mode |-> "static", kubelets |-> {}, operators |-> {}, objects |-> {RefOf(Doc(p), Doc(p).api, p) : p \in read}]

\* The API server answers for a kind in every version it serves, whatever version it was written in.
ServedDocs(world, dep) ==
    IF dep.api \in world.served THEN {k \in DOMAIN world.docs : world.docs[k].kind = dep.kind} ELSE {}

\* A live scan asks for every deprecated API once; a request that fails is an empty answer.
ScanCluster(world, deps) ==
    LET Probed(i) == \E j \in 1..(i - 1) : deps[j].api = deps[i].api /\ deps[j].kind = deps[i].kind
        asked == {i \in DOMAIN deps : deps[i].api \notin world.failed /\ ~Probed(i)}
        got   == UNION {{i} \X ServedDocs(world, deps[i]) : i \in asked}
    IN  [mode |-> "live",
         kubelets  |-> IF "nodes" \in world.failed THEN {} ELSE world.kubelets,
         operators |-> IF "crds" \in world.failed THEN {} ELSE {[group |-> g, version |-> 0] : g \in world.groups},
         objects   |-> {RefOf(world.docs[p[2]], deps[p[1]].api, p) : p \in got}]

---------------------------------------------------------- (* assessment *)

\* A plausible bug: an API is looked up by its group and version alone.
BugDeprecationOf(deps, o) ==
    LET hits == {i \in DOMAIN deps : deps[i].api = o.api}
    IN  IF hits = {} THEN <<>> ELSE <<deps[Max(hits)]>>

\* Of two entries for one API the last one counts.
DeprecationOf(deps, o) ==
    LET hits == {i \in DOMAIN deps : deps[i].api = o.api /\ deps[i].kind = o.kind}
    IN  IF hits = {} THEN <<>> ELSE <<deps[Max(hits)]>>

Before(p, q) == p[1] < q[1] \/ (p[1] = q[1] /\ p[2] < q[2])

ObjectOf(o) == <<o.api, o.kind, o.ns, o.name>>

\* The objects that use an API removed by the target, each once, as it was first read.
Blocking(snapshot, target, deps) ==
    LET removed == {o \in snapshot.objects : \E d \in ToSet(DeprecationOf(deps, o)) : d.removed <= target}
        first   == {o \in removed : ~\E b \in removed : ObjectOf(b) = ObjectOf(o) /\ Before(b.at, o.at)}
    IN  {[api |-> o.api, kind |-> o.kind, ns |-> o.ns, name |-> o.name, source |-> o.source,
          replacement |-> DeprecationOf(deps, o)[1].replacement] : o \in first}

DeprecatedNotes(snapshot, target, deps) ==
    {o \in snapshot.objects : \E d \in ToSet(DeprecationOf(deps, o)) : target < d.removed /\ d.deprecated <= target}

\* The highest floor whose Kubernetes version the target has reached.
MinRequiredForTarget(floors, target) ==
    LET reached == {v \in DOMAIN floors : v <= target} IN IF reached = {} THEN 0 ELSE floors[Max(reached)]

\* A scan of a cluster never knows an operator's version, so what it says of it is unknown.
AssessOperators(snapshot, target, compat) ==
    IF snapshot.mode = "static" THEN {}
    ELSE {LET min == MinRequiredForTarget(compat[op.group], target)
          IN  [name |-> op.group, min |-> min,
               action |-> CASE min = 0 \/ op.version = 0 -> "unknown"
                            [] min # 0 /\ op.version >= min -> "ok"
                            [] OTHER -> "bump"] :
            op \in {x \in snapshot.operators : x.group \in DOMAIN compat}}

AllowedSkew(target) == IF target >= 28 THEN 3 ELSE 2

AssessSkew(snapshot, target) ==
    snapshot.kubelets = {} \/ Max({0} \cup {target - v : v \in snapshot.kubelets}) <= AllowedSkew(target)

AssessUpgrade(snapshot, target, maps) ==
    [blocking |-> Blocking(snapshot, target, maps.deps), notes |-> DeprecatedNotes(snapshot, target, maps.deps),
     operators |-> AssessOperators(snapshot, target, maps.compat), skewOk |-> AssessSkew(snapshot, target)]

----------------------------------------------------------------- (* plan *)

\* A plausible bug: an API removed for good is sent to a pull request like any other.
BugRouteBlocking(b) ==
    CASE b.source = "helm"     -> [kind |-> "helm_bump", route |-> "remediation", risk |-> "medium"]
      [] b.source = "operator" -> [kind |-> "operator_bump", route |-> "remediation", risk |-> "medium"]
      [] OTHER                 -> [kind |-> "manifest_pr", route |-> "gitops_pr", risk |-> "low"]

\* What a chart or an operator owns is bumped there; a removal without a replacement needs a person.
RouteBlocking(b) ==
    CASE b.source = "helm"     -> [kind |-> "helm_bump", route |-> "remediation", risk |-> "medium"]
      [] b.source = "operator" -> [kind |-> "operator_bump", route |-> "remediation", risk |-> "medium"]
      [] b.source = "manifest" /\ b.replacement = "" -> [kind |-> "manifest_pr", route |-> "advisory", risk |-> "high"]
      [] OTHER                 -> [kind |-> "manifest_pr", route |-> "gitops_pr", risk |-> "low"]

StepRank(step) ==
    CASE step.kind = "operator_bump" -> 0
      [] step.kind = "helm_bump"     -> 1
      [] step.kind = "manifest_pr"   -> IF step.of.kind = "CustomResourceDefinition" THEN 2 ELSE 3
      [] OTHER                       -> 4

NoObject == [api |-> "", kind |-> "", ns |-> <<>>, name |-> <<>>, source |-> "", replacement |-> ""]

\* A step is known by the words of its kind, its API and its object, joined.
ObjectStep(b) ==
    LET r == RouteBlocking(b)
    IN  [id |-> <<r.kind, b.api, b.kind>> \o b.ns \o b.name, kind |-> r.kind, route |-> r.route, risk |-> r.risk,
         advisory |-> FALSE, of |-> b]

OperatorStep(op) ==
    [id |-> <<"operator", op.name>>, kind |-> "operator_bump", route |-> "remediation", risk |-> "medium",
     advisory |-> TRUE, of |-> NoObject]

ControlPlaneStep ==
    [id |-> <<"control-plane">>, kind |-> "control_plane", route |-> "advisory", risk |-> "high", advisory |-> TRUE,
     of |-> NoObject]

Pending(report) ==
    {OperatorStep(op) : op \in {x \in report.operators : x.action = "bump"}}
      \cup {ObjectStep(b) : b \in report.blocking} \cup {ControlPlaneStep}

Ranked(report, r) == SetToSeq({s \in Pending(report) : StepRank(s) = r})

\* Operators, charts, definitions, objects, control plane.  Within a rank the code sorts by names,
\* which the model leaves open.
MakePlan(report) ==
    Ranked(report, 0) \o Ranked(report, 1) \o Ranked(report, 2) \o Ranked(report, 3) \o Ranked(report, 4)

--------------------------------------------------------------- (* runner *)

\* How far a run has come: what it ended with, what holds in the cluster, what it did in order.
RunStart(done) == [status |-> "", done |-> done, log |-> <<>>]

\* A plausible bug: a step that awaits approval is passed over instead of halting the run.
BugRunStep(run, step, approved, world) ==
    LET Emit(how, r) == [r EXCEPT !.log = Append(@, <<step, how>>)]
        Stop(status, r) == [r EXCEPT !.status = status]
        may == step.id \in (IF step.risk = "high" THEN approved.individual ELSE approved.plan)
    IN  CASE run.status # "" -> run
          [] run.status = "" /\ (step.kind = "control_plane" \/ step.advisory) -> Emit("advisory", run)
          [] run.status = "" /\ ~(step.kind = "control_plane" \/ step.advisory) /\ step \in run.done -> Emit("verified", run)
          [] OTHER ->
                CASE ~may -> Emit("pending", run)
                  [] may /\ world[step] = "raises" -> Stop("raised", run)
                  [] may /\ world[step] = "works"  -> Emit("applied", [run EXCEPT !.done = @ \cup {step}])
                  [] OTHER -> Stop("halted", Emit("failed", run))

\* world says of a step what executing it does: "works", "refuses", "lies" (says it did) or "raises".
RunStep(run, step, approved, world) ==
    LET Emit(how, r) == [r EXCEPT !.log = Append(@, <<step, how>>)]
        Stop(status, r) == [r EXCEPT !.status = status]
        may == step.id \in (IF step.risk = "high" THEN approved.individual ELSE approved.plan)
    IN  CASE run.status # "" -> run
          [] run.status = "" /\ (step.kind = "control_plane" \/ step.advisory) -> Emit("advisory", run)
          [] run.status = "" /\ ~(step.kind = "control_plane" \/ step.advisory) /\ step \in run.done -> Emit("verified", run)
          [] OTHER ->
                CASE ~may -> Stop("blocked", Emit("pending", run))
                  [] may /\ world[step] = "raises" -> Stop("raised", run)
                  [] may /\ world[step] = "works"  -> Emit("applied", [run EXCEPT !.done = @ \cup {step}])
                  [] OTHER -> Stop("halted", Emit("failed", run))

\* The run after each of its steps.
Progress(steps, approved, world, done) ==
    LET run[k \in 0..Len(steps)] == IF k = 0 THEN RunStart(done) ELSE RunStep(run[k - 1], steps[k], approved, world)
    IN  run

RunPlan(steps, approved, world, done, lockOk) ==
    LET end == Progress(steps, approved, world, done)[Len(steps)]
    IN  CASE ~lockOk                     -> [RunStart(done) EXCEPT !.status = "locked"]
          [] lockOk /\ end.status = ""   -> [end EXCEPT !.status = "done"]
          [] OTHER                       -> end

------------------------------------------------------------ (* migration *)

\* An object is its leaves: a function from paths to values.
Under(path, prefix) == IsPrefix(prefix, path)

LeavesUnder(obj, prefix) == {p \in DOMAIN obj : Under(p, prefix)}

\* A plausible bug: the place a field came from is forgotten before its value is read.
BugRename(obj, src, dst) == [p \in DOMAIN obj \ LeavesUnder(obj, src) |-> obj[p]]

\* Moves a subtree; what the destination held is gone.  A leaf on the way to the destination is an
\* error, shown as an object without leaves.
Rename(obj, src, dst) ==
    LET moved == LeavesUnder(obj, src)
        kept  == [p \in DOMAIN obj \ moved |-> obj[p]]
    IN  CASE moved = {} -> obj
          [] moved # {} /\ \E p \in DOMAIN kept : IsStrictPrefix(p, dst) -> <<>>
          [] OTHER ->
             [p \in (DOMAIN kept \ LeavesUnder(kept, dst)) \cup {dst \o SubSeq(q, Len(src) + 1, Len(q)) : q \in moved} |->
                IF Under(p, dst) THEN obj[src \o SubSeq(p, Len(dst) + 1, Len(p))] ELSE kept[p]]

\* The object after each of the renames; an error ends them.
Renamed(live, to, renames) ==
    LET obj[k \in 0..Len(renames)] ==
            CASE k = 0                       -> [live EXCEPT ![<<"apiVersion">>] = to]
              [] k # 0 /\ obj[k - 1] = <<>>  -> <<>>
              [] OTHER                       -> Rename(obj[k - 1], renames[k].src, renames[k].dst)
    IN  obj

BuildMigratedObject(live, to, renames) == Renamed(live, to, renames)[Len(renames)]

DiffPaths(a, b) ==
    {p \in DOMAIN a \cup DOMAIN b : ~(p \in DOMAIN a /\ p \in DOMAIN b /\ a[p] = b[p])}

\* The migrated object; nothing when the live one is not what was planned for, a field cannot be
\* put where it should go (an error) or more would change.
PlanMigration(live, from, to, renames) ==
    LET migrated == BuildMigratedObject(live, to, renames)
        allowed  == {<<"apiVersion">>} \cup {r.src : r \in ToSet(renames)} \cup {r.dst : r \in ToSet(renames)}
    IN  IF live[<<"apiVersion">>] # from \/ migrated = <<>> \/ \E p \in DiffPaths(live, migrated) : \A a \in allowed : ~Under(p, a)
        THEN <<>> ELSE <<migrated>>

------------------------------------------------------------ (* reconcile *)

Signatures == <<"image_pull", "crd_schema_mismatch", "rbac", "failed_hook">>

\* The first signature found in the messages, a message being the signatures in it.
ClassifyText(messages) ==
    LET found == {i \in DOMAIN Signatures : \E m \in messages : Signatures[i] \in m}
    IN  IF found = {} THEN "" ELSE Signatures[Min(found)]

Broken(r) == r.health \in {"Degraded", "Missing"}

\* The resources in trouble are read up to the first broken one.
DiagnoseArgo(app) ==
    LET bad    == {i \in DOMAIN app.resources : Broken(app.resources[i]) \/ app.resources[i].sync = "OutOfSync"}
        broken == {i \in bad : Broken(app.resources[i])}
        read   == IF broken = {} THEN bad ELSE {i \in bad : i <= Min(broken)}
        text   == ClassifyText(app.messages \cup {app.resources[i].message : i \in read})
    IN  [cause |-> CASE text # "" -> text
                     [] text = "" /\ app.health = "Healthy" /\ app.sync = "Synced" -> "healthy"
                     [] text = "" /\ app.sync = "OutOfSync" -> "out_of_sync_drift"
                     [] text = "" /\ app.sync # "OutOfSync" /\ app.health = "Progressing" -> "progressing"
                     [] OTHER -> "unknown",
         first |-> CASE bad = {} -> <<>>
                     [] bad # {} /\ broken = {} -> <<app.resources[Min(bad)]>>
                     [] OTHER -> <<app.resources[Min(broken)]>>]

DiagnoseFlux(app) ==
    LET text == ClassifyText(app.messages)
    IN  [cause |-> CASE text # "" -> text
                     [] text = "" /\ app.ready = "True" -> "healthy"
                     [] text = "" /\ app.ready # "True" /\ app.drift -> "out_of_sync_drift"
                     [] OTHER -> "unknown",
         first |-> IF app.ready \in {"True", "none"} THEN <<>> ELSE <<app.kind>>]

FixFor(cause) ==
    CASE cause = "out_of_sync_drift"          -> "gitops_pr"
      [] cause \in {"progressing", "healthy"} -> "none"
      [] OTHER                                -> "advisory"

\* An application that could not be fetched has no status and no kind.
NoApp == [kind |-> "Application", health |-> "", sync |-> "", resources |-> <<>>, messages |-> {}, ready |-> "none", drift |-> FALSE]

DiagnoseApp(app) == IF app.kind = "Application" THEN DiagnoseArgo(app) ELSE DiagnoseFlux(app)

------------------------------------------------------------- (* endpoint *)

PilotNames == {"upgrade", "gitops_reconcile", "resilience"}

Reply(code, row) == [code |-> code, row |-> row, drains |-> [checked |-> FALSE, findings |-> <<>>], report |-> <<>>]

\* Manifests come from under the configured root, or else the cluster is read.
ResilienceInputs(req, w) ==
    IF req.path # "none"
    THEN [error |-> IF req.path = "inside" THEN "" ELSE "bad", objs |-> w.manifests, static |-> TRUE,
          facts |-> [nodes |-> <<>>, zones |-> 0]]
    ELSE LET got == CollectLive(w.live, req.ask)
         IN  [error |-> CASE ~got.error -> "" [] got.error /\ req.ask.namespace # <<>>
                                                  /\ req.ask.allowed \cap {<<"*">>, req.ask.namespace} = {} -> "bad"
                          [] OTHER -> "failed",
              objs |-> got.objs, static |-> FALSE, facts |-> got.facts]

AssessInputs(in) ==
    AssessResilience([objs |-> in.objs, static |-> in.static, facts |-> in.facts,
                      config |-> [disable |-> {}, severity |-> <<>>]])

\* A plausible bug: drains that could not be checked are shown as none.
BugDrainsFor(req, w) ==
    LET in == ResilienceInputs(req, w)
    IN  [checked |-> TRUE, findings |-> IF in.error # "" THEN <<>> ELSE DrainBlockers(AssessInputs(in))]

\* The drains shown with an upgrade: a check that could not be made says so.
DrainsFor(req, w) ==
    LET in == ResilienceInputs(req, w)
    IN  IF in.error # "" THEN [checked |-> FALSE, findings |-> <<>>]
        ELSE [checked |-> TRUE, findings |-> DrainBlockers(AssessInputs(in))]

RunUpgrade(req, w) ==
    IF req.target = "malformed" \/ req.path = "outside" THEN Reply(500, "failed")
    ELSE [Reply(201, "planned") EXCEPT !.drains = DrainsFor(req, w)]

RunReconcile(req, w) ==
    [Reply(201, "diagnosed") EXCEPT !.report = <<DiagnoseApp(IF req.object = "app" /\ w.fetchFails THEN NoApp ELSE w.app)>>]

RunResilience(req, w) ==
    LET in == ResilienceInputs(req, w)
    IN  CASE in.error = "bad"    -> Reply(IF req.path = "none" THEN 422 ELSE 400, "failed")
          [] in.error = "failed" -> Reply(500, "failed")
          [] OTHER               -> [Reply(201, "assessed") EXCEPT !.report = <<AssessInputs(in).score>>]

\* A request that is refused leaves no row; any other is answered when its row has its last status.
StartRun(req, w) ==
    CASE ~w.enabled \/ req.pilot \notin w.flags \cap PilotNames -> Reply(404, "")
      [] w.enabled /\ req.pilot \in w.flags /\ req.pilot = "upgrade" ->
            IF req.target = "" THEN Reply(422, "") ELSE RunUpgrade(req, w)
      [] w.enabled /\ req.pilot \in w.flags /\ req.pilot = "gitops_reconcile" ->
            IF req.object \in {"none", "malformed"} THEN Reply(422, "") ELSE RunReconcile(req, w)
      [] OTHER -> RunResilience(req, w)

------------------------------------------------------------ (* properties *)

\* A static assessment names exactly the objects whose API the target has removed, each once; a
\* live one names an object for every removed API the cluster still answers for it, however it was
\* written, unless the request for that API failed (planner.py, scan.py).
RemovalsAreFound(target, maps, files, world) ==
    LET Gone(api, kind) == \E d \in ToSet(maps.deps) : d.api = api /\ d.kind = kind /\ d.removed <= target
        static == Blocking(ScanManifests(files), target, maps.deps)
        live   == Blocking(ScanCluster(world, maps.deps), target, maps.deps)
        Written == {d \in UNION {ToSet(f.docs) : f \in {g \in ToSet(files) : g.parses}} : Gone(d.api, d.kind)}
        Served  == {y \in (world.served \ world.failed) \X ToSet(world.docs) : Gone(y[1], y[2].kind)}
    IN  /\ {ObjectOf(b) : b \in static} = {ObjectOf(d) : d \in Written}
        /\ {ObjectOf(b) : b \in live} = {<<y[1], y[2].kind, y[2].ns, y[2].name>> : y \in Served}
        /\ \A found \in {static, live} : \A a, b \in found : ObjectOf(a) = ObjectOf(b) => a = b

\* Every object that blocks has one step of its own, what owns a definition comes before it and it
\* before what uses it, the control plane is last, and nothing that a chart or an operator owns or
\* that has no replacement becomes a pull request (planner.py).
PlanIsOrdered(report, steps) ==
    /\ \A b \in report.blocking : Cardinality({i \in DOMAIN steps : steps[i].of = b}) = 1
    /\ Last(steps) = ControlPlaneStep
    /\ \A i, j \in DOMAIN steps : i < j => StepRank(steps[i]) <= StepRank(steps[j])
    /\ \A s \in ToSet(steps) : s.route = "gitops_pr" => s.of.source = "manifest" /\ s.of.replacement # ""

\* A step is executed only if its own identifier was approved, the way its risk demands, and only
\* when all that had to be done before it is done; the steps for a person never are; and a run that
\* is taken up again executes nothing a second time that worked (upgrade_runner.py).
RunsAsApproved(steps, approved, world, first, second) ==
    LET Tried(run) == {e[1] : e \in {x \in ToSet(run.log) : x[2] \in {"applied", "failed"}}}
        Automatic  == {s \in ToSet(steps) : ~s.advisory /\ s.kind # "control_plane"}
    IN  \A run \in {first, second} :
          /\ \A s \in Tried(run) :
                /\ s \in Automatic
                /\ s.id \in (IF s.risk = "high" THEN approved.individual ELSE approved.plan)
                /\ \A i, j \in DOMAIN steps : i < j /\ steps[j] = s /\ steps[i] \in Automatic => steps[i] \in run.done
          /\ run.status = "done" => Automatic \subseteq run.done
          /\ run.status \in {"blocked", "halted", "raised"} => ~(Automatic \subseteq run.done)
          /\ Tried(second) \cap first.done = {}

\* An automatic migration changes the version and the fields it was told to move and nothing else;
\* no value is lost as long as the fields are moved to different places where nothing is (migrate.py).
MigrationIsGuarded(live, from, to, renames, out) ==
    \A new \in ToSet(out) :
        /\ live[<<"apiVersion">>] = from /\ new[<<"apiVersion">>] = to
        /\ \A p \in DOMAIN live \cup DOMAIN new :
              (p # <<"apiVersion">> /\ \A r \in ToSet(renames) : ~Under(p, r.src) /\ ~Under(p, r.dst)) =>
                  p \in DOMAIN live /\ p \in DOMAIN new /\ live[p] = new[p]
        /\ (\A i, j \in DOMAIN renames : /\ LeavesUnder(live, renames[i].dst) = {}
                                         /\ i # j => ~Under(renames[i].dst, renames[j].dst)) =>
              \A p \in DOMAIN live \ {<<"apiVersion">>} : \E q \in DOMAIN new : new[q] = live[p]

\* A diagnosis names a broken resource if there is one, else one that is out of sync, and calls an
\* application healthy only if its controller does (analyze.py).
DiagnosisIsWitnessed(app, out) ==
    /\ out.cause = "healthy" => (IF app.kind = "Application" THEN app.health = "Healthy" /\ app.sync = "Synced" ELSE app.ready = "True")
    /\ app.kind = "Application" =>
          /\ \A r \in ToSet(out.first) : r \in ToSet(app.resources) /\ (Broken(r) \/ r.sync = "OutOfSync")
          /\ (\E r \in ToSet(app.resources) : Broken(r)) => out.first # <<>> /\ Broken(out.first[1])
    /\ FixFor(out.cause) = "gitops_pr" => app.health # "Healthy" \/ app.sync = "OutOfSync"

\* No run is left planning once it is answered, a run that fails is told as failed, and neither a
\* score nor a clean list of drains is shown of a cluster that could not be read (pilots.py).
RunsAreSettled(req, w, got) ==
    LET unread == req.path = "none" /\ CollectLive(w.live, req.ask).error
    IN  /\ got.row # "planning" /\ (got.code = 201 <=> got.row \in {"planned", "diagnosed", "assessed"})
        /\ got.code = 500 => got.row = "failed"
        /\ unread => got.row # "assessed" /\ ~got.drains.checked

\* The drains shown with an upgrade are of objects that were read (_drains_for, pilots.py).
DrainsAreRead(req, w, got) ==
    got.drains.checked => \A f \in ToSet(got.drains.findings) : \E o \in ToSet(f.objects) :
        o \in ToSet(IF req.path = "none" THEN w.live.objs ELSE w.manifests)
=============================================================================
