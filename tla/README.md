# KubeAstra: TLA+ models, checks and proofs

KubeAstra answers questions about Kubernetes clusters, investigates alerts and,
within tight limits, changes clusters. Its core is a Python backend
(`ui/backend`), a library of cluster tools and alert logic (`mcp`), and a SQLite
database; a web frontend, a desktop shell (Rust), a CLI and a VS Code extension
are its clients. This directory models the parts of it in which an ordering, a
race, an expiry, a restart or a failed request decides whether the program is
right, and the analyses whose result a person acts on.

## 1. The system

How it runs decides what can interleave:

* one process serves one SQLite file (`replicaCount: 1`); every helper of
  `db.py` opens a connection, runs one transaction and commits (`db.py:38-52`),
  so a helper is atomic and two helper calls are not;
* `async def` handlers share one event loop and interleave only at `await`;
  `def` handlers, `run_in_threadpool` calls and agent loops run on threads,
  concurrently with everything;
* settings are read once per process (`lru_cache`), so a policy changes only
  with a restart; every in-memory object (breaker, slots, plans, tokens, pending
  edits, previews, the poller's memory) is lost with the process, and the
  database is not;
* the tools and the analysers keep no state of their own: each call makes a
  series of requests to kubectl, any of which may fail, and computes an answer.

| Component | State | Operations | Talks to | What makes it correct | Modelled in |
|---|---|---|---|---|---|
| Remediation (`remediation_executor.py`, `alert_remediation.py`, `routers/remediation.py`) | rows of `remediation_proposals` | propose, approve/reject, execute | registry, policy, kubectl runner, audit | an approval acts at most once, only while fresh and permitted, and its outcome is recorded | `RemediationExecution`, `ApprovedActions` |
| Circuit breaker (`remote_diagnostics_breaker.py`) | per target: state, failures, probe | allow, record_failure, record_success | agent invoke | one probe at a time; never wedged; closed only by a live probe | `CircuitBreaker` |
| Agent invoke (`routers/agent.py`) | slots, a coroutine and a worker per request | acquire, run, cancel, release | breaker, SSH runner, loop | slots conserved; every request ends | `AgentInvoke` |
| Alert pipeline (`routers/alerts.py`, `orchestrator/engine.py`, correlation) | `investigations`, `incidents` | webhook firing/resolved, orchestrate, sweep | routing, playbooks, LLM | a repeat is absorbed by one open investigation; nothing stays open for ever | `AlertPipeline` |
| Plans and tokens (`services/plans.py`, `services/confirmation.py`, destructive wrappers) | plan steps, issued tokens | create, claim, execute, record; issue, consume | kubectl | a token authorises one previewed operation once; a step runs once per claim | `ConfirmationTokens`, `PlanExecution` |
| Agent runs (`react.py`, `agent_run_recorder.py`, `routers/chat.py`) | `agent_runs`, `agent_steps` | start, suspend, approve, reject, resume, close | chat, tools, tokens | a suspended action runs only after its approval, once; a run ends | `AgentRun` |
| Chat (`routers/chat.py`) | `messages`, a queue and a stream per turn | route, answer, stream, store, disconnect | caches, loop, LLM | one ending and one stored answer per turn; nothing stored answers for the live cluster | `ChatTurns` |
| ReAct loop (`react.py`, `context_manager.py`, `tool_scoper.py`, `synthesis_critic.py`) | the steps of one run | parse, correct, dispatch, observe, rank, answer, review | tools, LLM | what is shown rests on what was read and was reviewed | `ToolDispatch`, `CallCorrection`, `ToolObservations`, `EvidenceRanking`, `FinalAnswer` |
| Tools and dispatcher (`tool_registry.py`, `mcp_server/`, `k8s/wrappers.py`, `k8s/parsers.py`) | none | resolve a name, dispatch, read, investigate | kubectl | no destructive tool on the wrong surface; no absence invented from a failed request | `ToolDispatch`, `ClusterReads`, `Investigations` |
| Health analyser, playbooks, root causes (`k8s/analyzer`, `alerts/playbooks`, `alerts/orchestrator`) | none | collect, judge, classify, score | kubectl, YAML files | what is diagnosed is there | `HealthAnalysis`, `Playbooks` |
| Pilots (`services/resilience`, `services/upgrade`, `services/reconcile`, `pilots/`, `routers/pilots.py`) | `pilot_runs` | assess, fix, score, plan, run a plan, migrate, diagnose | manifests, kubectl | a fix ends its finding and starts no other; the plan is in order; only approved steps run | `Resilience`, `UpgradePilot` |
| Cluster access (`cluster_session.py`, `routers/cluster.py`) | kubeconfig files, connection rows, the default | upload, connect, disconnect, resolve, prune | kubectl | a command reaches the cluster that was chosen, or none | `ClusterSessions` |
| Accounts (`routers/auth.py`, `ratelimit.py`) | sessions, reset links, hit lists | login, change, forgot/reset, limit | mailer | a link works once; a change of password ends older logins | `Accounts` |
| GitOps (`gitops/`, `routers/gitops.py`) | previews, `gitops_prs` | locate, edit, preview, open | GitHub | the edit hits exactly the field; a preview is opened once | `GitOpsPRs` |
| Audit trail (`audit.py`) | `audit_events` | emit, verify, prune | everything | the chain breaks only where it was pruned | `AuditChain` |
| Knowledge and memory (`services/rag`, `services/vector_db.py`, `memory.py`) | vector collections, `feedback_events`, `user_memory` | capture, vote, promote, quarantine, cache, ingest, record | embeddings | no captured answer is lost or shown twice; widths are not mixed | `KnowledgeBase`, `VectorStore`, `UserMemory` |
| Desktop backend (`desktop_*.py`, `routers/desktop*.py`) | `config.json`, pending edits, poller memory | grant, revoke, propose, apply, poll, drain | file system, Alertmanager | a revoked grant stays revoked; what is replaced is what was reviewed; an alert is announced once | `DesktopConfig`, `DesktopEdits`, `DesktopAlerts` |
| Desktop shell (`desktop/src-tauri/src/main.rs`) | sidecar process, waiting request | start, dispatch, replay, quit, crash | sidecar | a waiting request is replayed; no orphan | `DesktopShell` |

`PROJECT.json` lists every component with its sources and status, and under
`hazards` what is hard to test in each, at the line where it bites.

## 2. The plan

The order is that of consequence: first what changes a cluster, then what bounds
the load on one, then the pipeline that decides to investigate, then the
services around them, and last the pure analyses.

| # | Modules | Composed in | State |
|---|---|---|---|
| 1 | `RemediationExecution` implements `ApprovedActions` | - | checked; all its invariants and the refinement proved |
| 2 | `CircuitBreaker` within `AgentInvoke` | - | checked; all its safety properties proved |
| 3 | `AlertPipeline` | `MCAlertPipeline` | checked; all its safety properties proved |
| 4 | `ConfirmationTokens` within `PlanExecution` | `MCPlanExecution` | checked; all its invariants proved |
| 5 | `ConfirmationTokens` within `AgentRun` | - | checked; all its invariants proved |
| 6 | `DesktopConfig`, `DesktopEdits`, `DesktopAlerts`, `DesktopShell` | `MCDesktop` | checked; all its safety properties proved |
| 7 | `ClusterSessions`, `Accounts`, `GitOpsPRs`, `AuditChain` | `MCServices` | checked; all its properties proved |
| 8 | `ChatTurns`, `KnowledgeBase`, `UserMemory`, `VectorStore` | `MCChat` | checked; all its invariants proved |
| 9 | `HealthAnalysis`, then `ClusterReads`, then `Investigations`, each on the one before | `MCTools` | checked |
| 10 | `ToolDispatch`; `Resilience`, then `UpgradePilot` on it | `MCTools` | checked; `ToolDispatch` and `UpgradePilot` proved |
| 11 | `Playbooks`, `EvidenceRanking`, `FinalAnswer`, `ToolObservations`, `CallCorrection` | `MCAnalyses` on `MCTools` | checked; `ToolObservations` and `CallCorrection` proved |

Every safety property of the machines (rows 1 to 8) has a theorem, and so have the
dispatcher, the upgrade pilot and the loop's own operators. What would come next are
theorems about the other analyses: that the ranking does not depend on the order of the
steps (`EvidenceRanking`), that a fix ends its finding (`Resilience`). They need the
operators' folds as recursive functions, as `CountUpTo`, `Ingested` and `Progress` are,
and no recursive operator in the modules they use.

## 3. The modules and the code

Three kinds of module:

* *machines* (`RemediationExecution` to `VectorStore` below): variables, one action
  per transaction, lock section or step between two of them, and a specification.
  Variables that only record what happened are called history in the module's
  header and no action reads them;
* *analyses*: operators that compute what a pure function of the code computes.
  Requests that fail are an argument (`failed`), so every combination of failures is a
  value of the input;
* *MC modules*: they put machines side by side, or put questions to analyses, for TLC.

### RemediationExecution and ApprovedActions

`proposal` is the table `remediation_proposals`; expiry is computed when a row is
read, as in `_row_to_proposal`. `registry` is `cluster_registry`; `notes` and
`audits` are the outcomes appended by `record_remediation_result` and emitted to
the audit log. `policy` is the policy of this process. `execute` is a `def` route,
so an `Executor` is a thread of the pool and `pc` its place in `execute_proposal`:
each of its database calls and each cluster call is an action, in the order of the
code - read and re-check (`Begin`), count (`CheckCap`), read the cluster row
(`Locate`), the compare-and-set UPDATE (`Consume`, `ConsumeFails`), the runner
(`Route`), the dry run (`Preview`), the confirmed command (`Act`, which may take
effect and still report a failure, or be refused by kubectl and be reported as
executed: no runner raises on an exit code), the record (`RecordResult`, or
`RecordRaises` when the database does not take it) and the audit event (`EmitAudit`,
which drops the row silently when the database does not take it). `unnoted` and
`unaudited` are what was lost so. `Restart` drops the threads at any of these places.
Validation of arguments and building a kubeconfig are abstracted to whether they
refuse.

`ApprovedActions` is the promise without threads, clock or policy: decided once,
spent once, acted on at most once and only when spent. `Abstract` maps the rows
and `effects` to it.

### CircuitBreaker and AgentInvoke

Every method of the breaker runs under its lock, so `CircuitBreaker` has
operators from record to record instead of actions. Time is ages that stop
growing at the limit the code compares them with. `probe_in_flight` is
`probe # None`, since the code assigns the two together; tokens are fresh among
those in use, for `secrets.token_hex(16)`.

`AgentInvoke` is the handler and its worker. A coroutine runs alone between two
awaits, so its steps are atomic; a worker is a thread, and its step is a call of
the breaker with what follows it. `Acquire` and `GiveUp` are a turn of the polling
loop; `Return` is the normal end, `Cancel` the first cancellation, after which the
handler awaits the worker task, and `CancelAgain` the second, which reaches that
task because nothing shields it; then the handler's `finally` releases the slot
and the thread runs on (`phase = "gone"`, until `Vanish`). `Late` is a deadline
that passed before a thread was free, `Crash` a `BaseException` between `allow`
and the breaker's being told. All reasons a `RemoteConnectionError` carries are
reasons the breaker counts, so they are one `Fail`.

### AlertPipeline

`row` and `incident` are the tables, `task` the background tasks, `handler` the
request in progress. The webhook handler is `async`, but none of its awaits
yields, so it is never interleaved with a task of the loop, and two requests are
never in it at once; each of its database calls commits alone, which is why it is
several actions that `Abort` or `Restart` may cut short. Its tasks start only
after the response (`Respond`); a 500 carries none. `Receive` to `Respond` is one
request with any number of alerts, each `AlertResolved` (then `Close`), `Recur`, or
`New` (then `Unroutable`, or `Correlate` and `Attach`, or `Uncorrelated`).
`ManualRequest` has no look for an open row. The tasks of one request run one after the
other in the code; here each is independent, which allows more. `Begin`,
`Progress`, `Complete` and `Fail` are the writes of `orchestrate_investigation`
and the engine, between which the task awaits tools and the model.

A silenced delivery and a resolved one that matches nothing change no state of
this model. Routing is reduced to a choice between `Unroutable` and the rest.
`Faults` says whether database calls of the handler may raise; the task's own
status writes are assumed to succeed. Ages saturate one past the largest window
they are compared with.

### ConfirmationTokens and PlanExecution

`ConfirmationTokens` is the store under its lock, as operators: issue stores and
then purges, consume pops before it compares, so a token presented for another
target is spent. An action of it is an operation with every argument that
reaches kubectl, since `fingerprint()` hashes them together.

A `Caller` of `PlanExecution` is a thread in `execute_step` or directly in one of
the destructive tools, which share one protocol: without a token, preview and
mint; with one, pop, compare, act. A command that kubectl refuses with an exit code
is a success (`Succeed`), and its dry run mints a token; `Fail` stands for what
raises: a verb or policy refusal, no kubectl, a timeout. `changed` and `refused` tell
the two kinds of success apart. `plans` is the `PlanStore`; a plan may expire, or
a restart lose it, between any two accesses. `strict` is
`require_destructive_confirmation`; in legacy mode a call without a token acts,
which is why `OnlyAsPreviewed` speaks of strict mode.

### AgentRun

The loop's places in `run_react_loop`, the rows it writes through the recorder and
the endpoints `approve_step` and `reject_step`. `cards` are what the UI was told:
an old card may be approved after the run has moved on, and the compare-and-set on
`agent_runs.status` decides among racing approvals. `Load` takes the last step by
iteration, then by id. `Suspend` flips the row before
the pending step is recorded, so an approval can fall between. What the model and
the tools answer is a choice. The chat's own dispatcher offers no destructive
tool: the folder grant is the suspension of production, and the destructive one
is that of a loop with another `dispatch_fn`, as in `tests/test_safety_approvals.py`.
Recovery operations are taken as enabled, and the language model presents no
token of its own.

### DesktopConfig, DesktopEdits, DesktopAlerts, DesktopShell

`DesktopConfig` has threads that load, merge, truncate and write one file without a
lock; a load in between reads the defaults. `DesktopEdits` has proposal, review,
apply and discard of an edit, with the comparison and the replacement of
`atomic_write` as steps of their own, between which an editor may save.
`DesktopAlerts` has the poller's bounded memory and queue, an Alertmanager that
fails and reorders, and the shell that drains. `DesktopShell` has the start of the
sidecar, the one request that may wait for it, the 600 ms before a replay, and the
ends of both processes. Grants move in the first and are an arbitrary change in
the second.

### ClusterSessions, Accounts, GitOpsPRs, AuditChain

`ClusterSessions`: an uploaded kubeconfig is one file per session that a later
upload overwrites; a connection row names a context and a file; what a command
reaches is what the file says at that moment. `wanted` is the cluster the
connectivity check reached, in either mode of connecting; `unkept` marks a target
whose row leaves out the uploaded file that was checked. `aliased` says whether the
uploads' directory is named through a symbolic link, so that the paths the prune
lists differ from the resolved ones in the rows. `Accounts`: handlers read a password
or a link in one transaction and act in another; the limiter has a limit and a
window for each kind of request, and its cleanup measures every bucket by the window
of the call that ran it (`cut` names the buckets it cut short). `GitOpsPRs`: the hourly count, the taking of the
preview and the recording are apart; a preview holds the whole file text. The
second half of the module is the edit itself: a YAML document is a graph, where an
alias is its anchor's node, and `find_span` must name a place whose replacement
changes that path and no other; TLC takes every graph over two inner nodes and two
scalars. `AuditChain`: emits
under `BEGIN IMMEDIATE`, failed ones, prunes and `verify_chain`.

### ChatTurns, KnowledgeBase, UserMemory, VectorStore

`ChatTurns` follows a worker through `chat_stream` (and the plain endpoint): persist
the prompt, connect, route by the predicates on the prompt's words, fast path,
earlier answer, knowledge base, loop, the answer stored and streamed, while the
client may leave at any step. The word lists keep one word for every way in which the
lists of the code overlap. `KnowledgeBase` has captures, votes that promote or
quarantine in several steps, and the prompt cache. `UserMemory` is the unlocked
read-merge-write of one category. `VectorStore` has the collection's width against
the provider's across restarts, and the reindex job with its failures; a caller that
could not read the width writes all the same (`blind`).

### HealthAnalysis, ClusterReads, Investigations

`HealthAnalysis` has the collectors, the rules and the parsers of kubectl's JSON;
`ClusterReads` the tools that list, search and read (the first and the middle part
of `wrappers.py`); `Investigations` those that draw conclusions: pods, ingresses,
namespaces, the namespace graph and recent changes. A world gives each kind's
objects per namespace, `failed` the requests that fail, and each operator
is what the tool returns, with how it swallows or reports a failure as the
code has it.

### ToolDispatch

The registrations (which tool is offered to the loop, to the chat, to an IDE), the
resolution of aliases and synonyms, the parameter shorthands, the dispatch with its
surface check and its hints, the branches the MCP server keeps by hand beside it,
the resolution of a partial pod or service name, the change of a session's context,
and the tools a prompt's scope leaves. Bringing a name to its normal spelling is
left out. A handler's own work is an outcome.

### Resilience and UpgradePilot

`Resilience` links documents to an inventory (selectors, autoscalers, budgets), has
all fourteen rules with their opt-outs, the builder of each fix, the merging of
fixes into files, the score, the gate of `kubeastra resilience` and the live
collector. `Patched` applies the files to the objects, so that `FixesHold` can
assess again: it is a definition of the property, not of the code. `UpgradePilot` has
the planner, its scans of manifests and of live clusters, the migration, `run_plan`
under every outcome of its steps and every set of approvals, the reconcile pilot and
the endpoint that runs a pilot. `run_plan` and `plan_migration` are called by tests
and exports only.

### Playbooks, EvidenceRanking, FinalAnswer, ToolObservations, CallCorrection

`Playbooks`: how files extend and include each other, the classifier and the decision
rules; and of the orchestrator's root causes the signals, facts and scores, and the
diagnosis promoted from a pod investigation. `EvidenceRanking`: the latest envelope of each call, which step
led to which, the ranks and the confidence band. `FinalAnswer`: streamed or buffered
answers, the critic, the parsed Markdown, the review of commands and the
verification run; a text is a sequence of lines of four kinds. `ToolObservations`: the envelope,
the recorded and the prompted observation, the prompt's budget and the card of a pod
investigation, which off an envelope takes the pod's name from the call's parameters
(`asked`). `CallCorrection`: the repair and correction of the model's next call; a
parameter may be absent, have a text, or be there without one (`EmptyText`).

### The MC modules

`MCDesktop`, `MCServices` and `MCChat` hold machines that share no state: a behaviour
is one of a single machine (`part`), the others rest in one state, so that the
state space is the sum and not the product. `MCTools` and `MCAnalyses` put
questions: `Init` chooses a tool and one of its bounded inputs, one action per tool
computes the answer, and the invariant of its tools speaks about question and
answer. An interaction between analyses is a question that goes through several of
them (a listing and a search of one world; a plan and its run; findings, their fixes and
the assessment of what the fixes leave).

## 4. The runs

A property of a run is often the conjunction of named parts, one per hazard; the
parts are defined, each with its comment, in the module they speak of.

| Run | Instance | Shows |
|---|---|---|
| `remediation` | 2 proposals, 2 threads, 1 cluster that may be removed, TTL 1, cap 1 per window of 0, clock to 1, 1 restart, 1 lost record or audit row, fair threads | `ActsOnce` (an approval has one holder and acts at most once); `ApprovalsAreHonoured` (`ActsOnFreshApproval`, `Accounted`, `NotesAreTrue`, `CapWithinConcurrency`); `PolicyInForce`; `ImplementsApprovedActions`; `ConsumedIsAccounted` (a spent approval ends in the audit trail, or among the interrupted or those whose outcome the database refused) |
| `invoke` | 2 requests, 1 target, 1 slot, threshold 2, window 1, cooldown and lease 2, up to 2 cancellations each, fair | `HandlerIsSound` (slots conserved), `SoleProbe`, `FailuresBounded`, `ProbesGovern` (only the probe closes, one probe per cooldown), `NeverWedged`, `Answered` |
| `alerts_safety` | 2 rows, 2 incidents, 2 alerts of one workload and a manual one, windows 1 and lifetime 2, 2 deliveries per row, exceptions, 1 restart | `RowsAreTracked` (`TaskMatchesRow`, `DedupHolds`), `IncidentsHold` (`OneActiveIncident`, `ClosedIsSettled`), `IngestFieldsKept` |
| `alerts_liveness` | 2 rows, 2 alerts, 1 restart, fair | `AlertsSettle`: no stuck row absorbs its alert for ever, and every row that keeps its task reaches a terminal status |
| `plans` | 2 callers, 1 plan of 1 step, 2 operations, 2 tokens, token and plan lifetimes 1, clock to 2, 1 restart, strict and legacy mode, fair | `OnlyAsPreviewed`, `StepsAreSound` (`SoleRunner`, `StepsTellTheTruth`), `StepSettles` |
| `agent_run` | 2 loops, 2 operations, 2 tokens, 2 iterations, 1 retry, 3 steps, 1 fault, fair | `ApprovalsAreExclusive` (`SoleLoop`, `ActsAsApproved`), `CardsAreHonoured` (`WaitsForAStep`, `RejectionIsFinal`), `RunSettles` |
| `desktop` | per machine: 2 threads and 2 grants; 2 workers, 2 tokens and 2 contents; 2 alerts, queue and memory of 1; 2 requests; fair pollers and processes | `SharedStateIsSound` (`SettledRevocationHolds`, `LoneSettingStands`, `TokenUsedOnce`, `AnswersBounded`, `NotifiedOnce`); `StepsAreTold` (`ReviewedIsReplaced`, `NewAlertAnnounced`); `ShellServes` (`WaitingIsReplayed`, `HealthyIsNotOrphaned`) |
| `services` | per machine: 2 sessions, of which one talks and the other uploads, both modes, 1 context, 3 clusters, the directory aliased or not; 2 handlers, 3 logins, 2 links, limit 1 per window 1 and 2, 1 bucket kept; 3 previews, 2 openers, cap 1; graphs of 2 maps and 2 scalars; 2 emitters, 4 events | `CommandsHitTheChoice`; `PruneKeepsReferenced`; `AccountsHold` (`LinkWorksOnce`, `OutdatedLoginsEnd`, `RateHeld`); `ManifestsHold` (`PreviewOpensOnce`, `PullsCapWithinConcurrency`, `SpanIsExact`); `TrailHolds` (`BreaksOnlyWherePruned`) |
| `chat` | 1 turn with every prompt of up to 3 words, 2 clears; 2 captures, 2 voters, 2 votes, lookback 1; 3 values, 2 writers, cap 2; 2 documents, 1 edition more, 2 restarts, 2 jobs; fair turns | `TurnsAreSound` (`OneEnding`, `StoredIsWhole`, `LiveIsNotStored`); `KnowledgeIsSound` (`NeverLost`, `NoDoubleSurface`, `RejectedStaysAway`, `AcceptedIsKept`, `CacheIsFresh`); `StoresAreSound` (`KeepsTheLatest`, `WritesFit`, `JobIsComplete`); `TurnEnds` |
| `analyses` | some 750 000 questions, each with its answer | the seven invariants below |

The invariants of `analyses`, each over every question of its tools:

* `ReadsAreHonest`: searches, listings, logs, endpoints, config maps, nodes and focused
  answers pass no part for the whole, agree with each other, keep the end that
  matters, and hide by a failed request only what it asked for;
* `InvestigationsAreWitnessed`: a cause, an issue, an edge of the graph or a change
  that is told is there, and what is there and was read is told;
* `DiagnosesAreWitnessed`: a failed request may hide a finding of the health analyser
  and never makes one; a playbook is whole or refused, its ranking fair; a root
  cause has its evidence and the best score; a resilience finding is exact where it can
  be, a fix ends its trouble and starts no other, the score is fair and independent of
  the documents' order, and the gate stops what a drain runs into;
* `AnswersAreGrounded`: verified evidence ranks first, the band does not depend on
  the order of the steps, what needs review is reviewed, what was rejected is
  rewritten, a button has a reviewed command;
* `LoopIsFaithful`: the observation keeps a failure the loop has seen, and the prompt holds the others; the budget
  drops nothing that must stay, corrections settle and do not undo each other;
* `DispatchIsSound`: no name, alias or shorthand reaches a tool its surface does not
  have, nothing given is lost, hints are usable, both dispatchers agree, a resolved
  name is one that was found;
* `UpgradesAreSound`: removed APIs are found, the plan is in order, a run executes only
  approved steps, in order and nothing twice, a migration loses nothing, a diagnosis
  names what is broken, a pilot's row ends as its answer said.

Violations, each of something the repository says of itself:

| Run | The repository says | The code does |
|---|---|---|
| `remediation_cap` | a "ceiling on executed remediations per hour" (`settings.py:228`) | two threads count before either consumes: two execute under a ceiling of one |
| `recent_changes` | "The most recent rollout for one workload, if it falls inside the window" (`wrappers.py:4742`) | the newest creation time is taken for the last rollout; a rollback makes an old ReplicaSet current without changing it, and is not told |

The ceiling also counts a remediation by the time of its decision
(`db.py:2890`), not of its execution; `Recent` models that count, and
`CapWithinConcurrency` is a bound on it, not on executions per hour.

### Why the bounds are enough

* Two threads on two proposals give every race on one approval, and a race of two
  approvals for the last place under the cap. A TTL and a clock of one let an
  approval expire between any two steps; one restart reaches every crash point.
* Two requests made again and again, with one slot, give two workers at once: a
  second cancellation releases the slot of a thread that runs on, and the next
  request has it beside that thread. So a worker admitted before the circuit opened,
  or an abandoned probe, reports beside the probe in flight. Two cancellations are
  all the handler tells apart. The theorems about the breaker and the slots hold for
  every number of requests and slots, three workers at once included.
* Two rows are what dedup and incidents relate. Ages pass each window and the
  incident's lifetime. The instance is small in alerts' attributes, because the
  code compares only the fingerprint and the workload.
* Two callers, two tokens and two operations give a replayed token, one presented
  for the other operation and one that expires; a plan's steps are claimed one by
  one and do not read each other, so one step is enough.
* An agent run needs two loops (the one that waits and the one an approval
  starts), two cards and one fault; three steps are a suspension, its resumption
  and another suspension.
* In `desktop` and `services` every hazard is of two actors: two savers, two workers,
  a poller and a drain, two handlers, two openers, two emitters. Memories and queues
  of one are full at once, so evictions happen early.
* One turn is enough for endings and stored answers: turns of a session share only
  the table of messages, and each looks at its own rows.
* The questions of `analyses` are chosen by the branches of the code: each field takes
  one value for every way it is compared, lists have up to two or three members
  because the code compares neighbours, and failing requests are taken one and two at
  a time, in some tools in every combination. A world has two namespaces.

`CHECK_DEADLOCK` is on where a system never stops; plans, agent runs, turns, votes
and questions end, so it is off in the runs that contain them. Symmetry is used
in `alerts_safety` only, over identifiers that no action distinguishes.

### Fairness

* Remediation, plans, agent runs: a thread that began goes on. Nobody is assumed to
  approve, retry or come back.
* Agent invoke: the clock advances, the event loop keeps polling, and every stage
  of a worker has a timeout (connect, identity check, deadline of the analysis).
  Nothing is assumed of clients; `NeverWedged` therefore concerns a target that is
  asked for again and again.
* Alerts: a handler that has begun runs to its end; the loop's ready queue is
  first in first out, so a task that is ready again and again gets its turn, which
  is strong fairness of its steps (other requests disable them in between); tool
  and model calls time out, so `Progress` cannot be the only step for ever.
* Desktop: the poller thread runs, and an Alertmanager that is asked for ever answers
  some time (strong fairness of `Fetch`); the shell's and the sidecar's threads run.
* Chat: the worker and the response's generator run; the client may leave.

### Mutants

Each property has a mutant in `PROJECT.json`: an operator whose name starts with
`Bug`, defined before the one it replaces, that makes a mistake the code could have
made (a guard dropped, a bound made exclusive, an early return without its
release). TLC finds the property violated with it. Most properties of a bundle have
further `Bug` forms in their modules, some seventy in all, each of which makes its
part of the bundle false under the same configuration.

## 5. The proofs

`tlapm` proves every obligation of the eight proof modules, which between them state
every safety property the runs check of the machines, and three of the seven invariants
of `analyses`. The assumptions are the named
`ASSUME`s of the modules, which TLC evaluates for each instance: bounds, windows and
limits are naturals, identifiers differ from the value that stands for their absence,
threads, proposals, requests, openers, alerts and a document's nodes are finite sets,
and there is a thread that executes.

Each proof has the same shape: an inductive invariant that holds initially and that
every action keeps, one step per action. The properties are seldom inductive, and what
has to be added to them says why the code works. Where a definition recurses over data
(a breaker's failures, a poll's alerts, the steps of an upgrade) it is a recursive
function, and the proof takes the least number at which it could go wrong
(`LeastNumber`, `Iterates`), since the library's induction theorems take an operator.

**RemediationProofs.** `TypeCorrect`; then `SoleHolderHolds` and
`AtMostOnceHolds`, which together are `ActsOnceHolds`: `AtMostOnce` alone is not
inductive, since nothing in it stops two threads that hold one approval from acting
in turn. `SoleHolder` says who holds an approval between the UPDATE and the end,
and that nothing has happened on its behalf until its holder acts; the
compare-and-set in `Consume` is where it is established. `Implements` proves the
refinement of `ApprovedActions` action by action with the same invariant:
`CreateProposal`, `Decide`, `Consume` and `Act` are its steps, everything else
stutters. `DecisionsStandHolds` needs that a thread at work has a row the policy
permits (`Entitled`), from which `PolicyInForceHolds` follows: a policy changes only
with a restart, which drops the threads. `RecordsHoldForever` adds to `Accounted` and
`NotesAreTrue` what has been written, or lost, of a proposal at each place of its thread
(`WrittenSoFar`) and what became of its command. `CapHolds` is inductive as it stands, over cardinalities: a thread
that counts joins `PassedCap` only while fewer than the ceiling are in `Recent`, with at
most every other thread past it already, and one that consumes moves from the first set
to the second. With these, `ApprovalsAreHonouredHolds` is the property of the run.

**AgentInvokeProofs.** The invariant is `TypeOK /\ SlotsConserved /\ ProbeKnown /\
Coherent`, where `Coherent` ties a coroutine's phase to its worker: a worker exists while
its coroutine holds a slot or is gone, has a target when it connects, and has no
token before it asks the breaker. The lemmas on the breaker (`ReopenedSound` to
`AdmittedSound`, `FailedOnward`, `SucceededOnward`) are about its operators alone.
`HandlerIsSoundHolds` is the part of it that the run checks. `SoleProbeHolds` needs
in addition that a step gives out only a token nobody knows (`NoNewToken`).
`OneProbePerCooldownHolds` and `OnlyProbeClosesHolds`, together
`ProbesGovernHolds`, are action properties and follow from the invariant and the
step. `FailuresBoundedHolds` rests on `LateFailuresFit`: when a circuit is not closed,
the failures it counts and the workers still connecting that it admitted while closed
(`Pending`) are together fewer than the threshold and the requests, because each of
those workers adds at most one failure and is then done. `CountsAdd` to `CountOfNone`
are about the count itself: one failure adds one, a tick adds none. `CapacityHolds`
assumes at most one cancellation per request: a second one releases the slot of a
thread that runs on.

**AlertPipelineProofs.** The invariant adds to the properties that a resolved row
has its clock (`ResolvedHasClock`), which is what lets `DedupHolds` and
`ClosedIsSettled` exempt the row that its task reopens, and that the row the
handler works on, and the rows whose tasks it has added, are untouched by any task,
and the incident it found is open (`HandlerAgrees`). `RowsAreTrackedHolds` and
`IncidentsHoldForEver` are the two safety invariants of the run.
`OneActiveIncidentHolds` rests on the guard of `Correlate`; `TickRetires` shows
that time can only retire an incident. `IngestFieldsAreKept` is an action
property.

**PlanProofs.** `TypeCorrect` includes that a caller at work has a job of its place
(`AtWork`). `OnlyAsPreviewedHolds`: that nothing acts twice on a token is inductive only
with where a token may be. One in the store has changed nothing, says what was previewed
and is in nobody's hands (`StoredTokensAreFresh`); one that was popped is in one caller's
hands (`HeldTokensAreFresh`); and who acts in strict mode has one (`ActsOnAToken`).
`StepsAreSoundHolds`: `SoleRunner` and `StepsTellTheTruth` are together not inductive.
A caller past its claim has a step marked running, if the plan is still there
(`RunnersAreMarked`), and a plan has one draft, so that nobody runs one that was not
drafted (`DraftedOnce`).

`UpgradesHold`, in the same module, is about the answers of the pilots: TLC asks bounded
questions (`PilotQuestions`), the theorem any `PilotQuestion`, with manifests, clusters,
maps of deprecations, plans, objects and renames of every size. Its assumptions are
what the questions are: the map names an API once, a plan has each step once, a leaf of
an object is no branch of it, a rename does not move the version. The runner and the
migration are loops, each with its own inductive invariant. After `k` steps
(`Far`) the run has kept what was done, every automatic step so far is done unless the
run stopped, and what was tried was approved, was not done before and came after
everything it waits for; a second run starts where the first ended, so it tries nothing the
first one did. After `k` renames (`Migrated`) the version is the new one, every path
is an old one or under a destination, and, if the destinations are free and apart, every
old value is somewhere. `PlanOrdered` joins the lists of the five ranks (`Joined`), and
`RemovalsFound` finds, for every object that uses a removed API, the place where it was
read first.

**AgentRunProofs.** `ApprovalsAreExclusiveHolds`: a run that nobody opened has no loop and
no card (`NothingYet`), so opening it starts its only one, and after that a loop starts
only by the compare-and-set on `suspended`; a token's dry run acts once because what is
stored has done nothing and is in no loop's hands (`StoredTokensStand`), and neither has
what a loop has just redeemed (`HeldTokensStand`). `CardsAreHonouredHolds` follows the same
steps: only a suspension makes a run wait, and it names the step it waits for.

`DispatchHolds`, in the same module, is about the dispatcher's answers to any
`ToolQuestion`: listings of every length, a phrase of any words, a call with any
parameters. Its parts are one lemma each: what the registry and the hand-written
branches make of a call (`Contained`, `ServedAlike`), that no parameter is lost
(`ParamsKept`), that every name a surface offers resolves (`Hints`), and that the pod and
the service found are ones the phrase names (`PodFound`, `ServiceFound`).
`ToolQuestionsAsked` shows that the questions of the run are among these.

`LoopHolds`, in the same module, is about what the ReAct loop makes of any `LoopQuestion`:
an answer with lists of any length, observations of any sizes under any budget, a call
with any fields, any number of calls, any reply. Its assumptions are what the loop is
given: only the loop itself attaches a `payload`, a verification report is on no answer
that failed (react.py:1171, 1388), and every call names its tool. Its parts are again a
lemma each: an envelope tells a failure and puts a cause before what it explains
(`FailureTold`, `ToldInOrder`), a record keeps an error and shows a pod that fails before
one that runs, and shows nothing the next prompt does not hold (`RecordFocused`), the two
cards name one cause (`CardsSame`), and an
emergency answer is not empty when something was observed (`SomethingTold`). `PromptIs` is
an induction on the observations: a pass over them keeps each or compacts it once (`PassIs`),
and the rounds it pays for summaries are counted (`CompactIs`). `CorrectedTwice` shows
that a second correction changes nothing the first one settled, by cases on which of the
eight corrections applies (`FirstCorrects`); `Settled` and `Followed`, that the call which
runs is the one the question asks for. `MostSpecific` is an induction on the calls
(`IsShown`, `ShownIs`). Loops are recursive functions, which `Iterates` and `Climb`
unroll. `LoopQuestionsAsked` shows that the questions of the run are among these.

**ServicesProofs.** `CommandsHitTheChoiceHolds` and `PruneKeepsReferencedHolds`: every
target anywhere (a session's row, the default, a pending request, a runner at work)
reaches what was connected to, or nothing, unless its file was uploaded over or its row
left the checked file out (`TargetsAreSound`). `AccountsHoldAlways`: a limiter's bucket holds every grant that its
window still covers, or after a cut those of the shortest window
(`BucketsCoverTheWindow`), links are sent in order, are used once and
at most one is live (`LinksInOrder`), and a change of password outdates logins it has
read, all of them issued by then (`ChangesReadTheLogins`). `ManifestsHoldAlways`: a
preview is in the store, or in one opener's hands, or opened (`PreviewIsSpentOnce`), the
ceiling is counted as in remediation, and on every document of this shape
(`DocumentTyped`) `find_span` finds the text of its path alone. `TrailHoldsAlways`: rows
are numbered without repetition, who has linked an event has the lock and the last
hash, and each row names the row before it or one that was pruned (`WriterHoldsTheEnd`,
`RowsNameTheRowBefore`).

**DesktopProofs.** `SharedStateHolds` has an invariant for each machine. Settings: a grant
that is gone is in no copy a saver is about to store, one being added is gone until
then, and a lone setting is in the file or in the hands of who writes it (`CopiesFit`,
`AddedIsGone`, `SettledIsGone`, `StandingIsStored`). Edits: a token is pending or in one
worker's hands, and a verified file is the reviewed one unless it was saved since
(`TokensInOnePlace`, `VerifiedIsReviewed`), which also gives `ReviewedIsReplacedHolds`, an
action property. Alerts: an alert that was never forgotten is queued, in the shell's hand
or shown, in one of them at most (`InOnePlace`); a poll is a fold over the listed alerts
(`IngestedFolds`) that announces each at most once. Shell: the request that waits was made.

**ChatProofs.** `KnowledgeHolds`: a vote under way knows what it votes on and deletes only
what is a runbook by then (`VotesFit`), no promotion is of a buried answer, and an answer
carries the time of its investigation (`DatesAreOrigins`). `TurnsHold`: what a worker has
said and stored is known at each of its places (`EndingsFit`, `AnswersFit`), so that there
is one ending and one answer. `StoresHold`: a memory is a bounded sequence without
repetition, newest first, that holds the latest values as long as no two records
overlapped (`MemoryInv`; the insertion and the cap are lemmas of their own); a write that
waits has the width it was checked for, unless it went on without having read one, and a job that met no failure has stored every
document it is done with (`StoreInv`).

Only model-checked: all liveness (`ConsumedIsAccounted`, `NeverWedged`, `Answered`,
`AlertsSettle`, `StepSettles`, `RunSettles`, `TurnEnds`, `ShellServes`, and the half
`NewAlertAnnounced` of `StepsAreTold`, whose other half is proved), which the prover does
not reach; what a recursive operator computes (`Playbooks`, whose inheritance nests, and
`MCAnalyses`, which uses it); and four of the seven invariants of `analyses`
(`ReadsAreHonest`, `InvestigationsAreWitnessed`, `DiagnosesAreWitnessed`,
`AnswersAreGrounded`), which speak of the answers to that run's questions.

## 6. Behaviours met while modelling

What the code does in corners that a reader of it may not expect. The models
contain them unless marked otherwise; no property forbids them, and those whose
text says otherwise have the conditions (`settled`, `lone`, `interrupted`,
`rewritten`, ...) that let them happen.

**Remediation.** A proposal whose cluster has left the registry runs on the default
runner (`get_cluster` gives `None` for both), although `cluster_execution.py:11`
says "Never fall back". "Executed" means that kubectl was run: neither runner raises
when it exits non-zero (`kubectl_runner.py:259-351`, `ssh_runner.py:758-785`) and the
wrappers answer `success: True` (`wrappers.py:4040-4047`), so a refused command is
noted as executed (`refused`). `audit.emit` drops a row the database does not take
(`audit.py:221-232`), and an UPDATE that raises in `record_remediation_result` leaves
neither note nor event; `Accounted` excepts both.

**Plans and tokens.** For the same reason a step that succeeded may have changed
nothing, and a dry run that the API server rejected still mints a token
(`wrappers.py:3889-3926`): what `OnlyAsPreviewed` promises is what was previewed, not
that the preview was accepted. A token's fingerprint leaves out the kubeconfig and the
context (`kubectl_runner.py:291-296`).

**Alerts.** A task that outlives its alert's resolution reopens the row, and the
next resolved delivery rewrites the clock (`db.py:1371`, against `db.py:1504`). A row
still `received` at a restart is not swept (`db.py:1344`, against `db.py:1340`) and
stays; its alert is absorbed only until the window ends.

**Agent runs.** An approval of an old card consumes the suspension of a newer step.
A rejection checks no status. An SSH or history failure after the compare-and-set
leaves the run `running`, as does an exception that escapes the resumed loop
(`chat.py:3229`; not modelled beyond that); runs are not swept at a restart. When the
resumed loop finds no step to take up (its steps cannot be loaded, or a rejection raced
the approval), it starts again at iteration 1, and the next approval then resumes the
step of the highest iteration, which may be an older one (`db.py:1805`). Recorded parameters are
redacted, so a resumed call uses the redacted ones. After a resume with a token
every destructive call of that loop skips the forced dry run, and is refused by the tool
unless it has a confirmation of its own.

**Desktop.** A save that merges while another thread has the file truncated reads
the defaults and stores them: a revoked grant may come back, which is why
`SettledRevocationHolds` speaks of revocations that overlapped no save. Two
concurrent grants of one folder are two grants. A request stored after the replay
has taken its own is not replayed. A sidecar is orphaned if the shell dies before it
is healthy.

**Cluster sessions.** A re-upload during a turn retargets it. A connection made in mode
`autodetect` with an uploaded kubeconfig is checked against that file, and its row stores
no path (`routers/cluster.py:399-402,438`): the chat's commands then go to the machine's
own context of that name, which nothing checked; `CommandsHitTheChoice` excepts it
(`unkept`). Stored paths are resolved (`routers/cluster.py:296-301`) and the prune lists
an unresolved directory (`cluster_session.py:240-256`): below a symbolic link it deletes
every uploaded kubeconfig, and `PruneKeepsReferenced` speaks of a directory without one. The remembered default
is not cleared on disconnect; with its file gone, background work is refused.

**Accounts.** Once more than 4096 keys are kept, the limiter drops hits by the window of
the current call, of every key (`ratelimit.py:22,30-36`), although the windows differ per
kind (`auth.py:26-27`): a key with a longer window gets more than its limit; `RateHeld`
then holds for spans of the shortest window only (`HeldFor`).

**GitOps.** A failed label request answers 502 although the pull request exists,
which is then neither recorded nor counted. A branch that was left behind blocks a
retry. Opening commits the previewed whole file over the current base, and so undoes
what was pushed in between; a kustomize patch replaces the overlay's
`kustomization.yaml`.

**Audit.** Nothing calls `prune`; a prune of the whole table restarts the chain, and
it verifies.

**Chat.** Clearing the history or the memory during a turn is undone by its later
saves. A turn of `/chat` whose connection fails stores neither message, an exception
in its loop is stored as an answer; in the stream it is not. The interface does
not reset what it streamed when a second answer starts. The memory of a user is an
unlocked read-modify-write: overlapping records lose values (`overlapped`). A
quarantine of a capture that was promoted leaves the runbook. Edited documents keep
their old chunks. The check of the vectors' width fails open: when the collection cannot
be read or has an unfamiliar shape, `_stored_vector_size` gives `None` and the write goes
on (`vector_db.py:159-192`); `WritesFit` excepts it (`unchecked`).

**Analyses.** With one failed request for endpoints every service with a selector is
"without endpoints"; scheduling events are matched by name only; a base playbook's
warning about a missing step stays when a child supplies it, and one bad file aborts
`load_all`; a citation "step N" may name a later step; a rejected destructive
proposal is shown if its rewrite fails, and a rewrite is not reviewed again; a
verification whose last write fails stays `running`.

**Read tools.** `truncate_logs` counts a final newline as a line, so the default tail
loses its first line; a failed `kubectl logs` is a success with empty logs; one failed
namespace aborts a listing of all in one mode and is skipped in others; workloads
scaled to zero and completed jobs count as unhealthy; any failure to read a service
reads as its absence, and one to read a TLS secret as its presence; removed
containers are no change of image.

**Observations.** On the loop's surface every result is wrapped, errors too, so the
loop's own retry and error branches do not see a handler's error, and the step is
recorded as one that worked. The payload attached to a wrapped result is said to stay
out of the model's context (`react.py:1163-1166`, `react.py:3535-3539`,
`tool_envelope.py:137-140`); it is left out of the recorded preview only, and the whole
result, redacted, is appended to the next prompt (`react.py:1462-1466`, `1507`, `1533`),
which is also how the model comes to see the error (`RecordIsFocused` states both). The
wrapped card names the pod from the call's parameters where the answer does not
(`tool_envelope.py:417-418`). After a pod was discovered, a call that gives an empty
namespace or pod keeps it: `setdefault` sees the key (`react.py:3188-3192`). A wrapped
deployment is "Unhealthy" whenever it has replicas, a rollout always "Unknown";
an uncorroborated root cause becomes "verified" through the envelope; the triage
greeting says that nothing was flagged also when every scan failed.

**Dispatcher.** `_resolve_pod_ns_and_name` says that an explicit namespace filters
the results (`tool_registry.py:97`), but falls back to other namespaces when it
holds none; without one the first listed match wins over an exact name. The
hand-written branches of the MCP server do not know the registry's shorthands.
`tool_scoper.py:14` says `find_workload` is in every scope; the knowledge scope lacks
it. Playbooks call tools past the surface check.

**Pilots.** Two containers whose `preStop` outlasts the grace period give two fixes of
one field in one file, of which the last wins. File names and step identifiers join
kind, namespace and name with hyphens, so two objects may share one; a Deployment and
a StatefulSet of one name get one budget's file. A proposed percentage lets exactly
one pod go only up to 100 pods. Two singletons with overlapping selectors get
overlapping budgets, which no rule sees. Of two autoscalers on a workload the first
document wins. Raising an autoscaler's floor may newly ask for spreading. The live
upgrade scan swallows failed requests, so a failed read looks like no blocker, and
lists objects of a removed API that were written with its successor; every owned
object counts as an operator's. A field rename of the migration overwrites what is at
its destination. A crash of the server leaves a pilot run `planning`.

## 7. What is not modelled

* Components with status `not_modelled` in `PROJECT.json`: the web, CLI and
  extension clients, packaging, and the scopes of callers, which are read once and
  looked up.
* Authentication and authorization of requests: what a caller may not ask is
  assumed not to be asked.
* Prompts, wording and the language model's choices, which are unconstrained; the
  second loop harness (`agent_harness_v2`), which is off by default; session
  capture's and the prompt cache's configuration, which are taken as on.
* Silences' own rows, statistics, lists and views; summary and topology, which
  read the cluster and format; the updater of the desktop; `atomic_write` on file
  systems without hard links.
* The tables for approvals, steps and locks of pilot runs, which nothing calls.
* SQLite itself: a transaction is atomic, durable once committed, and may raise instead
  in the alert pipeline, in the record of a remediation and in the audit trail.
* More than one process on one database: the deployment has one replica.
* Spelling: camel case and hyphens in a tool's name, text inside a log line or a
  manifest's scalar, times finer than the windows they are compared with.
