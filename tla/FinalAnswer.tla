----------------------------- MODULE FinalAnswer -----------------------------
(***************************************************************************)
(* How the ReAct loop ends (ui/backend/react.py): the answer is streamed   *)
(* or buffered and put before a critic, its Markdown is taken apart, the   *)
(* commands it proposes are reviewed before they become buttons, and an    *)
(* approved mutation is verified by a run of its own.                      *)
(*                                                                         *)
(* A text is a sequence of lines: "text", "heading" (Recommended Actions), *)
(* "safe" and "risky" (an action that names a destructive tool).  The      *)
(* model's stream delivers n whole lines and perhaps a part of the next    *)
(* and then is "done", is cut by a cancellation or fails.                  *)
(***************************************************************************)
EXTENDS Integers, FiniteSets, Sequences, SequencesExt

-------------------------------------------------------------- (* critic *)

Checks == {"evidence_supported", "no_contradiction", "recency_correct", "confidence_honest"}

\* The critic's reply is [heard, fails]: whether there was one that could be read (a provider, no
\* exception, JSON) and the checks it fails; a check it leaves out passes.
CriticPasses(reply) == ~reply.heard \/ reply.fails \cap Checks = {}

\* The one retry is [ok, text]; what it returns is not put before the critic again.
AfterCritic(draft, reply, retry) ==
    IF CriticPasses(reply) \/ ~retry.ok THEN draft ELSE retry.text

-------------------------------------------------------------- (* stream *)

FromHeading(text) ==
    LET at == SelectInSeq(text, LAMBDA l : l = "heading")
    IN  IF at = 0 THEN text ELSE SubSeq(text, at, Len(text))

\* The first m lines of a buffered answer are shown before a cancellation is noticed.
ShowUpTo(text, m) == SubSeq(text, 1, IF m < Len(text) THEN m ELSE Len(text))


\* A mutant: the draft is shown while the critic reads it.
BugPreGated(job) ==
    LET draft == IF job.end = "fail" THEN <<>> ELSE job.text
    IN  [returned |-> AfterCritic(draft, job.critic, job.retry), shown |-> draft,
         reviewed |-> TRUE]

\* Low confidence: the whole answer is buffered, reviewed and only then shown.
PreGated(job) ==
    LET draft  == IF job.end = "fail" THEN <<>> ELSE job.text
        answer == AfterCritic(draft, job.critic, job.retry)
    IN  [returned |-> answer, shown |-> ShowUpTo(answer, job.cancel), reviewed |-> TRUE]

\* Otherwise lines are shown as they come up to the recommended actions, which are held back.
Hybrid(job) ==
    LET got      == SubSeq(job.text, 1, job.n)
        partial  == IF job.part /\ job.n < Len(job.text) THEN <<job.text[job.n + 1]>> ELSE <<>>
        whole    == IF job.end = "done" THEN job.text ELSE got
        at       == SelectInSeq(whole, LAMBDA l : l = "heading")
        before   == IF at = 0 THEN whole ELSE SubSeq(whole, 1, at - 1)
        held     == IF at = 0 THEN <<>> ELSE SubSeq(whole, at, Len(whole))
        risky    == "risky" \in Range(held)
        actions  == IF risky THEN AfterCritic(held, job.critic, [job.retry EXCEPT !.text = FromHeading(job.retry.text)]) ELSE held
        Out(r, s) == [returned |-> r, shown |-> s, reviewed |-> job.end = "done" /\ risky]
    IN  CASE job.end = "fail"   -> Out(before \o held \o partial, before)
          [] job.end = "cancel" -> LET tail == IF at = 0 THEN partial ELSE <<>>
                                   IN  Out(before \o tail, before \o tail)
          [] job.end = "done"   -> Out(before \o actions,
                                       before \o (IF at = 0 THEN <<>> ELSE ShowUpTo(actions, job.cancel)))

StreamFinalizeWithCritic(job) ==
    IF (job.band = "low" /\ job.evidence) \/ job.exhausted THEN PreGated(job) ELSE Hybrid(job)

------------------------------------------------------------ (* Markdown *)

Expected == <<"diagnosis", "evidence", "recommended_actions", "uncertainty">>

Place(section) == SelectInSeq(Expected, LAMBDA s : s = section)


\* A mutant: a heading that comes again replaces the section.
BugParseMarkdownSynthesis(doc) ==
    LET At(s) == SelectInSeq(Reverse(doc), LAMBDA b : b.section = s)
        Items(s) == IF At(s) = 0 THEN <<>> ELSE Reverse(doc)[At(s)].items
    IN  [actions |-> SelectSeq(Items("recommended_actions"), LAMBDA l : l # "none_applicable"),
         evidence |-> Len(Items("evidence")), band |-> "unknown", warnings |-> {<<"confidence_missing">>}]

\* A document is a sequence of [section, items, band]; sections of one name are joined and the
\* order is that of their first headings.
ParseMarkdownSynthesis(doc) ==
    LET names   == [i \in DOMAIN doc |-> doc[i].section]
        firsts  == FoldLeft(LAMBDA acc, s : IF s \in Range(acc) THEN acc ELSE Append(acc, s), <<>>, names)
        Items(s) == FoldLeft(LAMBDA acc, b : acc \o b.items, <<>>, SelectSeq(doc, LAMBDA b : b.section = s))
        bands   == SelectSeq(doc, LAMBDA b : b.section = "uncertainty" /\ b.band # "")
    IN  [actions |-> SelectSeq(Items("recommended_actions"), LAMBDA l : l # "none_applicable"),
         evidence |-> Len(Items("evidence")),
         band |-> IF bands = <<>> THEN "unknown" ELSE Head(bands).band,
         warnings |->
            (IF doc = <<>> THEN {<<"empty_input">>} ELSE
             (IF \E i \in 2..Len(firsts) : Place(firsts[i]) < Place(firsts[i - 1])
              THEN {<<"headings_out_of_order">>} ELSE {})
             \cup {<<"missing_heading", s>> : s \in Range(Expected) \ Range(names)}
             \cup (IF "uncertainty" \in Range(names) /\ bands = <<>> THEN {<<"confidence_missing">>} ELSE {}))]

------------------------------------------------------- (* proposed actions *)

\* A command is [id, verb, clean, target, ns, docs, llm]: whether it is free of shell
\* metacharacters, whether it names a resource and a namespace, the YAML documents on its
\* standard input ("apply" reads them: each [kind, target, ns]) and what the reviewing model
\* says: "yes", "no" or "error".
HighRisk   == {"delete pod", "drain", "cordon", "patch", "apply"}
MediumRisk == {"scale", "rollout restart", "rollout undo", "set image"}
Executable == HighRisk \cup MediumRisk \cup {"label", "annotate", "uncordon"}
NodeVerbs  == {"cordon", "uncordon", "drain"}

RecoveryActionRisk(verb) ==
    IF verb \in HighRisk THEN "high" ELSE IF verb \in MediumRisk THEN "medium" ELSE "low"

\* Every document of an apply needs a kind and a name, and a namespace unless cluster-scoped.
YamlTargetIsWhole(docs) ==
    /\ docs # <<>>
    /\ \A i \in DOMAIN docs : docs[i].target /\ (docs[i].kind # "cluster" => docs[i].ns)

\* A mutant: the namespace of a patch's documents is not asked for.
BugDeterministicReview(c, primary) ==
    /\ c.verb \in Executable /\ c.clean
    /\ c.verb = "apply" \/ (c.target /\ (c.verb \notin NodeVerbs => c.ns))
    /\ primary # "none"
    /\ RecoveryActionRisk(c.verb) = "high" => primary \in {"verified_root_cause", "primary_failure"}

DeterministicReview(c, primary) ==
    /\ c.verb \in Executable /\ c.clean
    /\ IF c.verb = "apply" THEN YamlTargetIsWhole(c.docs)
       ELSE c.target /\ (c.verb \notin NodeVerbs => c.ns)
    /\ primary # "none"
    /\ RecoveryActionRisk(c.verb) = "high" => primary \in {"verified_root_cause", "primary_failure"}

\* Fails closed: no model, no action.
ReviewRecoveryAction(c, primary) == DeterministicReview(c, primary) /\ c.llm = "yes"

\* The follow-up that traces a verified cause to its source: never a command.
BuildManualTrace(job) == job.verified /\ job.sourced

\* From the tool's own analysis, its fix commands, the YAML blocks of the answer and the
\* commands of its text, in this order.
ExtractActions(job) ==
    LET offered == SelectSeq(job.analysis \o job.fixes \o job.blocks \o job.commands,
                             LAMBDA c : ReviewRecoveryAction(c, job.primary))
        ids == FoldLeft(LAMBDA acc, c : IF c.id \in Range(acc) THEN acc ELSE Append(acc, c.id), <<>>, offered)
        trace == BuildManualTrace(job)
    IN  [buttons |-> ShowUpTo(ids, IF trace THEN 4 ELSE 5), trace |-> trace]

-------------------------------------------------------- (* verification *)

VerificationTools(action, deployment) ==
    CASE action = "rollout_restart"  -> <<"get_rollout_status", "get_pods", "get_events">>
      [] action = "scale_deployment" -> <<"get_deployment", "get_pods">>
      [] action = "apply_patch" /\ deployment -> <<"get_deployment", "get_pods", "get_events">>
      [] OTHER                       -> <<"get_pods", "get_events">>

\* bad: the tools that fail; db: the steps at which the database fails.  Every failure is logged
\* and passed over; a run whose end cannot be written stays open.
RunVerificationSubRun(job) ==
    LET tools == VerificationTools(job.action, job.deployment)
    IN  [steps |-> [i \in DOMAIN tools |->
                       [tool |-> tools[i], status |-> IF tools[i] \in job.bad THEN "error" ELSE "ok"]],
         report |-> IF job.llm THEN "model" ELSE "evidence",
         run |-> IF "create" \in job.db THEN "none" ELSE IF "finish" \in job.db THEN "running" ELSE "finished"]

----------------------------------------------------------- (* properties *)

IsPrefix1(s, t) == Len(s) <= Len(t) /\ SubSeq(t, 1, Len(s)) = s

\* What the user saw is what is kept: all of it when the answer is complete, a beginning of it
\* when the user stopped it or the model failed; nothing is shown that is not kept.
ShownIsKept(job, out) ==
    /\ IsPrefix1(out.shown, out.returned)
    /\ (job.end = "done" /\ job.cancel >= Len(out.returned)) => out.shown = out.returned

\* A destructive proposal is shown only after the critic has read it, with high confidence or
\* low, and however the stream ends.
RiskyIsReviewed(job, out) == "risky" \in Range(out.shown) => out.reviewed

\* A rejected proposal is kept only if its rewriting failed or the stream did.
RejectedIsRewritten(job, out) ==
    (out.reviewed /\ ~CriticPasses(job.critic) /\ job.retry.ok /\ job.end = "done")
        => ("risky" \in Range(out.returned) => "risky" \in Range(job.retry.text))

FirstAt(doc, section) == SelectInSeq(doc, LAMBDA b : b.section = section)

\* An answer the parser has no complaint about has the four sections in order, and no action of
\* any answer is lost or made up, whatever it complains about.
ParsedIsWhole(doc, out) ==
    /\ out.warnings = {} =>
          /\ {doc[i].section : i \in DOMAIN doc} = Range(Expected)
          /\ \A p \in 1..3 : FirstAt(doc, Expected[p]) < FirstAt(doc, Expected[p + 1])
          /\ out.band # "unknown"
    /\ Len(out.actions) =
          FoldLeft(LAMBDA n, b : n + IF b.section = "recommended_actions"
                                     THEN Len(SelectSeq(b.items, LAMBDA l : l # "none_applicable")) ELSE 0, 0, doc)

\* Whatever was changed, the pods are looked at afterwards, each tool once, and a failure, of a
\* tool, of the model or of the database, leaves the report: a run that is not there never ends.
VerifiedWhateverFails(job, out) ==
    /\ Cardinality({i \in DOMAIN out.steps : out.steps[i].tool = "get_pods"}) = 1
    /\ \A i \in DOMAIN out.steps : (out.steps[i].status = "ok") <=> (out.steps[i].tool \notin job.bad)
    /\ (job.db = {} /\ job.bad = {}) => out.run = "finished" /\ \A i \in DOMAIN out.steps : out.steps[i].status = "ok"
    /\ out.run = "running" => job.db = {"finish"}

\* Every button was allowed by both reviews, once, whichever of the four sources proposed it;
\* a high-risk one rests on a verified cause or a primary failure.
ButtonsAreReviewed(job, out) ==
    LET all == Range(job.analysis) \cup Range(job.fixes) \cup Range(job.blocks) \cup Range(job.commands)
    IN  /\ Len(out.buttons) + (IF out.trace THEN 1 ELSE 0) <= 5
        /\ Cardinality(Range(out.buttons)) = Len(out.buttons)
        /\ \A b \in Range(out.buttons) : \E c \in all :
              /\ c.id = b /\ c.llm = "yes" /\ c.clean
              /\ c.verb \in HighRisk => job.primary \in {"verified_root_cause", "primary_failure"}
              /\ c.verb \notin NodeVerbs \cup {"apply"} => c.ns
              /\ c.verb = "apply" => \A i \in DOMAIN c.docs : c.docs[i].kind = "cluster" \/ c.docs[i].ns
=============================================================================
