--------------------------- MODULE EvidenceRanking ---------------------------
(***************************************************************************)
(* What the ReAct loop makes of its tools' envelopes before it answers     *)
(* (ui/backend/react.py): the latest envelope of each call, which step led *)
(* to which, the evidence ranked by class and the confidence of the band.  *)
(*                                                                         *)
(* An envelope is [key, step, target, type, verdict, complete, items]; key *)
(* stands for the tool and its parameters without the empty ones.  An item *)
(* is [field, has, class, rank, trusted, oom, cause]: the list of the      *)
(* evidence it is in, the set of its fields that are filled, the class its *)
(* producer claims ("" if none), the rank it asks for, whether it is a     *)
(* justified high-confidence advice, whether it speaks of memory and the   *)
(* cause it states.                                                        *)
(***************************************************************************)
EXTENDS Integers, FiniteSets, Sequences, SequencesExt

--------------------------------------------------------- (* envelopes *)

SameFinding(a, b) == a.verdict = b.verdict /\ a.items = b.items


\* A mutant: the first envelope of a call is kept.
BugDedupeEnvelopes(envs) ==
    LET first == SelectSeq([i \in DOMAIN envs |-> <<i, envs[i]>>],
                           LAMBDA p : \A j \in 1..(p[1] - 1) : envs[j].key # p[2].key)
    IN  [i \in DOMAIN first |-> [env |-> first[i][2], revised |-> 0]]

\* One envelope for each call, the latest, in the order the calls were first made; it names
\* the first earlier step that said something else.
DedupeEnvelopes(envs) ==
    LET keys == FoldLeft(LAMBDA acc, e : IF e.key \in Range(acc) THEN acc ELSE Append(acc, e.key),
                         <<>>, envs)
        Group(k) == SelectSeq(envs, LAMBDA e : e.key = k)
        Latest(k) == Last(Group(k))
        Differ(k) == SelectSeq(Front(Group(k)), LAMBDA e : ~SameFinding(e, Latest(k)))
    IN  [i \in DOMAIN keys |->
            [env |-> Latest(keys[i]),
             revised |-> IF Differ(keys[i]) = <<>> THEN 0 ELSE Head(Differ(keys[i])).step]]

\* A follow-up call is linked to the last step that discovered its subject: the pod listed by
\* get_pods, the service investigate_pod found a pod depends on, the node of an event.
Source(tool) ==
    CASE tool = "investigate_pod"                -> "get_pods"
      [] tool \in {"get_service", "get_endpoints"} -> "investigate_pod"
      [] tool = "investigate_node"               -> "get_events"
      [] OTHER                                   -> "none"

\* A step is [tool, subject, found, cites]: what it asks about, what it found and the step its
\* thought cites (0 if it cites none).  Steps are numbered over all of them.
Trigger(steps, i) ==
    LET led == {j \in 1..(i - 1) : steps[j].tool = Source(steps[i].tool)
                                      /\ steps[i].subject \in steps[j].found}
    IN  IF i = 1 THEN [by |-> "user", step |-> 0]
        ELSE IF led # {} THEN [by |-> "evidence", step |-> CHOOSE j \in led : \A k \in led : k <= j]
        ELSE IF steps[i].cites \in DOMAIN steps THEN [by |-> "thought", step |-> steps[i].cites]
        ELSE [by |-> "agent", step |-> 0]

BuildCausalityChain(steps) == [i \in DOMAIN steps |-> Trigger(steps, i)]

---------------------------------------------------------- (* priority *)

\* The class read off an item's fields, the first test that passes.
InferEvidencePriority(item) ==
    LET Has(S) == S \cap item.has # {}
        tests == << <<Has({"root_cause"}), "verified_root_cause">>,
                    <<Has({"no_service", "zero_ready"}), "dependency_check">>,
                    <<Has({"ai"}), "ai_advisory">>,
                    <<Has({"container"}) /\ Has({"excerpt", "reason"}), "container_log_finding">>,
                    <<Has({"mode"}), "primary_failure">>,
                    <<Has({"findings"}), "ai_advisory">>,
                    <<Has({"reason"}), "secondary_issue">>,
                    <<TRUE, "">> >>
    IN  tests[SelectInSeq(tests, LAMBDA t : t[1])][2]

PriorityRanks ==
    [verified_root_cause |-> 100, primary_failure |-> 80, dependency_check |-> 70,
     container_log_finding |-> 60, secondary_issue |-> 40, ai_advisory |-> 20]

BaseRank(class) == IF class \in DOMAIN PriorityRanks THEN PriorityRanks[class] ELSE 0


\* A mutant: justified advice gets the rank it asks for.
BugNormalizedRank(item, class) ==
    IF class = "ai_advisory" /\ item.rank > BaseRank(class) /\ item.trusted THEN item.rank ELSE BaseRank(class)

\* Only advice may ask for a rank, only if it is justified, and never for the top one.
NormalizedRank(item, class) ==
    IF class = "ai_advisory" /\ item.rank > BaseRank(class) /\ item.trusted
    THEN IF item.rank < 99 THEN item.rank ELSE 99
    ELSE BaseRank(class)

\* The lists of the evidence in the order of their names, which breaks ties.
FieldOrder == <<"contributing_factors", "drift", "failure_modes", "most_recent_critical",
                "timeline", "top_messages">>

Candidate(item, e, i) ==
    LET class == IF item.class # "" THEN item.class ELSE InferEvidencePriority(item)
        rank  == NormalizedRank(item, class)
    IN  [class |-> class, env |-> e, at |-> i,
         field |-> SelectInSeq(FieldOrder, LAMBDA f : f = item.field),
         rank |-> IF class = "primary_failure" /\ item.oom /\ rank < 90 THEN 90 ELSE rank]

CollectCandidates(envs) ==
    {c \in UNION {{Candidate(envs[e].items[i], e, i) : i \in DOMAIN envs[e].items} : e \in DOMAIN envs} :
        c.class # ""}

Outranks(a, b) ==
    \/ a.rank > b.rank
    \/ a.rank = b.rank /\ a.env < b.env
    \/ a.rank = b.rank /\ a.env = b.env /\ a.field < b.field
    \/ a.rank = b.rank /\ a.env = b.env /\ a.field = b.field /\ a.at < b.at

TopCandidates == 5

\* The first is the primary root cause; only the first five are kept.
EvidencePriority(envs) ==
    LET all == SetToSortSeq(CollectCandidates(envs), Outranks)
    IN  SubSeq(all, 1, IF Len(all) < TopCandidates THEN Len(all) ELSE TopCandidates)

--------------------------------------------------------- (* confidence *)

Judging == {"diagnostic", "status_check", "log_analysis"}

\* Two verdicts, or two verified causes, about one target.
Contradictory(envs) ==
    \E i, j \in DOMAIN envs :
        /\ envs[i].target = envs[j].target
        /\ \/ /\ envs[i].type \in Judging /\ envs[j].type \in Judging
              /\ envs[i].verdict = "Healthy" /\ envs[j].verdict = "Unhealthy"
           \/ \E a \in Range(envs[i].items), b \in Range(envs[j].items) :
                 /\ a.field = "failure_modes" /\ b.field = "failure_modes"
                 /\ "root_cause" \in a.has /\ "root_cause" \in b.has /\ a.cause # b.cause

ConfidenceReport(envs, exhausted) ==
    LET top == EvidencePriority(envs)
        Some(classes) == \E i \in DOMAIN top : top[i].class \in classes
    IN  IF \/ exhausted \/ envs = <<>>
           \/ \E i \in DOMAIN envs : envs[i].complete # "complete"
           \/ \A i \in DOMAIN envs : envs[i].type \in {"", "inventory"}
           \/ Contradictory(envs)
        THEN "low"
        ELSE IF Some({"verified_root_cause"})
             THEN IF Some({"primary_failure", "dependency_check", "container_log_finding"})
                  THEN "high" ELSE "medium"
        ELSE IF Some({"primary_failure"}) THEN "medium" ELSE "low"

Rank(history, exhausted) ==
    LET deduped == DedupeEnvelopes(history)
        envs == [i \in DOMAIN deduped |-> deduped[i].env]
    IN  [envs |-> deduped, top |-> EvidencePriority(envs), band |-> ConfidenceReport(envs, exhausted)]

----------------------------------------------------------- (* properties *)

\* Whatever rank advice claims, a verified cause is named first when there is one, and the
\* primary cause is of a class the producers know.
VerifiedComesFirst(out) ==
    (\E i \in DOMAIN out.envs : \E item \in Range(out.envs[i].env.items) :
        item.class = "verified_root_cause" \/ (item.class = "" /\ "root_cause" \in item.has))
    => out.top[1].class = "verified_root_cause"

\* The answer reads each call's latest envelope, once, and knows when it was revised.
LatestIsRead(history, out) ==
    /\ {out.envs[i].env.key : i \in DOMAIN out.envs} = {e.key : e \in Range(history)}
    /\ \A i \in DOMAIN out.envs :
          LET kin == SelectSeq(history, LAMBDA e : e.key = out.envs[i].env.key)
          IN  /\ out.envs[i].env = Last(kin)
              /\ out.envs[i].revised = 0 <=> \A e \in Range(kin) : SameFinding(e, Last(kin))
    /\ \A i, j \in DOMAIN out.envs : out.envs[i].env.key = out.envs[j].env.key => i = j

\* The band does not depend on the order in which the tools answered, as long as no evidence is
\* cut off; and a high band needs a verified cause, corroboration and no contradiction.
BandIsOrderFree(history, exhausted, out) ==
    LET envs == [i \in DOMAIN out.envs |-> out.envs[i].env]
    IN  /\ Cardinality(CollectCandidates(envs)) <= TopCandidates
              => ConfidenceReport(Reverse(envs), exhausted) = out.band
        /\ out.band = "high" =>
              /\ ~exhausted
              /\ \A i \in DOMAIN history : history[i].complete = "complete"
                    \/ \E j \in DOMAIN history : j > i /\ history[j].key = history[i].key
              /\ Cardinality({c.class : c \in CollectCandidates(envs)}) > 1
              /\ ~\E i, j \in DOMAIN envs : /\ envs[i].target = envs[j].target
                                            /\ envs[i].verdict = "Healthy" /\ envs[j].verdict = "Unhealthy"

\* A step linked by evidence is linked to an earlier step, the last that found its subject.
CausesComeFirst(steps, out) ==
    \A i \in DOMAIN out : out[i].by = "evidence" =>
        /\ out[i].step < i /\ steps[i].subject \in steps[out[i].step].found
        /\ \A j \in (out[i].step + 1)..(i - 1) :
              steps[j].tool = Source(steps[i].tool) => steps[i].subject \notin steps[j].found
=============================================================================
