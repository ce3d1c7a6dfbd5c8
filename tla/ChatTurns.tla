------------------------------ MODULE ChatTurns ------------------------------
(***************************************************************************)
(* The turns of the chat: chat and chat_stream of routers/chat.py, the     *)
(* predicates that route a prompt, and the messages table of db.py, for    *)
(* one session in which several turns may run at once.                     *)
(*                                                                         *)
(* A worker thread answers the prompt.  It tries the cheap ways first (a   *)
(* single tool, the LLM alone, an earlier answer, the knowledge base) and  *)
(* falls through to the ReAct loop; what it has to say it puts in a queue  *)
(* that the response's generator sends to the client, who may leave at any *)
(* time.  The plain endpoint answers in its request: it has neither fast   *)
(* path nor earlier answers, and stores what went wrong as an answer.      *)
(*                                                                         *)
(*   at[t]       where the worker of a turn is; plain, the plain turns     *)
(*   prompt[t]   what the predicates say of its prompt                     *)
(*   said[t]     all it has put in the queue, or returned; sent[t], how    *)
(*               much of it was streamed; stream[t], the streamed response *)
(*   rows        the session's messages                                    *)
(* History: lost[t], a write of the turn failed; cleared[t], the history   *)
(* was cleared while it ran; tools[t], it ran a tool.                      *)
(***************************************************************************)
EXTENDS Naturals, Sequences, FiniteSets, SequencesExt

CONSTANTS
    Turns,
    MaxWords,    \* bound: the words of a prompt that the predicates look at
    MaxClears    \* bound: how often the history is cleared

ASSUME ChatAssumption == {MaxWords, MaxClears} \subseteq Nat

VARIABLES at, plain, prompt, said, sent, stream, rows, lost, cleared, tools, clears

chatVars == <<at, plain, prompt, said, sent, stream, rows, lost, cleared, tools, clears>>

-----------------------------------------------------------------------------
(* The predicates on a prompt, a set of words.  Each list keeps one word    *)
(* for every way in which the lists of the code overlap; "node-1.corp" is   *)
(* any token that looks like a host.                                        *)

K8sKeywords == {"kubectl", "pending", "cpu", "pod", "cluster", "deployment", "helm"}
LiveStateTerms == {"get", "current", "show", "find", "cpu"}
ResourceTerms == {"pod", "cluster", "deployment", "helm"}
ContextSubjects == {"cluster", "contexts"}
ContextIntents == {"current", "show", "using", "what"}
KbSubjects == {"playbook", "helm"}
LookupIntents == {"what", "show", "find", "deploys", "deployment"}
Words == K8sKeywords \cup LiveStateTerms \cup ContextSubjects \cup ContextIntents
            \cup KbSubjects \cup LookupIntents \cup {"why", "node-1.corp"}

Meets(p, list) == p \cap list # {}

LooksK8s(p) == Meets(p, K8sKeywords \cup {"node-1.corp"})

LooksContext(p) == Meets(p, ContextSubjects) /\ Meets(p, ContextIntents)

LooksLive(p) ==
    \/ LooksContext(p)
    \/ /\ LooksK8s(p)
       /\ \/ "node-1.corp" \in p
          \/ Meets(p, ResourceTerms) /\ Meets(p, LiveStateTerms)

LooksStatic(p) == ~LooksLive(p) /\ Meets(p, KbSubjects) /\ Meets(p, LookupIntents)

Protected(p) == LooksK8s(p) \/ LooksStatic(p)

Inventory(p) ==
    /\ {"pending", "pod"} \subseteq p
    /\ "why" \notin p
    /\ Meets(p, {"show", "get", "what"})

Profile(p) ==
    [live |-> LooksLive(p), static |-> LooksStatic(p), context |-> LooksContext(p),
     protected |-> Protected(p), inventory |-> Inventory(p)]

Profiles == {Profile(p) : p \in kSubset(0, Words) \cup
                                UNION {kSubset(n, Words) : n \in 1..MaxWords}}

-----------------------------------------------------------------------------
NoPrompt == [live |-> FALSE, static |-> FALSE, context |-> FALSE,
             protected |-> FALSE, inventory |-> FALSE]

Endings == {"done", "unavailable", "error"}
Kinds == {"start", "greeting", "kb_route", "answer_start", "token", "answer_end",
          "step", "notice", "cache_hit", "end"} \cup Endings

ChatInit ==
    /\ at = [t \in Turns |-> "new"]
    /\ plain = {}
    /\ prompt = [t \in Turns |-> NoPrompt]
    /\ said = [t \in Turns |-> <<>>]
    /\ sent = [t \in Turns |-> 0]
    /\ stream = [t \in Turns |-> "closed"]
    /\ rows = <<>>
    /\ lost = {}
    /\ cleared = {}
    /\ tools = {}
    /\ clears = 0

Says(t, kinds) == said' = [said EXCEPT ![t] = @ \o kinds]
Goes(t, stage) == at' = [at EXCEPT ![t] = stage]

(* save_message; a failure is logged and forgotten. *)
Persist(t, role, whole) ==
    \/ /\ rows' = Append(rows, [turn |-> t, role |-> role, whole |-> whole])
       /\ UNCHANGED lost
    \/ lost' = lost \cup {t} /\ UNCHANGED rows

Quietly == UNCHANGED <<rows, lost>>

\* What the steps of a worker do not touch.
Rest == UNCHANGED <<plain, prompt, sent, stream, cleared, clears>>

-----------------------------------------------------------------------------
(* The worker thread, in the order of its steps. *)

Ask(t) ==
    /\ at[t] = "new"
    /\ \E p \in Profiles : prompt' = [prompt EXCEPT ![t] = p]
    /\ \/ /\ Goes(t, "asked")
          /\ Says(t, <<"start">>)
          /\ stream' = [stream EXCEPT ![t] = "open"]
          /\ UNCHANGED plain
       \/ /\ Goes(t, "plain connecting")
          /\ plain' = plain \cup {t}
          /\ UNCHANGED <<said, stream>>
    /\ Quietly
    /\ UNCHANGED <<sent, cleared, tools, clears>>

PersistUser(t) ==
    /\ at[t] = "asked"
    /\ Persist(t, "user", TRUE)
    /\ Goes(t, "connecting")
    /\ Rest /\ UNCHANGED <<said, tools>>

(* The runner: an SSH host that cannot be reached is an error; a connection *)
(* whose kubeconfig is gone is an answer.                                   *)
Connect(t) ==
    /\ at[t] = "connecting"
    /\ \/ Goes(t, "triage") /\ UNCHANGED said
       \/ Goes(t, "closing") /\ Says(t, <<"error">>)
       \/ Goes(t, "closing") /\ Says(t, <<"unavailable">>)
    /\ Quietly /\ Rest /\ UNCHANGED tools

(* cluster_overview greets the first message of a session. *)
Triage(t) ==
    /\ at[t] = "triage"
    /\ Goes(t, "routing")
    /\ \/ Quietly /\ UNCHANGED said
       \/ /\ ~prompt[t].context
          /\ Says(t, <<"greeting">>)
          /\ Persist(t, "greeting", TRUE)
    /\ Rest /\ UNCHANGED tools

(* _chat_single_shot: one tool found by its keywords, or none at all. *)
SingleShot(t, notice) ==
    /\ \/ tools' = tools \cup {t}
       \/ ~prompt[t].inventory /\ UNCHANGED tools
    /\ Persist(t, "assistant", TRUE)
    /\ Says(t, notice \o <<"done">>)
    /\ Goes(t, "closing")

\* What a turn raises is the last word of its worker.
Fails(t) ==
    /\ Says(t, <<"error">>)
    /\ Goes(t, "closing")
    /\ Quietly /\ UNCHANGED tools

Route(t) ==
    /\ at[t] = "routing"
    /\ \/ SingleShot(t, <<"notice">>)      \* no LLM
       \/ prompt[t].inventory /\ SingleShot(t, <<>>)
       \/ Fails(t)
       \/ /\ ~prompt[t].inventory
          /\ Goes(t, "fast") /\ Quietly /\ UNCHANGED <<said, tools>>
    /\ Rest

(* The LLM says that the prompt needs no cluster, and answers it alone. *)
FastPath(t) ==
    /\ at[t] = "fast"
    /\ \/ Goes(t, "cache") /\ UNCHANGED said
       \/ ~prompt[t].protected /\ Goes(t, "chatting") /\ Says(t, <<"answer_start">>)
    /\ Quietly /\ Rest /\ UNCHANGED tools

Cancelled(t) == stream[t] = "left"

(* Its tokens; a failure among them leaves the fast path for the others.    *)
BugGiveUp(t) ==
    /\ Persist(t, "assistant", FALSE)
    /\ Says(t, <<"answer_end", "done">>) /\ Goes(t, "cache")

GiveUp(t) == Goes(t, "cache") /\ Quietly /\ UNCHANGED said

Chatting(t) ==
    /\ at[t] = "chatting"
    /\ \/ "token" # Last(said[t]) /\ Says(t, <<"token">>) /\ UNCHANGED at /\ Quietly
       \/ GiveUp(t)
       \/ /\ Persist(t, "assistant", ~Cancelled(t))
          /\ Says(t, <<"answer_end", "done">>)
          /\ Goes(t, "closing")
    /\ Rest /\ UNCHANGED tools

(* lookup: the answer that somebody got for much the same question.        *)
BugCacheable(t) == ~prompt[t].static

Cacheable(t) == ~prompt[t].live /\ ~prompt[t].static

PromptCache(t) ==
    /\ at[t] = "cache"
    /\ \/ Goes(t, "kb") /\ Quietly /\ UNCHANGED said
       \/ /\ Cacheable(t)
          /\ Persist(t, "stored", TRUE)
          /\ Says(t, <<"cache_hit", "done">>)
          /\ Goes(t, "closing")
    /\ Rest /\ UNCHANGED tools

(* route: cold, or a verified runbook, or chunks that ground the answer; a  *)
(* runbook answers what is not live, chunks what is static.                 *)
KnowledgeBase(t) ==
    /\ at[t] = "kb"
    /\ \/ Goes(t, "react") /\ Quietly
          /\ IF prompt[t].context THEN UNCHANGED said
             ELSE UNCHANGED said \/ Says(t, <<"kb_route">>)
       \/ /\ ~prompt[t].context
          /\ ~prompt[t].live
          /\ Persist(t, "stored", TRUE)
          /\ Says(t, <<"kb_route", "done">>)
          /\ Goes(t, "closing")
    /\ Rest /\ UNCHANGED tools

(* react_loop, which AgentRun has in detail: its events, then the answer.   *)
React(t) ==
    /\ at[t] = "react"
    /\ \/ /\ tools' \in {tools, tools \cup {t}}
          /\ \E finale \in {<<>>, <<"answer_start", "token", "answer_end">>} :
                Says(t, <<"step">> \o finale)
          /\ Goes(t, "answering")
          /\ Quietly
       \/ Fails(t)
    /\ Rest

Answer(t) ==
    /\ at[t] = "answering"
    /\ Persist(t, "assistant", TRUE)
    /\ Says(t, <<"done">>)
    /\ Goes(t, "closing")
    /\ Rest /\ UNCHANGED tools

(* finally: the runner goes, and the queue gets its sentinel.              *)
BugFinish(t) ==
    /\ at[t] = "closing"
    /\ Goes(t, "gone")
    /\ Says(t, IF Last(said[t]) = "error" THEN <<>> ELSE <<"end">>)
    /\ Quietly /\ Rest /\ UNCHANGED tools

Finish(t) ==
    /\ at[t] = "closing"
    /\ Goes(t, "gone")
    /\ Says(t, IF t \in plain THEN <<>> ELSE <<"end">>)
    /\ Quietly /\ Rest /\ UNCHANGED tools

-----------------------------------------------------------------------------
(* The plain endpoint. *)

PlainFails(t) ==
    /\ Persist(t, "assistant", TRUE)
    /\ Says(t, <<"done">>)
    /\ Goes(t, "closing")
    /\ UNCHANGED tools

\* The connection is there before the prompt is stored.
PlainConnect(t) ==
    /\ at[t] = "plain connecting"
    /\ \/ Goes(t, "plain routing") /\ Persist(t, "user", TRUE) /\ UNCHANGED said
       \/ Goes(t, "closing") /\ Says(t, <<"unavailable">>) /\ Quietly
    /\ Rest /\ UNCHANGED tools

PlainRoute(t) ==
    /\ at[t] = "plain routing"
    /\ \/ SingleShot(t, <<>>)               \* an inventory, or no LLM
       \/ /\ ~prompt[t].inventory
          /\ Goes(t, "plain kb") /\ Quietly /\ UNCHANGED <<said, tools>>
       \/ PlainFails(t)
    /\ Rest

PlainKnowledge(t) ==
    /\ at[t] = "plain kb"
    /\ \/ Goes(t, "plain react") /\ Quietly /\ UNCHANGED said
       \/ /\ ~prompt[t].context /\ ~prompt[t].live
          /\ Persist(t, "stored", TRUE)
          /\ Says(t, <<"done">>)
          /\ Goes(t, "closing")
    /\ Rest /\ UNCHANGED tools

PlainReact(t) ==
    /\ at[t] = "plain react"
    /\ \/ /\ tools' \in {tools, tools \cup {t}}
          /\ Goes(t, "answering")
          /\ Quietly /\ UNCHANGED said
       \/ PlainFails(t)
    /\ Rest

WorkerStep(t) ==
    \/ PlainConnect(t) \/ PlainRoute(t) \/ PlainKnowledge(t) \/ PlainReact(t)
    \/ PersistUser(t) \/ Connect(t) \/ Triage(t) \/ Route(t) \/ FastPath(t)
    \/ Chatting(t) \/ PromptCache(t) \/ KnowledgeBase(t) \/ React(t) \/ Answer(t)
    \/ Finish(t)

-----------------------------------------------------------------------------
(* The generator and the client. *)

Deliver(t) ==
    /\ stream[t] = "open"
    /\ sent[t] < Len(said[t])
    /\ sent' = [sent EXCEPT ![t] = @ + 1]
    /\ stream' = IF said[t][sent[t] + 1] = "end"
                 THEN [stream EXCEPT ![t] = "closed"] ELSE stream
    /\ UNCHANGED <<at, plain, prompt, said, rows, lost, cleared, tools, clears>>

Leave(t) ==
    /\ stream[t] = "open"
    /\ stream' = [stream EXCEPT ![t] = "left"]
    /\ UNCHANGED <<at, plain, prompt, said, sent, rows, lost, cleared, tools, clears>>

(* finally of the generator: it waits for the worker of a client that left. *)
CloseLeft(t) ==
    /\ stream[t] = "left"
    /\ at[t] = "gone"
    /\ stream' = [stream EXCEPT ![t] = "closed"]
    /\ UNCHANGED <<at, plain, prompt, said, sent, rows, lost, cleared, tools, clears>>

ClearHistory ==
    /\ clears < MaxClears
    /\ rows # <<>>
    /\ rows' = <<>>
    /\ clears' = clears + 1
    /\ cleared' = cleared \cup {t \in Turns : at[t] # "new"}
    /\ UNCHANGED <<at, plain, prompt, said, sent, stream, lost, tools>>

AllAnswered ==
    /\ \A t \in Turns : at[t] = "gone" /\ stream[t] = "closed"
    /\ UNCHANGED chatVars

ChatNext ==
    \/ \E t \in Turns :
          Ask(t) \/ WorkerStep(t) \/ Deliver(t) \/ Leave(t) \/ CloseLeft(t)
    \/ ClearHistory
    \/ AllAnswered

\* The thread pool runs every worker, and the event loop every generator.
ChatFairness ==
    \A t \in Turns : /\ WF_chatVars(WorkerStep(t))
                     /\ WF_chatVars(Deliver(t) \/ CloseLeft(t))

ChatSpec == ChatInit /\ [][ChatNext]_chatVars /\ ChatFairness

-----------------------------------------------------------------------------
(* Properties *)

Stages == {"new", "asked", "connecting", "triage", "routing", "fast", "chatting",
           "cache", "kb", "react", "plain connecting", "plain routing", "plain kb",
           "plain react", "answering", "closing", "gone"}

ChatTypeOK ==
    /\ at \in [Turns -> Stages]
    /\ \A t \in Turns : /\ said[t] \in Seq(Kinds)
                        /\ sent[t] \in 0..Len(said[t])
    /\ stream \in [Turns -> {"open", "left", "closed"}]
    /\ rows \in Seq([turn : Turns, role : {"user", "greeting", "assistant", "stored"},
                     whole : BOOLEAN])
    /\ plain \cup lost \cup cleared \cup tools \subseteq Turns
    /\ clears \in 0..MaxClears

Ending(t) == {i \in DOMAIN said[t] : said[t][i] \in Endings}
Answers(t) == {i \in DOMAIN rows : rows[i].turn = t /\ rows[i].role \in {"assistant", "stored"}}

\* A turn has one ending and one answer: nothing but the sentinel follows a
\* done or an error in its stream, however often the worker fell through from
\* one way of answering to the next; no second answer is stored, and the one
\* that was sent is there unless its write failed or the history was cleared.
OneEnding ==
    \A t \in Turns :
        /\ \A i \in Ending(t) : i = Len(said[t]) \/ said[t][i + 1] = "end"
        /\ Cardinality(Ending(t)) <= 1
        /\ Cardinality(Answers(t)) <= 1
        /\ "done" \in ToSet(said[t]) /\ t \notin lost \cup cleared => Answers(t) # {}

\* The stored answer of a turn is the whole one unless its client has left,
\* also when the LLM failed in the middle of a fast answer.
StoredIsWhole ==
    \A i \in DOMAIN rows : rows[i].whole \/ stream[rows[i].turn] # "open"

TurnIsSound == OneEnding /\ StoredIsWhole

\* No stored text answers a prompt about the live cluster: neither an
\* earlier answer nor a runbook nor a snippet (live_k8s_prompt).
LiveIsNotStored ==
    \A i \in DOMAIN rows : rows[i].role = "stored" => ~prompt[rows[i].turn].live

\* Every turn comes to an end, and its stream with it.
TurnEnds == \A t \in Turns :
        at[t] # "new" ~> at[t] = "gone" /\ stream[t] = "closed" /\ Ending(t) # {}

=============================================================================
