---------------------------- MODULE KnowledgeBase ----------------------------
(***************************************************************************)
(* What the chat learns from its own answers: the capture of an answer     *)
(* (services/rag/capture.py), the votes on it that make a runbook of it or *)
(* delete it (routers/feedback.py, services/rag/promotion.py), and the two *)
(* ways in which it answers a later question: the prompt cache             *)
(* (services/rag/prompt_cache.py) and the retrieval router                 *)
(* (services/rag/router.py).                                               *)
(*                                                                         *)
(*   memory     the points of the session_memory collection                *)
(*   runbooks   the points of the runbook collection                       *)
(*   card[c]    what a captured answer says: the question it is about and  *)
(*              its timestamp                                              *)
(*   turn       the chat turn that asks; served, the stored answer it got  *)
(*   vote[v]    where a call of submit_feedback is                         *)
(*   events     the rows of feedback_events                                *)
(* History: origin[c], when the answer was investigated; rejected, the     *)
(* captures that a quarantine deleted; buried, those among them that no    *)
(* promotion had touched; leftover, those a promotion failed to delete.    *)
(***************************************************************************)
EXTENDS Integers, FiniteSets

CONSTANTS
    Questions, Captures, Voters,
    Lookback,                 \* prompt_cache_lookback_hours
    MaxKbNow, MaxVotes,       \* bounds: hours, votes
    NoCapture                 \* model value

ASSUME KnowledgeAssumption == {Lookback, MaxKbNow, MaxVotes} \subseteq Nat

VARIABLES memory, runbooks, card, turn, served, vote, events, kbNow, votes,
          origin, rejected, buried, leftover

knowledgeVars == <<memory, runbooks, card, turn, served, vote, events, kbNow, votes,
                   origin, rejected, buried, leftover>>

collections == <<memory, runbooks>>
history == <<origin, rejected, buried, leftover>>

IdleTurn == [at |-> "idle", about |-> "-"]
IdleVote == [at |-> "idle", of |-> NoCapture, rating |-> "-", ok |-> FALSE]
NotServed == [of |-> NoCapture, how |-> "-", age |-> 0]

Known == DOMAIN card

KnowledgeInit ==
    /\ memory = {}
    /\ runbooks = {}
    /\ card = [c \in {} |-> <<>>]
    /\ turn = IdleTurn
    /\ served = NotServed
    /\ vote = [v \in Voters |-> IdleVote]
    /\ events = {}
    /\ kbNow = 0
    /\ votes = 0
    /\ origin = [c \in {} |-> 0]
    /\ rejected = {}
    /\ buried = {}
    /\ leftover = {}

-----------------------------------------------------------------------------
(* A turn: the prompt cache, the router, an investigation and its capture.  *)

Question ==
    /\ turn.at = "idle"
    /\ \E q \in Questions : turn' = [at |-> "asked", about |-> q]
    /\ served' = NotServed
    /\ UNCHANGED <<collections, card, vote, events, kbNow, votes, history>>

Recent(c) == card[c].at >= kbNow - Lookback

Serve(c, how) ==
    /\ served' = [of |-> c, how |-> how, age |-> kbNow - origin[c]]
    /\ UNCHANGED <<collections, card, vote, events, kbNow, votes, history>>

\* _persist: a point of its own, whatever is stored already.
Store(c, when) ==
    /\ memory' = memory \cup {c}
    /\ card' = [x \in Known \cup {c} |->
                   IF x = c THEN [about |-> turn.about, at |-> kbNow] ELSE card[x]]
    /\ origin' = [x \in Known \cup {c} |-> IF x = c THEN when ELSE origin[x]]

\* The mistake to avoid: an answer from the cache captured like a new one.
BugLookUp ==
    /\ turn.at = "asked"
    /\ \/ /\ \E c \in memory :
                /\ card[c].about = turn.about /\ Recent(c)
                /\ Store(c, origin[c])
                /\ served' = [of |-> c, how |-> "cache", age |-> kbNow - origin[c]]
          /\ turn' = IdleTurn
       \/ /\ turn' = [turn EXCEPT !.at = "routing"]
          /\ UNCHANGED <<memory, card, origin, served>>
    /\ UNCHANGED <<runbooks, vote, events, kbNow, votes, rejected, buried, leftover>>

(* lookup: a captured answer that is near enough and recent enough; a miss  *)
(* is also what every failure looks like.                                   *)
LookUp ==
    /\ turn.at = "asked"
    /\ \/ /\ \E c \in memory : card[c].about = turn.about /\ Recent(c) /\ Serve(c, "cache")
          /\ turn' = IdleTurn
       \/ /\ turn' = [turn EXCEPT !.at = "routing"]
          /\ UNCHANGED <<collections, card, served, vote, events, kbNow, votes, history>>

(* route: the top hit is a verified runbook, or there are chunks to ground  *)
(* the investigation on, or none; session_memory is not searched.           *)
RouteQuestion ==
    /\ turn.at = "routing"
    /\ \/ /\ \E c \in runbooks : card[c].about = turn.about /\ Serve(c, "runbook")
          /\ turn' = IdleTurn
       \/ /\ turn' = [turn EXCEPT !.at = "answered"]
          /\ UNCHANGED <<collections, card, served, vote, events, kbNow, votes, history>>

(* maybe_capture, after an investigation: the classifier may find it not    *)
(* worthy, and whatever fails on the way loses it.                          *)
Capture ==
    /\ turn.at = "answered"
    /\ turn' = IdleTurn
    /\ \/ \E c \in Captures \ Known : Store(c, kbNow)
       \/ UNCHANGED <<memory, card, origin>>
    /\ UNCHANGED <<runbooks, served, vote, events, kbNow, votes, rejected, buried, leftover>>

-----------------------------------------------------------------------------
(* A vote. *)

Ratings == {"up", "down"}

Vote(v) ==
    /\ vote[v].at = "idle"
    /\ votes < MaxVotes
    /\ \E c \in Known, r \in Ratings :
          vote' = [vote EXCEPT ![v] = [at |-> IF r = "up" THEN "fetch" ELSE "quarantine",
                                       of |-> c, rating |-> r, ok |-> FALSE]]
    /\ votes' = votes + 1
    /\ UNCHANGED <<collections, card, turn, served, events, kbNow, history>>

Outcome(v, ok) == vote' = [vote EXCEPT ![v].at = "audit", ![v].ok = ok]
Moves(v, stage) == vote' = [vote EXCEPT ![v].at = stage]

\* The capture with its vector; a retrieval that fails finds nothing.
BugFetch(v) ==
    /\ vote[v].at = "fetch"
    /\ Moves(v, "upsert")
    /\ UNCHANGED <<collections, card, turn, served, events, kbNow, votes, history>>

Fetch(v) ==
    /\ vote[v].at = "fetch"
    /\ \/ vote[v].of \in memory /\ Moves(v, "upsert")
       \/ Outcome(v, FALSE)
       \/ vote[v].of \in runbooks /\ Outcome(v, TRUE)      \* already promoted
    /\ UNCHANGED <<collections, card, turn, served, events, kbNow, votes, history>>

BugUpsert(v) ==
    /\ vote[v].at = "upsert"
    /\ memory' = memory \ {vote[v].of}
    /\ \/ runbooks' = runbooks \cup {vote[v].of} /\ Moves(v, "delete")
       \/ UNCHANGED runbooks /\ Outcome(v, FALSE)
    /\ UNCHANGED <<card, turn, served, events, kbNow, votes, history>>

Upsert(v) ==
    /\ vote[v].at = "upsert"
    /\ \/ runbooks' = runbooks \cup {vote[v].of} /\ Moves(v, "delete")
       \/ UNCHANGED runbooks /\ Outcome(v, FALSE)
    /\ UNCHANGED <<memory, card, turn, served, events, kbNow, votes, history>>

\* "Remove from session_memory so it doesn't double-surface": a failure is ignored.
BugDelete(v) ==
    /\ vote[v].at = "delete"
    /\ Outcome(v, TRUE)
    /\ UNCHANGED <<collections, card, turn, served, events, kbNow, votes, history>>

Delete(v) ==
    /\ vote[v].at = "delete"
    /\ \/ /\ memory' = memory \ {vote[v].of}
          /\ leftover' = leftover \ {vote[v].of}
       \/ /\ leftover' = leftover \cup {vote[v].of}
          /\ UNCHANGED memory
    /\ Outcome(v, TRUE)
    /\ UNCHANGED <<runbooks, card, turn, served, events, kbNow, votes, origin, rejected, buried>>

Promoting(c) == \E v \in Voters : vote[v].of = c /\ vote[v].at \in {"upsert", "delete"}

\* quarantine: accepted whether or not there was something to delete.
Quarantine(v) ==
    /\ vote[v].at = "quarantine"
    /\ LET c == vote[v].of IN
         \/ /\ memory' = memory \ {c}
            /\ rejected' = rejected \cup {c}
            /\ buried' = IF Promoting(c) \/ c \in runbooks THEN buried ELSE buried \cup {c}
         \/ UNCHANGED <<memory, rejected, buried>>
    /\ Outcome(v, TRUE)
    /\ UNCHANGED <<runbooks, card, turn, served, events, kbNow, votes, origin, leftover>>

\* _audit_feedback: a failure is logged and forgotten.
AuditVote(v) ==
    /\ vote[v].at = "audit"
    /\ events' \in {events, events \cup {[of |-> vote[v].of, rating |-> vote[v].rating,
                                          ok |-> vote[v].ok]}}
    /\ vote' = [vote EXCEPT ![v] = IdleVote]
    /\ UNCHANGED <<collections, card, turn, served, kbNow, votes, history>>

HourPasses ==
    /\ kbNow < MaxKbNow
    /\ kbNow' = kbNow + 1
    /\ UNCHANGED <<collections, card, turn, served, vote, events, votes, history>>

KnowledgeNext ==
    \/ Question \/ LookUp \/ RouteQuestion \/ Capture \/ HourPasses
    \/ \E v \in Voters : Vote(v) \/ Fetch(v) \/ Upsert(v) \/ Delete(v) \/ Quarantine(v)
                         \/ AuditVote(v)

KnowledgeSpec == KnowledgeInit /\ [][KnowledgeNext]_knowledgeVars

-----------------------------------------------------------------------------
KnowledgeTypeOK ==
    /\ memory \cup runbooks \cup rejected \cup buried \cup leftover \subseteq Known
    /\ card \in [Known -> [about : Questions, at : 0..MaxKbNow]]
    /\ Known \subseteq Captures
    /\ origin \in [Known -> 0..MaxKbNow]
    /\ turn \in [at : {"idle", "asked", "routing", "answered"}, about : Questions \cup {"-"}]
    /\ served \in [of : Captures \cup {NoCapture}, how : {"-", "cache", "runbook"}, age : Nat]
    /\ vote \in [Voters -> [at : {"idle", "fetch", "upsert", "delete", "quarantine", "audit"},
                            of : Captures \cup {NoCapture}, rating : Ratings \cup {"-"},
                            ok : BOOLEAN]]
    /\ events \subseteq [of : Captures, rating : Ratings, ok : BOOLEAN]
    /\ kbNow \in 0..MaxKbNow /\ votes \in 0..MaxVotes

\* A captured answer is lost only to a quarantine: whatever step of its
\* promotion fails, and whoever promotes it at the same time, it is in
\* session_memory or in the runbooks (promote upserts before it deletes).
NeverLost == \A c \in Known \ rejected : c \in memory \cup runbooks

\* It is in both only while a promotion is about to delete it or was unable to.
NoDoubleSurface ==
    \A c \in memory \cap runbooks :
        c \in leftover \/ \E v \in Voters : vote[v].of = c /\ vote[v].at = "delete"

\* What a quarantine deleted before any promotion had read it is gone for
\* good: no later vote makes a runbook of it.
RejectedStaysAway == buried \cap (memory \cup runbooks) = {}

\* An accepted thumbs-up means that the runbook is there.
AcceptedIsKept == \A e \in events : e.rating = "up" /\ e.ok => e.of \in runbooks

PromotionMoves == NeverLost /\ NoDoubleSurface /\ RejectedStaysAway /\ AcceptedIsKept

\* The prompt cache answers with what was investigated in the last Lookback
\* hours: an answer it served does not come back with a new date.
CacheIsFresh == served.how = "cache" => served.age <= Lookback

KnowledgeIsSound == PromotionMoves /\ CacheIsFresh
=============================================================================
