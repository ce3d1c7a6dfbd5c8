------------------------------ MODULE ChatProofs ------------------------------
(***************************************************************************)
(* Theorems about the chat's parts side by side (MCChat), for every set of *)
(* turns, questions, captures, voters, values, writers and documents and   *)
(* every bound.                                                            *)
(***************************************************************************)
EXTENDS MCChat, FiniteSetTheorems, SequenceTheorems, WellFoundedInduction, TLAPS

\* A step of the composition is, for each part, a step of it or a stutter.
LEMMA StepOfEach ==
    ASSUME [Next]_vars
    PROVE  /\ [ChatNext]_chatVars
           /\ [KnowledgeNext]_knowledgeVars
           /\ [MemoryNext]_memoryVars
           /\ [ClientNext \/ LibraryNext]_storeVars
  BY DEF Next, vars

-----------------------------------------------------------------------------
(* What the chat learns.  A vote under way knows what it votes on; it      *)
(* deletes what is a runbook by then, it promotes nothing that was buried, *)
(* and what it reports as accepted is there.  A captured answer carries    *)
(* the time at which it was investigated.                                  *)

VotesFit ==
    \A v \in Voters :
        /\ vote[v].at # "idle" => vote[v].of \in Known /\ vote[v].rating \in Ratings
        /\ vote[v].at = "quarantine" => vote[v].rating = "down"
        /\ vote[v].at = "delete" => vote[v].of \in runbooks
        /\ vote[v].at = "audit" /\ vote[v].rating = "up" /\ vote[v].ok =>
              vote[v].of \in runbooks

BuriedIsNotPromoted == \A c \in buried : ~Promoting(c)

DatesAreOrigins ==
    \A c \in Known : card[c].at = origin[c] /\ origin[c] <= kbNow

TurnFits == turn.at # "idle" => turn.about \in Questions

KnowledgeInv ==
    /\ KnowledgeTypeOK
    /\ TurnFits
    /\ VotesFit
    /\ BuriedIsNotPromoted
    /\ DatesAreOrigins
    /\ KnowledgeIsSound

Cards == [about : Questions, at : 0..MaxKbNow]
Ballots == [at : {"idle", "fetch", "upsert", "delete", "quarantine", "audit"},
            of : Captures \cup {NoCapture}, rating : Ratings \cup {"-"}, ok : BOOLEAN]

LEMMA KnowledgeStart ==
    ASSUME KnowledgeInit
    PROVE  KnowledgeInv
<1>1. Known = {} /\ DOMAIN origin = {}
  BY DEF KnowledgeInit, Known
<1>2. KnowledgeTypeOK
  <2>1. card \in [Known -> Cards] /\ origin \in [Known -> 0..MaxKbNow]
    BY <1>1 DEF KnowledgeInit, Known
  <2> QED
    BY <1>1, <2>1, KnowledgeAssumption
    DEF KnowledgeInit, KnowledgeTypeOK, Cards, IdleTurn, IdleVote, NotServed
<1>3. TurnFits /\ VotesFit /\ BuriedIsNotPromoted /\ DatesAreOrigins /\ KnowledgeIsSound
  BY <1>1 DEF KnowledgeInit, IdleTurn, TurnFits, VotesFit, BuriedIsNotPromoted, DatesAreOrigins, KnowledgeIsSound,
     PromotionMoves, NeverLost, NoDoubleSurface, RejectedStaysAway, AcceptedIsKept, CacheIsFresh,
     IdleVote, NotServed
<1> QED
  BY <1>2, <1>3 DEF KnowledgeInv

\* Steps of the turn that store nothing.
LEMMA TurnKeepsKnowledge ==
    ASSUME KnowledgeInv, Question \/ LookUp \/ RouteQuestion
    PROVE  KnowledgeInv'
<1> USE DEF KnowledgeInv
<1>1. UNCHANGED <<collections, card, vote, events, kbNow, votes, history>>
  BY DEF Question, LookUp, RouteQuestion, Serve
<1>2. /\ turn' \in [at : {"idle", "asked", "routing", "answered"}, about : Questions \cup {"-"}]
      /\ TurnFits'
  BY DEF Question, LookUp, RouteQuestion, IdleTurn, KnowledgeTypeOK, TurnFits
<1>3. ASSUME NEW c \in Known
      PROVE  /\ c \in Captures
             /\ kbNow - origin[c] \in Nat
             /\ Recent(c) => kbNow - origin[c] <= Lookback
  BY KnowledgeAssumption DEF KnowledgeTypeOK, DatesAreOrigins, Recent
<1> DEFINE Servings == [of : Captures \cup {NoCapture}, how : {"-", "cache", "runbook"}, age : Nat]
<1>4. served' \in Servings /\ CacheIsFresh'
  <2>1. CASE served' = served \/ served' = NotServed
    BY <2>1 DEF KnowledgeTypeOK, CacheIsFresh, KnowledgeIsSound, NotServed
  <2>2. ASSUME NEW c \in memory, Recent(c), Serve(c, "cache")
        PROVE  served' \in Servings /\ CacheIsFresh'
    <3>1. c \in Known
      BY DEF KnowledgeTypeOK
    <3> QED
      BY <1>3, <2>2, <3>1 DEF Serve, CacheIsFresh
  <2>3. ASSUME NEW c \in runbooks, Serve(c, "runbook")
        PROVE  served' \in Servings /\ CacheIsFresh'
    <3>1. c \in Known
      BY DEF KnowledgeTypeOK
    <3> QED
      BY <1>3, <2>3, <3>1 DEF Serve, CacheIsFresh
  <2> QED
    BY <2>1, <2>2, <2>3 DEF Question, LookUp, RouteQuestion
<1> QED
  BY <1>1, <1>2, <1>4
  DEF collections, history, KnowledgeTypeOK, VotesFit, BuriedIsNotPromoted, DatesAreOrigins,
      KnowledgeIsSound, PromotionMoves, NeverLost, NoDoubleSurface, RejectedStaysAway,
      AcceptedIsKept, Promoting, Known


LEMMA CaptureKeepsKnowledge ==
    ASSUME KnowledgeInv, Capture
    PROVE  KnowledgeInv'
<1> USE DEF KnowledgeInv
<1>1. turn' = IdleTurn
      /\ UNCHANGED <<runbooks, served, vote, events, kbNow, votes, rejected, buried, leftover>>
  BY DEF Capture
<1>2. CASE UNCHANGED <<memory, card, origin>>
  BY <1>1, <1>2
  DEF IdleTurn, KnowledgeTypeOK, TurnFits, VotesFit, BuriedIsNotPromoted, DatesAreOrigins,
      KnowledgeIsSound, PromotionMoves, NeverLost, NoDoubleSurface, RejectedStaysAway,
      AcceptedIsKept, CacheIsFresh, Promoting, Known
<1>3. ASSUME NEW c \in Captures \ Known, Store(c, kbNow)
      PROVE  KnowledgeInv'
  <2> DEFINE more == Known \cup {c}
             made == [about |-> turn.about, at |-> kbNow]
  <2>1. made \in Cards /\ kbNow \in 0..MaxKbNow /\ kbNow <= kbNow
    BY KnowledgeAssumption DEF Capture, TurnFits, KnowledgeTypeOK, Cards
  <2>2. /\ card' = [x \in more |-> IF x = c THEN made ELSE card[x]]
        /\ origin' = [x \in more |-> IF x = c THEN kbNow ELSE origin[x]]
        /\ memory' = memory \cup {c}
    BY <1>3 DEF Store
  <2>3. Known' = more
    BY <2>2 DEF Known
  <2>4. \A x \in Known : card[x] \in Cards /\ origin[x] \in 0..MaxKbNow /\ x # c
    BY <1>3 DEF KnowledgeTypeOK, Cards
  <2>5. \A x \in more : card'[x] \in Cards /\ origin'[x] \in 0..MaxKbNow
    BY <2>1, <2>2, <2>4
  <2>6. card' \in [more -> Cards] /\ origin' \in [more -> 0..MaxKbNow]
    BY <2>2, <2>5
  <2>7. DatesAreOrigins'
    BY <1>1, <2>1, <2>2, <2>3, <2>4 DEF DatesAreOrigins
  <2> HIDE DEF made
  <2>8. KnowledgeTypeOK'
    BY <1>1, <1>3, <2>2, <2>3, <2>6 DEF KnowledgeTypeOK, Cards, IdleTurn
  <2>9. TurnFits' /\ VotesFit' /\ BuriedIsNotPromoted'
    BY <1>1, <2>3 DEF IdleTurn, TurnFits, VotesFit, BuriedIsNotPromoted, Promoting
  <2>10. KnowledgeIsSound'
    <3>1. c \notin runbooks /\ c \notin buried
      BY <1>3 DEF KnowledgeTypeOK
    <3> QED
      BY <1>1, <2>2, <2>3, <3>1
      DEF KnowledgeIsSound, PromotionMoves, NeverLost, NoDoubleSurface, RejectedStaysAway,
          AcceptedIsKept, CacheIsFresh
  <2> QED
    BY <2>7, <2>8, <2>9, <2>10
<1> QED
  BY <1>2, <1>3 DEF Capture

LEMMA HourKeepsKnowledge ==
    ASSUME KnowledgeInv, HourPasses
    PROVE  KnowledgeInv'
<1> USE DEF KnowledgeInv
<1>1. kbNow' \in 0..MaxKbNow /\ kbNow' = kbNow + 1 /\ kbNow \in 0..MaxKbNow
      /\ UNCHANGED <<collections, card, turn, served, vote, events, votes, history>>
  BY KnowledgeAssumption DEF HourPasses, KnowledgeTypeOK
<1>2. DatesAreOrigins'
  <2>1. \A c \in Known : origin[c] \in 0..MaxKbNow
    BY DEF KnowledgeTypeOK
  <2> QED
    BY <1>1, <2>1, KnowledgeAssumption DEF history, DatesAreOrigins, Known
<1> QED
  BY <1>1, <1>2
  DEF collections, history, KnowledgeTypeOK, TurnFits, VotesFit, BuriedIsNotPromoted,
      KnowledgeIsSound, PromotionMoves, NeverLost, NoDoubleSurface, RejectedStaysAway,
      AcceptedIsKept, CacheIsFresh, Promoting, Known

\* What a step of a vote leaves of the turn and the cards.
LEMMA VoteTouches ==
    ASSUME KnowledgeInv, NEW v \in Voters, NEW b \in Ballots,
           vote' = [vote EXCEPT ![v] = b],
           UNCHANGED <<card, turn, served, kbNow, origin>>,
           votes' \in 0..MaxVotes,
           memory' \cup runbooks' \cup rejected' \cup buried' \cup leftover' \subseteq Known,
           events' \subseteq [of : Captures, rating : Ratings, ok : BOOLEAN]
    PROVE  /\ KnowledgeTypeOK' /\ TurnFits' /\ DatesAreOrigins' /\ CacheIsFresh'
           /\ Known' = Known
           /\ vote'[v] = b /\ \A x \in Voters \ {v} : vote'[x] = vote[x]
<1> USE DEF KnowledgeInv
<1>1. vote \in [Voters -> Ballots]
  BY DEF KnowledgeTypeOK, Ballots
<1>2. vote' \in [Voters -> Ballots] /\ Known' = Known
  BY <1>1 DEF Known
<1>3. vote'[v] = b /\ \A x \in Voters \ {v} : vote'[x] = vote[x]
  BY <1>1
<1>4. KnowledgeTypeOK'
  BY <1>2 DEF KnowledgeTypeOK, Ballots
<1>5. TurnFits' /\ DatesAreOrigins' /\ CacheIsFresh'
  BY <1>2 DEF TurnFits, DatesAreOrigins, CacheIsFresh, KnowledgeIsSound
<1> QED
  BY <1>2, <1>3, <1>4, <1>5

LEMMA OutcomeIs ==
    ASSUME KnowledgeInv, NEW v \in Voters, NEW ok \in BOOLEAN, Outcome(v, ok)
    PROVE  \E b \in Ballots : /\ vote' = [vote EXCEPT ![v] = b]
                              /\ b.at = "audit" /\ b.ok = ok
                              /\ b.of = vote[v].of /\ b.rating = vote[v].rating
<1>1. vote \in [Voters -> Ballots]
  BY DEF KnowledgeInv, KnowledgeTypeOK, Ballots
<1>2. PICK old \in Ballots : old = vote[v]
  BY <1>1
<1>3. PICK b : b = [old EXCEPT !.at = "audit", !.ok = ok]
  OBVIOUS
<1>4. b \in Ballots /\ b.at = "audit" /\ b.ok = ok /\ b.of = old.of /\ b.rating = old.rating
  BY <1>3 DEF Ballots
<1>5. vote' = [vote EXCEPT ![v] = b]
  BY <1>1, <1>2, <1>3 DEF Outcome
<1> QED
  BY <1>2, <1>4, <1>5

LEMMA MovesIs ==
    ASSUME KnowledgeInv, NEW v \in Voters, NEW stage \in {"upsert", "delete"}, Moves(v, stage)
    PROVE  \E b \in Ballots : /\ vote' = [vote EXCEPT ![v] = b]
                              /\ b.at = stage
                              /\ b.of = vote[v].of /\ b.rating = vote[v].rating
<1>1. vote \in [Voters -> Ballots]
  BY DEF KnowledgeInv, KnowledgeTypeOK, Ballots
<1>2. PICK old \in Ballots : old = vote[v]
  BY <1>1
<1>3. PICK b : b = [old EXCEPT !.at = stage]
  OBVIOUS
<1>4. b \in Ballots /\ b.at = stage /\ b.of = old.of /\ b.rating = old.rating
  BY <1>3 DEF Ballots
<1>5. vote' = [vote EXCEPT ![v] = b]
  BY <1>1, <1>2, <1>3 DEF Moves
<1> QED
  BY <1>2, <1>4, <1>5

\* A vote that leaves the collections alone, and starts no promotion of a
\* buried capture nor ends one of a capture that would then be in both.
LEMMA VoteThatMovesNothing ==
    ASSUME KnowledgeInv, NEW v \in Voters, NEW b \in Ballots,
           vote' = [vote EXCEPT ![v] = b],
           UNCHANGED <<collections, card, turn, served, events, kbNow, history>>,
           votes' \in 0..MaxVotes,
           vote[v].at # "delete",
           b.at \notin {"idle", "delete"}, b.of \in Known, b.rating \in Ratings,
           b.at = "quarantine" => b.rating = "down",
           b.at = "upsert" => b.of \notin buried,
           b.at = "audit" /\ b.rating = "up" /\ b.ok => b.of \in runbooks
    PROVE  KnowledgeInv'
<1> USE DEF KnowledgeInv, collections, history
<1>1. /\ KnowledgeTypeOK' /\ TurnFits' /\ DatesAreOrigins' /\ CacheIsFresh' /\ Known' = Known
      /\ vote'[v] = b /\ \A x \in Voters \ {v} : vote'[x] = vote[x]
  BY VoteTouches DEF KnowledgeTypeOK
<1>2. VotesFit'
  BY <1>1 DEF VotesFit
<1>3. BuriedIsNotPromoted'
  BY <1>1 DEF BuriedIsNotPromoted, Promoting
<1>4. NoDoubleSurface'
  BY <1>1 DEF KnowledgeIsSound, PromotionMoves, NoDoubleSurface
<1>5. NeverLost' /\ RejectedStaysAway' /\ AcceptedIsKept'
  BY <1>1 DEF KnowledgeIsSound, PromotionMoves, NeverLost, RejectedStaysAway, AcceptedIsKept
<1> QED
  BY <1>1, <1>2, <1>3, <1>4, <1>5 DEF KnowledgeIsSound, PromotionMoves

LEMMA VoteStep ==
    ASSUME KnowledgeInv, NEW v \in Voters, Vote(v)
    PROVE  KnowledgeInv'
<1>1. PICK c \in Known, r \in Ratings :
          vote' = [vote EXCEPT ![v] = [at |-> IF r = "up" THEN "fetch" ELSE "quarantine",
                                       of |-> c, rating |-> r, ok |-> FALSE]]
  BY DEF Vote
<1>2. PICK b : b = [at |-> IF r = "up" THEN "fetch" ELSE "quarantine",
                    of |-> c, rating |-> r, ok |-> FALSE]
  OBVIOUS
<1>3. b \in Ballots /\ b.of = c /\ b.rating = r /\ b.at \in {"fetch", "quarantine"}
      /\ (b.at = "quarantine" => r = "down")
  BY <1>2 DEF Ballots, Ratings, KnowledgeInv, KnowledgeTypeOK
<1>4. votes' \in 0..MaxVotes /\ vote[v].at # "delete"
  BY KnowledgeAssumption DEF Vote, KnowledgeInv, KnowledgeTypeOK
<1> QED
  BY <1>1, <1>2, <1>3, <1>4, VoteThatMovesNothing DEF Vote

LEMMA FetchStep ==
    ASSUME KnowledgeInv, NEW v \in Voters, Fetch(v)
    PROVE  KnowledgeInv'
<1>1. /\ vote[v].at = "fetch" /\ vote[v].of \in Known /\ vote[v].rating \in Ratings
      /\ votes' \in 0..MaxVotes
      /\ UNCHANGED <<collections, card, turn, served, events, kbNow, history>>
  BY DEF Fetch, KnowledgeInv, KnowledgeTypeOK, VotesFit
<1>2. CASE vote[v].of \in memory /\ Moves(v, "upsert")
  <2>1. vote[v].of \notin buried
    BY <1>2 DEF KnowledgeInv, KnowledgeIsSound, PromotionMoves, RejectedStaysAway
  <2>2. PICK b \in Ballots : /\ vote' = [vote EXCEPT ![v] = b] /\ b.at = "upsert"
                             /\ b.of = vote[v].of /\ b.rating = vote[v].rating
    BY <1>2, MovesIs
  <2> QED
    BY <1>1, <2>1, <2>2, VoteThatMovesNothing
<1>3. ASSUME NEW ok \in BOOLEAN, Outcome(v, ok), ok => vote[v].of \in runbooks
      PROVE  KnowledgeInv'
  <2>1. PICK b \in Ballots : /\ vote' = [vote EXCEPT ![v] = b] /\ b.at = "audit" /\ b.ok = ok
                             /\ b.of = vote[v].of /\ b.rating = vote[v].rating
    BY <1>3, OutcomeIs
  <2> QED
    BY <1>1, <1>3, <2>1, VoteThatMovesNothing
<1> QED
  BY <1>2, <1>3 DEF Fetch

LEMMA UpsertStep ==
    ASSUME KnowledgeInv, NEW v \in Voters, Upsert(v)
    PROVE  KnowledgeInv'
<1> USE DEF KnowledgeInv, collections, history
<1> DEFINE c == vote[v].of
<1>1. /\ vote[v].at = "upsert" /\ c \in Known /\ vote[v].rating \in Ratings /\ c \notin buried
      /\ votes' \in 0..MaxVotes
      /\ UNCHANGED <<memory, card, turn, served, events, kbNow, history>>
  BY DEF Upsert, KnowledgeTypeOK, VotesFit, BuriedIsNotPromoted, Promoting
<1>2. CASE UNCHANGED runbooks /\ Outcome(v, FALSE)
  <2>1. PICK b \in Ballots : /\ vote' = [vote EXCEPT ![v] = b] /\ b.at = "audit" /\ b.ok = FALSE
                             /\ b.of = vote[v].of /\ b.rating = vote[v].rating
    BY <1>2, OutcomeIs
  <2> QED
    BY <1>1, <1>2, <2>1, VoteThatMovesNothing
<1>3. CASE runbooks' = runbooks \cup {c} /\ Moves(v, "delete")
  <2>1. PICK b \in Ballots : /\ vote' = [vote EXCEPT ![v] = b] /\ b.at = "delete"
                             /\ b.of = c /\ b.rating = vote[v].rating
    BY <1>3, MovesIs
  <2>2. /\ KnowledgeTypeOK' /\ TurnFits' /\ DatesAreOrigins' /\ CacheIsFresh' /\ Known' = Known
        /\ vote'[v] = b /\ \A x \in Voters \ {v} : vote'[x] = vote[x]
    BY <1>1, <1>3, <2>1, VoteTouches DEF KnowledgeTypeOK
  <2> HIDE DEF c
  <2>3. VotesFit'
    BY <1>1, <1>3, <2>1, <2>2 DEF VotesFit
  <2>4. BuriedIsNotPromoted'
    BY <1>1, <2>1, <2>2 DEF BuriedIsNotPromoted, Promoting
  <2>5. NoDoubleSurface'
    BY <1>1, <1>3, <2>1, <2>2 DEF KnowledgeIsSound, PromotionMoves, NoDoubleSurface
  <2>6. NeverLost' /\ RejectedStaysAway' /\ AcceptedIsKept'
    BY <1>1, <1>3, <2>2
    DEF KnowledgeIsSound, PromotionMoves, NeverLost, RejectedStaysAway, AcceptedIsKept
  <2> QED
    BY <2>2, <2>3, <2>4, <2>5, <2>6 DEF KnowledgeIsSound, PromotionMoves
<1> QED
  BY <1>2, <1>3 DEF Upsert

LEMMA DeleteStep ==
    ASSUME KnowledgeInv, NEW v \in Voters, Delete(v)
    PROVE  KnowledgeInv'
<1> USE DEF KnowledgeInv, collections, history
<1>1. PICK c \in Known : /\ c = vote[v].of /\ vote[v].at = "delete" /\ c \in runbooks
                         /\ vote[v].rating \in Ratings
  BY DEF Delete, VotesFit
<1>2. /\ votes' \in 0..MaxVotes
      /\ UNCHANGED <<runbooks, card, turn, served, events, kbNow, origin, rejected, buried>>
      /\ \/ memory' = memory \ {c} /\ leftover' = leftover \ {c}
         \/ memory' = memory /\ leftover' = leftover \cup {c}
  BY <1>1 DEF Delete, KnowledgeTypeOK
<1>3. PICK b \in Ballots : /\ vote' = [vote EXCEPT ![v] = b] /\ b.at = "audit" /\ b.ok = TRUE
                           /\ b.of = c /\ b.rating = vote[v].rating
  BY <1>1, OutcomeIs DEF Delete
<1>4. /\ KnowledgeTypeOK' /\ TurnFits' /\ DatesAreOrigins' /\ CacheIsFresh' /\ Known' = Known
      /\ vote'[v] = b /\ \A x \in Voters \ {v} : vote'[x] = vote[x]
  BY <1>1, <1>2, <1>3, VoteTouches DEF KnowledgeTypeOK
<1>5. VotesFit' /\ BuriedIsNotPromoted'
  BY <1>1, <1>2, <1>3, <1>4 DEF VotesFit, BuriedIsNotPromoted, Promoting
<1>6. NoDoubleSurface'
  <2> SUFFICES ASSUME NEW x \in memory' \cap runbooks', x \notin leftover'
               PROVE  \E w \in Voters : vote'[w].of = x /\ vote'[w].at = "delete"
    BY DEF NoDoubleSurface
  <2>1. x \in memory \cap runbooks /\ x # c /\ x \notin leftover
    BY <1>2
  <2>2. PICK w \in Voters : vote[w].of = x /\ vote[w].at = "delete"
    BY <2>1 DEF KnowledgeIsSound, PromotionMoves, NoDoubleSurface
  <2>3. w # v
    BY <1>1, <2>1, <2>2
  <2> QED
    BY <1>4, <2>2, <2>3
<1>7. NeverLost' /\ RejectedStaysAway' /\ AcceptedIsKept'
  BY <1>1, <1>2, <1>4
  DEF KnowledgeIsSound, PromotionMoves, NeverLost, RejectedStaysAway, AcceptedIsKept
<1> QED
  BY <1>4, <1>5, <1>6, <1>7 DEF KnowledgeIsSound, PromotionMoves

LEMMA QuarantineStep ==
    ASSUME KnowledgeInv, NEW v \in Voters, Quarantine(v)
    PROVE  KnowledgeInv'
<1> USE DEF KnowledgeInv, collections, history
<1>1. PICK c \in Known : /\ c = vote[v].of /\ vote[v].at = "quarantine"
                         /\ vote[v].rating = "down"
  BY DEF Quarantine, VotesFit
<1>2. PICK b \in Ballots : /\ vote' = [vote EXCEPT ![v] = b] /\ b.at = "audit" /\ b.ok = TRUE
                           /\ b.of = c /\ b.rating = "down"
  BY <1>1, OutcomeIs DEF Quarantine
<1>3. /\ votes' \in 0..MaxVotes
      /\ UNCHANGED <<runbooks, card, turn, served, events, kbNow, origin, leftover>>
  BY DEF Quarantine, KnowledgeTypeOK
<1>4. CASE UNCHANGED <<memory, rejected, buried>>
  BY <1>1, <1>2, <1>3, <1>4, VoteThatMovesNothing DEF Ratings
<1>5. CASE /\ memory' = memory \ {c}
           /\ rejected' = rejected \cup {c}
           /\ buried' = IF Promoting(c) \/ c \in runbooks THEN buried ELSE buried \cup {c}
  <2>1. /\ KnowledgeTypeOK' /\ TurnFits' /\ DatesAreOrigins' /\ CacheIsFresh' /\ Known' = Known
        /\ vote'[v] = b /\ \A x \in Voters \ {v} : vote'[x] = vote[x]
    BY <1>2, <1>3, <1>5, VoteTouches DEF KnowledgeTypeOK
  <2>2. VotesFit'
    BY <1>2, <1>3, <2>1 DEF VotesFit, Ratings
  <2>3. BuriedIsNotPromoted'
    <3>1. \A x : Promoting(x)' => Promoting(x)
      BY <1>2, <2>1 DEF Promoting
    <3> QED
      BY <1>5, <3>1 DEF BuriedIsNotPromoted
  <2>4. NoDoubleSurface'
    <3>1. \A w \in Voters : vote[w].at = "delete" => vote'[w] = vote[w]
      BY <1>1, <2>1
    <3> QED
      BY <1>3, <1>5, <3>1 DEF KnowledgeIsSound, PromotionMoves, NoDoubleSurface
  <2>5. NeverLost' /\ RejectedStaysAway' /\ AcceptedIsKept'
    BY <1>3, <1>5, <2>1
    DEF KnowledgeIsSound, PromotionMoves, NeverLost, RejectedStaysAway, AcceptedIsKept
  <2> QED
    BY <2>1, <2>2, <2>3, <2>4, <2>5 DEF KnowledgeIsSound, PromotionMoves
<1> QED
  BY <1>1, <1>4, <1>5 DEF Quarantine

LEMMA AuditStep ==
    ASSUME KnowledgeInv, NEW v \in Voters, AuditVote(v)
    PROVE  KnowledgeInv'
<1> USE DEF KnowledgeInv, collections, history
<1>1. PICK e : e = [of |-> vote[v].of, rating |-> vote[v].rating, ok |-> vote[v].ok]
  OBVIOUS
<1>2. /\ vote[v].at = "audit" /\ vote[v].of \in Captures /\ vote[v].rating \in Ratings
      /\ vote[v].ok \in BOOLEAN
      /\ vote[v].rating = "up" /\ vote[v].ok => vote[v].of \in runbooks
  BY DEF AuditVote, VotesFit, KnowledgeTypeOK
<1>3. events' \subseteq events \cup {e}
  BY <1>1 DEF AuditVote
<1>4. /\ e \in [of : Captures, rating : Ratings, ok : BOOLEAN]
      /\ e.rating = "up" /\ e.ok => e.of \in runbooks
  BY <1>1, <1>2
<1>5. IdleVote \in Ballots /\ vote' = [vote EXCEPT ![v] = IdleVote]
      /\ votes' \in 0..MaxVotes
      /\ UNCHANGED <<collections, card, turn, served, kbNow, history>>
  BY DEF AuditVote, IdleVote, Ballots, KnowledgeTypeOK
<1>6. events' \subseteq [of : Captures, rating : Ratings, ok : BOOLEAN]
  BY <1>3, <1>4 DEF KnowledgeTypeOK
<1>7. /\ KnowledgeTypeOK' /\ TurnFits' /\ DatesAreOrigins' /\ CacheIsFresh' /\ Known' = Known
      /\ vote'[v] = IdleVote /\ \A x \in Voters \ {v} : vote'[x] = vote[x]
  BY <1>5, <1>6, VoteTouches DEF KnowledgeTypeOK
<1>8. VotesFit' /\ BuriedIsNotPromoted'
  BY <1>5, <1>7 DEF VotesFit, BuriedIsNotPromoted, Promoting, IdleVote
<1>9. NoDoubleSurface'
  BY <1>2, <1>5, <1>7 DEF KnowledgeIsSound, PromotionMoves, NoDoubleSurface
<1>10. AcceptedIsKept'
  BY <1>3, <1>4, <1>5 DEF KnowledgeIsSound, PromotionMoves, AcceptedIsKept
<1>11. NeverLost' /\ RejectedStaysAway'
  BY <1>5, <1>7 DEF KnowledgeIsSound, PromotionMoves, NeverLost, RejectedStaysAway
<1> QED
  BY <1>7, <1>8, <1>9, <1>10, <1>11 DEF KnowledgeIsSound, PromotionMoves

LEMMA KnowledgeSteps ==
    ASSUME KnowledgeInv, [KnowledgeNext]_knowledgeVars
    PROVE  KnowledgeInv'
<1>1. CASE KnowledgeNext
  BY <1>1, TurnKeepsKnowledge, CaptureKeepsKnowledge, HourKeepsKnowledge, VoteStep, FetchStep,
     UpsertStep, DeleteStep, QuarantineStep, AuditStep DEF KnowledgeNext
<1>2. CASE UNCHANGED knowledgeVars
  BY <1>2
  DEF knowledgeVars, KnowledgeInv, KnowledgeTypeOK, TurnFits, VotesFit, BuriedIsNotPromoted,
      DatesAreOrigins, KnowledgeIsSound, PromotionMoves, NeverLost, NoDoubleSurface,
      RejectedStaysAway, AcceptedIsKept, CacheIsFresh, Promoting, Known
<1> QED
  BY <1>1, <1>2

\* An answer worth keeping is lost only to a quarantine, a rejected one stays
\* away, an accepted one is kept, and the cache is fresh (KnowledgeIsSound).
THEOREM KnowledgeHolds == Spec => []KnowledgeIsSound
<1>1. Init => KnowledgeInv
  BY KnowledgeStart DEF Init
<1>2. KnowledgeInv /\ [Next]_vars => KnowledgeInv'
  BY KnowledgeSteps, StepOfEach
<1>3. KnowledgeInv => KnowledgeIsSound
  BY DEF KnowledgeInv
<1> QED
  BY <1>1, <1>2, <1>3, PTL DEF Spec

-----------------------------------------------------------------------------
(* The turns.  Until its worker is closing a turn has said no ending and   *)
(* stored no answer; from then on its ending is the last it said, but for  *)
(* the sentinel of a stream.  A turn that has not begun has no row.        *)

Traits == [live : BOOLEAN, static : BOOLEAN, context : BOOLEAN, protected : BOOLEAN,
           inventory : BOOLEAN]
Row == [turn : Turns, role : {"user", "greeting", "assistant", "stored"}, whole : BOOLEAN]

Talking(t) == at[t] \notin {"closing", "gone"}
IsAnswer(r, t) == r.turn = t /\ r.role \in {"assistant", "stored"}

TurnsTyped ==
    /\ ChatTypeOK
    /\ said \in [Turns -> Seq(Kinds)] /\ sent \in [Turns -> Nat]
    /\ prompt \in [Turns -> Traits]

EndingOf(t) ==
    /\ Talking(t) => \A i \in DOMAIN said[t] : said[t][i] \notin Endings
    /\ at[t] = "closing" \/ (at[t] = "gone" /\ t \in plain) =>
          /\ Len(said[t]) > 0
          /\ \A i \in DOMAIN said[t] : said[t][i] \in Endings <=> i = Len(said[t])
    /\ at[t] = "gone" /\ t \notin plain =>
          /\ Len(said[t]) > 1 /\ said[t][Len(said[t])] = "end"
          /\ \A i \in DOMAIN said[t] : said[t][i] \in Endings <=> i = Len(said[t]) - 1

EndingsFit == \A t \in Turns : EndingOf(t)

AnswersOf(t) ==
    /\ at[t] = "new" => \A i \in DOMAIN rows : rows[i].turn # t
    /\ Talking(t) => \A i \in DOMAIN rows : ~IsAnswer(rows[i], t)
    /\ \A i, j \in DOMAIN rows : IsAnswer(rows[i], t) /\ IsAnswer(rows[j], t) => i = j
    /\ ~Talking(t) /\ "done" \in ToSet(said[t]) /\ t \notin lost \cup cleared =>
          \E i \in DOMAIN rows : IsAnswer(rows[i], t)

AnswersFit == \A t \in Turns : AnswersOf(t)

TurnsInv ==
    /\ TurnsTyped
    /\ EndingsFit
    /\ AnswersFit
    /\ StoredIsWhole
    /\ LiveIsNotStored

LEMMA TurnsStart ==
    ASSUME ChatInit
    PROVE  TurnsInv
<1>1. TurnsTyped
  <2>1. NoPrompt \in Traits
    BY DEF NoPrompt, Traits
  <2>2. <<>> \in Seq(Kinds) /\ Len(<<>>) = 0 /\ <<>> \in Seq(Row)
    OBVIOUS
  <2> QED
    BY <2>1, <2>2, ChatAssumption DEF ChatInit, TurnsTyped, ChatTypeOK, Stages, Row
<1>2. EndingsFit /\ AnswersFit /\ StoredIsWhole /\ LiveIsNotStored
  BY DEF ChatInit, EndingsFit, EndingOf, AnswersFit, AnswersOf, StoredIsWhole, LiveIsNotStored, Talking
<1> QED
  BY <1>1, <1>2 DEF TurnsInv

\* The elements of the sequences.
LEMMA TurnsElements ==
    ASSUME TurnsInv
    PROVE  /\ Len(rows) \in Nat /\ DOMAIN rows = 1..Len(rows)
           /\ \A i \in DOMAIN rows : rows[i] \in Row /\ rows[i].turn \in Turns
           /\ \A t \in Turns : /\ Len(said[t]) \in Nat /\ sent[t] \in Nat
                              /\ sent[t] <= Len(said[t])
<1>1. rows \in Seq(Row)
  BY DEF TurnsInv, TurnsTyped, ChatTypeOK, Row
<1>2. Len(rows) \in Nat /\ DOMAIN rows = 1..Len(rows)
  BY <1>1
<1>3. \A i \in DOMAIN rows : rows[i] \in Row
  BY <1>1
<1>4. \A r \in Row : r.turn \in Turns
  BY DEF Row
<1>5. ASSUME NEW t \in Turns
      PROVE  Len(said[t]) \in Nat /\ sent[t] \in Nat /\ sent[t] <= Len(said[t])
  <2>1. said[t] \in Seq(Kinds)
    BY DEF TurnsInv, TurnsTyped
  <2>2. sent[t] \in 0..Len(said[t])
    BY DEF TurnsInv, TurnsTyped, ChatTypeOK
  <2> QED
    BY <2>1, <2>2
<1> QED
  BY <1>2, <1>3, <1>4, <1>5

\* What a step does not touch stays fit.
LEMMA EndingKept ==
    ASSUME NEW x \in Turns, EndingOf(x), at'[x] = at[x], said'[x] = said[x],
           x \in plain' <=> x \in plain
    PROVE  EndingOf(x)'
<1>1. DOMAIN said'[x] = DOMAIN said[x] /\ Len(said'[x]) = Len(said[x])
  OBVIOUS
<1> QED
  BY <1>1 DEF EndingOf, Talking

LEMMA AnswersKept ==
    ASSUME NEW x \in Turns, AnswersOf(x), at'[x] = at[x], said'[x] = said[x],
           UNCHANGED <<rows, lost, cleared>>
    PROVE  AnswersOf(x)'
<1>1. ToSet(said'[x]) = ToSet(said[x])
  OBVIOUS
<1> QED
  BY <1>1 DEF AnswersOf, IsAnswer, Talking

\* One word.
LEMMA OneWord ==
    \A k \in Kinds : <<k>> \in Seq(Kinds) /\ Len(<<k>>) = 1 /\ <<k>>[1] = k
                    /\ \A i \in 1..Len(<<k>>) : <<k>>[i] = k
  OBVIOUS

\* The sound turns follow.
LEMMA TurnsSound ==
    ASSUME TurnsInv
    PROVE  TurnsAreSound
<1>1. ASSUME NEW t \in Turns
      PROVE  /\ \A i \in Ending(t) : i = Len(said[t]) \/ said[t][i + 1] = "end"
             /\ Cardinality(Ending(t)) <= 1
  <2>1. said[t] \in Seq(Kinds) /\ Len(said[t]) \in Nat /\ DOMAIN said[t] = 1..Len(said[t])
    BY DEF TurnsInv, TurnsTyped
  <2>2. \/ Ending(t) = {}
        \/ Ending(t) = {Len(said[t])}
        \/ /\ Ending(t) = {Len(said[t]) - 1} /\ Len(said[t]) > 1
           /\ said[t][Len(said[t])] = "end"
    <3>1. CASE Talking(t)
      BY <3>1 DEF TurnsInv, EndingsFit, EndingOf, Ending
    <3>2. CASE at[t] = "closing" \/ (at[t] = "gone" /\ t \in plain)
      <4>1. Len(said[t]) \in DOMAIN said[t]
        BY <2>1, <3>2 DEF TurnsInv, EndingsFit, EndingOf
      <4> QED
        BY <3>2, <4>1 DEF TurnsInv, EndingsFit, EndingOf, Ending
    <3>3. CASE at[t] = "gone" /\ t \notin plain
      <4>1. Len(said[t]) - 1 \in DOMAIN said[t]
        BY <2>1, <3>3 DEF TurnsInv, EndingsFit, EndingOf
      <4> QED
        BY <3>3, <4>1 DEF TurnsInv, EndingsFit, EndingOf, Ending
    <3> QED
      BY <3>1, <3>2, <3>3 DEF Talking
  <2>3. Cardinality(Ending(t)) <= 1
    <3>1. CASE Ending(t) = {}
      BY <3>1, FS_EmptySet
    <3>2. ASSUME NEW i, Ending(t) = {i}
          PROVE  Cardinality(Ending(t)) <= 1
      <4>1. Cardinality(Ending(t)) = 1
        BY <3>2, FS_Singleton
      <4> QED
        BY <4>1
    <3> QED
      BY <2>2, <3>1, <3>2
  <2>4. \A i \in Ending(t) : i = Len(said[t]) \/ said[t][i + 1] = "end"
    BY <2>1, <2>2
  <2> QED
    BY <2>3, <2>4
<1>2. ASSUME NEW t \in Turns
      PROVE  /\ Cardinality(Answers(t)) <= 1
             /\ "done" \in ToSet(said[t]) /\ t \notin lost \cup cleared => Answers(t) # {}
  <2>1. Answers(t) = {i \in DOMAIN rows : IsAnswer(rows[i], t)}
    BY DEF Answers, IsAnswer
  <2>2. Cardinality(Answers(t)) <= 1
    <3>1. CASE Answers(t) = {}
      BY <3>1, FS_EmptySet
    <3>2. ASSUME NEW i \in Answers(t)
          PROVE  Cardinality(Answers(t)) <= 1
      <4>1. Answers(t) = {i}
        BY <2>1, <3>2 DEF TurnsInv, AnswersFit, AnswersOf
      <4> QED
        BY <4>1, FS_Singleton
    <3> QED
      BY <3>1, <3>2
  <2>3. "done" \in ToSet(said[t]) => ~Talking(t)
    BY DEF TurnsInv, EndingsFit, EndingOf, ToSet, Endings
  <2> QED
    BY <2>1, <2>2, <2>3 DEF TurnsInv, AnswersFit, AnswersOf
<1> QED
  BY <1>1, <1>2 DEF TurnsInv, TurnsAreSound, TurnIsSound, OneEnding

(* What a worker says while it goes on, and when it concludes with e. *)
SaysOthersSame(t) ==
    /\ said' \in [Turns -> Seq(Kinds)]
    /\ \A x \in Turns \ {t} : said'[x] = said[x]
    /\ Len(said[t]) <= Len(said'[t])

GoesOnSaying(t) ==
    /\ SaysOthersSame(t)
    /\ \A i \in DOMAIN said'[t] : said'[t][i] \notin Endings

Concludes(t, e) ==
    /\ SaysOthersSame(t)
    /\ Len(said'[t]) > 0 /\ said'[t][Len(said'[t])] = e
    /\ \A i \in DOMAIN said'[t] : said'[t][i] \in Endings <=> i = Len(said'[t])

LEMMA SaysNothing ==
    ASSUME TurnsInv, NEW t \in Turns, Talking(t), said' = said
    PROVE  GoesOnSaying(t)
  BY DEF TurnsInv, TurnsTyped, EndingsFit, EndingOf, GoesOnSaying, SaysOthersSame

\* The whole of what was said when some is added.
LEMMA SaysMore ==
    ASSUME TurnsInv, NEW t \in Turns, NEW kinds \in Seq(Kinds), Says(t, kinds)
    PROVE  /\ SaysOthersSame(t)
           /\ Len(said'[t]) = Len(said[t]) + Len(kinds)
           /\ \A i \in 1..Len(said[t]) : said'[t][i] = said[t][i]
           /\ \A i \in 1..Len(kinds) : said'[t][Len(said[t]) + i] = kinds[i]
<1>1. said[t] \in Seq(Kinds) /\ Len(said[t]) \in Nat /\ Len(kinds) \in Nat
  BY DEF TurnsInv, TurnsTyped
<1>0. PICK old \in Seq(Kinds) : old = said[t]
  BY <1>1
<1>2. PICK more \in Seq(Kinds) : more = said[t] \o kinds
  <2>1. old \o kinds \in Seq(Kinds)
    OBVIOUS
  <2> QED
    BY <1>0, <2>1
<1>3. /\ Len(more) = Len(said[t]) + Len(kinds)
      /\ \A i \in 1..Len(said[t]) : more[i] = said[t][i]
      /\ \A i \in 1..Len(kinds) : more[Len(said[t]) + i] = kinds[i]
  BY <1>0, <1>1, <1>2
<1>4. said' = [said EXCEPT ![t] = more]
  BY <1>2 DEF Says
<1>5. said'[t] = more
  BY <1>4 DEF TurnsInv, TurnsTyped
<1> QED
  BY <1>1, <1>3, <1>4, <1>5 DEF TurnsInv, TurnsTyped, SaysOthersSame

LEMMA SaysGoesOn ==
    ASSUME TurnsInv, NEW t \in Turns, Talking(t), NEW kinds \in Seq(Kinds), Says(t, kinds),
           \A i \in 1..Len(kinds) : kinds[i] \notin Endings
    PROVE  GoesOnSaying(t)
<1>1. Len(said[t]) \in Nat /\ Len(kinds) \in Nat /\ said'[t] \in Seq(Kinds)
  BY SaysMore DEF TurnsInv, TurnsTyped, SaysOthersSame
<1>2. \A i \in 1..Len(said[t]) : said'[t][i] \notin Endings
  BY <1>1, SaysMore DEF TurnsInv, TurnsTyped, EndingsFit, EndingOf
<1>3. \A i \in DOMAIN said'[t] : \/ i \in 1..Len(said[t])
                                 \/ /\ i - Len(said[t]) \in 1..Len(kinds)
                                    /\ i = Len(said[t]) + (i - Len(said[t]))
  BY <1>1, SaysMore
<1>a. \A i \in 1..Len(kinds) : said'[t][Len(said[t]) + i] = kinds[i]
  BY SaysMore
<1>4. \A i \in DOMAIN said'[t] : said'[t][i] \notin Endings
  <2>1. TAKE i \in DOMAIN said'[t]
  <2>2. CASE i \in 1..Len(said[t])
    BY <1>2, <2>2
  <2>3. ASSUME NEW k \in 1..Len(kinds), i = Len(said[t]) + k
        PROVE  said'[t][i] \notin Endings
    BY <1>a, <2>3
  <2> QED
    BY <1>3, <2>2, <2>3
<1> QED
  BY <1>4, SaysMore DEF GoesOnSaying

LEMMA SaysEnding ==
    ASSUME TurnsInv, NEW t \in Turns, Talking(t), NEW kinds \in Seq(Kinds), Says(t, kinds),
           NEW e \in Endings, Len(kinds) \in 1..2, kinds[Len(kinds)] = e,
           Len(kinds) = 2 => kinds[1] \notin Endings
    PROVE  Concludes(t, e)
<1>1. Len(said[t]) \in Nat /\ Len(kinds) \in Nat /\ said'[t] \in Seq(Kinds)
      /\ Len(said'[t]) = Len(said[t]) + Len(kinds)
  BY SaysMore DEF TurnsInv, TurnsTyped, SaysOthersSame
<1>2. \A i \in 1..Len(said[t]) : said'[t][i] \notin Endings
  BY <1>1, SaysMore DEF TurnsInv, TurnsTyped, EndingsFit, EndingOf
<1>a. \A i \in 1..Len(kinds) : said'[t][Len(said[t]) + i] = kinds[i]
  BY SaysMore
<1>3. said'[t][Len(said'[t])] = e
  <2>1. Len(kinds) \in 1..Len(kinds)
    <3>1. \A n \in 1..2 : n \in 1..n
      OBVIOUS
    <3> QED
      BY <3>1
  <2>2. said'[t][Len(said[t]) + Len(kinds)] = e
    BY <1>a, <2>1
  <2> QED
    BY <1>1, <2>2
<1>4. Len(kinds) = 2 => said'[t][Len(said[t]) + 1] \notin Endings
  BY <1>1, <1>a
<1>5. \A i \in DOMAIN said'[t] : \/ i \in 1..Len(said[t])
                                 \/ Len(kinds) = 2 /\ i = Len(said[t]) + 1
                                 \/ i = Len(said'[t])
  BY <1>1
<1>6. \A i \in DOMAIN said'[t] : said'[t][i] \in Endings <=> i = Len(said'[t])
  BY <1>1, <1>2, <1>3, <1>4, <1>5
<1> QED
  BY <1>1, <1>3, <1>6, SaysMore DEF Concludes

(* The rows after a worker's step.                                         *)
Stored(t, role, whole) ==
    rows' = Append(rows, [turn |-> t, role |-> role, whole |-> whole]) /\ lost' = lost

LEMMA AppendRow ==
    ASSUME TurnsInv, NEW t \in Turns, NEW role \in {"user", "greeting", "assistant", "stored"},
           NEW whole \in BOOLEAN, Stored(t, role, whole)
    PROVE  /\ rows' \in Seq(Row)
           /\ Len(rows) \in Nat /\ DOMAIN rows = 1..Len(rows)
           /\ DOMAIN rows' = 1..(Len(rows) + 1)
           /\ \A i \in DOMAIN rows : rows'[i] = rows[i] /\ rows[i] \in Row
           /\ LET r == rows'[Len(rows) + 1]
              IN  r \in Row /\ r.turn = t /\ r.role = role /\ r.whole = whole
<1>1. rows \in Seq(Row)
  BY DEF TurnsInv, TurnsTyped, ChatTypeOK, Row
<1>2. PICK r \in Row : r = [turn |-> t, role |-> role, whole |-> whole]
  BY DEF Row
<1>3. rows' = Append(rows, r)
  BY <1>2 DEF Stored
<1> QED
  BY <1>1, <1>2, <1>3

\* The row of one turn is none of the others'.
LEMMA OthersRowsFit ==
    ASSUME TurnsInv, NEW t \in Turns, NEW role \in {"user", "greeting", "assistant", "stored"},
           NEW whole \in BOOLEAN, Stored(t, role, whole),
           NEW x \in Turns \ {t}, at'[x] = at[x], said'[x] = said[x], cleared' = cleared
    PROVE  AnswersOf(x)'
<1>1. /\ Len(rows) \in Nat /\ DOMAIN rows = 1..Len(rows)
      /\ DOMAIN rows' = 1..(Len(rows) + 1)
      /\ \A i \in DOMAIN rows : rows'[i] = rows[i]
      /\ rows'[Len(rows) + 1].turn = t
  BY AppendRow
<1>2. \A i \in DOMAIN rows' : rows'[i].turn = x => i \in DOMAIN rows
  BY <1>1
<1>3. \A i \in DOMAIN rows : i \in DOMAIN rows' /\ rows'[i] = rows[i]
  BY <1>1
<1>4. AnswersOf(x)
  BY DEF TurnsInv, AnswersFit
<1>5. at'[x] = "new" => \A i \in DOMAIN rows' : rows'[i].turn # x
  BY <1>2, <1>3, <1>4 DEF AnswersOf
<1>6. \A i \in DOMAIN rows' : IsAnswer(rows'[i], x) => i \in DOMAIN rows /\ IsAnswer(rows[i], x)
  BY <1>2, <1>3 DEF IsAnswer
<1>7. at'[x] \notin {"closing", "gone"} => \A i \in DOMAIN rows' : ~IsAnswer(rows'[i], x)
  BY <1>4, <1>6 DEF AnswersOf, Talking
<1>8. \A i, j \in DOMAIN rows' : IsAnswer(rows'[i], x) /\ IsAnswer(rows'[j], x) => i = j
  BY <1>4, <1>6 DEF AnswersOf
<1>9. at'[x] \in {"closing", "gone"} /\ "done" \in ToSet(said'[x]) /\ x \notin lost' \cup cleared' =>
          \E i \in DOMAIN rows' : IsAnswer(rows'[i], x)
  BY <1>3, <1>4 DEF AnswersOf, Talking, Stored
<1> QED
  BY <1>5, <1>7, <1>8, <1>9 DEF AnswersOf, Talking, IsAnswer

\* A worker that goes on stores at most a message of the user, or a greeting.
LEMMA GoesOnSound ==
    ASSUME TurnsInv, NEW t \in Turns, Talking(t), at[t] # "new",
           NEW stage \in Stages \ {"new", "closing", "gone"}, Goes(t, stage),
           GoesOnSaying(t),
           Quietly \/ \E role \in {"user", "greeting"} : Persist(t, role, TRUE),
           tools' \subseteq Turns, Rest
    PROVE  TurnsInv'
<1>1. /\ at' \in [Turns -> Stages] /\ at'[t] = stage
      /\ \A x \in Turns \ {t} : at'[x] = at[x]
  BY DEF TurnsInv, TurnsTyped, ChatTypeOK, Goes
<1>2. said' \in [Turns -> Seq(Kinds)] /\ \A x \in Turns \ {t} : said'[x] = said[x]
  BY DEF GoesOnSaying, SaysOthersSame
<1>3. EndingsFit'
  BY <1>1, <1>2 DEF TurnsInv, EndingsFit, EndingOf, GoesOnSaying, Talking, Rest
<1>4. lost' \subseteq Turns /\ lost \subseteq lost'
  BY DEF Quietly, Persist, TurnsInv, TurnsTyped, ChatTypeOK
<1>5. \A x \in Turns : sent'[x] \in 0..Len(said'[x])
  <2>1. \A x \in Turns : Len(said'[x]) \in Nat
    BY <1>2
  <2> QED
    BY <1>2, <2>1, TurnsElements DEF GoesOnSaying, SaysOthersSame, Rest
<1>6. rows' \in Seq(Row) => TurnsTyped'
  BY <1>1, <1>2, <1>4, <1>5 DEF TurnsInv, TurnsTyped, ChatTypeOK, Rest, Row
<1>7. CASE rows' = rows
  <2>1. rows' \in Seq(Row)
    BY <1>7 DEF TurnsInv, TurnsTyped, ChatTypeOK, Row
  <2>2. AnswersFit'
    BY <1>1, <1>2, <1>4, <1>7 DEF TurnsInv, AnswersFit, AnswersOf, Talking, IsAnswer, Rest
  <2>3. StoredIsWhole' /\ LiveIsNotStored'
    BY <1>7 DEF TurnsInv, StoredIsWhole, LiveIsNotStored, Rest
  <2> QED
    BY <1>3, <1>6, <2>1, <2>2, <2>3 DEF TurnsInv
<1>8. ASSUME NEW role \in {"user", "greeting"}, Stored(t, role, TRUE)
      PROVE  TurnsInv'
  <2>1. /\ rows' \in Seq(Row)
        /\ Len(rows) \in Nat /\ DOMAIN rows = 1..Len(rows)
        /\ DOMAIN rows' = 1..(Len(rows) + 1)
        /\ \A i \in DOMAIN rows : rows'[i] = rows[i]
        /\ rows'[Len(rows) + 1].turn = t /\ rows'[Len(rows) + 1].role = role
        /\ rows'[Len(rows) + 1].whole
    BY <1>8, AppendRow
  <2>2. \A i \in DOMAIN rows' : i \in DOMAIN rows \/ i = Len(rows) + 1
    BY <2>1
  <2>3. \A x : ~IsAnswer(rows'[Len(rows) + 1], x)
    BY <2>1 DEF IsAnswer
  <2>4. AnswersFit'
    <3>1. \A i \in DOMAIN rows : i \in DOMAIN rows' /\ rows'[i] = rows[i]
      BY <2>1
    <3>2. AnswersOf(t)
      BY DEF TurnsInv, AnswersFit
    <3>3. \A i \in DOMAIN rows' : ~IsAnswer(rows'[i], t)
      BY <2>2, <2>3, <3>1, <3>2 DEF AnswersOf
    <3>4. AnswersOf(t)'
      BY <1>1, <3>3 DEF AnswersOf, Talking, IsAnswer
    <3>5. \A x \in Turns \ {t} : AnswersOf(x)'
      BY <1>1, <1>2, <1>8, OthersRowsFit DEF Rest
    <3> QED
      BY <3>4, <3>5 DEF AnswersFit
  <2>5. StoredIsWhole' /\ LiveIsNotStored'
    BY <2>1, <2>2 DEF TurnsInv, StoredIsWhole, LiveIsNotStored, Rest
  <2> QED
    BY <1>3, <1>6, <2>1, <2>4, <2>5 DEF TurnsInv
<1>9. \/ rows' = rows \/ \E role \in {"user", "greeting"} : Stored(t, role, TRUE)
  BY DEF Quietly, Persist, Stored
<1> QED
  BY <1>7, <1>8, <1>9

\* A worker that concludes is closing, and has stored its answer if it says so.
LEMMA ConcludesSound ==
    ASSUME TurnsInv, NEW t \in Turns, Talking(t), at[t] # "new", Goes(t, "closing"),
           NEW e \in Endings, Concludes(t, e),
           \/ Quietly /\ e # "done"
           \/ \E role \in {"assistant", "stored"}, whole \in BOOLEAN :
                 /\ Persist(t, role, whole)
                 /\ role = "stored" => ~prompt[t].live
                 /\ whole \/ stream[t] # "open",
           tools' \subseteq Turns, Rest
    PROVE  TurnsInv'
<1>1. /\ at' \in [Turns -> Stages] /\ at'[t] = "closing"
      /\ \A x \in Turns \ {t} : at'[x] = at[x]
  BY DEF TurnsInv, TurnsTyped, ChatTypeOK, Goes, Stages
<1>2. said' \in [Turns -> Seq(Kinds)] /\ \A x \in Turns \ {t} : said'[x] = said[x]
  BY DEF Concludes, SaysOthersSame
<1>3. EndingsFit'
  BY <1>1, <1>2 DEF TurnsInv, EndingsFit, EndingOf, Concludes, Talking, Rest
<1>4. lost' \subseteq Turns /\ lost \subseteq lost'
  BY DEF Quietly, Persist, TurnsInv, TurnsTyped, ChatTypeOK
<1>5. \A x \in Turns : sent'[x] \in 0..Len(said'[x])
  <2>1. \A x \in Turns : Len(said'[x]) \in Nat
    BY <1>2
  <2> QED
    BY <1>2, <2>1, TurnsElements DEF Concludes, SaysOthersSame, Rest
<1>6. rows' \in Seq(Row) => TurnsTyped'
  BY <1>1, <1>2, <1>4, <1>5 DEF TurnsInv, TurnsTyped, ChatTypeOK, Rest, Row
<1>7. CASE rows' = rows /\ (e # "done" \/ t \in lost')
  <2>1. rows' \in Seq(Row)
    BY <1>7 DEF TurnsInv, TurnsTyped, ChatTypeOK, Row
  <2>2. "done" \in ToSet(said'[t]) => t \in lost'
    BY <1>2, <1>7 DEF Concludes, ToSet, Endings
  <2>3. AnswersFit'
    BY <1>1, <1>2, <1>4, <1>7, <2>2 DEF TurnsInv, AnswersFit, AnswersOf, Talking, IsAnswer, Rest
  <2>4. StoredIsWhole' /\ LiveIsNotStored'
    BY <1>7 DEF TurnsInv, StoredIsWhole, LiveIsNotStored, Rest
  <2> QED
    BY <1>3, <1>6, <2>1, <2>3, <2>4 DEF TurnsInv
<1>8. ASSUME NEW role \in {"assistant", "stored"}, NEW whole \in BOOLEAN,
             Stored(t, role, whole), role = "stored" => ~prompt[t].live,
             whole \/ stream[t] # "open"
      PROVE  TurnsInv'
  <2>1. /\ rows' \in Seq(Row)
        /\ Len(rows) \in Nat /\ DOMAIN rows = 1..Len(rows)
        /\ DOMAIN rows' = 1..(Len(rows) + 1)
        /\ \A i \in DOMAIN rows : rows'[i] = rows[i]
        /\ rows'[Len(rows) + 1].turn = t /\ rows'[Len(rows) + 1].role = role
        /\ rows'[Len(rows) + 1].whole = whole
    BY <1>8, AppendRow
  <2>2. \A i \in DOMAIN rows' : i \in DOMAIN rows \/ i = Len(rows) + 1
    BY <2>1
  <2>3. /\ IsAnswer(rows'[Len(rows) + 1], t)
        /\ \A x \in Turns \ {t} : ~IsAnswer(rows'[Len(rows) + 1], x)
    BY <2>1 DEF IsAnswer
  <2>4. \A i \in DOMAIN rows : ~IsAnswer(rows'[i], t)
    BY <2>1 DEF TurnsInv, AnswersFit, AnswersOf
  <2>5. AnswersFit'
    <3>1. /\ \A i \in DOMAIN rows : i \in DOMAIN rows'
          /\ Len(rows) + 1 \in DOMAIN rows'
      BY <2>1
    <3>2. AnswersOf(t)'
      BY <1>1, <2>2, <2>3, <2>4, <3>1 DEF AnswersOf, Talking, IsAnswer
    <3>3. \A x \in Turns \ {t} : AnswersOf(x)'
      BY <1>1, <1>2, <1>8, OthersRowsFit DEF Rest
    <3> QED
      BY <3>2, <3>3 DEF AnswersFit
  <2>6. StoredIsWhole' /\ LiveIsNotStored'
    BY <1>8, <2>1, <2>2 DEF TurnsInv, StoredIsWhole, LiveIsNotStored, Rest
  <2> QED
    BY <1>3, <1>6, <2>1, <2>5, <2>6 DEF TurnsInv
<1>9. \/ rows' = rows /\ (e # "done" \/ t \in lost')
      \/ \E role \in {"assistant", "stored"}, whole \in BOOLEAN :
            /\ Stored(t, role, whole)
            /\ role = "stored" => ~prompt[t].live
            /\ whole \/ stream[t] # "open"
  BY DEF Quietly, Persist, Stored
<1> QED
  BY <1>7, <1>8, <1>9

(* The three ways of a worker's step: in silence, with words, to its end.  *)

LEMMA GoesOnSilently ==
    ASSUME TurnsInv, NEW t \in Turns, NEW stage \in Stages \ {"new", "closing", "gone"},
           at[t] \notin {"new", "closing", "gone"}, Goes(t, stage), UNCHANGED said,
           Quietly \/ \E role \in {"user", "greeting"} : Persist(t, role, TRUE),
           tools' \subseteq Turns, Rest
    PROVE  TurnsInv'
<1>1. Talking(t) /\ GoesOnSaying(t)
  BY SaysNothing DEF Talking
<1> QED
  BY <1>1, GoesOnSound

LEMMA GoesOnSpeaking ==
    ASSUME TurnsInv, NEW t \in Turns, NEW stage \in Stages \ {"new", "closing", "gone"},
           at[t] \notin {"new", "closing", "gone"}, Goes(t, stage),
           NEW kinds \in Seq(Kinds), Says(t, kinds),
           \A i \in 1..Len(kinds) : kinds[i] \notin Endings,
           Quietly \/ \E role \in {"user", "greeting"} : Persist(t, role, TRUE),
           tools' \subseteq Turns, Rest
    PROVE  TurnsInv'
<1>1. Talking(t) /\ GoesOnSaying(t)
  BY SaysGoesOn DEF Talking
<1> QED
  BY <1>1, GoesOnSound

\* What a worker says at its end.
Finale(kinds, e) ==
    /\ kinds \in Seq(Kinds) /\ Len(kinds) \in 1..2 /\ kinds[Len(kinds)] = e
    /\ Len(kinds) = 2 => kinds[1] \notin Endings

LEMMA Finales ==
    /\ \A e \in Endings : Finale(<<e>>, e)
    /\ \A e \in Endings, k \in Kinds \ Endings : Finale(<<k, e>>, e)
<1>1. \A e \in Endings : e \in Kinds
  BY DEF Kinds
<1> QED
  BY <1>1 DEF Finale

\* What two sequences of words say one after the other.
LEMMA JoinedWords ==
    ASSUME NEW these \in Seq(Kinds), NEW those \in Seq(Kinds)
    PROVE  /\ these \o those \in Seq(Kinds)
           /\ Len(these \o those) = Len(these) + Len(those)
           /\ \A i \in 1..Len(these) : (these \o those)[i] = these[i]
           /\ \A i \in 1..Len(those) : (these \o those)[Len(these) + i] = those[i]
  OBVIOUS

LEMMA EndsTheTurn ==
    ASSUME TurnsInv, NEW t \in Turns, at[t] \notin {"new", "closing", "gone"},
           Goes(t, "closing"), NEW kinds, NEW e \in Endings, Finale(kinds, e), Says(t, kinds),
           \/ Quietly /\ e # "done"
           \/ \E role \in {"assistant", "stored"}, whole \in BOOLEAN :
                 /\ Persist(t, role, whole)
                 /\ role = "stored" => ~prompt[t].live
                 /\ whole \/ stream[t] # "open",
           tools' \subseteq Turns, Rest
    PROVE  TurnsInv'
<1>1. Talking(t) /\ Concludes(t, e)
  BY SaysEnding DEF Talking, Finale
<1> QED
  BY <1>1, ConcludesSound

-----------------------------------------------------------------------------
(* The steps of a worker. *)

LEMMA PersistUserSound ==
    ASSUME TurnsInv, NEW t \in Turns, PersistUser(t)
    PROVE  TurnsInv'
  BY GoesOnSilently DEF PersistUser, Stages, TurnsInv, TurnsTyped, ChatTypeOK

LEMMA ConnectSound ==
    ASSUME TurnsInv, NEW t \in Turns, Connect(t)
    PROVE  TurnsInv'
<1>1. /\ at[t] \notin {"new", "closing", "gone"} /\ Quietly /\ Rest
      /\ tools' \subseteq Turns
  BY DEF Connect, TurnsInv, TurnsTyped, ChatTypeOK
<1>2. CASE Goes(t, "triage") /\ UNCHANGED said
  BY <1>1, <1>2, GoesOnSilently DEF Stages
<1>3. ASSUME NEW e \in {"error", "unavailable"}, Goes(t, "closing"), Says(t, <<e>>)
      PROVE  TurnsInv'
  <2>1. e \in Endings /\ e # "done" /\ Finale(<<e>>, e)
    BY Finales DEF Endings
  <2> QED
    BY <1>1, <1>3, <2>1, EndsTheTurn
<1> QED
  BY <1>2, <1>3 DEF Connect

LEMMA TriageSound ==
    ASSUME TurnsInv, NEW t \in Turns, Triage(t)
    PROVE  TurnsInv'
<1>1. /\ at[t] \notin {"new", "closing", "gone"} /\ Rest /\ tools' \subseteq Turns
      /\ Goes(t, "routing") /\ "routing" \in Stages \ {"new", "closing", "gone"}
  BY DEF Triage, TurnsInv, TurnsTyped, ChatTypeOK, Stages
<1>2. CASE Quietly /\ UNCHANGED said
  BY <1>1, <1>2, GoesOnSilently
<1>3. CASE Says(t, <<"greeting">>) /\ Persist(t, "greeting", TRUE)
  <2>1. /\ <<"greeting">> \in Seq(Kinds)
        /\ \A i \in 1..Len(<<"greeting">>) : <<"greeting">>[i] \notin Endings
    BY OneWord DEF Kinds, Endings
  <2> QED
    BY <1>1, <1>3, <2>1, GoesOnSpeaking
<1> QED
  BY <1>2, <1>3 DEF Triage

LEMMA SingleShotSound ==
    ASSUME TurnsInv, NEW t \in Turns, at[t] \notin {"new", "closing", "gone"}, Rest,
           NEW notice \in {<<>>, <<"notice">>}, SingleShot(t, notice)
    PROVE  TurnsInv'
<1>1. tools' \subseteq Turns
  BY DEF SingleShot, TurnsInv, TurnsTyped, ChatTypeOK
<1>2. Persist(t, "assistant", TRUE) /\ Goes(t, "closing")
  BY DEF SingleShot
<1>3. PICK kinds : Says(t, kinds) /\ Finale(kinds, "done")
  <2>1. /\ notice \in Seq(Kinds) /\ <<"done">> \in Seq(Kinds)
        /\ Len(<<"done">>) = 1 /\ <<"done">>[1] = "done"
        /\ Len(notice) = 0 \/ (Len(notice) = 1 /\ notice[1] \notin Endings)
    <3>1. "done" \in Kinds /\ "notice" \in Kinds /\ "notice" \notin Endings
      BY DEF Endings, Kinds
    <3>2. <<>> \in Seq(Kinds) /\ Len(<<>>) = 0
      OBVIOUS
    <3>3. CASE notice = <<>>
      BY <3>1, <3>2, <3>3, OneWord
    <3>4. CASE notice = <<"notice">>
      <4>1. notice \in Seq(Kinds) /\ Len(notice) = 1 /\ notice[1] = "notice"
        BY <3>1, <3>4, OneWord
      <4> QED
        BY <3>1, <4>1, OneWord
    <3> QED
      BY <3>3, <3>4
  <2>2. Finale(notice \o <<"done">>, "done")
    <3>1. PICK kinds : kinds = notice \o <<"done">>
      OBVIOUS
    <3>2. /\ kinds \in Seq(Kinds) /\ Len(kinds) = Len(notice) + 1
          /\ \A i \in 1..Len(notice) : kinds[i] = notice[i]
          /\ \A i \in 1..1 : kinds[Len(notice) + i] = "done"
      BY <2>1, <3>1, JoinedWords
    <3>3. kinds[Len(notice) + 1] = "done"
      BY <3>2
    <3> QED
      BY <2>1, <3>1, <3>2, <3>3 DEF Finale
  <2>3. Says(t, notice \o <<"done">>)
    BY DEF SingleShot
  <2> QED
    BY <2>2, <2>3
<1> QED
  BY <1>1, <1>2, <1>3, EndsTheTurn DEF Endings

LEMMA FailsSound ==
    ASSUME TurnsInv, NEW t \in Turns, at[t] \notin {"new", "closing", "gone"}, Rest, Fails(t)
    PROVE  TurnsInv'
<1>1. "error" \in Endings /\ Finale(<<"error">>, "error")
  BY Finales DEF Endings
<1> QED
  BY <1>1, EndsTheTurn DEF Fails, TurnsInv, TurnsTyped, ChatTypeOK

LEMMA PlainFailsSound ==
    ASSUME TurnsInv, NEW t \in Turns, at[t] \notin {"new", "closing", "gone"}, Rest,
           PlainFails(t)
    PROVE  TurnsInv'
<1>1. "done" \in Endings /\ Finale(<<"done">>, "done")
  BY Finales DEF Endings
<1> QED
  BY <1>1, EndsTheTurn DEF PlainFails, TurnsInv, TurnsTyped, ChatTypeOK

LEMMA RouteSound ==
    ASSUME TurnsInv, NEW t \in Turns, Route(t)
    PROVE  TurnsInv'
<1>1. at[t] \notin {"new", "closing", "gone"} /\ Rest
  BY DEF Route
<1>2. CASE Goes(t, "fast") /\ Quietly /\ UNCHANGED <<said, tools>>
  BY <1>1, <1>2, GoesOnSilently DEF Stages, TurnsInv, TurnsTyped, ChatTypeOK
<1> QED
  BY <1>1, <1>2, SingleShotSound, FailsSound DEF Route

LEMMA FastPathSound ==
    ASSUME TurnsInv, NEW t \in Turns, FastPath(t)
    PROVE  TurnsInv'
<1>1. /\ at[t] \notin {"new", "closing", "gone"} /\ Rest /\ tools' \subseteq Turns
      /\ Quietly
  BY DEF FastPath, TurnsInv, TurnsTyped, ChatTypeOK
<1>2. CASE Goes(t, "cache") /\ UNCHANGED said
  BY <1>1, <1>2, GoesOnSilently DEF Stages
<1>3. CASE Goes(t, "chatting") /\ Says(t, <<"answer_start">>)
  <2>1. /\ <<"answer_start">> \in Seq(Kinds) /\ "chatting" \in Stages \ {"new", "closing", "gone"}
        /\ \A i \in 1..Len(<<"answer_start">>) : <<"answer_start">>[i] \notin Endings
    BY OneWord DEF Kinds, Endings, Stages
  <2> QED
    BY <1>1, <1>3, <2>1, GoesOnSpeaking
<1> QED
  BY <1>2, <1>3 DEF FastPath

LEMMA ChattingSound ==
    ASSUME TurnsInv, NEW t \in Turns, Chatting(t)
    PROVE  TurnsInv'
<1>1. /\ at[t] \notin {"new", "closing", "gone"} /\ Rest /\ tools' \subseteq Turns
      /\ at[t] = "chatting" /\ at \in [Turns -> Stages]
  BY DEF Chatting, TurnsInv, TurnsTyped, ChatTypeOK
<1>2. CASE Says(t, <<"token">>) /\ UNCHANGED at /\ Quietly
  <2>1. /\ <<"token">> \in Seq(Kinds) /\ "chatting" \in Stages \ {"new", "closing", "gone"}
        /\ \A i \in 1..Len(<<"token">>) : <<"token">>[i] \notin Endings
    BY OneWord DEF Kinds, Endings, Stages
  <2>2. Goes(t, "chatting")
    BY <1>1, <1>2 DEF Goes
  <2> QED
    BY <1>1, <1>2, <2>1, <2>2, GoesOnSpeaking
<1>3. CASE GiveUp(t)
  BY <1>1, <1>3, GoesOnSilently DEF GiveUp, Stages
<1>4. CASE /\ Persist(t, "assistant", ~Cancelled(t))
           /\ Says(t, <<"answer_end", "done">>)
           /\ Goes(t, "closing")
  <2>1. "done" \in Endings /\ Finale(<<"answer_end", "done">>, "done")
    BY Finales DEF Endings, Kinds
  <2>2. PICK whole \in BOOLEAN : whole = ~Cancelled(t)
    OBVIOUS
  <2>3. whole \/ stream[t] # "open"
    BY <2>2 DEF Cancelled
  <2> QED
    BY <1>1, <1>4, <2>1, <2>2, <2>3, EndsTheTurn
<1> QED
  BY <1>2, <1>3, <1>4 DEF Chatting

LEMMA PromptCacheSound ==
    ASSUME TurnsInv, NEW t \in Turns, PromptCache(t)
    PROVE  TurnsInv'
<1>1. /\ at[t] \notin {"new", "closing", "gone"} /\ Rest /\ tools' \subseteq Turns
  BY DEF PromptCache, TurnsInv, TurnsTyped, ChatTypeOK
<1>2. CASE Goes(t, "kb") /\ Quietly /\ UNCHANGED said
  BY <1>1, <1>2, GoesOnSilently DEF Stages
<1>3. CASE Cacheable(t) /\ Persist(t, "stored", TRUE) /\ Says(t, <<"cache_hit", "done">>)
           /\ Goes(t, "closing")
  <2>1. "done" \in Endings /\ Finale(<<"cache_hit", "done">>, "done")
    BY Finales DEF Endings, Kinds
  <2> QED
    BY <1>1, <1>3, <2>1, EndsTheTurn DEF Cacheable
<1> QED
  BY <1>2, <1>3 DEF PromptCache

LEMMA KnowledgeBaseSound ==
    ASSUME TurnsInv, NEW t \in Turns, KnowledgeBase(t)
    PROVE  TurnsInv'
<1>1. /\ at[t] \notin {"new", "closing", "gone"} /\ Rest /\ tools' \subseteq Turns
  BY DEF KnowledgeBase, TurnsInv, TurnsTyped, ChatTypeOK
<1>2. CASE Goes(t, "react") /\ Quietly /\ UNCHANGED said
  BY <1>1, <1>2, GoesOnSilently DEF Stages
<1>3. CASE Goes(t, "react") /\ Quietly /\ Says(t, <<"kb_route">>)
  <2>1. /\ <<"kb_route">> \in Seq(Kinds) /\ "react" \in Stages \ {"new", "closing", "gone"}
        /\ \A i \in 1..Len(<<"kb_route">>) : <<"kb_route">>[i] \notin Endings
    BY OneWord DEF Kinds, Endings, Stages
  <2> QED
    BY <1>1, <1>3, <2>1, GoesOnSpeaking
<1>4. CASE ~prompt[t].live /\ Persist(t, "stored", TRUE) /\ Says(t, <<"kb_route", "done">>)
           /\ Goes(t, "closing")
  <2>1. "done" \in Endings /\ Finale(<<"kb_route", "done">>, "done")
    BY Finales DEF Endings, Kinds
  <2> QED
    BY <1>1, <1>4, <2>1, EndsTheTurn
<1> QED
  BY <1>2, <1>3, <1>4 DEF KnowledgeBase

LEMMA ReactSound ==
    ASSUME TurnsInv, NEW t \in Turns, React(t)
    PROVE  TurnsInv'
<1>1. at[t] \notin {"new", "closing", "gone"} /\ Rest
  BY DEF React
<1>2. ASSUME NEW finale \in {<<>>, <<"answer_start", "token", "answer_end">>},
             tools' \in {tools, tools \cup {t}}, Says(t, <<"step">> \o finale),
             Goes(t, "answering"), Quietly
      PROVE  TurnsInv'
  <2>1. tools' \subseteq Turns
    BY <1>2 DEF TurnsInv, TurnsTyped, ChatTypeOK
  <2>2. PICK kinds \in Seq(Kinds) :
            /\ kinds = <<"step">> \o finale
            /\ \A i \in 1..Len(kinds) : kinds[i] \notin Endings
    <3>1. /\ <<"step">> \in Seq(Kinds) /\ finale \in Seq(Kinds)
          /\ Len(<<"step">>) = 1 /\ <<"step">>[1] \notin Endings
          /\ Len(finale) \in Nat /\ \A i \in 1..Len(finale) : finale[i] \notin Endings
      <4>1. /\ "step" \in Kinds /\ "step" \notin Endings
            /\ \A k \in {"answer_start", "token", "answer_end"} : k \in Kinds /\ k \notin Endings
        BY DEF Kinds, Endings
      <4>2. CASE finale = <<>>
        BY <4>1, <4>2, OneWord
      <4>3. CASE finale = <<"answer_start", "token", "answer_end">>
        <5>1. /\ finale \in Seq({"answer_start", "token", "answer_end"})
              /\ Len(finale) = 3
          BY <4>3
        <5>2. /\ finale \in Seq(Kinds)
              /\ \A i \in 1..3 : finale[i] \in {"answer_start", "token", "answer_end"}
          BY <4>1, <4>3, <5>1
        <5> QED
          BY <4>1, <5>1, <5>2, OneWord
      <4> QED
        BY <4>2, <4>3
    <3>2. PICK kinds : kinds = <<"step">> \o finale
      OBVIOUS
    <3>3. /\ kinds \in Seq(Kinds) /\ Len(kinds) = 1 + Len(finale)
          /\ \A i \in 1..1 : kinds[i] = <<"step">>[i]
          /\ \A i \in 1..Len(finale) : kinds[1 + i] = finale[i]
      BY <3>1, <3>2, JoinedWords
    <3>4. \A i \in 1..Len(kinds) : kinds[i] \notin Endings
      <4>1. \A i \in 1..Len(kinds) : i = 1 \/ (i - 1 \in 1..Len(finale) /\ i = 1 + (i - 1))
        BY <3>1, <3>3
      <4>2. kinds[1] \notin Endings
        BY <3>1, <3>3
      <4>3. \A i \in 1..Len(finale) : kinds[1 + i] \notin Endings
        BY <3>1, <3>3
      <4> QED
        BY <4>1, <4>2, <4>3
    <3> QED
      BY <3>2, <3>3, <3>4
  <2> QED
    BY <1>1, <1>2, <2>1, <2>2, GoesOnSpeaking DEF Stages
<1> QED
  BY <1>1, <1>2, FailsSound DEF React

LEMMA AnswerSound ==
    ASSUME TurnsInv, NEW t \in Turns, Answer(t)
    PROVE  TurnsInv'
<1>1. "done" \in Endings /\ Finale(<<"done">>, "done")
  BY Finales DEF Endings
<1> QED
  BY <1>1, EndsTheTurn DEF Answer, TurnsInv, TurnsTyped, ChatTypeOK

LEMMA PlainConnectSound ==
    ASSUME TurnsInv, NEW t \in Turns, PlainConnect(t)
    PROVE  TurnsInv'
<1>1. /\ at[t] \notin {"new", "closing", "gone"} /\ Rest /\ tools' \subseteq Turns
  BY DEF PlainConnect, TurnsInv, TurnsTyped, ChatTypeOK
<1>2. CASE Goes(t, "plain routing") /\ Persist(t, "user", TRUE) /\ UNCHANGED said
  BY <1>1, <1>2, GoesOnSilently DEF Stages
<1>3. CASE Goes(t, "closing") /\ Says(t, <<"unavailable">>) /\ Quietly
  <2>1. "unavailable" \in Endings /\ Finale(<<"unavailable">>, "unavailable")
    BY Finales DEF Endings
  <2> QED
    BY <1>1, <1>3, <2>1, EndsTheTurn
<1> QED
  BY <1>2, <1>3 DEF PlainConnect

LEMMA PlainRouteSound ==
    ASSUME TurnsInv, NEW t \in Turns, PlainRoute(t)
    PROVE  TurnsInv'
<1>1. at[t] \notin {"new", "closing", "gone"} /\ Rest
  BY DEF PlainRoute
<1>2. CASE Goes(t, "plain kb") /\ Quietly /\ UNCHANGED <<said, tools>>
  BY <1>1, <1>2, GoesOnSilently DEF Stages, TurnsInv, TurnsTyped, ChatTypeOK
<1> QED
  BY <1>1, <1>2, SingleShotSound, PlainFailsSound DEF PlainRoute

LEMMA PlainKnowledgeSound ==
    ASSUME TurnsInv, NEW t \in Turns, PlainKnowledge(t)
    PROVE  TurnsInv'
<1>1. /\ at[t] \notin {"new", "closing", "gone"} /\ Rest /\ tools' \subseteq Turns
  BY DEF PlainKnowledge, TurnsInv, TurnsTyped, ChatTypeOK
<1>2. CASE Goes(t, "plain react") /\ Quietly /\ UNCHANGED said
  BY <1>1, <1>2, GoesOnSilently DEF Stages
<1>3. CASE ~prompt[t].live /\ Persist(t, "stored", TRUE) /\ Says(t, <<"done">>)
           /\ Goes(t, "closing")
  <2>1. "done" \in Endings /\ Finale(<<"done">>, "done")
    BY Finales DEF Endings
  <2> QED
    BY <1>1, <1>3, <2>1, EndsTheTurn
<1> QED
  BY <1>2, <1>3 DEF PlainKnowledge

LEMMA PlainReactSound ==
    ASSUME TurnsInv, NEW t \in Turns, PlainReact(t)
    PROVE  TurnsInv'
<1>1. at[t] \notin {"new", "closing", "gone"} /\ Rest
  BY DEF PlainReact
<1>2. CASE tools' \in {tools, tools \cup {t}} /\ Goes(t, "answering") /\ Quietly
           /\ UNCHANGED said
  <2>1. tools' \subseteq Turns
    BY <1>2 DEF TurnsInv, TurnsTyped, ChatTypeOK
  <2> QED
    BY <1>1, <1>2, <2>1, GoesOnSilently DEF Stages
<1> QED
  BY <1>1, <1>2, PlainFailsSound DEF PlainReact

\* The sentinel of a stream comes after its ending; the plain endpoint has none.
LEMMA FinishSound ==
    ASSUME TurnsInv, NEW t \in Turns, Finish(t)
    PROVE  TurnsInv'
<1>1. /\ at' \in [Turns -> Stages] /\ at'[t] = "gone" /\ at[t] = "closing"
      /\ \A x \in Turns \ {t} : at'[x] = at[x]
  BY DEF TurnsInv, TurnsTyped, ChatTypeOK, Finish, Goes, Stages
<1>2. /\ said[t] \in Seq(Kinds) /\ Len(said[t]) \in Nat
      /\ Len(said[t]) > 0 /\ DOMAIN said[t] = 1..Len(said[t])
      /\ \A i \in 1..Len(said[t]) : said[t][i] \in Endings <=> i = Len(said[t])
  BY <1>1 DEF TurnsInv, TurnsTyped, EndingsFit, EndingOf
<1>3. PICK word \in Seq(Kinds) :
          /\ Says(t, word)
          /\ t \in plain => Len(word) = 0
          /\ t \notin plain => Len(word) = 1 /\ word[1] = "end"
  <2>1. <<>> \in Seq(Kinds) /\ Len(<<>>) = 0
    OBVIOUS
  <2>2. "end" \in Kinds
    BY DEF Kinds
  <2> QED
    BY <2>1, <2>2, OneWord DEF Finish
<1>4. /\ SaysOthersSame(t)
      /\ Len(said'[t]) = Len(said[t]) + Len(word)
      /\ \A i \in 1..Len(said[t]) : said'[t][i] = said[t][i]
      /\ \A i \in 1..Len(word) : said'[t][Len(said[t]) + i] = word[i]
  BY <1>3, SaysMore
<1>5. said' \in [Turns -> Seq(Kinds)] /\ \A x \in Turns \ {t} : said'[x] = said[x]
  BY <1>4 DEF SaysOthersSame
<1>6. said'[t] \in Seq(Kinds) /\ DOMAIN said'[t] = 1..Len(said'[t])
  BY <1>5
<1>7. t \in plain => EndingOf(t)'
  <2> SUFFICES ASSUME t \in plain
               PROVE  EndingOf(t)'
    OBVIOUS
  <2>1. Len(said'[t]) = Len(said[t])
    BY <1>2, <1>3, <1>4
  <2>2. /\ Len(said'[t]) > 0
        /\ \A i \in DOMAIN said'[t] : said'[t][i] \in Endings <=> i = Len(said'[t])
    BY <1>2, <1>4, <1>6, <2>1
  <2> QED
    BY <1>1, <2>2 DEF EndingOf, Talking, Finish, Rest
<1>8. t \notin plain => EndingOf(t)'
  <2> SUFFICES ASSUME t \notin plain
               PROVE  EndingOf(t)'
    OBVIOUS
  <2>1. /\ Len(said'[t]) = Len(said[t]) + 1
        /\ \A i \in 1..1 : said'[t][Len(said[t]) + i] = word[i]
    BY <1>3, <1>4
  <2>2. said'[t][Len(said[t]) + 1] = "end" /\ "end" \notin Endings
    <3>1. word[1] = "end"
      BY <1>3
    <3> QED
      BY <2>1, <3>1 DEF Endings
  <2>3. \A i \in DOMAIN said'[t] : i \in 1..Len(said[t]) \/ i = Len(said[t]) + 1
    BY <1>2, <1>6, <2>1
  <2>4. \A i \in DOMAIN said'[t] : said'[t][i] \in Endings <=> i = Len(said[t])
    BY <1>2, <1>4, <2>2, <2>3
  <2> QED
    BY <1>1, <1>2, <2>1, <2>2, <2>4 DEF EndingOf, Talking, Finish, Rest
<1>9. EndingsFit'
  <2>1. \A x \in Turns \ {t} : EndingOf(x)'
    BY <1>1, <1>5, EndingKept DEF TurnsInv, EndingsFit, Finish, Rest
  <2> QED
    BY <1>7, <1>8, <2>1 DEF EndingsFit
<1>10. "done" \in ToSet(said'[t]) => "done" \in ToSet(said[t])
  <2>1. \A i \in 1..Len(word) : word[i] # "done"
    <3>1. \A i \in 1..1 : i = 1
      OBVIOUS
    <3> QED
      BY <1>3, <3>1
  <2>a. Len(word) \in Nat
    BY <1>3
  <2>2. \A i \in 1..Len(word) : said'[t][Len(said[t]) + i] # "done"
    BY <1>4, <2>1
  <2>3. \A i \in DOMAIN said'[t] : \/ i \in 1..Len(said[t])
                                   \/ /\ i - Len(said[t]) \in 1..Len(word)
                                      /\ i = Len(said[t]) + (i - Len(said[t]))
    BY <1>2, <1>4, <1>6, <2>a
  <2>4. \A i \in DOMAIN said'[t] : said'[t][i] = "done" => i \in 1..Len(said[t])
    BY <2>2, <2>3
  <2> QED
    BY <1>2, <1>4, <2>4 DEF ToSet
<1>11. AnswersFit'
  <2>1. UNCHANGED <<rows, lost, cleared>>
    BY DEF Finish, Quietly, Rest
  <2>2. AnswersOf(t)'
    BY <1>1, <1>10, <2>1 DEF TurnsInv, AnswersFit, AnswersOf, Talking, IsAnswer, Endings, EndingsFit, EndingOf, ToSet
  <2>3. \A x \in Turns \ {t} : AnswersOf(x)'
    BY <1>1, <1>5, <2>1 DEF TurnsInv, AnswersFit, AnswersOf, Talking, IsAnswer
  <2> QED
    BY <2>2, <2>3 DEF AnswersFit
<1>12. \A x \in Turns : sent'[x] \in 0..Len(said'[x])
  <2>1. \A x \in Turns : Len(said'[x]) \in Nat
    BY <1>5
  <2> QED
    BY <1>4, <1>5, <2>1, TurnsElements DEF SaysOthersSame, Finish, Rest
<1>13. TurnsTyped'
  BY <1>1, <1>5, <1>12 DEF TurnsInv, TurnsTyped, ChatTypeOK, Finish, Rest, Quietly
<1>14. StoredIsWhole' /\ LiveIsNotStored'
  BY DEF TurnsInv, StoredIsWhole, LiveIsNotStored, Finish, Rest, Quietly
<1> QED
  BY <1>9, <1>11, <1>13, <1>14 DEF TurnsInv

LEMMA WorkerSound ==
    ASSUME TurnsInv, NEW t \in Turns, WorkerStep(t)
    PROVE  TurnsInv'
  BY PlainConnectSound, PlainRouteSound, PlainKnowledgeSound, PlainReactSound,
     PersistUserSound, ConnectSound, TriageSound, RouteSound, FastPathSound,
     ChattingSound, PromptCacheSound, KnowledgeBaseSound, ReactSound, AnswerSound,
     FinishSound
  DEF WorkerStep

-----------------------------------------------------------------------------
(* A turn begins with no row and nothing said; the client and the history.  *)

LEMMA ProfilesTyped == \A p \in Profiles : p \in Traits
<1>1. ASSUME NEW words
      PROVE  Profile(words) \in Traits
  <2>1. PICK live \in BOOLEAN : live = LooksLive(words)
    BY DEF LooksLive
  <2>2. PICK static \in BOOLEAN : static = LooksStatic(words)
    BY DEF LooksStatic
  <2>3. PICK context \in BOOLEAN : context = LooksContext(words)
    BY DEF LooksContext
  <2>4. PICK protected \in BOOLEAN : protected = Protected(words)
    BY DEF Protected
  <2>5. PICK inventory \in BOOLEAN : inventory = Inventory(words)
    BY DEF Inventory
  <2> QED
    BY <2>1, <2>2, <2>3, <2>4, <2>5 DEF Profile, Traits
<1> QED
  BY <1>1 DEF Profiles

LEMMA AskSound ==
    ASSUME TurnsInv, NEW t \in Turns, Ask(t)
    PROVE  TurnsInv'
<1>1. PICK stage \in Stages \ {"new", "closing", "gone"} : Goes(t, stage)
  BY DEF Ask, Stages
<1>2. /\ at' \in [Turns -> Stages] /\ at'[t] = stage /\ at[t] = "new"
      /\ \A x \in Turns \ {t} : at'[x] = at[x]
  BY <1>1 DEF TurnsInv, TurnsTyped, ChatTypeOK, Ask, Goes, Stages
<1>3. GoesOnSaying(t)
  <2>1. CASE said' = said
    BY <1>2, <2>1, SaysNothing DEF Talking
  <2>2. CASE Says(t, <<"start">>)
    <3>1. /\ <<"start">> \in Seq(Kinds)
          /\ \A i \in 1..Len(<<"start">>) : <<"start">>[i] \notin Endings
      BY OneWord DEF Kinds, Endings
    <3> QED
      BY <1>2, <2>2, <3>1, SaysGoesOn DEF Talking
  <2> QED
    BY <2>1, <2>2 DEF Ask
<1>4. said' \in [Turns -> Seq(Kinds)] /\ \A x \in Turns \ {t} : said'[x] = said[x]
  BY <1>3 DEF GoesOnSaying, SaysOthersSame
<1>5. \A x \in Turns : sent'[x] \in 0..Len(said'[x])
  <2>1. UNCHANGED sent /\ Len(said[t]) <= Len(said'[t])
    BY <1>3 DEF GoesOnSaying, SaysOthersSame, Ask
  <2>2. TAKE x \in Turns
  <2>3. said'[x] \in Seq(Kinds)
    BY <1>4
  <2>4. Len(said'[x]) \in Nat /\ Len(said[x]) \in Nat /\ sent[x] \in Nat /\ sent[x] <= Len(said[x])
    BY <2>3, TurnsElements
  <2>5. Len(said[x]) <= Len(said'[x])
    BY <1>4, <2>1, <2>4
  <2> QED
    BY <2>1, <2>4, <2>5
<1>6. prompt' \in [Turns -> Traits] /\ \A x \in Turns \ {t} : prompt'[x] = prompt[x]
  <2>1. PICK p \in Profiles : prompt' = [prompt EXCEPT ![t] = p]
    BY DEF Ask
  <2>2. p \in Traits
    BY ProfilesTyped
  <2> QED
    BY <2>1, <2>2 DEF TurnsInv, TurnsTyped
<1>7. /\ stream' \in [Turns -> {"open", "left", "closed"}]
      /\ \A x \in Turns \ {t} : stream'[x] = stream[x]
      /\ plain' \subseteq Turns /\ \A x \in Turns \ {t} : x \in plain' <=> x \in plain
  BY DEF Ask, TurnsInv, TurnsTyped, ChatTypeOK
<1>8. UNCHANGED <<rows, lost, cleared, tools, clears, sent>>
  BY DEF Ask, Quietly
<1>9. TurnsTyped'
  BY <1>2, <1>4, <1>5, <1>6, <1>7, <1>8 DEF TurnsInv, TurnsTyped, ChatTypeOK
<1>10. EndingsFit'
  <2>1. \A x \in Turns \ {t} : EndingOf(x)'
    BY <1>2, <1>4, <1>7, EndingKept DEF TurnsInv, EndingsFit
  <2>2. EndingOf(t)'
    BY <1>2, <1>3 DEF EndingOf, Talking, GoesOnSaying
  <2> QED
    BY <2>1, <2>2 DEF EndingsFit
<1>11. \A i \in DOMAIN rows : rows[i].turn # t /\ rows[i].turn \in Turns
  BY <1>2, TurnsElements DEF TurnsInv, AnswersFit, AnswersOf
<1>12. AnswersFit'
  <2>1. AnswersOf(t)'
    BY <1>2, <1>8, <1>11 DEF AnswersOf, IsAnswer, Talking
  <2>2. \A x \in Turns \ {t} : AnswersOf(x)'
    BY <1>2, <1>4, <1>8, AnswersKept DEF TurnsInv, AnswersFit
  <2> QED
    BY <2>1, <2>2 DEF AnswersFit
<1>13. StoredIsWhole' /\ LiveIsNotStored'
  BY <1>6, <1>7, <1>8, <1>11 DEF TurnsInv, StoredIsWhole, LiveIsNotStored
<1> QED
  BY <1>9, <1>10, <1>12, <1>13 DEF TurnsInv

LEMMA StreamSound ==
    ASSUME TurnsInv, NEW t \in Turns, Deliver(t) \/ Leave(t) \/ CloseLeft(t)
    PROVE  TurnsInv'
<1>1. UNCHANGED <<at, plain, prompt, said, rows, lost, cleared, tools, clears>>
  BY DEF Deliver, Leave, CloseLeft
<1>2. /\ stream' \in [Turns -> {"open", "left", "closed"}]
      /\ \A x \in Turns : stream'[x] = "open" => stream[x] = "open"
  BY DEF Deliver, Leave, CloseLeft, TurnsInv, TurnsTyped, ChatTypeOK
<1>3. sent' \in [Turns -> Nat] /\ \A x \in Turns : sent'[x] \in 0..Len(said[x])
  <2>1. \A x \in Turns : sent[x] \in 0..Len(said[x]) /\ Len(said[x]) \in Nat
    BY DEF TurnsInv, TurnsTyped, ChatTypeOK
  <2> QED
    BY <2>1 DEF Deliver, Leave, CloseLeft, TurnsInv, TurnsTyped
<1>4. TurnsTyped'
  BY <1>1, <1>2, <1>3 DEF TurnsInv, TurnsTyped, ChatTypeOK
<1>5. EndingsFit' /\ AnswersFit' /\ LiveIsNotStored'
  BY <1>1 DEF TurnsInv, EndingsFit, EndingOf, AnswersFit, AnswersOf, IsAnswer, Talking,
              LiveIsNotStored
<1>6. StoredIsWhole'
  BY <1>1, <1>2, TurnsElements DEF TurnsInv, StoredIsWhole
<1> QED
  BY <1>4, <1>5, <1>6 DEF TurnsInv

LEMMA ClearHistorySound ==
    ASSUME TurnsInv, ClearHistory
    PROVE  TurnsInv'
<1>1. /\ UNCHANGED <<at, plain, prompt, said, sent, stream, lost, tools>>
      /\ rows' = <<>> /\ clears' = clears + 1 /\ clears < MaxClears
      /\ cleared' = cleared \cup {t \in Turns : at[t] # "new"}
  BY DEF ClearHistory
<1>2. rows' \in Seq(Row) /\ DOMAIN rows' = {}
  BY <1>1
<1>3. TurnsTyped'
  BY <1>1, <1>2, ChatAssumption DEF TurnsInv, TurnsTyped, ChatTypeOK, Row
<1>4. EndingsFit'
  BY <1>1 DEF TurnsInv, EndingsFit, EndingOf, Talking
<1>5. AnswersFit'
  BY <1>1, <1>2 DEF AnswersFit, AnswersOf, Talking
<1>6. StoredIsWhole' /\ LiveIsNotStored'
  BY <1>2 DEF StoredIsWhole, LiveIsNotStored
<1> QED
  BY <1>3, <1>4, <1>5, <1>6 DEF TurnsInv

LEMMA TurnsStep ==
    ASSUME TurnsInv, [ChatNext]_chatVars
    PROVE  TurnsInv'
<1>1. CASE UNCHANGED chatVars
  BY <1>1 DEF chatVars, TurnsInv, TurnsTyped, ChatTypeOK, EndingsFit, EndingOf, AnswersFit,
              AnswersOf, IsAnswer, Talking, StoredIsWhole, LiveIsNotStored
<1> QED
  BY <1>1, AskSound, WorkerSound, StreamSound, ClearHistorySound DEF ChatNext, AllAnswered

\* For every number of turns that run at once, and every prompt: a turn has one
\* ending and one stored answer, the whole one unless its client left, and no
\* stored text answers a question about the live cluster.
THEOREM TurnsHold == Spec => []TurnsAreSound
<1>1. Init => TurnsInv
  BY TurnsStart DEF Init
<1>2. TurnsInv /\ [Next]_vars => TurnsInv'
  BY TurnsStep, StepOfEach
<1>3. TurnsInv => TurnsAreSound
  BY TurnsSound
<1> QED
  BY <1>1, <1>2, <1>3, PTL DEF Spec

-----------------------------------------------------------------------------
(* The memory of a user.  Buckets are sorted and bounded whoever merges     *)
(* them; while nothing overlapped, the bucket that is stored, or the one    *)
(* that is about to be, holds what was recorded last: a value that it does  *)
(* not hold fell out of a full bucket and is older than all that it holds.  *)

AnyEntry == [value : Values, seen : Nat, count : Nat]

Sorted(b) ==
    \A i, j \in DOMAIN b : i < j => b[i].value # b[j].value /\ ~Newer(b[j], b[i])

BucketFit(b) == b \in Seq(AnyEntry) /\ Len(b) <= CapPerCategory /\ Sorted(b)

\* Times up to n, counts up to c.
Within(b, n, c) == \A f \in ToSet(b) : f.seen \in 1..n /\ f.count \in 1..c

HoldsLatest(b, l) ==
    /\ \A f \in ToSet(b) : f.value \in DOMAIN l /\ l[f.value] = f.seen
    /\ \A v \in DOMAIN l :
          \/ \E f \in ToSet(b) : f.value = v
          \/ Len(b) = CapPerCategory /\ \A f \in ToSet(b) : l[v] <= f.seen

LEMMA NewerOrders ==
    ASSUME NEW e \in AnyEntry, NEW f \in AnyEntry
    PROVE  /\ Newer(e, f) => ~Newer(f, e)
           /\ \A g \in AnyEntry : Newer(e, f) /\ ~Newer(g, f) => Newer(e, g)
           /\ ~Newer(f, e) => e.seen >= f.seen
<1>1. /\ e.seen \in Nat /\ e.count \in Nat /\ f.seen \in Nat /\ f.count \in Nat
      /\ \A g \in AnyEntry : g.seen \in Nat /\ g.count \in Nat
  BY DEF AnyEntry
<1> QED
  BY <1>1 DEF Newer

LEMMA LeastNumber ==
    ASSUME NEW S, S \subseteq Nat, S # {}
    PROVE  \E n \in S : \A m \in S : n <= m
<1> DEFINE R == StrictSubsetOrdering(Nat)
           F == FiniteSubsetsOf(Nat)
           T == {1..k : k \in S}
<1>1. T \subseteq F
  <2>1. \A k \in S : 1..k \subseteq Nat /\ IsFiniteSet(1..k)
    BY FS_Interval
  <2> QED
    BY <2>1 DEF FiniteSubsetsOf
<1>2. T # {}
  OBVIOUS
<1>3. IsWellFoundedOn(R, F)
  BY FS_StrictSubsetOrderingWellFounded
<1>4. PICK x \in T : \A y \in T : ~(<<y, x>> \in R)
  <2> HIDE DEF R, F, T
  <2> QED
    BY <1>1, <1>2, <1>3, WFMin
<1>5. PICK n \in S : x = 1..n
  BY <1>4
<1>6. ASSUME NEW m \in S
      PROVE  n <= m
  <2>1. ~(<<1..m, 1..n>> \in R)
    BY <1>4, <1>5
  <2>2. SUFFICES ASSUME m < n PROVE FALSE
    BY <1>5
  <2>3. 1..m \subseteq 1..n /\ n \in 1..n /\ n \notin 1..m /\ 1..m \in SUBSET Nat /\ 1..n \in SUBSET Nat
    BY <1>5, <2>2
  <2>4. 1..m # 1..n
    BY <2>3
  <2> QED
    BY <2>1, <2>3, <2>4 DEF StrictSubsetOrdering
<1> QED
  BY <1>5, <1>6

\* What a concatenation holds where.
LEMMA Joined ==
    ASSUME NEW S, NEW x \in Seq(S), NEW c \in Seq(S)
    PROVE  /\ x \o c \in Seq(S) /\ Len(x \o c) = Len(x) + Len(c)
           /\ \A i \in 1..Len(x) : (x \o c)[i] = x[i]
           /\ \A i \in 1..Len(c) : (x \o c)[Len(x) + i] = c[i]
<1>1. /\ x \o c \in Seq(S) /\ Len(x \o c) = Len(x) + Len(c)
      /\ \A i \in 1..(Len(x) + Len(c)) :
            (x \o c)[i] = IF i <= Len(x) THEN x[i] ELSE c[i - Len(x)]
  BY ConcatProperties
<1>2. Len(x) \in Nat /\ Len(c) \in Nat
  OBVIOUS
<1>3. ASSUME NEW i \in 1..Len(x)
      PROVE  (x \o c)[i] = x[i]
  <2>1. i \in 1..(Len(x) + Len(c)) /\ i <= Len(x)
    BY <1>2
  <2> QED
    BY <1>1, <2>1
<1>4. ASSUME NEW i \in 1..Len(c)
      PROVE  (x \o c)[Len(x) + i] = c[i]
  <2>1. Len(x) + i \in 1..(Len(x) + Len(c)) /\ ~(Len(x) + i <= Len(x)) /\ (Len(x) + i) - Len(x) = i
    BY <1>2
  <2> QED
    BY <1>1, <2>1
<1> QED
  BY <1>1, <1>3, <1>4

(* What taking an entry out of a sequence, or putting one in, leaves where. *)
LEMMA PutIn ==
    ASSUME NEW S, NEW s \in Seq(S), NEW p \in 1..(Len(s) + 1), NEW e \in S
    PROVE  /\ InsertAt(s, p, e) \in Seq(S) /\ Len(InsertAt(s, p, e)) = Len(s) + 1
           /\ \A i \in 1..(p - 1) : InsertAt(s, p, e)[i] = s[i]
           /\ InsertAt(s, p, e)[p] = e
           /\ \A i \in p..Len(s) : InsertAt(s, p, e)[i + 1] = s[i]
<1>1. Len(s) \in Nat /\ p \in Nat /\ p >= 1 /\ p <= Len(s) + 1
  OBVIOUS
<1>2. PICK a \in Seq(S) : /\ a = SubSeq(s, 1, p - 1) /\ Len(a) = p - 1
                          /\ \A i \in 1..(p - 1) : a[i] = s[i]
  <2>1. \A i \in 1..(p - 1) : s[i] \in S
    BY <1>1
  <2>2. /\ SubSeq(s, 1, p - 1) \in Seq(S)
        /\ Len(SubSeq(s, 1, p - 1)) = IF 1 <= p - 1 THEN (p - 1) - 1 + 1 ELSE 0
        /\ \A i \in 1..((p - 1) - 1 + 1) : SubSeq(s, 1, p - 1)[i] = s[1 + i - 1]
    BY <1>1, <2>1, SubSeqProperties
  <2>3. /\ (p - 1) - 1 + 1 = p - 1 /\ \A i \in 1..(p - 1) : 1 + i - 1 = i
        /\ (IF 1 <= p - 1 THEN p - 1 ELSE 0) = p - 1
    BY <1>1
  <2> QED
    BY <2>2, <2>3
<1>3. PICK c \in Seq(S) : /\ c = SubSeq(s, p, Len(s)) /\ Len(c) = Len(s) - p + 1
                          /\ \A i \in 1..(Len(s) - p + 1) : c[i] = s[p + i - 1]
  <2>1. \A i \in p..Len(s) : s[i] \in S
    BY <1>1
  <2>2. /\ SubSeq(s, p, Len(s)) \in Seq(S)
        /\ Len(SubSeq(s, p, Len(s))) = IF p <= Len(s) THEN Len(s) - p + 1 ELSE 0
        /\ \A i \in 1..(Len(s) - p + 1) : SubSeq(s, p, Len(s))[i] = s[p + i - 1]
    BY <1>1, <2>1, SubSeqProperties
  <2>3. (IF p <= Len(s) THEN Len(s) - p + 1 ELSE 0) = Len(s) - p + 1
    BY <1>1
  <2> QED
    BY <2>2, <2>3
<1>4. PICK x \in Seq(S) : /\ x = a \o <<e>> /\ Len(x) = p
                          /\ \A i \in 1..(p - 1) : x[i] = a[i]
                          /\ x[p] = e
  <2>1. a \o <<e>> = Append(a, e)
    OBVIOUS
  <2>2. /\ Append(a, e) \in Seq(S) /\ Len(Append(a, e)) = Len(a) + 1
        /\ \A i \in 1..Len(a) : Append(a, e)[i] = a[i]
        /\ Append(a, e)[Len(a) + 1] = e
    OBVIOUS
  <2>3. Len(a) + 1 = p
    BY <1>1, <1>2
  <2> QED
    BY <1>2, <2>1, <2>2, <2>3
<1>5. PICK y \in Seq(S) : /\ y = x \o c /\ Len(y) = Len(x) + Len(c)
                          /\ \A i \in 1..Len(x) : y[i] = x[i]
                          /\ \A i \in 1..Len(c) : y[Len(x) + i] = c[i]
  <2>1. /\ x \o c \in Seq(S) /\ Len(x \o c) = Len(x) + Len(c)
        /\ \A i \in 1..Len(x) : (x \o c)[i] = x[i]
        /\ \A i \in 1..Len(c) : (x \o c)[Len(x) + i] = c[i]
    BY Joined
  <2> QED
    BY <2>1
<1>6. y = InsertAt(s, p, e)
  BY <1>2, <1>3, <1>4, <1>5 DEF InsertAt
<1>7. Len(y) = Len(s) + 1
  <2>1. Len(y) = p + (Len(s) - p + 1)
    BY <1>3, <1>4, <1>5
  <2> QED
    BY <1>1, <2>1
<1>8. \A i \in 1..(p - 1) : y[i] = s[i]
  <2>1. \A i \in 1..(p - 1) : i \in 1..p
    BY <1>1
  <2> QED
    BY <1>2, <1>4, <1>5, <2>1
<1>9. y[p] = e
  <2>1. p \in 1..p
    BY <1>1
  <2> QED
    BY <1>4, <1>5, <2>1
<1>10. ASSUME NEW i \in p..Len(s)
       PROVE  y[i + 1] = s[i]
  <2>1. i - p + 1 \in 1..(Len(s) - p + 1) /\ p + (i - p + 1) = i + 1 /\ p + (i - p + 1) - 1 = i
    BY <1>1
  <2>2. y[p + (i - p + 1)] = c[i - p + 1]
    BY <1>3, <1>4, <1>5, <2>1
  <2>3. c[i - p + 1] = s[i]
    BY <1>3, <2>1
  <2> QED
    BY <2>1, <2>2, <2>3
<1> QED
  BY <1>6, <1>7, <1>8, <1>9, <1>10

LEMMA TakenOut ==
    ASSUME NEW S, NEW s \in Seq(S), NEW p \in DOMAIN s
    PROVE  /\ RemoveAt(s, p) \in Seq(S) /\ Len(RemoveAt(s, p)) = Len(s) - 1
           /\ \A i \in 1..(p - 1) : RemoveAt(s, p)[i] = s[i]
           /\ \A i \in p..(Len(s) - 1) : RemoveAt(s, p)[i] = s[i + 1]
<1>1. Len(s) \in Nat /\ p \in Nat /\ p >= 1 /\ p <= Len(s)
  OBVIOUS
<1>2. PICK a \in Seq(S) : /\ a = SubSeq(s, 1, p - 1) /\ Len(a) = p - 1
                          /\ \A i \in 1..(p - 1) : a[i] = s[i]
  <2>1. \A i \in 1..(p - 1) : s[i] \in S
    BY <1>1
  <2>2. /\ SubSeq(s, 1, p - 1) \in Seq(S)
        /\ Len(SubSeq(s, 1, p - 1)) = IF 1 <= p - 1 THEN (p - 1) - 1 + 1 ELSE 0
        /\ \A i \in 1..((p - 1) - 1 + 1) : SubSeq(s, 1, p - 1)[i] = s[1 + i - 1]
    BY <1>1, <2>1, SubSeqProperties
  <2>3. /\ (p - 1) - 1 + 1 = p - 1 /\ \A i \in 1..(p - 1) : 1 + i - 1 = i
        /\ (IF 1 <= p - 1 THEN p - 1 ELSE 0) = p - 1
    BY <1>1
  <2> QED
    BY <2>2, <2>3
<1>3. PICK c \in Seq(S) : /\ c = SubSeq(s, p + 1, Len(s)) /\ Len(c) = Len(s) - p
                          /\ \A i \in 1..(Len(s) - p) : c[i] = s[p + i]
  <2>1. \A i \in (p + 1)..Len(s) : s[i] \in S
    BY <1>1
  <2>2. /\ SubSeq(s, p + 1, Len(s)) \in Seq(S)
        /\ Len(SubSeq(s, p + 1, Len(s))) = IF p + 1 <= Len(s) THEN Len(s) - (p + 1) + 1 ELSE 0
        /\ \A i \in 1..(Len(s) - (p + 1) + 1) : SubSeq(s, p + 1, Len(s))[i] = s[(p + 1) + i - 1]
    BY <1>1, <2>1, SubSeqProperties
  <2>3. /\ Len(s) - (p + 1) + 1 = Len(s) - p
        /\ \A i \in 1..(Len(s) - p) : (p + 1) + i - 1 = p + i
        /\ (IF p + 1 <= Len(s) THEN Len(s) - (p + 1) + 1 ELSE 0) = Len(s) - p
    BY <1>1
  <2>4. Len(SubSeq(s, p + 1, Len(s))) = Len(s) - p
    BY <2>2, <2>3
  <2>5. \A i \in 1..(Len(s) - p) : SubSeq(s, p + 1, Len(s))[i] = s[p + i]
    BY <2>2, <2>3
  <2> QED
    BY <2>2, <2>4, <2>5
<1>4. PICK y \in Seq(S) : /\ y = a \o c /\ Len(y) = Len(a) + Len(c)
                          /\ \A i \in 1..Len(a) : y[i] = a[i]
                          /\ \A i \in 1..Len(c) : y[Len(a) + i] = c[i]
  <2>1. /\ a \o c \in Seq(S) /\ Len(a \o c) = Len(a) + Len(c)
        /\ \A i \in 1..Len(a) : (a \o c)[i] = a[i]
        /\ \A i \in 1..Len(c) : (a \o c)[Len(a) + i] = c[i]
    BY Joined
  <2> QED
    BY <2>1
<1>5. y = RemoveAt(s, p) /\ Len(y) = Len(s) - 1
  <2>1. Len(y) = (p - 1) + (Len(s) - p)
    BY <1>2, <1>3, <1>4
  <2>2. y = RemoveAt(s, p)
    BY <1>2, <1>3, <1>4 DEF RemoveAt
  <2> QED
    BY <1>1, <2>1, <2>2
<1>6. ASSUME NEW i \in p..(Len(s) - 1)
      PROVE  y[i] = s[i + 1]
  <2>1. i - p + 1 \in 1..(Len(s) - p) /\ p + (i - p + 1) = i + 1 /\ (p - 1) + (i - p + 1) = i
    BY <1>1
  <2>2. y[(p - 1) + (i - p + 1)] = c[i - p + 1]
    BY <1>2, <1>3, <1>4, <2>1
  <2>3. c[i - p + 1] = s[i + 1]
    BY <1>3, <2>1
  <2> QED
    BY <2>1, <2>2, <2>3
<1> QED
  BY <1>2, <1>4, <1>5, <1>6

\* Putting an entry where it belongs keeps a bucket sorted.
LEMMA InsertFits ==
    ASSUME NEW b \in Seq(AnyEntry), Sorted(b), NEW e \in AnyEntry,
           \A i \in DOMAIN b : b[i].value # e.value
    PROVE  /\ Insert(b, e) \in Seq(AnyEntry) /\ Len(Insert(b, e)) = Len(b) + 1
           /\ Sorted(Insert(b, e))
           /\ ToSet(Insert(b, e)) = ToSet(b) \cup {e}
<1> DEFINE older == {i \in DOMAIN b : Newer(e, b[i])}
           r == Insert(b, e)
<1>1. Len(b) \in Nat /\ DOMAIN b = 1..Len(b) /\ \A i \in DOMAIN b : b[i] \in AnyEntry
  OBVIOUS
<1>2. PICK p \in 1..(Len(b) + 1) :
          /\ r \in Seq(AnyEntry) /\ Len(r) = Len(b) + 1
          /\ \A i \in 1..(p - 1) : r[i] = b[i] /\ ~Newer(e, b[i])
          /\ r[p] = e
          /\ \A i \in p..Len(b) : r[i + 1] = b[i] /\ Newer(e, b[i])
  <2>1. CASE older = {}
    <3>1. r = Append(b, e)
      BY <2>1 DEF Insert
    <3>2. /\ Append(b, e) \in Seq(AnyEntry) /\ Len(Append(b, e)) = Len(b) + 1
          /\ \A i \in 1..Len(b) : Append(b, e)[i] = b[i]
          /\ Append(b, e)[Len(b) + 1] = e
      OBVIOUS
    <3>3. /\ Len(b) + 1 \in 1..(Len(b) + 1) /\ (Len(b) + 1) - 1 = Len(b)
          /\ (Len(b) + 1)..Len(b) = {}
      BY <1>1
    <3>4. \A i \in 1..Len(b) : ~Newer(e, b[i])
      BY <1>1, <2>1
    <3> QED
      BY <3>1, <3>2, <3>3, <3>4
  <2>2. CASE older # {}
    <3> DEFINE p == CHOOSE i \in older : \A j \in older : i <= j
    <3>1. older \subseteq Nat
      BY <1>1
    <3>2. p \in older /\ \A j \in older : p <= j
      <4> HIDE DEF older
      <4> QED
        BY <2>2, <3>1, LeastNumber
    <3>3. r = InsertAt(b, p, e)
      BY <2>2 DEF Insert
    <3> HIDE DEF p, r
    <3>4. p \in DOMAIN b /\ Newer(e, b[p]) /\ p \in 1..(Len(b) + 1)
      BY <1>1, <3>2
    <3>5. /\ r \in Seq(AnyEntry) /\ Len(r) = Len(b) + 1
          /\ \A i \in 1..(p - 1) : r[i] = b[i]
          /\ r[p] = e
          /\ \A i \in p..Len(b) : r[i + 1] = b[i]
      BY <3>3, <3>4, PutIn
    <3>6. \A i \in 1..(p - 1) : ~Newer(e, b[i])
      <4>1. \A i \in 1..(p - 1) : i \in DOMAIN b /\ ~(p <= i)
        BY <1>1, <3>4
      <4> QED
        BY <3>2, <4>1
    <3>7. ASSUME NEW i \in p..Len(b)
          PROVE  Newer(e, b[i])
      <4>1. i \in DOMAIN b /\ (i = p \/ p < i)
        BY <1>1, <3>4
      <4>2. CASE p < i
        <5>1. ~Newer(b[i], b[p])
          BY <3>4, <4>1, <4>2 DEF Sorted
        <5> QED
          BY <1>1, <3>4, <4>1, <5>1, NewerOrders
      <4> QED
        BY <3>4, <4>1, <4>2
    <3> QED
      BY <3>4, <3>5, <3>6, <3>7
  <2> QED
    BY <2>1, <2>2
<1> HIDE DEF r, older
<1>3. DOMAIN r = 1..(Len(b) + 1)
  BY <1>1, <1>2
<1>4. ASSUME NEW k \in DOMAIN r
      PROVE  \/ k < p /\ k \in DOMAIN b /\ r[k] = b[k] /\ ~Newer(e, b[k])
             \/ k = p /\ r[k] = e
             \/ /\ k > p /\ k - 1 \in DOMAIN b /\ k - 1 >= p /\ r[k] = b[k - 1]
                /\ Newer(e, b[k - 1])
  <2>1. CASE k < p
    <3>1. k \in 1..(p - 1) /\ k \in DOMAIN b
      BY <1>1, <1>3, <2>1
    <3> QED
      BY <1>2, <2>1, <3>1
  <2>2. CASE k > p
    <3>1. k - 1 \in p..Len(b) /\ k - 1 \in DOMAIN b /\ (k - 1) + 1 = k /\ k - 1 >= p
      BY <1>1, <1>3, <2>2
    <3>2. r[(k - 1) + 1] = b[k - 1] /\ Newer(e, b[k - 1])
      BY <1>2, <3>1
    <3> QED
      BY <2>2, <3>1, <3>2
  <2> QED
    BY <1>2, <1>3, <2>1, <2>2
<1>5. ASSUME NEW i \in DOMAIN r, NEW j \in DOMAIN r, i < j
      PROVE  r[i].value # r[j].value /\ ~Newer(r[j], r[i])
  <2>0. i \in Nat /\ j \in Nat /\ p \in Nat
    BY <1>1, <1>3
  <2>1. CASE i < p /\ j < p
    BY <1>4, <1>5, <2>0, <2>1 DEF Sorted
  <2>2. CASE i < p /\ j = p
    <3>1. i \in DOMAIN b /\ r[i] = b[i] /\ ~Newer(e, b[i]) /\ r[j] = e
      BY <1>2, <1>4, <2>0, <2>2
    <3> QED
      BY <3>1
  <2>3. CASE i < p /\ j > p
    <3>1. i \in DOMAIN b /\ r[i] = b[i] /\ j - 1 \in DOMAIN b /\ r[j] = b[j - 1] /\ j - 1 >= p
      BY <1>4, <2>0, <2>3
    <3>2. i < j - 1
      BY <2>0, <2>3, <3>1
    <3> QED
      BY <3>1, <3>2 DEF Sorted
  <2>4. CASE i = p /\ j > p
    <3>1. r[i] = e /\ j - 1 \in DOMAIN b /\ r[j] = b[j - 1] /\ Newer(e, b[j - 1])
      BY <1>2, <1>4, <2>0, <2>4
    <3>2. ~Newer(b[j - 1], e)
      BY <1>1, <3>1, NewerOrders
    <3> QED
      BY <3>1, <3>2
  <2>5. CASE i > p /\ j > p
    <3>1. /\ i - 1 \in DOMAIN b /\ r[i] = b[i - 1]
          /\ j - 1 \in DOMAIN b /\ r[j] = b[j - 1] /\ i - 1 < j - 1
      BY <1>4, <1>5, <2>0, <2>5
    <3> QED
      BY <3>1 DEF Sorted
  <2> QED
    BY <1>5, <2>0, <2>1, <2>2, <2>3, <2>4, <2>5
<1>6. ToSet(r) = ToSet(b) \cup {e}
  <2>1. \A f \in ToSet(r) : f \in ToSet(b) \cup {e}
    BY <1>4 DEF ToSet
  <2>2. e \in ToSet(r)
    BY <1>2, <1>3 DEF ToSet
  <2>3. ASSUME NEW k \in DOMAIN b
        PROVE  b[k] \in ToSet(r)
    <3>1. CASE k < p
      <4>1. k \in 1..(p - 1) /\ k \in DOMAIN r
        BY <1>1, <1>3, <3>1
      <4> QED
        BY <1>2, <4>1 DEF ToSet
    <3>2. CASE ~(k < p)
      <4>1. k \in p..Len(b) /\ k + 1 \in DOMAIN r
        BY <1>1, <1>3, <3>2
      <4> QED
        BY <1>2, <4>1 DEF ToSet
    <3> QED
      BY <3>1, <3>2
  <2>4. \A f \in ToSet(b) : f \in ToSet(r)
    BY <2>3 DEF ToSet
  <2> QED
    BY <2>1, <2>2, <2>4
<1> QED
  BY <1>2, <1>5, <1>6 DEF Sorted, r
\* Taking an entry out of a bucket takes out the only one of its value.
LEMMA RemoveFits ==
    ASSUME NEW b \in Seq(AnyEntry), Sorted(b), NEW p \in DOMAIN b
    PROVE  /\ RemoveAt(b, p) \in Seq(AnyEntry) /\ Len(RemoveAt(b, p)) = Len(b) - 1
           /\ Sorted(RemoveAt(b, p))
           /\ ToSet(RemoveAt(b, p)) = {f \in ToSet(b) : f.value # b[p].value}
<1> DEFINE r == RemoveAt(b, p)
<1>1. Len(b) \in Nat /\ DOMAIN b = 1..Len(b) /\ p \in Nat /\ p \in 1..Len(b)
  OBVIOUS
<1>2. /\ r \in Seq(AnyEntry) /\ Len(r) = Len(b) - 1
      /\ \A i \in 1..(p - 1) : r[i] = b[i]
      /\ \A i \in p..(Len(b) - 1) : r[i] = b[i + 1]
  BY TakenOut
<1> HIDE DEF r
<1>3. DOMAIN r = 1..(Len(b) - 1)
  BY <1>1, <1>2
<1>4. ASSUME NEW k \in DOMAIN r
      PROVE  \/ k < p /\ k \in DOMAIN b /\ r[k] = b[k]
             \/ k >= p /\ k + 1 \in DOMAIN b /\ r[k] = b[k + 1]
  <2>1. CASE k < p
    <3>1. k \in 1..(p - 1) /\ k \in DOMAIN b
      BY <1>1, <1>3, <2>1
    <3> QED
      BY <1>2, <2>1, <3>1
  <2>2. CASE ~(k < p)
    <3>1. k \in p..(Len(b) - 1) /\ k + 1 \in DOMAIN b /\ k >= p
      BY <1>1, <1>3, <2>2
    <3> QED
      BY <1>2, <3>1
  <2> QED
    BY <2>1, <2>2
<1>5. ASSUME NEW i \in DOMAIN r, NEW j \in DOMAIN r, i < j
      PROVE  r[i].value # r[j].value /\ ~Newer(r[j], r[i])
  <2>0. i \in Nat /\ j \in Nat
    BY <1>1, <1>3
  <2>1. \E k, l \in DOMAIN b : k < l /\ r[i] = b[k] /\ r[j] = b[l]
    <3>1. CASE i < p /\ j < p
      BY <1>4, <1>5, <2>0, <3>1
    <3>2. CASE i < p /\ j >= p
      <4>1. i < j + 1
        BY <1>1, <2>0, <3>2
      <4> QED
        BY <1>1, <1>4, <2>0, <3>2, <4>1
    <3>3. CASE i >= p /\ j >= p
      <4>1. i + 1 < j + 1
        BY <1>5, <2>0
      <4> QED
        BY <1>1, <1>4, <2>0, <3>3, <4>1
    <3> QED
      BY <1>1, <1>5, <2>0, <3>1, <3>2, <3>3
  <2> QED
    BY <2>1 DEF Sorted
<1>6. ASSUME NEW k \in DOMAIN r
      PROVE  r[k] \in ToSet(b) /\ r[k].value # b[p].value
  <2>0. k \in Nat
    BY <1>1, <1>3
  <2>1. CASE k < p
    <3>1. k \in DOMAIN b /\ r[k] = b[k]
      BY <1>1, <1>4, <2>0, <2>1
    <3> QED
      BY <1>1, <2>0, <2>1, <3>1 DEF Sorted, ToSet
  <2>2. CASE k >= p
    <3>1. k + 1 \in DOMAIN b /\ r[k] = b[k + 1] /\ p < k + 1
      BY <1>1, <1>4, <2>0, <2>2
    <3> QED
      BY <1>1, <3>1 DEF Sorted, ToSet
  <2> QED
    BY <1>1, <2>0, <2>1, <2>2
<1>7. ASSUME NEW k \in DOMAIN b, b[k].value # b[p].value
      PROVE  b[k] \in ToSet(r)
  <2>0. k \in Nat /\ k # p
    BY <1>1, <1>7
  <2>1. CASE k < p
    <3>1. k \in 1..(p - 1) /\ k \in DOMAIN r
      BY <1>1, <1>3, <2>1
    <3> QED
      BY <1>2, <3>1 DEF ToSet
  <2>2. CASE k > p
    <3>1. k - 1 \in p..(Len(b) - 1) /\ k - 1 \in DOMAIN r /\ (k - 1) + 1 = k
      BY <1>1, <1>3, <2>2
    <3> QED
      BY <1>2, <3>1 DEF ToSet
  <2> QED
    BY <1>1, <2>0, <2>1, <2>2
<1>8. ToSet(r) = {f \in ToSet(b) : f.value # b[p].value}
  <2>1. \A f \in ToSet(r) : f \in ToSet(b) /\ f.value # b[p].value
    BY <1>6 DEF ToSet
  <2>2. \A f \in ToSet(b) : f.value # b[p].value => f \in ToSet(r)
    BY <1>7 DEF ToSet
  <2> QED
    BY <2>1, <2>2
<1> QED
  BY <1>2, <1>5, <1>8 DEF Sorted, r

\* A bucket that is one too long loses an entry that is no newer than the rest.
LEMMA CappedFits ==
    ASSUME NEW b \in Seq(AnyEntry), Sorted(b), Len(b) <= CapPerCategory + 1
    PROVE  /\ BucketFit(Capped(b))
           /\ \/ Capped(b) = b
              \/ /\ Len(Capped(b)) = CapPerCategory
                 /\ \E x \in ToSet(b) :
                       /\ ToSet(b) = ToSet(Capped(b)) \cup {x}
                       /\ \A f \in ToSet(Capped(b)) : x.seen <= f.seen
<1> DEFINE r == SubSeq(b, 1, CapPerCategory)
<1>0. CapPerCategory \in Nat /\ CapPerCategory >= 1
  BY MemoryAssumption
<1> DEFINE n == Len(b)
<1>a. n \in Nat /\ n <= CapPerCategory + 1
  OBVIOUS
<1> HIDE DEF n
<1>1. Len(b) \in Nat /\ DOMAIN b = 1..Len(b) /\ \A i \in DOMAIN b : b[i] \in AnyEntry
  OBVIOUS
<1>2. CASE Len(b) <= CapPerCategory
  <2>1. Capped(b) = b
    <3>1. ~(n > CapPerCategory)
      BY <1>0, <1>a, <1>2 DEF n
    <3> QED
      BY <3>1 DEF Capped, n
  <2> QED
    BY <1>2, <2>1 DEF BucketFit
<1>3. CASE Len(b) > CapPerCategory
  <2>0. Len(b) = CapPerCategory + 1
    <3>1. n > CapPerCategory
      BY <1>3 DEF n
    <3>2. n = CapPerCategory + 1
      BY <1>0, <1>a, <3>1
    <3> QED
      BY <3>2 DEF n
  <2>1. Capped(b) = r
    BY <1>3 DEF Capped
  <2>2. r \in Seq(AnyEntry) /\ Len(r) = CapPerCategory /\ \A i \in 1..CapPerCategory : r[i] = b[i]
    <3>1. \A i \in 1..CapPerCategory : b[i] \in AnyEntry
      BY <1>0, <1>1, <2>0
    <3>2. /\ r \in Seq(AnyEntry)
          /\ Len(r) = IF 1 <= CapPerCategory THEN CapPerCategory - 1 + 1 ELSE 0
          /\ \A i \in 1..(CapPerCategory - 1 + 1) : r[i] = b[1 + i - 1]
      BY <1>0, <1>1, <3>1, SubSeqProperties
    <3>3. /\ CapPerCategory - 1 + 1 = CapPerCategory
          /\ \A i \in 1..CapPerCategory : 1 + i - 1 = i
          /\ (IF 1 <= CapPerCategory THEN CapPerCategory - 1 + 1 ELSE 0) = CapPerCategory
      BY <1>0
    <3>4. Len(r) = CapPerCategory
      BY <3>2, <3>3
    <3>5. \A i \in 1..CapPerCategory : r[i] = b[i]
      BY <3>2, <3>3
    <3> QED
      BY <3>2, <3>4, <3>5
  <2> HIDE DEF r
  <2>3. DOMAIN r = 1..CapPerCategory
    BY <2>2
  <2>4. \A i \in DOMAIN r : i \in DOMAIN b /\ r[i] = b[i]
    BY <1>0, <1>1, <2>0, <2>2, <2>3
  <2>5. Sorted(r)
    BY <2>4 DEF Sorted
  <2> DEFINE x == b[CapPerCategory + 1]
  <2>6. CapPerCategory + 1 \in DOMAIN b /\ x \in ToSet(b) /\ x \in AnyEntry
    BY <1>0, <1>1, <2>0 DEF ToSet
  <2>7. ASSUME NEW i \in DOMAIN r
        PROVE  r[i] \in ToSet(b) /\ x.seen <= r[i].seen
    <3>1. i < CapPerCategory + 1 /\ i \in DOMAIN b /\ r[i] = b[i]
      BY <1>0, <2>3, <2>4
    <3>2. ~Newer(x, b[i])
      BY <2>6, <3>1 DEF Sorted
    <3>3. b[i] \in AnyEntry
      BY <1>1, <3>1
    <3>4. b[i].seen >= x.seen /\ b[i].seen \in Nat /\ x.seen \in Nat
      <4>1. b[i].seen >= x.seen
        BY <2>6, <3>2, <3>3, NewerOrders
      <4> QED
        BY <2>6, <3>3, <4>1 DEF AnyEntry
    <3> QED
      BY <3>1, <3>4 DEF ToSet
  <2>8. \A f \in ToSet(r) : f \in ToSet(b) /\ x.seen <= f.seen
    BY <2>7 DEF ToSet
  <2>9. \A f \in ToSet(b) : f \in ToSet(r) \/ f = x
    <3>1. ASSUME NEW i \in DOMAIN b
          PROVE  b[i] \in ToSet(r) \/ b[i] = x
      <4>1. i \in DOMAIN r \/ i = CapPerCategory + 1
        BY <1>0, <1>1, <2>0, <2>3
      <4> QED
        BY <2>4, <4>1 DEF ToSet
    <3> QED
      BY <3>1 DEF ToSet
  <2>10. ToSet(b) = ToSet(r) \cup {x}
    BY <2>6, <2>8, <2>9
  <2>11. BucketFit(r)
    BY <1>0, <2>2, <2>5 DEF BucketFit
  <2> QED
    BY <2>1, <2>2, <2>6, <2>8, <2>10, <2>11
<1> QED
  BY <1>0, <1>1, <1>2, <1>3

(* Recording a value replaces its entry; when that makes the bucket too     *)
(* long, an entry goes that is no newer than the rest.                      *)
Others(b, v) == {f \in ToSet(b) : f.value # v}

LEMMA UpsertFits ==
    ASSUME NEW b, BucketFit(b), NEW v \in Values, NEW now \in Nat,
           NEW r, r = UpsertValue(b, v, now)
    PROVE  /\ BucketFit(r)
           /\ \E e \in AnyEntry :
                 /\ e.value = v /\ e.seen = now
                 /\ e.count = 1 \/ \E f \in ToSet(b) : e.count = f.count + 1
                 /\ \/ ToSet(r) = Others(b, v) \cup {e} /\ Len(b) <= Len(r)
                    \/ /\ Len(r) = CapPerCategory
                       /\ \E x \in Others(b, v) \cup {e} :
                             /\ Others(b, v) \cup {e} = ToSet(r) \cup {x}
                             /\ \A f \in ToSet(r) : x.seen <= f.seen
<1> DEFINE held == {i \in DOMAIN b : b[i].value = v}
           p == CHOOSE i \in held : TRUE
           new == [value |-> v, seen |-> now, count |-> 1]
           again == [value |-> v, seen |-> now, count |-> b[p].count + 1]
<1>0. CapPerCategory \in Nat
  BY MemoryAssumption
<1>1. /\ b \in Seq(AnyEntry) /\ Sorted(b) /\ Len(b) <= CapPerCategory
      /\ Len(b) \in Nat /\ DOMAIN b = 1..Len(b) /\ \A i \in DOMAIN b : b[i] \in AnyEntry
  BY DEF BucketFit
<1>2. \E e \in AnyEntry, s \in Seq(AnyEntry) :
         /\ UpsertValue(b, v, now) = Capped(s)
         /\ Sorted(s) /\ Len(b) <= Len(s) /\ Len(s) <= CapPerCategory + 1
         /\ e.value = v /\ e.seen = now
         /\ e.count = 1 \/ \E f \in ToSet(b) : e.count = f.count + 1
         /\ ToSet(s) = Others(b, v) \cup {e}
  <2>1. CASE held = {}
    <3>1. UpsertValue(b, v, now) = Capped(Insert(b, new))
      BY <2>1 DEF UpsertValue
    <3>2. new \in AnyEntry /\ new.value = v /\ new.seen = now /\ new.count = 1
      BY DEF AnyEntry
    <3>3. \A i \in DOMAIN b : b[i].value # v
      BY <2>1
    <3>4. Others(b, v) = ToSet(b)
      BY <3>3 DEF Others, ToSet
    <3> HIDE DEF new
    <3>5. /\ Insert(b, new) \in Seq(AnyEntry) /\ Len(Insert(b, new)) = Len(b) + 1
          /\ Sorted(Insert(b, new)) /\ ToSet(Insert(b, new)) = ToSet(b) \cup {new}
      BY <1>1, <3>2, <3>3, InsertFits
    <3>6. Len(b) <= Len(b) + 1 /\ Len(b) + 1 <= CapPerCategory + 1
      BY <1>0, <1>1
    <3> QED
      BY <3>1, <3>2, <3>4, <3>5, <3>6
  <2>2. CASE held # {}
    <3>1. p \in DOMAIN b /\ b[p].value = v
      BY <2>2
    <3>2. UpsertValue(b, v, now) = Capped(Insert(RemoveAt(b, p), again))
      BY <2>2 DEF UpsertValue
    <3> HIDE DEF held, p
    <3>3. b[p].count \in Nat /\ b[p].count + 1 \in Nat /\ b[p] \in ToSet(b)
      <4>1. b[p] \in AnyEntry /\ b[p] \in ToSet(b)
        BY <1>1, <3>1 DEF ToSet
      <4> QED
        BY <4>1 DEF AnyEntry
    <3>4. /\ again \in AnyEntry /\ again.value = v /\ again.seen = now
          /\ again.count = b[p].count + 1
      BY <3>3 DEF AnyEntry
    <3> HIDE DEF again
    <3> DEFINE q == RemoveAt(b, p)
    <3>5. /\ q \in Seq(AnyEntry) /\ Len(q) = Len(b) - 1 /\ Sorted(q)
          /\ ToSet(q) = Others(b, v)
      BY <1>1, <3>1, RemoveFits DEF Others
    <3> HIDE DEF q
    <3>6. \A i \in DOMAIN q : q[i].value # v
      BY <3>5 DEF Others, ToSet
    <3>7. /\ Insert(q, again) \in Seq(AnyEntry) /\ Len(Insert(q, again)) = Len(q) + 1
          /\ Sorted(Insert(q, again)) /\ ToSet(Insert(q, again)) = ToSet(q) \cup {again}
      BY <3>4, <3>5, <3>6, InsertFits
    <3>8. Len(q) + 1 = Len(b) /\ Len(b) <= Len(b) /\ Len(b) <= CapPerCategory + 1
      BY <1>0, <1>1, <3>5
    <3>9. UpsertValue(b, v, now) = Capped(Insert(q, again))
      BY <3>2 DEF q
    <3> QED
      BY <3>3, <3>4, <3>5, <3>7, <3>8, <3>9
  <2> QED
    BY <2>1, <2>2
<1>3. PICK e \in AnyEntry, s \in Seq(AnyEntry) :
         /\ UpsertValue(b, v, now) = Capped(s)
         /\ Sorted(s) /\ Len(b) <= Len(s) /\ Len(s) <= CapPerCategory + 1
         /\ e.value = v /\ e.seen = now
         /\ e.count = 1 \/ \E f \in ToSet(b) : e.count = f.count + 1
         /\ ToSet(s) = Others(b, v) \cup {e}
  BY <1>2
<1>4. /\ BucketFit(Capped(s))
      /\ \/ Capped(s) = s
         \/ /\ Len(Capped(s)) = CapPerCategory
            /\ \E x \in ToSet(s) :
                  /\ ToSet(s) = ToSet(Capped(s)) \cup {x}
                  /\ \A f \in ToSet(Capped(s)) : x.seen <= f.seen
  BY <1>3, CappedFits
<1> QED
  BY <1>3, <1>4

\* When each value was last recorded, after some are at a time.
Stamped(l, S, now) == [u \in DOMAIN l \cup S |-> IF u \in S THEN now ELSE l[u]]

\* A bucket that holds the latest is followed by one that does, when those of
\* S are recorded now.
KeepsUp(b, r, S, now, n) ==
    \A l : HoldsLatest(b, l) /\ (\A u \in DOMAIN l : l[u] \in 0..n) =>
              HoldsLatest(r, Stamped(l, S, now))

\* Recording a value at the latest time keeps a bucket within its bounds, and
\* what it holds the latest.
LEMMA UpsertHolds ==
    ASSUME NEW b, BucketFit(b), NEW v \in Values, NEW now \in Nat, now >= 1,
           NEW c \in Nat, Within(b, now, c), NEW r, r = UpsertValue(b, v, now)
    PROVE  /\ BucketFit(r) /\ Within(r, now, c + 1)
           /\ KeepsUp(b, r, {v}, now, now)
<1>0. CapPerCategory \in Nat
  BY MemoryAssumption
<1>1. /\ BucketFit(r)
      /\ \E e \in AnyEntry :
            /\ e.value = v /\ e.seen = now
            /\ e.count = 1 \/ \E f \in ToSet(b) : e.count = f.count + 1
            /\ \/ ToSet(r) = Others(b, v) \cup {e} /\ Len(b) <= Len(r)
               \/ /\ Len(r) = CapPerCategory
                  /\ \E x \in Others(b, v) \cup {e} :
                        /\ Others(b, v) \cup {e} = ToSet(r) \cup {x}
                        /\ \A f \in ToSet(r) : x.seen <= f.seen
  BY UpsertFits
<1>2. PICK e \in AnyEntry :
            /\ e.value = v /\ e.seen = now
            /\ e.count = 1 \/ \E f \in ToSet(b) : e.count = f.count + 1
            /\ \/ ToSet(r) = Others(b, v) \cup {e} /\ Len(b) <= Len(r)
               \/ /\ Len(r) = CapPerCategory
                  /\ \E x \in Others(b, v) \cup {e} :
                        /\ Others(b, v) \cup {e} = ToSet(r) \cup {x}
                        /\ \A f \in ToSet(r) : x.seen <= f.seen
  BY <1>1
<1>3. \A f \in ToSet(r) : f \in Others(b, v) \cup {e}
  <2>1. CASE ToSet(r) = Others(b, v) \cup {e}
    BY <2>1
  <2>2. CASE \E x \in Others(b, v) \cup {e} : Others(b, v) \cup {e} = ToSet(r) \cup {x}
    BY <2>2
  <2> QED
    BY <1>2, <2>1, <2>2
<1>4. Len(b) \in Nat /\ Len(r) \in Nat /\ Len(b) <= CapPerCategory /\ Len(r) <= CapPerCategory
  BY <1>1 DEF BucketFit
<1>5. Within(r, now, c + 1)
  <2>1. \A f \in Others(b, v) : f.seen \in 1..now /\ f.count \in 1..(c + 1)
    BY DEF Within, Others
  <2>2. e.seen \in 1..now
    BY <1>2
  <2>3. e.count \in 1..(c + 1)
    <3>1. CASE e.count = 1
      BY <3>1
    <3>2. CASE \E f \in ToSet(b) : e.count = f.count + 1
      <4>1. PICK f \in ToSet(b) : e.count = f.count + 1
        BY <3>2
      <4>2. f.count \in 1..c
        BY DEF Within
      <4> QED
        BY <4>1, <4>2
    <3> QED
      BY <1>2, <3>1, <3>2
  <2> QED
    BY <1>3, <2>1, <2>2, <2>3 DEF Within
<1>6. ASSUME NEW l, HoldsLatest(b, l), \A u \in DOMAIN l : l[u] \in 0..now
      PROVE  HoldsLatest(r, Stamped(l, {v}, now))
  <2> DEFINE m == Stamped(l, {v}, now)
  <2>1. /\ DOMAIN m = DOMAIN l \cup {v} /\ m[v] = now
        /\ \A u \in DOMAIN l : u # v => m[u] = l[u]
    BY DEF Stamped
  <2> HIDE DEF m
  <2>2. \A f \in Others(b, v) : f.value # v /\ f.value \in DOMAIN l /\ l[f.value] = f.seen
    BY <1>6 DEF HoldsLatest, Others
  <2>3. \A f \in Others(b, v) \cup {e} : f.value \in DOMAIN m /\ m[f.value] = f.seen
    BY <1>2, <2>1, <2>2
  <2>4. \A f \in ToSet(r) : f.value \in DOMAIN m /\ m[f.value] = f.seen
    BY <1>3, <2>3
  <2>5. \A f \in ToSet(r) : f.seen \in 1..now
    BY <1>5 DEF Within
  <2>6. ASSUME NEW g \in Others(b, v) \cup {e}, g \notin ToSet(r)
        PROVE  Len(r) = CapPerCategory /\ \A f \in ToSet(r) : m[g.value] <= f.seen
    <3>1. PICK x \in Others(b, v) \cup {e} :
             /\ Others(b, v) \cup {e} = ToSet(r) \cup {x}
             /\ \A f \in ToSet(r) : x.seen <= f.seen
      BY <1>2, <2>6
    <3>2. g = x /\ Len(r) = CapPerCategory
      BY <1>2, <2>6, <3>1
    <3>3. m[g.value] = x.seen
      BY <2>3, <3>2
    <3> QED
      BY <3>1, <3>2, <3>3
  <2>7. ASSUME NEW u \in DOMAIN m
        PROVE  \/ \E f \in ToSet(r) : f.value = u
               \/ Len(r) = CapPerCategory /\ \A f \in ToSet(r) : m[u] <= f.seen
    <3>1. CASE \E g \in Others(b, v) \cup {e} : g.value = u
      BY <2>6, <3>1
    <3>2. CASE ~\E g \in Others(b, v) \cup {e} : g.value = u
      <4>1. u # v /\ u \in DOMAIN l
        BY <1>2, <2>1, <3>2
      <4>2. ~\E f \in ToSet(b) : f.value = u
        BY <3>2, <4>1 DEF Others
      <4>3. Len(b) = CapPerCategory /\ \A f \in ToSet(b) : l[u] <= f.seen
        BY <1>6, <4>1, <4>2 DEF HoldsLatest
      <4>4. Len(r) = CapPerCategory
        <5>1. Len(b) <= Len(r) \/ Len(r) = CapPerCategory
          BY <1>2
        <5> QED
          BY <1>0, <1>4, <4>3, <5>1
      <4>5. m[u] = l[u] /\ l[u] <= now
        <5>1. l[u] \in 0..now
          BY <1>6, <4>1
        <5> QED
          BY <2>1, <4>1, <5>1
      <4>6. \A f \in Others(b, v) \cup {e} : m[u] <= f.seen
        BY <1>2, <4>3, <4>5 DEF Others
      <4> QED
        BY <1>3, <4>4, <4>6
    <3> QED
      BY <3>1, <3>2
  <2> QED
    BY <2>4, <2>7 DEF HoldsLatest, m
<1> QED
  BY <1>1, <1>5, <1>6 DEF KeepsUp

\* The same for the one or two values of a call.
LEMMA RecordedHolds ==
    ASSUME NEW b, BucketFit(b), NEW n \in Nat, Within(b, n, 2 * n),
           NEW values \in Batches,
           NEW r, r = Recorded(b, values, n + 1)
    PROVE  /\ values \in Seq(Values)
           /\ BucketFit(r) /\ Within(r, n + 1, 2 * (n + 1))
           /\ KeepsUp(b, r, ToSet(values), n + 1, n)
<1> DEFINE now == n + 1
<1>1. now \in Nat /\ now >= 1 /\ 2 * n \in Nat /\ 2 * n + 1 \in Nat /\ (2 * n + 1) + 1 = 2 * now
  OBVIOUS
<1>2. Within(b, now, 2 * n)
  <2>1. 1..n \subseteq 1..now
    OBVIOUS
  <2> QED
    BY <2>1 DEF Within
<1>3. \A m \in 0..n : m \in 0..now
  OBVIOUS
<1>4. r = Recorded(b, values, now)
  OBVIOUS
<1> HIDE DEF now
<1>5. CASE \E v \in Values : values = <<v>>
  <2>1. PICK v \in Values : values = <<v>>
    BY <1>5
  <2>2. values \in Seq(Values) /\ Len(values) = 1 /\ values[1] = v /\ ToSet(values) = {v}
    BY <2>1 DEF ToSet
  <2>3. r = UpsertValue(b, v, now)
    BY <1>4, <2>2 DEF Recorded
  <2>4. /\ BucketFit(r) /\ Within(r, now, 2 * n + 1)
        /\ KeepsUp(b, r, {v}, now, now)
    BY <1>1, <1>2, <2>3, UpsertHolds
  <2>5. Within(r, now, 2 * now)
    <3>1. 1..(2 * n + 1) \subseteq 1..(2 * now)
      BY DEF now
    <3> QED
      BY <2>4, <3>1 DEF Within
  <2>6. ASSUME NEW l, HoldsLatest(b, l), \A u \in DOMAIN l : l[u] \in 0..n
        PROVE  HoldsLatest(r, Stamped(l, ToSet(values), now))
    <3>1. \A u \in DOMAIN l : l[u] \in 0..now
      BY <1>3, <2>6
    <3>2. KeepsUp(b, r, {v}, now, now)
      BY <2>4
    <3>3. HoldsLatest(b, l)
      BY <2>6
    <3>4. HoldsLatest(r, Stamped(l, {v}, now))
      BY <3>1, <3>2, <3>3 DEF KeepsUp
    <3> QED
      BY <2>2, <3>4
  <2>7. KeepsUp(b, r, ToSet(values), now, n)
    BY <2>6 DEF KeepsUp
  <2> QED
    BY <2>2, <2>4, <2>5, <2>7 DEF now
<1>6. CASE \E v, w \in Values : values = <<v, w>>
  <2>1. PICK v \in Values, w \in Values : values = <<v, w>>
    BY <1>6
  <2>2. /\ values \in Seq(Values) /\ Len(values) = 2
        /\ values[1] = v /\ values[2] = w /\ ToSet(values) = {v, w}
    <3>1. DOMAIN values = {1, 2} /\ Len(values) = 2 /\ values[1] = v /\ values[2] = w
      BY <2>1
    <3>2. ToSet(values) = {v, w}
      BY <3>1 DEF ToSet
    <3> QED
      BY <2>1, <3>1, <3>2
  <2>3. PICK q : q = UpsertValue(b, v, now)
    OBVIOUS
  <2>4. r = UpsertValue(q, w, now)
    BY <1>4, <2>2, <2>3 DEF Recorded
  <2>5. /\ BucketFit(q) /\ Within(q, now, 2 * n + 1)
        /\ KeepsUp(b, q, {v}, now, now)
    BY <1>1, <1>2, <2>3, UpsertHolds
  <2>6. /\ BucketFit(r) /\ Within(r, now, (2 * n + 1) + 1)
        /\ KeepsUp(q, r, {w}, now, now)
    BY <1>1, <2>4, <2>5, UpsertHolds
  <2>7. ASSUME NEW l, HoldsLatest(b, l), \A u \in DOMAIN l : l[u] \in 0..n
        PROVE  HoldsLatest(r, Stamped(l, ToSet(values), now))
    <3> DEFINE k == Stamped(l, {v}, now)
    <3>1. \A u \in DOMAIN l : l[u] \in 0..now
      BY <1>3, <2>7
    <3>2. HoldsLatest(q, k)
      <4>1. HoldsLatest(b, l) /\ KeepsUp(b, q, {v}, now, now)
        BY <2>5, <2>7
      <4> QED
        BY <3>1, <4>1 DEF KeepsUp
    <3>3. \A u \in DOMAIN k : k[u] \in 0..now
      BY <1>1, <3>1 DEF Stamped
    <3>4. Stamped(k, {w}, now) = Stamped(l, {v, w}, now)
      <4>1. DOMAIN k = DOMAIN l \cup {v} /\ \A u \in DOMAIN k : k[u] = IF u \in {v} THEN now ELSE l[u]
        BY DEF Stamped
      <4> HIDE DEF k
      <4> QED
        BY <4>1 DEF Stamped
    <3> HIDE DEF k
    <3>5. HoldsLatest(r, Stamped(k, {w}, now))
      BY <2>6, <3>2, <3>3 DEF KeepsUp
    <3> QED
      BY <2>2, <3>4, <3>5
  <2>8. KeepsUp(b, r, ToSet(values), now, n)
    BY <2>7 DEF KeepsUp
  <2> QED
    BY <1>1, <2>2, <2>6, <2>8 DEF now
<1> QED
  BY <1>5, <1>6 DEF Batches

LatestFit ==
    /\ \A w, u \in Busy : w = u
    /\ Busy = {} => HoldsLatest(entities, last)
    /\ \A w \in Busy : HoldsLatest(call[w].merged, last)

AnyCall == [at : {"idle", "saving"}, merged : Seq(AnyEntry), values : Seq(Values)]

CallFits(w) == BucketFit(call[w].merged) /\ Within(call[w].merged, calls, 2 * calls)

MemoryInv ==
    /\ calls \in 0..MaxCalls /\ overlapped \in BOOLEAN
    /\ DOMAIN last \subseteq Values
    /\ \A v \in DOMAIN last : last[v] \in 0..calls
    /\ BucketFit(entities) /\ Within(entities, calls, 2 * calls)
    /\ call \in [Writers -> AnyCall]
    /\ \A w \in Writers : CallFits(w)
    /\ ~overlapped => LatestFit


LEMMA EmptyFits ==
    /\ BucketFit(<<>>) /\ \A n, c : Within(<<>>, n, c)
    /\ HoldsLatest(<<>>, [v \in {} |-> 0])
<1>1. Len(<<>>) = 0 /\ DOMAIN <<>> = {} /\ <<>> \in Seq(AnyEntry)
  OBVIOUS
<1>2. ToSet(<<>>) = {}
  BY DEF ToSet
<1> QED
  BY <1>1, <1>2, MemoryAssumption DEF BucketFit, Sorted, Within, HoldsLatest

LEMMA MemoryStarts ==
    ASSUME MemoryInit
    PROVE  MemoryInv
<1>1. \A w \in Writers : call[w] = Idle
  BY DEF MemoryInit
<1>2. Idle.at = "idle" /\ Idle.merged = <<>> /\ Idle \in AnyCall
  BY DEF Idle, AnyCall
<1>3. Busy = {}
  BY <1>1, <1>2 DEF Busy
<1>4. \A w \in Writers : CallFits(w)
  BY <1>1, <1>2, EmptyFits DEF CallFits
<1>5. LatestFit
  BY <1>3, EmptyFits DEF LatestFit, MemoryInit
<1>6. DOMAIN last = {} /\ overlapped \in BOOLEAN
  BY DEF MemoryInit
<1>7. calls \in 0..MaxCalls
  BY MemoryAssumption DEF MemoryInit
<1>8. call \in [Writers -> AnyCall]
  BY <1>2 DEF MemoryInit
<1>9. BucketFit(entities) /\ Within(entities, calls, 2 * calls)
  BY EmptyFits DEF MemoryInit
<1> QED
  BY <1>4, <1>5, <1>6, <1>7, <1>8, <1>9 DEF MemoryInv

LEMMA MemorySteps ==
    ASSUME MemoryInv, [MemoryNext]_memoryVars
    PROVE  MemoryInv'
<1>1. CASE UNCHANGED memoryVars
  BY <1>1 DEF memoryVars, MemoryInv, LatestFit, CallFits, Busy, HoldsLatest, Within, BucketFit
<1>2. CASE ClearMemory
  <2>1. /\ entities' = <<>> /\ last' = [v \in {} |-> 0] /\ call' = call /\ calls' = calls
        /\ overlapped' = (overlapped \/ Busy # {})
    BY <1>2 DEF ClearMemory
  <2>2. Busy' = Busy
    BY <2>1 DEF Busy
  <2>3. \A w \in Writers : CallFits(w)'
    BY <2>1 DEF MemoryInv, CallFits
  <2>4. ~overlapped' => LatestFit'
    <3>1. ASSUME ~overlapped'
          PROVE  Busy' = {}
      BY <2>1, <2>2, <3>1
    <3>2. HoldsLatest(entities', last')
      BY <2>1, EmptyFits
    <3> QED
      BY <3>1, <3>2 DEF LatestFit
  <2>5. BucketFit(entities') /\ Within(entities', calls', 2 * calls')
    BY <2>1, EmptyFits
  <2>6. DOMAIN last' = {} /\ overlapped' \in BOOLEAN
    BY <2>1 DEF MemoryInv
  <2> QED
    BY <2>1, <2>3, <2>4, <2>5, <2>6 DEF MemoryInv
<1>3. ASSUME NEW w \in Writers, NEW values \in Batches, ReadAndMerge(w, values)
      PROVE  MemoryInv'
  <2>1. /\ call' = [call EXCEPT ![w] =
                       [at |-> "saving", values |-> values,
                        merged |-> Recorded(entities, values, calls + 1)]]
        /\ last' = [v \in DOMAIN last \cup ToSet(values) |->
                       IF v \in ToSet(values) THEN calls + 1 ELSE last[v]]
    BY <1>3 DEF ReadAndMerge
  <2>2. /\ calls < MaxCalls /\ calls' = calls + 1 /\ entities' = entities
        /\ overlapped' = (overlapped \/ Busy # {}) /\ call[w].at = "idle"
    BY <1>3 DEF ReadAndMerge
  <2>3. calls \in Nat /\ calls' \in 0..MaxCalls /\ calls' \in Nat
    BY <2>2, MemoryAssumption DEF MemoryInv
  <2>4. PICK r : r = Recorded(entities, values, calls + 1)
    OBVIOUS
  <2>5. /\ values \in Seq(Values)
        /\ BucketFit(r) /\ Within(r, calls + 1, 2 * (calls + 1))
        /\ KeepsUp(entities, r, ToSet(values), calls + 1, calls)
    <3>1. BucketFit(entities) /\ Within(entities, calls, 2 * calls)
      BY DEF MemoryInv
    <3> QED
      BY <2>3, <2>4, <3>1, RecordedHolds
  <2>6. last' = Stamped(last, ToSet(values), calls + 1)
    BY <2>1 DEF Stamped
  <2>7. \A z \in Writers : z # w => call'[z] = call[z]
    BY <2>1
  <2>8. call'[w].at = "saving" /\ call'[w].values = values /\ call'[w].merged = r
    <3>1. call'[w] = [at |-> "saving", values |-> values,
                      merged |-> Recorded(entities, values, calls + 1)]
      BY <2>1 DEF MemoryInv
    <3> QED
      BY <2>4, <3>1
  <2>9. call' \in [Writers -> AnyCall]
    <3>1. [at |-> "saving", values |-> values,
           merged |-> Recorded(entities, values, calls + 1)] \in AnyCall
      BY <2>4, <2>5 DEF AnyCall, BucketFit
    <3>2. call \in [Writers -> AnyCall]
      BY DEF MemoryInv
    <3> QED
      BY <2>1, <3>1, <3>2
  <2>10. /\ 1..calls \subseteq 1..calls' /\ 1..(2 * calls) \subseteq 1..(2 * calls')
         /\ 0..calls \subseteq 0..calls'
    BY <2>2, <2>3
  <2>11. \A b : Within(b, calls, 2 * calls) => Within(b, calls', 2 * calls')
    BY <2>10 DEF Within
  <2>12. Within(r, calls', 2 * calls')
    BY <2>2, <2>5
  <2>13. \A z \in Writers : CallFits(z)'
    <3>1. ASSUME NEW z \in Writers, z # w
          PROVE  CallFits(z)'
      <4>1. CallFits(z) /\ call'[z] = call[z]
        BY <2>7, <3>1 DEF MemoryInv
      <4> QED
        BY <2>11, <4>1 DEF CallFits
    <3>2. CallFits(w)'
      BY <2>5, <2>8, <2>12 DEF CallFits
    <3> QED
      BY <3>1, <3>2
  <2>14. ASSUME ~overlapped'
         PROVE  LatestFit'
    <3>1. ~overlapped /\ Busy = {}
      <4>1. overlapped' = (overlapped \/ Busy # {})
        BY <2>2
      <4>2. CASE overlapped
        BY <2>14, <4>1, <4>2
      <4>3. CASE Busy # {}
        BY <2>14, <4>1, <4>3
      <4> QED
        BY <4>2, <4>3
    <3>2. Busy' = {w}
      <4>1. \A z \in Writers : z # w => call'[z].at = "idle"
        BY <2>7, <3>1 DEF Busy
      <4> QED
        BY <2>8, <4>1 DEF Busy
    <3>3. HoldsLatest(entities, last) /\ \A v \in DOMAIN last : last[v] \in 0..calls
      BY <3>1 DEF MemoryInv, LatestFit
    <3>4. KeepsUp(entities, r, ToSet(values), calls + 1, calls)
      BY <2>5
    <3>5. HoldsLatest(r, Stamped(last, ToSet(values), calls + 1))
      BY <3>3, <3>4 DEF KeepsUp
    <3>6. HoldsLatest(call'[w].merged, last')
      BY <2>6, <2>8, <3>5
    <3> QED
      BY <3>2, <3>6 DEF LatestFit
  <2>15. /\ DOMAIN last' \subseteq Values
         /\ \A v \in DOMAIN last' : last'[v] \in 0..calls'
    <3>1. ToSet(values) \subseteq Values
      BY <2>5 DEF ToSet
    <3>2. DOMAIN last' = DOMAIN last \cup ToSet(values)
      BY <2>1
    <3>3. ASSUME NEW v \in DOMAIN last'
          PROVE  last'[v] \in 0..calls'
      <4>1. CASE v \in ToSet(values)
        <5>1. last'[v] = calls'
          BY <2>1, <2>2, <3>2, <4>1
        <5> QED
          BY <2>3, <5>1
      <4>2. CASE v \notin ToSet(values)
        <5>1. last'[v] = last[v] /\ v \in DOMAIN last
          BY <2>1, <3>2, <3>3, <4>2
        <5>2. last[v] \in 0..calls
          BY <5>1 DEF MemoryInv
        <5> QED
          BY <2>10, <5>1, <5>2
      <4> QED
        BY <4>1, <4>2
    <3> QED
      BY <3>1, <3>2, <3>3 DEF MemoryInv
  <2>16. /\ BucketFit(entities') /\ Within(entities', calls', 2 * calls')
         /\ overlapped' \in BOOLEAN
    BY <2>2, <2>11 DEF MemoryInv
  <2> QED
    BY <2>3, <2>9, <2>13, <2>14, <2>15, <2>16 DEF MemoryInv
<1>4. ASSUME NEW w \in Writers, Save(w)
      PROVE  MemoryInv'
  <2>1. /\ call[w].at = "saving" /\ entities' = call[w].merged
        /\ call' = [call EXCEPT ![w] = Idle]
        /\ calls' = calls /\ last' = last /\ overlapped' = overlapped
    BY <1>4 DEF Save
  <2>2. call'[w] = Idle /\ \A z \in Writers : z # w => call'[z] = call[z]
    BY <2>1 DEF MemoryInv
  <2>3. Idle.at = "idle" /\ Idle.merged = <<>> /\ Idle \in AnyCall
    BY DEF Idle, AnyCall
  <2>4. call' \in [Writers -> AnyCall]
    BY <2>1, <2>3 DEF MemoryInv
  <2>5. \A z \in Writers : CallFits(z)'
    <3>1. ASSUME NEW z \in Writers, z # w
          PROVE  CallFits(z)'
      <4>1. CallFits(z) /\ call'[z] = call[z]
        BY <2>2, <3>1 DEF MemoryInv
      <4> QED
        BY <2>1, <4>1 DEF CallFits
    <3>2. CallFits(w)'
      BY <2>2, <2>3, EmptyFits DEF CallFits
    <3> QED
      BY <3>1, <3>2
  <2>6. BucketFit(entities') /\ Within(entities', calls', 2 * calls')
    BY <2>1 DEF MemoryInv, CallFits
  <2>7. ASSUME ~overlapped'
        PROVE  LatestFit'
    <3>1. w \in Busy /\ LatestFit
      BY <2>1, <2>7 DEF MemoryInv, Busy
    <3>2. Busy' = {}
      <4>1. \A z \in Writers : call'[z].at = "idle"
        BY <2>2, <2>3, <3>1 DEF LatestFit, Busy
      <4> QED
        BY <4>1 DEF Busy
    <3>3. HoldsLatest(entities', last')
      BY <2>1, <3>1 DEF LatestFit
    <3> QED
      BY <3>2, <3>3 DEF LatestFit
  <2> QED
    BY <2>1, <2>4, <2>5, <2>6, <2>7 DEF MemoryInv
<1> QED
  BY <1>1, <1>2, <1>3, <1>4 DEF MemoryNext

\* A bucket within the bounds of the run is one of its entries.
LEMMA WithinIsTyped ==
    ASSUME NEW b \in Seq(AnyEntry), NEW n \in 0..MaxCalls, Within(b, n, 2 * n)
    PROVE  b \in Seq(Entry)
<1>1. 1..n \subseteq 1..MaxCalls /\ 1..(2 * n) \subseteq 1..(2 * MaxCalls)
  BY MemoryAssumption
<1>2. \A i \in 1..Len(b) : b[i] \in Entry
  <2>1. \A i \in 1..Len(b) : b[i] \in AnyEntry /\ b[i] \in ToSet(b)
    BY DEF ToSet
  <2>2. \A f \in ToSet(b) : f.seen \in 1..MaxCalls /\ f.count \in 1..(2 * MaxCalls)
    BY <1>1 DEF Within
  <2> QED
    BY <2>1, <2>2 DEF AnyEntry, Entry
<1> QED
  BY <1>2

LEMMA MemoryIsSound ==
    ASSUME MemoryInv
    PROVE  MemoryTypeOK /\ KeepsTheLatest
<1>1. /\ entities \in Seq(AnyEntry) /\ Len(entities) <= CapPerCategory /\ Sorted(entities)
      /\ Within(entities, calls, 2 * calls) /\ calls \in 0..MaxCalls
      /\ CapPerCategory \in Nat /\ Len(entities) \in Nat
  BY MemoryAssumption DEF MemoryInv, BucketFit
<1>2. MemoryTypeOK
  <2>1. entities \in Seq(Entry)
    BY <1>1, WithinIsTyped
  <2>2. ASSUME NEW w \in Writers
        PROVE  call[w].merged \in Seq(Entry)
    <3>1. call[w].merged \in Seq(AnyEntry) /\ Within(call[w].merged, calls, 2 * calls)
      BY DEF MemoryInv, CallFits, BucketFit
    <3> QED
      BY <1>1, <3>1, WithinIsTyped
  <2>3. call \in [Writers -> [at : {"idle", "saving"}, merged : Seq(Entry), values : Seq(Values)]]
    <3>1. \A w \in Writers :
             call[w] \in [at : {"idle", "saving"}, merged : Seq(Entry), values : Seq(Values)]
      BY <2>2 DEF MemoryInv, AnyCall
    <3> QED
      BY <3>1 DEF MemoryInv
  <2> QED
    BY <1>1, <2>1, <2>3 DEF MemoryTypeOK, MemoryInv
<1>3. ASSUME NEW i \in DOMAIN entities, NEW j \in DOMAIN entities, i < j
      PROVE  entities[i].value # entities[j].value /\ entities[i].seen >= entities[j].seen
  <2>1. entities[i] \in AnyEntry /\ entities[j] \in AnyEntry
    BY <1>1
  <2>2. entities[i].value # entities[j].value /\ ~Newer(entities[j], entities[i])
    BY <1>1, <1>3 DEF Sorted
  <2> QED
    BY <2>1, <2>2, NewerOrders
<1>4. ASSUME ~overlapped, Busy = {}
      PROVE  /\ \A i \in DOMAIN entities : entities[i].seen = last[entities[i].value]
             /\ \A v \in DOMAIN last \ Kept : \A u \in Kept : last[v] <= last[u]
             /\ Len(entities) < CapPerCategory => Kept = DOMAIN last
  <2>1. HoldsLatest(entities, last)
    BY <1>4 DEF MemoryInv, LatestFit
  <2>2. Kept = {f.value : f \in ToSet(entities)}
    BY DEF Kept, ToSet
  <2>3. \A i \in DOMAIN entities : entities[i] \in ToSet(entities)
    BY DEF ToSet
  <2>4. /\ \A f \in ToSet(entities) : f.value \in DOMAIN last /\ last[f.value] = f.seen
        /\ \A v \in DOMAIN last :
              \/ \E f \in ToSet(entities) : f.value = v
              \/ /\ Len(entities) = CapPerCategory
                 /\ \A f \in ToSet(entities) : last[v] <= f.seen
    BY <2>1 DEF HoldsLatest
  <2>5. ASSUME NEW v \in DOMAIN last \ Kept
        PROVE  Len(entities) = CapPerCategory /\ \A u \in Kept : last[v] <= last[u]
    BY <2>2, <2>4
  <2>6. Kept \subseteq DOMAIN last
    BY <2>2, <2>4
  <2>7. Len(entities) < CapPerCategory => Kept = DOMAIN last
    <3>1. ASSUME Len(entities) < CapPerCategory
          PROVE  Len(entities) # CapPerCategory
      BY <1>1, <3>1
    <3> QED
      BY <2>5, <2>6, <3>1
  <2>8. \A i \in DOMAIN entities : entities[i].seen = last[entities[i].value]
    BY <2>3, <2>4
  <2> QED
    BY <2>5, <2>7, <2>8
<1>5. KeepsTheLatest
  BY <1>1, <1>3, <1>4 DEF KeepsTheLatest
<1> QED
  BY <1>2, <1>5

-----------------------------------------------------------------------------
(* The store of the documents.  Who writes has seen that the collection has *)
(* the width of the configured model; and while nothing failed in a job,    *)
(* the documents it is done with are stored.                                *)

DocumentStored(d) == Chunks(d, edition[d]) \subseteq stored

StoreInv ==
    /\ StoreTypeOK
    /\ caller = "writing" => width["docs"] = dim
    /\ "written" \notin foreign
    /\ job.at = "run" /\ smooth => \A d \in Documents \ job.todo : DocumentStored(d)
    /\ job.at = "done" /\ smooth => \A d \in Documents : DocumentStored(d)

AnyStats == [seen : Nat, new : Nat, skipped : Nat, failed : Nat]
AnyJob == [at : {"none", "run", "done"}, todo : SUBSET Documents, stats : AnyStats]

LEMMA NoJobIsTyped == NoJob \in AnyJob /\ NoStats \in AnyStats /\ NoJob.at = "none"
  BY DEF NoJob, NoStats, AnyJob, AnyStats

LEMMA StoreStarts ==
    ASSUME StoreInit
    PROVE  StoreInv
<1>1. width \in [Collections -> {0} \cup Dims]
  BY DEF StoreInit
<1>2. edition \in [Documents -> 0..MaxEditions]
  <2>1. 0 \in 0..MaxEditions
    BY StoreAssumption
  <2> QED
    BY <2>1 DEF StoreInit
<1>3. job \in AnyJob /\ job.at = "none"
  BY NoJobIsTyped DEF StoreInit
<1>4. /\ client \in BOOLEAN /\ dim \in Dims /\ caller = "idle"
      /\ stored = {} /\ foreign = {}
  BY DEF StoreInit
<1>5. StoreTypeOK
  BY <1>1, <1>2, <1>3, <1>4 DEF StoreTypeOK, AnyJob, AnyStats
<1> QED
  BY <1>3, <1>4, <1>5 DEF StoreInv

LEMMA ChunksFit ==
    ASSUME StoreTypeOK, NEW d \in Documents
    PROVE  /\ IsFiniteSet(Chunks(d, edition[d]))
           /\ Chunks(d, edition[d]) \subseteq
                 Documents \X {"body", "footer"} \X (0..MaxEditions)
<1>1. edition[d] \in 0..MaxEditions /\ 0 \in 0..MaxEditions
  BY StoreAssumption DEF StoreTypeOK
<1>2. Chunks(d, edition[d]) \subseteq Documents \X {"body", "footer"} \X (0..MaxEditions)
  BY <1>1 DEF Chunks
<1>3. IsFiniteSet(Chunks(d, edition[d]))
  <2>1. Chunks(d, edition[d]) = {<<d, "body", edition[d]>>} \cup {<<d, "footer", 0>>}
    BY DEF Chunks
  <2>2. IsFiniteSet({<<d, "body", edition[d]>>}) /\ IsFiniteSet({<<d, "footer", 0>>})
    BY FS_Singleton
  <2> QED
    BY <2>1, <2>2, FS_Union
<1> QED
  BY <1>2, <1>3

\* What the client does leaves the library alone, and writes to no collection
\* of another width.
LEMMA ClientSteps ==
    ASSUME StoreInv, ClientNext
    PROVE  StoreInv'
<1>1. /\ client \in BOOLEAN /\ dim \in Dims /\ width \in [Collections -> {0} \cup Dims]
      /\ caller \in {"idle", "connected", "writing", "blind", "refused"}
      /\ foreign \subseteq {"written", "unchecked", "read"} /\ "written" \notin foreign
      /\ caller = "writing" => width["docs"] = dim
      /\ "docs" \in Collections /\ "primary" \in Collections
  BY DEF StoreInv, StoreTypeOK, Collections
<1>2. UNCHANGED library
  BY DEF ClientNext, ConnectClient, EnsureFor, UpsertPoint, SearchPrimary, Degrade,
         RestartProcess
<1>3. edition' = edition /\ stored' = stored /\ job' = job /\ smooth' = smooth
  BY <1>2 DEF library
<1>4. SUFFICES /\ client' \in BOOLEAN /\ dim' \in Dims
               /\ width' \in [Collections -> {0} \cup Dims]
               /\ caller' \in {"idle", "connected", "writing", "blind", "refused"}
               /\ foreign' \subseteq {"written", "unchecked", "read"} /\ "written" \notin foreign'
               /\ caller' = "writing" => width'["docs"] = dim'
  <2>1. StoreTypeOK'
    BY <1>3, <1>4 DEF StoreInv, StoreTypeOK
  <2>2. \A d \in Documents : DocumentStored(d)' <=> DocumentStored(d)
    BY <1>3 DEF DocumentStored
  <2>3. /\ (job.at = "run" /\ smooth => \A d \in Documents \ job.todo : DocumentStored(d))'
        /\ (job.at = "done" /\ smooth => \A d \in Documents : DocumentStored(d))'
    BY <1>3 DEF StoreInv, DocumentStored
  <2> QED
    BY <1>4, <2>1, <2>3 DEF StoreInv
<1>5. ASSUME NEW c \in Collections, NEW then \in {"connected", "writing"}, Ensure(c, then)
      PROVE  /\ width' \in [Collections -> {0} \cup Dims]
             /\ caller' \in {then, Unread(then), "refused"}
             /\ caller' = "writing" => width'[c] = dim
  <2>1. CASE width[c] = 0 /\ width' = [width EXCEPT ![c] = dim] /\ caller' = then
    BY <1>1, <2>1
  <2>2. CASE width[c] = dim /\ UNCHANGED width /\ caller' = then
    BY <1>1, <2>2
  <2>3. CASE UNCHANGED width /\ caller' \in {"refused", Unread(then)}
    BY <1>1, <2>3 DEF Unread
  <2> QED
    BY <1>5, <2>1, <2>2, <2>3 DEF Ensure
<1>6. CASE ConnectClient
  <2>1. dim' = dim /\ foreign' = foreign
    BY <1>6 DEF ConnectClient
  <2>2. CASE caller' = "connected" /\ UNCHANGED <<client, width>>
    BY <1>1, <2>1, <2>2
  <2>3. CASE client' = TRUE /\ Ensure("primary", "connected")
    <3>1. width' \in [Collections -> {0} \cup Dims] /\ caller' \in {"connected", "refused"}
      BY <1>1, <1>5, <2>3 DEF Unread
    <3> QED
      BY <1>1, <2>1, <2>3, <3>1
  <2>4. CASE caller' = "refused" /\ UNCHANGED <<client, width>>
    BY <1>1, <2>1, <2>4
  <2> QED
    BY <1>6, <2>2, <2>3, <2>4 DEF ConnectClient
<1>7. CASE EnsureFor
  <2>1. dim' = dim /\ foreign' = foreign /\ client' = client /\ Ensure("docs", "writing")
    BY <1>7 DEF EnsureFor
  <2>2. /\ width' \in [Collections -> {0} \cup Dims] /\ caller' \in {"writing", "blind", "refused"}
        /\ caller' = "writing" => width'["docs"] = dim
    BY <1>1, <1>5, <2>1 DEF Unread
  <2> QED
    BY <1>1, <2>1, <2>2
<1>8. CASE UpsertPoint
  <2>1. \/ caller = "blind" /\ foreign' \in {foreign, foreign \cup {"unchecked"}}
        \/ width["docs"] = dim /\ foreign' = foreign
    BY <1>1, <1>8 DEF UpsertPoint
  <2>2. caller' = "idle" /\ client' = client /\ dim' = dim /\ width' = width
    BY <1>8 DEF UpsertPoint
  <2> QED
    BY <1>1, <2>1, <2>2
<1>9. CASE SearchPrimary
  <2>1. /\ foreign' \in {foreign, foreign \cup {"read"}}
        /\ caller' = "idle" /\ client' = client /\ dim' = dim /\ width' = width
    BY <1>9 DEF SearchPrimary
  <2> QED
    BY <1>1, <2>1
<1>10. CASE Degrade
  BY <1>1, <1>10 DEF Degrade
<1>11. CASE RestartProcess
  BY <1>1, <1>11 DEF RestartProcess
<1> QED
  BY <1>6, <1>7, <1>8, <1>9, <1>10, <1>11 DEF ClientNext

LEMMA LibrarySteps ==
    ASSUME StoreInv, LibraryNext
    PROVE  StoreInv'
<1>1. /\ edition \in [Documents -> 0..MaxEditions]
      /\ stored \subseteq Documents \X {"body", "footer"} \X (0..MaxEditions)
      /\ job \in AnyJob
  BY DEF StoreInv, StoreTypeOK, AnyJob, AnyStats
<1>2. UNCHANGED connection
  BY DEF LibraryNext, StartJob, FinishJob, KillJob, EditDocument, IngestDocument
<1>3. client' = client /\ dim' = dim /\ width' = width /\ caller' = caller /\ foreign' = foreign
  BY <1>2 DEF connection
<1>4. SUFFICES /\ edition' \in [Documents -> 0..MaxEditions]
               /\ stored' \subseteq Documents \X {"body", "footer"} \X (0..MaxEditions)
               /\ job' \in AnyJob
               /\ job'.at = "run" /\ smooth' =>
                     \A d \in Documents \ job'.todo : DocumentStored(d)'
               /\ job'.at = "done" /\ smooth' => \A d \in Documents : DocumentStored(d)'
  <2>1. StoreTypeOK'
    BY <1>3, <1>4 DEF StoreInv, StoreTypeOK, AnyJob, AnyStats
  <2>2. (caller = "writing" => width["docs"] = dim)' /\ ("written" \notin foreign)'
    BY <1>3 DEF StoreInv
  <2> QED
    BY <1>4, <2>1, <2>2 DEF StoreInv
<1>5. CASE StartJob
  <2>1. /\ edition' = edition /\ stored' = stored
        /\ job' = [at |-> "run", todo |-> Documents, stats |-> NoStats]
    BY <1>5 DEF StartJob
  <2>2. job' \in AnyJob /\ job'.at = "run" /\ job'.todo = Documents
    BY <2>1, NoJobIsTyped DEF AnyJob
  <2> QED
    BY <1>1, <2>1, <2>2
<1>6. CASE FinishJob
  <2>1. /\ edition' = edition /\ stored' = stored /\ job.at = "run"
        /\ job' = [job EXCEPT !.at = "done"]
        /\ smooth' = (smooth /\ job.todo = {})
    BY <1>6 DEF FinishJob
  <2>2. job' \in AnyJob /\ job'.at = "done"
    BY <1>1, <2>1 DEF AnyJob
  <2>3. ASSUME smooth'
        PROVE  \A d \in Documents : DocumentStored(d)'
    <3>1. smooth /\ job.todo = {}
      BY <2>1, <2>3
    <3>2. \A d \in Documents : DocumentStored(d)
      BY <2>1, <3>1 DEF StoreInv
    <3> QED
      BY <2>1, <3>2 DEF DocumentStored
  <2> QED
    BY <1>1, <2>1, <2>2, <2>3
<1>7. CASE KillJob
  <2>1. edition' = edition /\ stored' = stored /\ job' = NoJob
    BY <1>7 DEF KillJob
  <2> QED
    BY <1>1, <2>1, NoJobIsTyped
<1>8. ASSUME NEW d \in Documents, EditDocument(d)
      PROVE  /\ edition' \in [Documents -> 0..MaxEditions]
             /\ stored' \subseteq Documents \X {"body", "footer"} \X (0..MaxEditions)
             /\ job' \in AnyJob /\ job'.at = "none"
  <2>1. /\ edition[d] < MaxEditions /\ edition' = [edition EXCEPT ![d] = @ + 1]
        /\ stored' = stored /\ job' = NoJob
    BY <1>8 DEF EditDocument
  <2>2. edition[d] + 1 \in 0..MaxEditions
    BY <1>1, <2>1, StoreAssumption
  <2>3. edition' = [edition EXCEPT ![d] = edition[d] + 1]
    BY <2>1
  <2> QED
    BY <1>1, <2>1, <2>2, <2>3, NoJobIsTyped
<1>9. ASSUME NEW d \in Documents, IngestDocument(d)
      PROVE  /\ edition' \in [Documents -> 0..MaxEditions]
             /\ stored' \subseteq Documents \X {"body", "footer"} \X (0..MaxEditions)
             /\ job' \in AnyJob /\ job'.at = "run"
             /\ smooth' => \A e \in Documents \ job'.todo : DocumentStored(e)'
  <2> DEFINE chunks == Chunks(d, edition[d])
             s == job.stats
             n == Cardinality(chunks)
  <2>1. /\ job.at = "run" /\ d \in job.todo /\ edition' = edition
        /\ \E present \in Present(chunks) :
             LET skipped == s.skipped + Cardinality(present) IN
             \/ \E failed \in SUBSET (chunks \ present) :
                 /\ stored' = stored \cup (chunks \ (present \cup failed))
                 /\ job' = [job EXCEPT
                       !.todo = @ \ {d},
                       !.stats = [seen |-> s.seen + n, skipped |-> skipped,
                                  new |-> s.new + Cardinality(chunks \ (present \cup failed)),
                                  failed |-> s.failed + Cardinality(failed)]]
                 /\ smooth' = (smooth /\ failed = {})
             \/ /\ present # chunks
                /\ job' = [job EXCEPT
                     !.todo = @ \ {d},
                     !.stats = [seen |-> s.seen + n, skipped |-> skipped, new |-> s.new,
                                failed |-> s.failed + Max({0, n - skipped - s.new})]]
                /\ smooth' = FALSE
                /\ UNCHANGED stored
    BY <1>9 DEF IngestDocument
  <2>2. /\ IsFiniteSet(chunks)
        /\ chunks \subseteq Documents \X {"body", "footer"} \X (0..MaxEditions)
    BY ChunksFit DEF StoreInv
  <2>3. /\ s.seen \in Nat /\ s.new \in Nat /\ s.skipped \in Nat /\ s.failed \in Nat
        /\ job.todo \subseteq Documents /\ job.at \in {"none", "run", "done"}
    BY <1>1 DEF AnyJob, AnyStats
  <2>4. \A c \in SUBSET chunks : Cardinality(c) \in Nat
    BY <2>2, FS_Subset, FS_CardinalityType
  <2> HIDE DEF chunks
  <2>5. n \in Nat
    BY <2>4
  <2>6. \A e \in Documents : e # d => (DocumentStored(e) /\ stored \subseteq stored' => DocumentStored(e)')
    BY <2>1 DEF DocumentStored
  <2> HIDE DEF s, n
  <2>7. PICK present \in Present(chunks) :
             \/ \E failed \in SUBSET (chunks \ present) :
                 /\ stored' = stored \cup (chunks \ (present \cup failed))
                 /\ job' = [job EXCEPT
                       !.todo = @ \ {d},
                       !.stats = [seen |-> s.seen + n,
                                  skipped |-> s.skipped + Cardinality(present),
                                  new |-> s.new + Cardinality(chunks \ (present \cup failed)),
                                  failed |-> s.failed + Cardinality(failed)]]
                 /\ smooth' = (smooth /\ failed = {})
             \/ /\ job' = [job EXCEPT
                     !.todo = @ \ {d},
                     !.stats = [seen |-> s.seen + n,
                                skipped |-> s.skipped + Cardinality(present), new |-> s.new,
                                failed |-> s.failed
                                    + Max({0, n - (s.skipped + Cardinality(present)) - s.new})]]
                /\ smooth' = FALSE
                /\ UNCHANGED stored
    BY <2>1
  <2>8. present \subseteq chunks /\ present \subseteq stored
    BY DEF Present
  <2>9. s.skipped + Cardinality(present) \in Nat /\ s.seen + n \in Nat
    BY <2>3, <2>4, <2>5, <2>8
  <2>10. ASSUME NEW stats \in AnyStats,
                job' = [job EXCEPT !.todo = @ \ {d}, !.stats = stats]
         PROVE  job' \in AnyJob /\ job'.at = "run" /\ job'.todo = job.todo \ {d}
    BY <1>1, <2>1, <2>10 DEF AnyJob
  <2>11. ASSUME NEW failed \in SUBSET (chunks \ present),
                 stored' = stored \cup (chunks \ (present \cup failed)),
                 job' = [job EXCEPT
                       !.todo = @ \ {d},
                       !.stats = [seen |-> s.seen + n,
                                  skipped |-> s.skipped + Cardinality(present),
                                  new |-> s.new + Cardinality(chunks \ (present \cup failed)),
                                  failed |-> s.failed + Cardinality(failed)]],
                 smooth' = (smooth /\ failed = {})
         PROVE  /\ stored' \subseteq Documents \X {"body", "footer"} \X (0..MaxEditions)
                /\ job' \in AnyJob /\ job'.at = "run"
                /\ smooth' => \A e \in Documents \ job'.todo : DocumentStored(e)'
    <3> DEFINE stats == [seen |-> s.seen + n,
                         skipped |-> s.skipped + Cardinality(present),
                         new |-> s.new + Cardinality(chunks \ (present \cup failed)),
                         failed |-> s.failed + Cardinality(failed)]
    <3>1. /\ Cardinality(failed) \in Nat
          /\ Cardinality(chunks \ (present \cup failed)) \in Nat
      <4>1. failed \in SUBSET chunks /\ chunks \ (present \cup failed) \in SUBSET chunks
        OBVIOUS
      <4> QED
        BY <2>4, <4>1
    <3>2. /\ s.new + Cardinality(chunks \ (present \cup failed)) \in Nat
          /\ s.failed + Cardinality(failed) \in Nat
      BY <2>3, <3>1
    <3>3. stats \in AnyStats
      BY <2>9, <3>2 DEF AnyStats
    <3>4. job' = [job EXCEPT !.todo = @ \ {d}, !.stats = stats]
      BY <2>11
    <3> HIDE DEF stats
    <3>5. job' \in AnyJob /\ job'.at = "run" /\ job'.todo = job.todo \ {d}
      BY <2>10, <3>3, <3>4
    <3>6. ASSUME smooth', NEW e \in Documents \ job'.todo
          PROVE  DocumentStored(e)'
      <4>1. smooth /\ failed = {}
        BY <2>11, <3>6
      <4>2. stored \subseteq stored' /\ chunks \subseteq stored'
        BY <2>8, <2>11, <4>1
      <4>3. CASE e = d
        BY <2>1, <4>2, <4>3 DEF DocumentStored, chunks
      <4>4. CASE e # d
        <5>1. e \in Documents \ job.todo
          BY <3>5, <4>4
        <5>2. DocumentStored(e)
          BY <2>1, <4>1, <5>1 DEF StoreInv
        <5> QED
          BY <2>6, <4>2, <4>4, <5>1, <5>2
      <4> QED
        BY <4>3, <4>4
    <3>7. stored' \subseteq Documents \X {"body", "footer"} \X (0..MaxEditions)
      BY <1>1, <2>2, <2>11
    <3> QED
      BY <3>5, <3>6, <3>7
  <2>12. ASSUME job' = [job EXCEPT
                     !.todo = @ \ {d},
                     !.stats = [seen |-> s.seen + n,
                                skipped |-> s.skipped + Cardinality(present), new |-> s.new,
                                failed |-> s.failed
                                    + Max({0, n - (s.skipped + Cardinality(present)) - s.new})]],
                smooth' = FALSE, UNCHANGED stored
         PROVE  /\ stored' \subseteq Documents \X {"body", "footer"} \X (0..MaxEditions)
                /\ job' \in AnyJob /\ job'.at = "run" /\ ~smooth'
    <3> DEFINE k == n - (s.skipped + Cardinality(present)) - s.new
               stats == [seen |-> s.seen + n,
                         skipped |-> s.skipped + Cardinality(present), new |-> s.new,
                         failed |-> s.failed + Max({0, k})]
    <3>1. k \in Int
      BY <2>3, <2>5, <2>9
    <3> HIDE DEF k
    <3>2. Max({0, k}) \in Nat
      <4>1. \E m \in {0, k} : \A j \in {0, k} : m >= j
        BY <3>1
      <4>2. Max({0, k}) \in {0, k} /\ \A j \in {0, k} : Max({0, k}) >= j
        BY <4>1 DEF Max
      <4> QED
        BY <3>1, <4>2
    <3>3. stats \in AnyStats
      <4>1. s.failed + Max({0, k}) \in Nat
        BY <2>3, <3>2
      <4> QED
        BY <2>3, <2>9, <4>1 DEF AnyStats
    <3>4. job' = [job EXCEPT !.todo = @ \ {d}, !.stats = stats]
      BY <2>12 DEF k
    <3> HIDE DEF stats
    <3>5. job' \in AnyJob /\ job'.at = "run"
      BY <2>10, <3>3, <3>4
    <3> QED
      BY <1>1, <2>12, <3>5
  <2> QED
    BY <1>1, <2>1, <2>7, <2>11, <2>12
<1>10. CASE \E d \in Documents : EditDocument(d) \/ IngestDocument(d)
  <2>1. PICK d \in Documents : EditDocument(d) \/ IngestDocument(d)
    BY <1>10
  <2>2. CASE EditDocument(d)
    BY <1>8, <2>1, <2>2
  <2>3. CASE IngestDocument(d)
    BY <1>9, <2>1, <2>3
  <2> QED
    BY <2>1, <2>2, <2>3
<1> QED
  BY <1>5, <1>6, <1>7, <1>10 DEF LibraryNext

LEMMA StoreKept ==
    ASSUME StoreInv, UNCHANGED storeVars
    PROVE  StoreInv'
  BY DEF storeVars, StoreInv, StoreTypeOK, DocumentStored

LEMMA StoreFits ==
    ASSUME StoreInv
    PROVE  StoreTypeOK /\ StoreIsSound
<1>1. job.at = "done" /\ smooth => Current \subseteq stored
  BY DEF StoreInv, DocumentStored, Current
<1> QED
  BY <1>1 DEF StoreInv, StoreIsSound, WritesFit, JobIsComplete

\* For every cap, every number of turns that record at once and every batch of
\* values, and whatever the jobs and the provider: the parts' variables keep their
\* types, a user's memory is bounded, without duplicates and newest first, and
\* holds the latest while no records overlapped; nothing is written to a
\* collection of another width, and a job in which nothing failed left the
\* documents stored.
THEOREM StoresHold == Spec => []StoresAreSound
<1> DEFINE Inv == TurnsInv /\ KnowledgeInv /\ MemoryInv /\ StoreInv
<1>1. Init => Inv
  BY TurnsStart, KnowledgeStart, MemoryStarts, StoreStarts DEF Init
<1>2. Inv /\ [Next]_vars => Inv'
  <2> SUFFICES ASSUME Inv, [Next]_vars
               PROVE  Inv'
    OBVIOUS
  <2>1. TurnsInv' /\ KnowledgeInv'
    BY TurnsStep, KnowledgeSteps, StepOfEach
  <2>2. MemoryInv'
    BY MemorySteps, StepOfEach
  <2>3. StoreInv'
    BY ClientSteps, LibrarySteps, StoreKept, StepOfEach
  <2> QED
    BY <2>1, <2>2, <2>3
<1>3. Inv => StoresAreSound
  <2> SUFFICES ASSUME Inv
               PROVE  StoresAreSound
    OBVIOUS
  <2>1. ChatTypeOK /\ KnowledgeTypeOK
    BY DEF TurnsInv, TurnsTyped, KnowledgeInv
  <2>2. MemoryTypeOK /\ KeepsTheLatest
    BY MemoryIsSound
  <2>3. StoreTypeOK /\ StoreIsSound
    BY StoreFits
  <2> QED
    BY <2>1, <2>2, <2>3 DEF StoresAreSound
<1> QED
  BY <1>1, <1>2, <1>3, PTL DEF Spec

=============================================================================
