----------------------------- MODULE VectorStore -----------------------------
(***************************************************************************)
(* The Qdrant client of the backend (services/vector_db.py) and the        *)
(* ingestion of documents into it (services/rag/ingestion.py,              *)
(* scripts/reindex.py).  A collection keeps the vector width of the        *)
(* embeddings model that was configured when it was created; the provider  *)
(* may be another one after a restart.                                     *)
(*                                                                         *)
(*   client      the process has a client                                  *)
(*   dim         the width of the configured model's vectors               *)
(*   width[c]    the width collection c was created with, or 0             *)
(*   caller      where the code that uses the store is; "blind" if it is   *)
(*               to write and could not read the width of the collection   *)
(*   edition[d]  the edition of each document; stored, the chunks stored   *)
(*   job         the reindex job: its documents to go and its statistics   *)
(* History: foreign, how a collection of another width was used, knowing   *)
(* no better or not;                                                       *)
(* smooth, nothing failed in the job so far.                               *)
(***************************************************************************)
EXTENDS Integers, FiniteSets, FiniteSetsExt

CONSTANTS
    Documents,
    MaxEditions, MaxRestarts, MaxJobs    \* bounds

ASSUME StoreAssumption == {MaxEditions, MaxRestarts, MaxJobs} \subseteq Nat

VARIABLES client, dim, width, caller, edition, stored, job, foreign, smooth,
          restarts, jobs

storeVars == <<client, dim, width, caller, edition, stored, job, foreign, smooth,
               restarts, jobs>>

connection == <<client, dim, width, caller, foreign, restarts>>
library == <<edition, stored, job, smooth, jobs>>

Collections == {"primary", "docs"}
Dims == {1, 2}

NoStats == [seen |-> 0, new |-> 0, skipped |-> 0, failed |-> 0]
NoJob == [at |-> "none", todo |-> {}, stats |-> NoStats]

StoreInit ==
    /\ client = FALSE
    /\ dim \in Dims
    /\ width = [c \in Collections |-> 0]
    /\ caller = "idle"
    /\ edition = [d \in Documents |-> 0]
    /\ stored = {}
    /\ job = NoJob
    /\ foreign = {}
    /\ smooth = TRUE
    /\ restarts = 0
    /\ jobs = 0

-----------------------------------------------------------------------------
(* The client. *)

\* Who goes on to write although the width could not be read.
Unread(then) == IF then = "writing" THEN "blind" ELSE then

\* Create the collection, or refuse one of another width; one whose width
\* cannot be read, or has an unfamiliar shape, is let through unchecked.
BugEnsure(c, then) ==
    /\ width' = [width EXCEPT ![c] = IF @ = 0 THEN dim ELSE @]
    /\ caller' = then

Ensure(c, then) ==
    \/ width[c] = 0 /\ width' = [width EXCEPT ![c] = dim] /\ caller' = then
    \/ width[c] = dim /\ UNCHANGED width /\ caller' = then
    \/ width[c] \notin {0, dim} /\ UNCHANGED width /\ caller' = "refused"
    \/ width[c] # 0 /\ UNCHANGED width /\ caller' = Unread(then)
    \/ UNCHANGED width /\ caller' = "refused"          \* the server does not answer

\* connect: once there is a client it does nothing more.
ConnectClient ==
    /\ caller = "idle"
    /\ \/ client /\ caller' = "connected" /\ UNCHANGED <<client, width>>
       \/ ~client /\ client' = TRUE /\ Ensure("primary", "connected")
       \/ ~client /\ caller' = "refused" /\ UNCHANGED <<client, width>>
    /\ UNCHANGED <<dim, foreign, restarts>> /\ UNCHANGED library

\* ensure_collection_for, which every writer calls before it writes.
EnsureFor ==
    /\ caller = "connected"
    /\ Ensure("docs", "writing")
    /\ UNCHANGED <<client, dim, foreign, restarts>> /\ UNCHANGED library

UpsertPoint ==
    /\ caller \in {"writing", "blind"}
    /\ foreign' = IF width["docs"] = dim THEN foreign
                  ELSE foreign \cup {IF caller = "blind" THEN "unchecked" ELSE "written"}
    /\ caller' = "idle"
    /\ UNCHANGED <<client, dim, width, restarts>> /\ UNCHANGED library

\* search, in the primary collection; what the server raises is no hits.
SearchPrimary ==
    /\ caller = "connected"
    /\ foreign' = IF width["primary"] \in {0, dim} THEN foreign ELSE foreign \cup {"read"}
    /\ caller' = "idle"
    /\ UNCHANGED <<client, dim, width, restarts>> /\ UNCHANGED library

\* The caller logs the refusal and goes on without the store.
Degrade ==
    /\ caller = "refused"
    /\ caller' = "idle"
    /\ UNCHANGED <<client, dim, width, foreign, restarts>> /\ UNCHANGED library

\* The embeddings provider is read at the start of the process.
RestartProcess ==
    /\ restarts < MaxRestarts
    /\ restarts' = restarts + 1
    /\ client' = FALSE
    /\ caller' = "idle"
    /\ dim' \in Dims
    /\ UNCHANGED <<width, foreign>> /\ UNCHANGED library

-----------------------------------------------------------------------------
(* The ingestion of documents, whose edits change one of their two chunks.  *)

Chunks(d, e) == {<<d, "body", e>>, <<d, "footer", 0>>}
Current == UNION {Chunks(d, edition[d]) : d \in Documents}

EditDocument(d) ==
    /\ edition[d] < MaxEditions
    /\ job.at # "run"
    /\ edition' = [edition EXCEPT ![d] = @ + 1]
    /\ job' = NoJob
    /\ UNCHANGED <<stored, smooth, jobs>> /\ UNCHANGED connection

StartJob ==
    /\ job.at # "run"
    /\ jobs < MaxJobs
    /\ jobs' = jobs + 1
    /\ job' = [at |-> "run", todo |-> Documents, stats |-> NoStats]
    /\ smooth' = TRUE
    /\ UNCHANGED <<edition, stored>> /\ UNCHANGED connection

\* exists_many: an error finds nothing, and the upsert is idempotent.
BugPresent(chunks) ==
    {{}, IF chunks \cap stored = {} THEN {} ELSE chunks}

Present(chunks) == {{}, chunks \cap stored}

(* One document: those of its chunks that are not present are embedded in   *)
(* one call, which may fail as a whole, and stored one by one.              *)
IngestDocument(d) ==
    /\ job.at = "run"
    /\ d \in job.todo
    /\ LET chunks == Chunks(d, edition[d])
           s == job.stats
           n == Cardinality(chunks)
       IN \E present \in Present(chunks) :
            LET skipped == s.skipped + Cardinality(present) IN
            \/ \E failed \in SUBSET (chunks \ present) :
                 /\ stored' = stored \cup (chunks \ (present \cup failed))
                 /\ job' = [job EXCEPT
                       !.todo = @ \ {d},
                       !.stats = [seen |-> s.seen + n, skipped |-> skipped,
                                  new |-> s.new + Cardinality(chunks \ (present \cup failed)),
                                  failed |-> s.failed + Cardinality(failed)]]
                 /\ smooth' = (smooth /\ failed = {})
            \/ /\ present # chunks
               /\ job' = [job EXCEPT
                     !.todo = @ \ {d},
                     !.stats = [seen |-> s.seen + n, skipped |-> skipped, new |-> s.new,
                                failed |-> s.failed + Max({0, n - skipped - s.new})]]
               /\ smooth' = FALSE
               /\ UNCHANGED stored
    /\ UNCHANGED <<edition, jobs>> /\ UNCHANGED connection

\* discover() may raise, which ends the source; the job reports and ends.
FinishJob ==
    /\ job.at = "run"
    /\ job' = [job EXCEPT !.at = "done"]
    /\ smooth' = (smooth /\ job.todo = {})
    /\ UNCHANGED <<edition, stored, jobs>> /\ UNCHANGED connection

\* The job is killed; what it stored stays.
KillJob ==
    /\ job.at = "run"
    /\ job' = NoJob
    /\ UNCHANGED <<edition, stored, smooth, jobs>> /\ UNCHANGED connection

ClientNext ==
    \/ ConnectClient \/ EnsureFor \/ UpsertPoint \/ SearchPrimary \/ Degrade \/ RestartProcess

LibraryNext ==
    \/ StartJob \/ FinishJob \/ KillJob
    \/ \E d \in Documents : EditDocument(d) \/ IngestDocument(d)

StoreSpec == StoreInit /\ [][ClientNext \/ LibraryNext]_storeVars

-----------------------------------------------------------------------------
StoreTypeOK ==
    /\ client \in BOOLEAN /\ dim \in Dims
    /\ width \in [Collections -> {0} \cup Dims]
    /\ caller \in {"idle", "connected", "writing", "blind", "refused"}
    /\ edition \in [Documents -> 0..MaxEditions]
    /\ stored \subseteq Documents \X {"body", "footer"} \X (0..MaxEditions)
    /\ job \in [at : {"none", "run", "done"}, todo : SUBSET Documents,
                stats : [seen : Nat, new : Nat, skipped : Nat, failed : Nat]]
    /\ foreign \subseteq {"written", "unchecked", "read"}

\* "Refuse to use a collection written by a different embedding model":
\* nothing is written to one, whatever provider a restart configures and
\* whatever client was connected before, unless the width of the collection
\* could not be read when its writer asked for it (_assert_dimension_matches).
WritesFit == "written" \notin foreign

\* A job in which nothing failed leaves every chunk of the documents stored,
\* whatever earlier jobs were killed or failed in the middle of.
JobIsComplete == job.at = "done" /\ smooth => Current \subseteq stored

StoreIsSound == WritesFit /\ JobIsComplete

=============================================================================
