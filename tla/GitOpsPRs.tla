------------------------------ MODULE GitOpsPRs ------------------------------
(***************************************************************************)
(* A fix proposed as a pull request: routers/gitops.py (preview, open_pr), *)
(* gitops/store.py, github.py, edit.py and locate.py, and the gitops       *)
(* tables of db.py, for one connected repository.                          *)
(*                                                                         *)
(* A preview edits the manifest it has fetched and keeps the whole file    *)
(* text until it is opened; opening commits that text on top of whatever   *)
(* the base branch holds by then.  The search for the field in the         *)
(* manifest is a part of its own, at the end.                              *)
(*                                                                         *)
(*   base         the file on the base branch: the field and a version of  *)
(*                everything around it                                     *)
(*   previews[p]  the preview store; opener[o], a thread in open_pr        *)
(*   branches     branches pushed; pulls[p], the pull request a preview    *)
(*                became; recorded, the rows of the last hour              *)
(* History: a preview's seen is the base it was made from; opens[p] counts *)
(* the pull requests it led to.                                            *)
(***************************************************************************)
EXTENDS Naturals, Sequences, FiniteSets

CONSTANTS
    Previews,      \* preview tokens
    Openers,       \* threads that open one
    BranchOf,      \* the branch of a preview: the field and the investigation name it
    PrCap,         \* gitops_max_prs_per_hour_per_repo
    MaxPushes,     \* bound: commits of others on the base branch
    NoPreview, NoPull

ASSUME GitOpsAssumption ==
    /\ {PrCap, MaxPushes} \subseteq Nat \ {0}
    /\ IsFiniteSet(Openers)

VARIABLES base, overlay, previews, opener, branches, pulls, recorded,
          opens

repoVars == <<base, overlay, previews, opener, branches, pulls,
              recorded, opens>>

\* The rest of a file is what surrounds the field; 0 stands for nothing.
Files == [field : {"old", "new"}, rest : 0..(MaxPushes + 1)]
Unused == [at |-> "idle"]

RepoInit ==
    /\ base = [field |-> "old", rest |-> 1]
    /\ overlay \in BOOLEAN      \* kustomize, and the object is not in the repository
    /\ previews = [p \in Previews |-> NoPreview]
    /\ opener = [o \in Openers |-> Unused]
    /\ branches = {}
    /\ pulls = [p \in Previews |-> NoPull]
    /\ recorded = {}
    /\ opens = [p \in Previews |-> 0]

-----------------------------------------------------------------------------
(* The edit. *)

(* apply_span replaces the characters of the field in the fetched text.    *)
ApplySpan(f) == [f EXCEPT !.field = "new"]

(* make_kustomize_patch writes a kustomization of its own. *)
KustomizePatch(f) == [field |-> "new", rest |-> 0]

Edited(f) == IF overlay THEN KustomizePatch(f) ELSE ApplySpan(f)

(* preview: fetch the tarball, edit, and put the result in the store; a    *)
(* base that already holds the value gives an empty edit nobody opens.     *)
Preview(p) ==
    /\ previews[p] = NoPreview /\ opens[p] = 0 /\ pulls[p] = NoPull
    /\ \A o \in Openers : opener[o] # Unused => opener[o].preview # p
    /\ base.field = "old"
    /\ previews' = [previews EXCEPT ![p] =
                       [file |-> Edited(base), seen |-> base]]
    /\ UNCHANGED <<base, overlay, opener, branches, pulls, recorded, opens>>

-----------------------------------------------------------------------------
(* open_pr *)

(* PreviewStore.pop *)
BugTake(p) == previews' = previews

Take(p) == previews' = [previews EXCEPT ![p] = NoPreview]

(* count_recent_gitops_prs, and its comparison with the cap *)
BugBelowCap == Cardinality(recorded) <= PrCap

BelowCap == Cardinality(recorded) < PrCap

(* open_pr takes the preview and counts the rows of the last hour; over the *)
(* cap the preview is spent for nothing.  Nothing another opener does       *)
(* between the two changes what either sees but a row, recorded sooner.     *)
PopPreview(o, p) ==
    /\ opener[o] = Unused
    /\ previews[p] # NoPreview
    /\ Take(p)
    /\ opener' = IF BelowCap
                 THEN [opener EXCEPT ![o] = [at |-> "pushing", preview |-> p,
                                             edit |-> previews[p]]]
                 ELSE opener
    /\ UNCHANGED <<base, overlay, branches, pulls, recorded, opens>>

At(o, stage) == opener[o].at = stage
Proceeds(o, stage) == opener' = [opener EXCEPT ![o].at = stage]

(* GitHubClient.open_pr up to the branch: a tree over the head of the base  *)
(* with the preview's files.  GitHub refuses a branch that exists.          *)
PushBranch(o) ==
    LET b == BranchOf[opener[o].preview]
    IN /\ At(o, "pushing")
       /\ b \notin branches
       /\ branches' = branches \cup {b}
       /\ opener' = [opener EXCEPT ![o] =
                        [at |-> "pulling", preview |-> @.preview, edit |-> @.edit,
                         onto |-> base]]
       /\ UNCHANGED <<base, overlay, previews, pulls, recorded, opens>>

OpenPull(o) ==
    LET p == opener[o].preview
    IN /\ At(o, "pulling")
       /\ pulls' = [pulls EXCEPT ![p] =
                       [file |-> opener[o].edit.file, seen |-> opener[o].edit.seen,
                        onto |-> opener[o].onto]]
       /\ opens' = [opens EXCEPT ![p] = @ + 1]
       /\ Proceeds(o, "recording")
       /\ UNCHANGED <<base, overlay, previews, branches, recorded>>

(* create_gitops_pr *)
RecordPull(o) ==
    /\ At(o, "recording")
    /\ recorded' = recorded \cup {opener[o].preview}
    /\ opener' = [opener EXCEPT ![o] = Unused]
    /\ UNCHANGED <<base, overlay, previews, branches, pulls, opens>>

(* A call to GitHub fails, the labels after the pull request included, the *)
(* repository was disconnected and the row has no parent, or the process   *)
(* stops: what was done stays.                                             *)
FailOpen(o) ==
    /\ opener[o] # Unused
    /\ opener' = [opener EXCEPT ![o] = Unused]
    /\ UNCHANGED <<base, overlay, previews, branches, pulls, recorded, opens>>

-----------------------------------------------------------------------------
(* The rest of the world. *)

(* A human merges a pull request and deletes its branch; git keeps what the *)
(* base has gained since unless the pull request rewrote it too.            *)
MergePull(p) ==
    /\ pulls[p] # NoPull
    /\ BranchOf[p] \in branches
    /\ pulls[p].file.rest # pulls[p].onto.rest => base = pulls[p].onto
    /\ base' = [field |-> "new",
                rest |-> IF pulls[p].file.rest = pulls[p].onto.rest
                         THEN base.rest ELSE pulls[p].file.rest]
    /\ branches' = branches \ {BranchOf[p]}
    /\ UNCHANGED <<overlay, previews, opener, pulls, recorded, opens>>

(* Somebody commits to the base branch. *)
PushBase ==
    /\ base.rest <= MaxPushes
    /\ base' = [base EXCEPT !.rest = @ + 1]
    /\ UNCHANGED <<overlay, previews, opener, branches, pulls, recorded, opens>>

(* A preview outlives its quarter of an hour, and a row its hour in the     *)
(* count: count_recent_gitops_prs sees it no more.                          *)
ExpirePreview(p) ==
    /\ previews[p] # NoPreview
    /\ previews' = [previews EXCEPT ![p] = NoPreview]
    /\ UNCHANGED <<base, overlay, opener, branches, pulls, recorded, opens>>

AgeRow(p) ==
    /\ p \in recorded
    /\ recorded' = recorded \ {p}
    /\ UNCHANGED <<base, overlay, previews, opener, branches, pulls, opens>>

RepoNext ==
    \/ \E p \in Previews : Preview(p)
    \/ \E o \in Openers :
          \/ \E p \in Previews : PopPreview(o, p)
          \/ PushBranch(o) \/ OpenPull(o) \/ RecordPull(o) \/ FailOpen(o)
    \/ \E p \in Previews : MergePull(p) \/ ExpirePreview(p) \/ AgeRow(p)
    \/ PushBase

RepoSpec == RepoInit /\ [][RepoNext]_repoVars

-----------------------------------------------------------------------------
(* Properties *)

RepoTypeOK ==
    /\ base \in Files
    /\ \A p \in Previews :
          /\ previews[p] # NoPreview =>
                previews[p] \in [file : Files, seen : Files]
          /\ pulls[p] # NoPull => pulls[p] \in [file : Files, seen : Files, onto : Files]
    /\ branches \subseteq {BranchOf[p] : p \in Previews}
    /\ recorded \subseteq Previews

\* A preview becomes at most one pull request, however many requests open
\* it, also once its branch is merged and gone (PreviewStore.pop).
PreviewOpensOnce == \A p \in Previews : opens[p] <= 1

\* The hourly cap is overrun by no more than the openings that counted the
\* same rows, also when those in flight succeed (open_pr's count and record
\* are apart).
PullsCapWithinConcurrency ==
    Cardinality(recorded) + Cardinality({o \in Openers : opener[o] # Unused})
        <= PrCap + Cardinality(Openers) - 1

-----------------------------------------------------------------------------
(***************************************************************************)
(* Where a field sits in a YAML manifest: gitops/locate.py.  A document is *)
(* its graph of nodes, in which an alias is its anchor's node, so that a   *)
(* node may have several parents; a mapping's keys and a list's items by   *)
(* their "name" are both edges.  Replacing the characters of a scalar      *)
(* changes its node, and so the value everywhere that node is reached.     *)
(***************************************************************************)

CONSTANTS
    Maps,       \* inner mappings and lists
    Scalars,
    FieldNames, \* keys and item names
    Root,
    NoNode

ASSUME SpanAssumption ==
    /\ Maps \cap Scalars = {}
    /\ Root \notin Maps \cup Scalars
    /\ NoNode \notin {Root} \cup Maps \cup Scalars
    /\ IsFiniteSet(Maps) /\ IsFiniteSet(FieldNames)

VARIABLES doc, anchored, field

spanVars == <<doc, anchored, field>>

(* The root leads to inner nodes and scalars, an inner node to scalars;    *)
(* "field" is the path of the change.                                      *)
SpanInit ==
    /\ doc \in [{Root} -> [FieldNames -> Maps \cup Scalars \cup {NoNode}]]
    /\ anchored \in SUBSET Scalars
    /\ field \in [1..1 -> FieldNames] \cup [1..2 -> FieldNames]

Parents == DOMAIN doc

(* _child_by_key and _named_seq_item *)
Child(n, key) == IF n \in Parents THEN doc[n][key] ELSE NoNode

(* The nodes that find_span visits along a path, the root first. *)
Visited(path) ==
    LET at[i \in 0..Len(path)] ==
            IF i = 0 THEN Root ELSE Child(at[i - 1], path[i])
    IN at

References(n) == Cardinality({e \in Parents \X FieldNames : doc[e[1]][e[2]] = n})

(* _shared_nodes *)
Shared == {n \in Maps \cup Scalars : References(n) >= 2}

BugSharedOnPath(path) == Visited(path)[Len(path)] \in Shared

SharedOnPath(path) == \E i \in 0..Len(path) : Visited(path)[i] \in Shared

(* find_span: the scalar at the end of the path, unless an anchor or an     *)
(* alias makes its characters stand for more than one place.                *)
FindSpan(path) ==
    LET n == Visited(path)[Len(path)]
    IN IF n \in Scalars /\ n \notin anchored /\ ~SharedOnPath(path) THEN n ELSE NoNode

(* Grow the document by one inner mapping: the graphs that are checked.    *)
Grow ==
    \E m \in Maps \ Parents, keys \in [FieldNames -> Scalars \cup {NoNode}] :
        /\ \E p \in Parents, k \in FieldNames : doc[p][k] = m
        /\ doc' = [n \in Parents \cup {m} |-> IF n = m THEN keys ELSE doc[n]]
        /\ UNCHANGED <<anchored, field>>

SpanSpec == SpanInit /\ [][Grow]_spanVars

-----------------------------------------------------------------------------
Paths == [1..1 -> FieldNames] \cup [1..2 -> FieldNames]

\* Replacing the span that find_span returns changes the value at the path
\* asked for and at no other path of the document, whatever is aliased or
\* merged into it, and keeps every anchor (_shared_nodes, _is_anchored).
SpanIsExact ==
    LET n == FindSpan(field)
    IN n # NoNode =>
          /\ n \notin anchored
          /\ \A path \in Paths : Visited(path)[Len(path)] = n => path = field
=============================================================================
