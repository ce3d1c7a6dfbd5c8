----------------------------- MODULE DesktopEdits -----------------------------
(***************************************************************************)
(* Proposed file edits, from the model's proposal to the file on disk:     *)
(* propose_file_edit, the pending-write store, the attempt counters and    *)
(* atomic_write of desktop_writes.py, and the apply and discard endpoints  *)
(* of routers/desktop_files.py.                                            *)
(*                                                                         *)
(* One file is modelled; editors, git and the user change it and the write *)
(* grant over it between any two steps (DesktopConfig says how the grants  *)
(* move, which covers the touch_last_used that ends an apply).             *)
(*                                                                         *)
(*   disk         the file: Absent, Link (a symlink) or a content          *)
(*   granted      a write grant covers the file                            *)
(*   pending[t]   the pending write of token t, or NoToken                 *)
(*   minted       the tokens ever minted                                   *)
(*   attempts     the counters, a sequence in the order of their insertion *)
(*   worker[w]    where a proposal or an apply is; asker[w] its session,   *)
(*                edit[w] its subject                                      *)
(* History: applied and discarded count the uses of a token; answers[k]    *)
(* counts the failures described under a key since its counter was last    *)
(* dropped; moved[w]: the file changed since worker w compared it with     *)
(* what the user reviewed.                                                 *)
(***************************************************************************)
EXTENDS Naturals, Sequences, SequencesExt

CONSTANTS
    Workers, Tokens, Sessions,
    Contents,     \* what the file may hold
    Absent, Link, NoToken,
    MaxInvalid,   \* MAX_INVALID_ATTEMPTS
    MaxHidden,    \* MAX_HIDDEN_PROBES
    KeysCap       \* _ATTEMPT_KEYS_CAP

ASSUME EditsAssumption ==
    /\ Absent \notin Contents
    /\ Link \notin Contents
    /\ Absent # Link
    /\ NoToken \notin Tokens
    /\ MaxInvalid \in Nat
    /\ MaxHidden \in Nat
    /\ KeysCap \in Nat \ {0}

VARIABLES disk, granted, pending, minted, attempts, worker, asker, edit,
          applied, discarded, answers, moved

editsVars == <<disk, granted, pending, minted, attempts, worker, asker, edit,
               applied, discarded, answers, moved>>
useVars == <<applied, discarded>>

(* A pending write: PendingWrite's before and after; created is before =   *)
(* Absent, and before_sha the hash of before.                              *)
Edit == [before : Contents \cup {Absent}, after : Contents,
         token : Tokens \cup {NoToken}]
Steps == {"idle", "evaluating", "validating", "popped", "permitted", "verified"}
Keys == [session : Sessions, hidden : BOOLEAN]
Counter == [key : Keys, count : Nat \ {0}]

EditsInit ==
    /\ disk \in Contents \cup {Absent}
    /\ granted \in BOOLEAN
    /\ pending = [t \in Tokens |-> NoToken]
    /\ minted = {}
    /\ attempts = <<>>
    /\ worker = [w \in Workers |-> "idle"]
    /\ asker = [w \in Workers |-> NoToken]
    /\ edit = [w \in Workers |-> NoToken]
    /\ applied = [t \in Tokens |-> 0]
    /\ discarded = {}
    /\ answers = [k \in Keys |-> 0]
    /\ moved = [w \in Workers |-> FALSE]

-----------------------------------------------------------------------------
(* The attempt counters. *)

Key(s, h) == [session |-> s, hidden |-> h]
Cap(k) == IF k.hidden THEN MaxHidden ELSE MaxInvalid
Known(counters) == {counters[i].key : i \in DOMAIN counters}
Place(k) == CHOOSE i \in DOMAIN attempts : attempts[i].key = k
Count(k) == IF k \in Known(attempts) THEN attempts[Place(k)].count ELSE 0

(* _is_stopped *)
Stopped(s) == \E h \in BOOLEAN : Count(Key(s, h)) > Cap(Key(s, h))

(* _bump_attempts: a known key keeps its place, a new one goes last, and   *)
(* the oldest keys are dropped past the cap.                               *)
Bumped(k) ==
    LET up == IF Count(k) > 0
              THEN [i \in DOMAIN attempts |->
                       IF attempts[i].key = k
                       THEN [attempts[i] EXCEPT !.count = @ + 1] ELSE attempts[i]]
              ELSE Append(attempts, [key |-> k, count |-> 1])
    IN  IF Len(up) > KeysCap
        THEN SubSeq(up, Len(up) - KeysCap + 1, Len(up)) ELSE up

Dropped(k) == IF k \in Known(attempts) THEN RemoveAt(attempts, Place(k)) ELSE attempts

\* mutant: a success forgives every failure of the session
BugReset(s) ==
    /\ attempts' = SelectSeq(attempts, LAMBDA c : c.key.session # s)
    /\ answers' = [answers EXCEPT ![Key(s, FALSE)] = 0]
(* _reset_attempts, after a proposal that passed. *)
Reset(s) ==
    /\ attempts' = Dropped(Key(s, FALSE))
    /\ answers' = [answers EXCEPT ![Key(s, FALSE)] = 0]

\* mutant: the failure is described before it is counted
BugFailed(s, h) ==
    /\ attempts' = Bumped(Key(s, h))
    /\ answers' = [k \in Keys |->
           IF k \notin Known(attempts') THEN 0
           ELSE IF k = Key(s, h) THEN answers[k] + 1 ELSE answers[k]]
(* _failed_attempt: the failure is counted, and described unless that puts *)
(* the counter past its cap.                                               *)
Failed(s, h) ==
    /\ attempts' = Bumped(Key(s, h))
    /\ answers' = [k \in Keys |->
           IF k \notin Known(attempts') THEN 0
           ELSE IF k = Key(s, h) /\ Count(k) < Cap(k) THEN answers[k] + 1
           ELSE answers[k]]

-----------------------------------------------------------------------------
(* propose_file_edit *)

Goto(w, l) == worker' = [worker EXCEPT ![w] = l]
Leave(w) ==
    /\ Goto(w, "idle")
    /\ asker' = [asker EXCEPT ![w] = NoToken]
    /\ edit' = [edit EXCEPT ![w] = NoToken]

(* The grant, the target and the stop check; a refusal before or by them   *)
(* changes nothing.                                                        *)
StartProposal(w, s) ==
    /\ worker[w] = "idle"
    /\ granted /\ disk # Link
    /\ ~Stopped(s)
    /\ Goto(w, "evaluating")
    /\ asker' = [asker EXCEPT ![w] = s]
    /\ UNCHANGED <<disk, granted, pending, minted, attempts, edit, useVars, answers, moved>>

(* The edits do not apply to the redacted view, the result is no           *)
(* Kubernetes file, or a validator fails it.                               *)
RejectEdit(w) ==
    /\ worker[w] \in {"evaluating", "validating"}
    /\ Failed(asker[w], FALSE)
    /\ Leave(w)
    /\ UNCHANGED <<disk, granted, pending, minted, useVars, moved>>

(* The edits touch a line the model only saw redacted. *)
RejectHidden(w) ==
    /\ worker[w] = "evaluating"
    /\ disk \in Contents
    /\ Failed(asker[w], TRUE)
    /\ Leave(w)
    /\ UNCHANGED <<disk, granted, pending, minted, useVars, moved>>

(* A refusal that is not counted: not UTF-8, too large, no such file kind. *)
RefuseEdit(w) ==
    /\ worker[w] = "evaluating"
    /\ Leave(w)
    /\ UNCHANGED <<disk, granted, pending, minted, attempts, useVars, answers, moved>>

(* The file is read and the edits applied in memory. *)
EvaluateEdit(w, c) ==
    /\ worker[w] = "evaluating"
    /\ disk \notin {Link, c}
    /\ edit' = [edit EXCEPT ![w] = [before |-> disk, after |-> c, token |-> NoToken]]
    /\ Goto(w, "validating")
    /\ UNCHANGED <<disk, granted, pending, minted, attempts, asker, useVars, answers, moved>>

(* The validators passed it: the counter is reset and the edit parked. *)
ParkEdit(w, t) ==
    /\ worker[w] = "validating"
    /\ t \notin minted
    /\ minted' = minted \cup {t}
    /\ pending' = [pending EXCEPT ![t] = [edit[w] EXCEPT !.token = t]]
    /\ Reset(asker[w])
    /\ Leave(w)
    /\ UNCHANGED <<disk, granted, useVars, moved>>

-----------------------------------------------------------------------------
(* apply and discard. *)

\* mutant: the pending write is read and removed only on success
BugPopEdit(w, t) ==
    /\ worker[w] = "idle"
    /\ pending[t] # NoToken
    /\ edit' = [edit EXCEPT ![w] = pending[t]]
    /\ Goto(w, "popped")
    /\ UNCHANGED <<disk, granted, pending, minted, attempts, asker, useVars, answers, moved>>
(* The token is spent before anything else is looked at. *)
PopEdit(w, t) ==
    /\ worker[w] = "idle"
    /\ pending[t] # NoToken
    /\ pending' = [pending EXCEPT ![t] = NoToken]
    /\ edit' = [edit EXCEPT ![w] = pending[t]]
    /\ Goto(w, "popped")
    /\ UNCHANGED <<disk, granted, minted, attempts, asker, useVars, answers, moved>>

(* The symlink check and the grant. *)
PermitEdit(w) ==
    /\ worker[w] = "popped"
    /\ IF granted /\ disk # Link
       THEN Goto(w, "permitted") /\ UNCHANGED <<asker, edit>>
       ELSE Leave(w)
    /\ UNCHANGED <<disk, granted, pending, minted, attempts, useVars, answers, moved>>

\* mutant: the file only has to exist, or not, as it did
BugUnchanged(w) == (disk = Absent) = (edit[w].before = Absent) /\ disk # Link
(* resolve_write_target, the existence checks, and the hash. *)
Unchanged(w) == disk = edit[w].before

VerifyEdit(w) ==
    /\ worker[w] = "permitted"
    /\ IF Unchanged(w)
       THEN Goto(w, "verified") /\ UNCHANGED <<asker, edit>>
       ELSE Leave(w)
    /\ moved' = [moved EXCEPT ![w] = FALSE]
    /\ UNCHANGED <<disk, granted, pending, minted, attempts, useVars, answers>>

(* The file changed under every apply that has verified it. *)
Disturbed == [w \in Workers |-> moved[w] \/ worker[w] = "verified"]

\* mutant: new files are moved into place like edited ones
BugClobbers(w) == TRUE
(* os.replace overwrites whatever is there by now; link, for a new file,   *)
(* fails when the name has appeared.                                       *)
Clobbers(w) == edit[w].before # Absent \/ disk = Absent

ReplaceFile(w) ==
    /\ worker[w] = "verified"
    /\ Clobbers(w)
    /\ disk' = edit[w].after
    /\ applied' = [applied EXCEPT ![edit[w].token] = @ + 1]
    /\ moved' = Disturbed
    /\ Leave(w)
    /\ UNCHANGED <<granted, pending, minted, attempts, discarded, answers>>

(* The name has appeared, or the temporary file cannot be written. *)
FailReplace(w) ==
    /\ worker[w] = "verified"
    /\ Leave(w)
    /\ UNCHANGED <<disk, granted, pending, minted, attempts, useVars, answers, moved>>

DiscardEdit(t) ==
    /\ pending[t] # NoToken
    /\ pending' = [pending EXCEPT ![t] = NoToken]
    /\ discarded' = discarded \cup {t}
    /\ UNCHANGED <<disk, granted, minted, attempts, worker, asker, edit, applied, answers, moved>>

(* PENDING_WRITE_TTL_SECONDS have passed: no lookup will find it. *)
LapseEdit(t) ==
    /\ pending[t] # NoToken
    /\ pending' = [pending EXCEPT ![t] = NoToken]
    /\ UNCHANGED <<disk, granted, minted, attempts, worker, asker, edit, useVars, answers, moved>>

-----------------------------------------------------------------------------
(* The world. *)

EditElsewhere(c) ==
    /\ disk' = c /\ c # disk
    /\ moved' = Disturbed
    /\ UNCHANGED <<granted, pending, minted, attempts, worker, asker, edit, useVars, answers>>

ChangeGrant ==
    /\ granted' = ~granted
    /\ UNCHANGED <<disk, pending, minted, attempts, worker, asker, edit, useVars, answers, moved>>

(* The store and the counters are in memory. *)
RestartEdits ==
    /\ pending' = [t \in Tokens |-> NoToken]
    /\ attempts' = <<>>
    /\ answers' = [k \in Keys |-> 0]
    /\ worker' = [w \in Workers |-> "idle"]
    /\ asker' = [w \in Workers |-> NoToken]
    /\ edit' = [w \in Workers |-> NoToken]
    /\ UNCHANGED <<disk, granted, minted, useVars, moved>>

EditsNext ==
    \/ \E w \in Workers, s \in Sessions : StartProposal(w, s)
    \/ \E w \in Workers : RejectEdit(w) \/ RejectHidden(w) \/ RefuseEdit(w)
    \/ \E w \in Workers, c \in Contents : EvaluateEdit(w, c)
    \/ \E w \in Workers, t \in Tokens : ParkEdit(w, t) \/ PopEdit(w, t)
    \/ \E w \in Workers :
           PermitEdit(w) \/ VerifyEdit(w) \/ ReplaceFile(w) \/ FailReplace(w)
    \/ \E t \in Tokens : DiscardEdit(t) \/ LapseEdit(t)
    \/ \E c \in Contents \cup {Absent, Link} : EditElsewhere(c)
    \/ ChangeGrant
    \/ RestartEdits

EditsSpec == EditsInit /\ [][EditsNext]_editsVars

-----------------------------------------------------------------------------
(* Properties. *)

\* Every variable of the edits' model keeps its type.
EditsTypeOK ==
    /\ disk \in Contents \cup {Absent, Link}
    /\ granted \in BOOLEAN
    /\ pending \in [Tokens -> Edit \cup {NoToken}]
    /\ minted \subseteq Tokens
    /\ attempts \in Seq(Counter) /\ Len(attempts) <= KeysCap
    /\ worker \in [Workers -> Steps]
    /\ asker \in [Workers -> Sessions \cup {NoToken}]
    /\ edit \in [Workers -> Edit \cup {NoToken}]
    /\ applied \in [Tokens -> Nat]
    /\ discarded \subseteq Tokens
    /\ answers \in [Keys -> Nat]
    /\ moved \in [Workers -> BOOLEAN]

\* An approval is used once: two clicks, a click and a discard, or a retry
\* after a refusal never write a pending write twice, nor one the user threw
\* away (PendingWriteStore.pop in apply and discard).
TokenUsedOnce ==
    \A t \in Tokens : applied[t] <= 1 /\ (t \in discarded => applied[t] = 0)

\* An apply replaces exactly what the user reviewed: another content can be
\* lost only if it was saved between the hash check and os.replace, and a
\* new file never replaces anything (atomic_write).
ReviewedIsReplaced ==
    [][\A w \in Workers :
          worker[w] = "verified" /\ applied'[edit[w].token] > applied[edit[w].token]
          => disk = edit[w].before \/ (moved[w] /\ edit[w].before # Absent)]_editsVars

\* However proposals, successes and threads interleave, at most MaxHidden
\* failures about hidden lines, and MaxInvalid others between two successes,
\* are described to a session before its counter is dropped (_failed_attempt,
\* _reset_attempts and the eviction in _bump_attempts).
AnswersBounded == \A k \in Keys : answers[k] <= Cap(k)
=============================================================================
