------------------------------ MODULE AuditChain ------------------------------
(***************************************************************************)
(* The audit trail: emit, verify_chain and prune of ui/backend/audit.py.   *)
(*                                                                         *)
(* Any thread of the server emits.  It takes the event's id and time, then *)
(* BEGIN IMMEDIATE takes the database's write lock, and under it the hash  *)
(* of the last row is read and the row that names it is inserted.  A row's *)
(* hash is its id here: nothing else has it.                               *)
(*                                                                         *)
(*   trail     the table: a set of rows, ordered by seq, of which lastSeq   *)
(*             is the highest ever given (AUTOINCREMENT)                   *)
(*   writer    the thread that holds the write lock                        *)
(*   event[e]  what a thread is about to insert                            *)
(* History: emitted counts the ids, pruned are those deleted.  Nothing      *)
(* schedules prune in this repository; it is a call at any time here.      *)
(***************************************************************************)
EXTENDS Naturals

CONSTANTS
    Emitters,
    MaxEvents,     \* bound: events
    MaxAuditNow,   \* bound: the clock
    NoEmitter,
    NoHash

ASSUME AuditAssumption ==
    /\ {MaxEvents, MaxAuditNow} \subseteq Nat
    /\ NoEmitter \notin Emitters
    /\ NoHash \notin 1..MaxEvents

VARIABLES trail, lastSeq, writer, event, auditNow, emitted, pruned

auditVars == <<trail, lastSeq, writer, event, auditNow, emitted, pruned>>
tableVars == <<trail, lastSeq>>

Quiet == [step |-> "quiet"]
Event == [seq : Nat \ {0}, id : 1..MaxEvents, ts : 0..MaxAuditNow,
          prev : 1..MaxEvents \cup {NoHash}]

AuditInit ==
    /\ trail = {}
    /\ lastSeq = 0
    /\ writer = NoEmitter
    /\ event = [e \in Emitters |-> Quiet]
    /\ auditNow = 0
    /\ emitted = 0
    /\ pruned = {}

-----------------------------------------------------------------------------
(* emit: an id and a time of its own ... *)
Stamp(e) ==
    /\ event[e] = Quiet
    /\ emitted < MaxEvents
    /\ emitted' = emitted + 1
    /\ event' = [event EXCEPT ![e] =
                    [step |-> "stamped", id |-> emitted + 1, ts |-> auditNow, prev |-> NoHash]]
    /\ UNCHANGED <<tableVars, writer, auditNow, pruned>>

(* ... BEGIN IMMEDIATE ... *)
BugBegin(e) == writer' = writer

Begin(e) == writer = NoEmitter /\ writer' = e

\* The hash of the row with the highest seq, if there is a row.
HashOfLast(rows) ==
    IF rows = {} THEN NoHash
    ELSE (CHOOSE r \in rows : \A q \in rows : q.seq <= r.seq).id

(* ... the hash of the row with the highest seq, under the lock ...        *)
ReadLast(e) ==
    /\ event[e].step = "stamped"
    /\ Begin(e)
    /\ event' = [event EXCEPT ![e].step = "linked", ![e].prev = HashOfLast(trail)]
    /\ UNCHANGED <<tableVars, auditNow, emitted, pruned>>

(* ... and the insert, whose commit lets the lock go. *)
InsertRow(e) ==
    /\ event[e].step = "linked"
    /\ lastSeq' = lastSeq + 1
    /\ trail' = trail \cup {[seq |-> lastSeq + 1, id |-> event[e].id,
                              ts |-> event[e].ts, prev |-> event[e].prev]}
    /\ writer' = NoEmitter
    /\ event' = [event EXCEPT ![e] = Quiet]
    /\ UNCHANGED <<auditNow, emitted, pruned>>

(* The lock cannot be had, the disk is full, the process stops: the         *)
(* transaction is rolled back and the caller is told "", or nothing.        *)
FailEmit(e) ==
    /\ event[e] # Quiet
    /\ writer' = IF writer = e THEN NoEmitter ELSE writer
    /\ event' = [event EXCEPT ![e] = Quiet]
    /\ UNCHANGED <<tableVars, auditNow, emitted, pruned>>

(* prune deletes by the time of an event, not by its place. *)
Prune(cutoff) ==
    LET old == {r \in trail : r.ts < cutoff}
    IN /\ writer = NoEmitter
       /\ old # {}
       /\ trail' = trail \ old
       /\ pruned' = pruned \cup {r.id : r \in old}
       /\ UNCHANGED <<lastSeq, writer, event, auditNow, emitted>>

AuditTick ==
    /\ auditNow < MaxAuditNow
    /\ auditNow' = auditNow + 1
    /\ UNCHANGED <<tableVars, writer, event, emitted, pruned>>

AuditNext ==
    \/ \E e \in Emitters : Stamp(e) \/ ReadLast(e) \/ InsertRow(e) \/ FailEmit(e)
    \/ \E cutoff \in 1..auditNow : Prune(cutoff)
    \/ AuditTick

AuditSpec == AuditInit /\ [][AuditNext]_auditVars

-----------------------------------------------------------------------------
(* Properties *)

(* verify_chain: the rows whose prev_hash is not the hash before them. *)
Expected(r) == HashOfLast({q \in trail : q.seq < r.seq})
Breaks == {r \in trail : r.prev # Expected(r)}

AuditTypeOK ==
    /\ trail \subseteq Event /\ lastSeq \in Nat /\ emitted \in 0..MaxEvents
    /\ writer \in Emitters \cup {NoEmitter}
    /\ auditNow \in 0..MaxAuditNow
    /\ \A e \in Emitters : event[e] # Quiet =>
          event[e].id \in 1..emitted /\ event[e].step \in {"stamped", "linked"}
    /\ pruned \subseteq 1..emitted

\* verify_chain reports a break where rows were pruned in front of the one
\* it names and nowhere else, whatever order the emits of all threads took,
\* however many failed, and although prune may cut a hole in the middle.
BreaksOnlyWherePruned ==
    \A r \in trail : r \in Breaks <=> r.prev # NoHash /\ r.prev \in pruned
=============================================================================
