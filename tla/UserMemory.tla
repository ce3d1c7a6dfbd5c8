------------------------------ MODULE UserMemory ------------------------------
(***************************************************************************)
(* The per-session memory of what the user works on (memory.py, and the    *)
(* user_memory table of db.py), for one category.  A record reads the row, *)
(* merges the values of a tool call and writes the row back: two chat      *)
(* turns of a session may do so at the same time, and clearing the chat    *)
(* deletes the row.                                                        *)
(*                                                                         *)
(*   entities   the stored bucket, a sequence of entries, newest first     *)
(*   call[w]    the values a turn is recording, and the bucket it merged   *)
(* History: last, when each value was last recorded since the row was      *)
(* deleted; overlapped, some record began or the row was deleted while     *)
(* another record was under way.                                           *)
(***************************************************************************)
EXTENDS Integers, Sequences, FiniteSets, SequencesExt

CONSTANTS
    Values, Writers,
    CapPerCategory,           \* _CAP_PER_CATEGORY
    MaxCalls                  \* bound: tool calls recorded

ASSUME MemoryAssumption == CapPerCategory \in Nat \ {0} /\ MaxCalls \in Nat

VARIABLES entities, call, calls, last, overlapped

memoryVars == <<entities, call, calls, last, overlapped>>

Idle == [at |-> "idle", merged |-> <<>>, values |-> <<>>]

MemoryInit ==
    /\ entities = <<>>
    /\ call = [w \in Writers |-> Idle]
    /\ calls = 0
    /\ last = [v \in {} |-> 0]
    /\ overlapped = FALSE

Newer(e, f) == e.seen > f.seen \/ (e.seen = f.seen /\ e.count > f.count)

\* list.sort is stable: among sorted entries the new one comes before the first
\* that is strictly older.
Insert(bucket, e) ==
    LET older == {i \in DOMAIN bucket : Newer(e, bucket[i])}
    IN  IF older = {} THEN Append(bucket, e)
        ELSE InsertAt(bucket, CHOOSE i \in older : \A j \in older : i <= j, e)

\* del bucket[_CAP_PER_CATEGORY:]
Capped(bucket) == IF Len(bucket) > CapPerCategory THEN SubSeq(bucket, 1, CapPerCategory) ELSE bucket

(* _upsert: latest wins, and the oldest entry goes when there are too many. *)
BugUpsertValue(bucket, value, now) ==
    IF \E i \in DOMAIN bucket : bucket[i].value = value
    THEN [i \in DOMAIN bucket |->
             IF bucket[i].value = value
             THEN [bucket[i] EXCEPT !.seen = now, !.count = @ + 1] ELSE bucket[i]]
    ELSE Capped(Append(bucket, [value |-> value, seen |-> now, count |-> 1]))

UpsertValue(bucket, value, now) ==
    LET at == {i \in DOMAIN bucket : bucket[i].value = value}
        i == CHOOSE i \in at : TRUE
    IN  Capped(IF at = {}
               THEN Insert(bucket, [value |-> value, seen |-> now, count |-> 1])
               ELSE Insert(RemoveAt(bucket, i),
                           [value |-> value, seen |-> now, count |-> bucket[i].count + 1]))

\* The values of one call, all with its time.
Recorded(bucket, values, now) ==
    LET first == UpsertValue(bucket, values[1], now)
    IN  IF Len(values) = 1 THEN first ELSE UpsertValue(first, values[2], now)

Busy == {w \in Writers : call[w].at # "idle"}

\* What a tool call names in the category: one value, or two (bound: a list may name more).
Batches == {<<v>> : v \in Values} \cup {<<v, u>> : v, u \in Values}

(* record_tool_call, up to the row it has read and merged with the values   *)
(* of the call, all of which get the time of the call.                      *)
ReadAndMerge(w, values) ==
    /\ call[w].at = "idle"
    /\ calls < MaxCalls
    /\ calls' = calls + 1
    /\ call' = [call EXCEPT ![w] =
                   [at |-> "saving", values |-> values,
                    merged |-> Recorded(entities, values, calls + 1)]]
    /\ last' = [v \in DOMAIN last \cup ToSet(values) |->
                   IF v \in ToSet(values) THEN calls + 1 ELSE last[v]]
    /\ overlapped' = (overlapped \/ Busy # {})
    /\ UNCHANGED entities

\* save_user_memory: a straight overwrite of the row.
Save(w) ==
    /\ call[w].at = "saving"
    /\ entities' = call[w].merged
    /\ call' = [call EXCEPT ![w] = Idle]
    /\ UNCHANGED <<calls, last, overlapped>>

\* clear_user_memory.
ClearMemory ==
    /\ entities # <<>>
    /\ entities' = <<>>
    /\ last' = [v \in {} |-> 0]
    /\ overlapped' = (overlapped \/ Busy # {})
    /\ UNCHANGED <<call, calls>>

MemoryNext ==
    \/ ClearMemory
    \/ \E w \in Writers : Save(w) \/ \E values \in Batches : ReadAndMerge(w, values)

MemorySpec == MemoryInit /\ [][MemoryNext]_memoryVars

-----------------------------------------------------------------------------
Entry == [value : Values, seen : 1..MaxCalls, count : 1..(2 * MaxCalls)]

MemoryTypeOK ==
    /\ entities \in Seq(Entry)
    /\ call \in [Writers -> [at : {"idle", "saving"}, merged : Seq(Entry), values : Seq(Values)]]
    /\ calls \in 0..MaxCalls
    /\ DOMAIN last \subseteq Values
    /\ overlapped \in BOOLEAN

Kept == {entities[i].value : i \in DOMAIN entities}

\* The stored bucket is bounded, without duplicates and newest first, also
\* when records overlap; while none did, it holds what was recorded last: a
\* value that fell out is not newer than one that is kept.
KeepsTheLatest ==
    /\ Len(entities) <= CapPerCategory
    /\ \A i, j \in DOMAIN entities :
          i < j => /\ entities[i].value # entities[j].value
                   /\ entities[i].seen >= entities[j].seen
    /\ ~overlapped /\ Busy = {} =>
          /\ \A i \in DOMAIN entities : entities[i].seen = last[entities[i].value]
          /\ \A v \in DOMAIN last \ Kept : \A u \in Kept : last[v] <= last[u]
          /\ Len(entities) < CapPerCategory => Kept = DOMAIN last
=============================================================================
