------------------------- MODULE ConfirmationTokens -------------------------
(***************************************************************************)
(* The token store of mcp/services/confirmation.py.  A dry run of a        *)
(* destructive tool mints a token bound to the operation and its exact     *)
(* target; the call that acts must present it, once, before it expires.    *)
(*                                                                         *)
(* An action is a destructive operation with its target and arguments:     *)
(* record.operation and record.fingerprint together, since fingerprint()   *)
(* hashes the operation with every argument that reaches kubectl.  Tokens  *)
(* are random, so a token is minted once and never again.                  *)
(***************************************************************************)
EXTENDS Naturals

CONSTANTS
    Tokens,     \* the tokens that can be minted
    Actions,    \* operations with their targets
    TokenTtl,   \* confirmation_token_ttl_seconds, at least 1
    None

ASSUME TokenAssumption ==
    /\ TokenTtl \in Nat \ {0}
    /\ None \notin Tokens
    /\ None \notin Actions

TokenRecord == [action : Actions, expires : Nat]
TokenStore == [Tokens -> TokenRecord \cup {None}]

EmptyStore == [t \in Tokens |-> None]

(* _purge_expired_locked *)
Purged(store, now) ==
    [t \in Tokens |->
        IF store[t] # None /\ store[t].expires < now THEN None ELSE store[t]]

(* issue: the token is stored before the purge, and is never purged by it. *)
Issued(store, t, a, now) ==
    Purged([store EXCEPT ![t] = [action |-> a, expires |-> now + TokenTtl]], now)

(* consume, under the lock: what the pop returns, and what it leaves. *)
Popped(store, t, now) == IF t \in Tokens THEN Purged(store, now)[t] ELSE None

(* The token is looked at and stays in the store. *)
BugLeft(store, t, now) == Purged(store, now)

Left(store, t, now) ==
    IF t \in Tokens THEN [Purged(store, now) EXCEPT ![t] = None]
                    ELSE Purged(store, now)

(* The operation is compared, the target is not. *)
BugAuthorises(rec, a, now) == rec # None /\ now <= rec.expires

(* consume, after the lock: the popped record is compared with the call. *)
Authorises(rec, a, now) ==
    /\ rec # None
    /\ rec.action = a
    /\ now <= rec.expires
=============================================================================
