--------------------------- MODULE CircuitBreaker ---------------------------
(***************************************************************************)
(* RemoteCircuitBreaker of ui/backend/remote_diagnostics_breaker.py: one   *)
(* breaker per diagnostic target, shared by every worker thread of the     *)
(* process.  A method runs wholly under the breaker's lock, so it is a     *)
(* function from a target's record to its next record.                     *)
(*                                                                         *)
(* The monotonic clock is modelled by ages.  An age stops growing at the   *)
(* limit the code compares it with, which is all the code can tell apart.  *)
(*   failures[a]  how many recorded failures are a ticks old; one older    *)
(*                than Window is dropped at once, because every method     *)
(*                prunes before it looks                                   *)
(*   opened       age of opened_at                                         *)
(*   leased       age of probe_started_at                                  *)
(*   probe        probe_token; probe_in_flight is probe # None, as the     *)
(*                code always assigns the two together                     *)
(***************************************************************************)
EXTENDS Naturals

CONSTANTS
    Tokens,     \* secrets.token_hex(16)
    None,       \* Python's None
    Threshold,  \* failure_threshold
    Window,     \* failure_window_seconds, in ticks
    Cooldown,   \* open_duration_seconds, in ticks
    Lease       \* probe_lease_seconds, in ticks

ASSUME BreakerAssumption ==
    /\ None \notin Tokens
    /\ {Threshold, Window, Cooldown, Lease} \subseteq Nat \ {0}

Circuit ==
    [state    : {"closed", "open", "half_open"},
     failures : [0..Window -> Nat],
     opened   : 0..Cooldown \cup {None},
     leased   : 0..Lease \cup {None},
     probe    : Tokens \cup {None}]

NoFailures == [a \in 0..Window |-> 0]

NewCircuit ==
    [state |-> "closed", failures |-> NoFailures, opened |-> None,
     leased |-> None, probe |-> None]

(* How many failures are at most a ticks old. *)
CountUpTo(failures) ==
    LET sum[a \in 0..Window] == IF a = 0 THEN failures[0] ELSE sum[a - 1] + failures[a]
    IN  sum

FailureCount(c) == CountUpTo(c.failures)[Window]

(***************************************************************************)
(* Time.                                                                   *)
(***************************************************************************)
Older(age, limit) == IF age = None \/ age = limit THEN age ELSE age + 1

Aged(c) ==
    [c EXCEPT !.failures = [a \in 0..Window |-> IF a = 0 THEN 0 ELSE @[a - 1]],
              !.opened   = Older(@, Cooldown),
              !.leased   = Older(@, Lease)]

(***************************************************************************)
(* The methods.                                                            *)
(***************************************************************************)
(* The probe is given up and its token kept. *)
BugReopened(c) == [c EXCEPT !.state = "open", !.opened = 0, !.leased = None]

Reopened(c) == [c EXCEPT !.state = "open", !.opened = 0,
                         !.leased = None, !.probe = None]

InFlight(c) == c.state = "half_open" /\ c.probe # None

(* A probe has no lease. *)
BugAbandoned(c) == FALSE

Abandoned(c) == InFlight(c) /\ c.leased = Lease

(* _expire_abandoned_probe_locked, the first thing a method does *)
Refreshed(c) == IF Abandoned(c) THEN Reopened(c) ELSE c

(* Half-open admits whoever asks. *)
BugProbing(c) ==
    \/ c.state = "open" /\ c.opened = Cooldown
    \/ c.state = "half_open"

(* allow(): is the caller admitted as the probe? *)
Probing(c) ==
    \/ c.state = "open" /\ c.opened = Cooldown
    \/ c.state = "half_open" /\ c.probe = None

Admitted(c, token) ==
    [c EXCEPT !.state = "half_open", !.leased = 0, !.probe = token]

(* Off by one at the threshold. *)
BugCounted(c) ==
    LET n == [c EXCEPT !.failures[0] = @ + 1]
    IN  IF FailureCount(n) > Threshold /\ n.state # "open"
        THEN [n EXCEPT !.state = "open", !.opened = 0] ELSE n

(* A failure that is no probe's. *)
Counted(c) ==
    LET n == [c EXCEPT !.failures[0] = @ + 1]
    IN  IF FailureCount(n) >= Threshold /\ n.state # "open"
        THEN [n EXCEPT !.state = "open", !.opened = 0] ELSE n

(* record_failure(reason, probe_token = token) *)
Failed(c, token) ==
    CASE InFlight(c) /\ token = c.probe -> Reopened(c)
      [] ~InFlight(c) /\ token = None    -> Counted(c)
      [] OTHER                           -> c

(* The completion of an abandoned probe closes whatever circuit it finds. *)
BugSucceeded(c, token) ==
    IF token # None \/ c.state = "closed" THEN NewCircuit ELSE c

(* record_success(probe_token = token) *)
Succeeded(c, token) ==
    CASE InFlight(c) /\ token = c.probe                    -> NewCircuit
      [] ~InFlight(c) /\ token = None /\ c.state # "open"  -> NewCircuit
      [] OTHER                                              -> c
=============================================================================
