------------------------------ MODULE Accounts ------------------------------
(***************************************************************************)
(* Local accounts: the login sessions, the password changes, the emailed   *)
(* reset links and the limiter in front of them (routers/auth.py,          *)
(* ratelimit.py and the account tables of db.py), for one user.            *)
(*                                                                         *)
(* Every handler runs on a thread of its own.  An action is a transaction  *)
(* of the database, or what a handler does under the limiter's lock; the   *)
(* handlers read a password or a link in one and act on it in another.     *)
(*                                                                         *)
(*   logins      the rows of auth_sessions, one per cookie                 *)
(*   issued      how many cookies were handed out; they are numbered       *)
(*   links[l]    a reset link's row: unsent, live or used; sentAt its time *)
(*   password    how often the password was written                        *)
(*   task[h]     what handler h has read and is about to do                *)
(*   hits[k]     the limiter's bucket of a key: the grants it remembers    *)
(* History: stale are the cookies that a finished password change has      *)
(* outdated; uses[l] counts the passwords a link has set; granted[k] are   *)
(* all requests of key k let through, each with its time; cut are the keys *)
(* of which a cleanup has forgotten grants that still counted.             *)
(***************************************************************************)
EXTENDS Naturals, FiniteSets

CONSTANTS
    Handlers,       \* threads of the server
    MaxLogins,      \* bound: logins, each with a token of its own
    MaxLinks,       \* bound: reset links
    Limit, Window,  \* by kind: AUTH_<KIND>_MAX and AUTH_<KIND>_WINDOW_SECONDS
    MaxBuckets,     \* keys kept before the limiter drops the stale ones
    LinkTtl,        \* reset_token_ttl_minutes
    MaxAccountNow,  \* bound: the clock
    MaxPasswords    \* bound: password writes

\* The limiter's keys: the kinds of request, from one address.
Keys == {"forgot", "reset"}

ASSUME AccountsAssumption ==
    /\ {MaxBuckets, LinkTtl, MaxAccountNow, MaxPasswords, MaxLogins, MaxLinks}
           \subseteq Nat \ {0}
    /\ Limit \in [Keys -> Nat \ {0}]
    /\ Window \in [Keys -> Nat \ {0}]

VARIABLES logins, issued, links, sentAt, password, task, hits, accountNow,
          stale, uses, granted, cut

accountVars == <<logins, issued, links, sentAt, password, task, hits,
                 accountNow, stale, uses, granted, cut>>
limiterVars == <<hits, granted, cut>>

Cookies == 1..MaxLogins
Links == 1..MaxLinks

Free == [op |-> "free"]

AccountsInit ==
    /\ logins = {}
    /\ issued = 0
    /\ links = [l \in Links |-> "unsent"]
    /\ sentAt = [l \in Links |-> 0]
    /\ password = 0
    /\ task = [h \in Handlers |-> Free]
    /\ hits = [k \in Keys |-> {}]
    /\ accountNow = 0
    /\ stale = {}
    /\ uses = [l \in Links |-> 0]
    /\ granted = [k \in Keys |-> {}]
    /\ cut = {}

-----------------------------------------------------------------------------
(* RateLimiter.allow: the hits of a key that its window still holds, the   *)
(* new one among them if it fits, and a cleanup when keys pile up, which   *)
(* measures every key by the window of the call that ran it.               *)

Fresh(bucket, k) == {g \in bucket : g.at + Window[k] > accountNow}

Grant(k) == [nth |-> Cardinality(granted[k]) + 1, at |-> accountNow]

\* Account is kept of the grant, and of the keys whose grants were cut short.
Count(k) ==
    /\ granted' = [granted EXCEPT ![k] = @ \cup {Grant(k)}]
    /\ cut' = cut \cup {x \in Keys : ~(Fresh(hits[x], x) \subseteq hits'[x])}

BugAllow(k) ==
    /\ Cardinality({g \in hits[k] : g.at = accountNow}) < Limit[k]
    /\ hits' = [hits EXCEPT ![k] = Fresh(@, k) \cup {Grant(k)}]
    /\ Count(k)

BugFits(k) ==
    /\ Cardinality(Fresh(hits[k], k)) <= Limit[k]
    /\ hits' = [hits EXCEPT ![k] = Fresh(@, k) \cup {Grant(k)}]
    /\ UNCHANGED <<granted, cut>>

Allow(k) ==
    /\ Cardinality(Fresh(hits[k], k)) < Limit[k]
    /\ LET grown == [hits EXCEPT ![k] = Fresh(@, k) \cup {Grant(k)}]
           kept == {x \in Keys : grown[x] # {}}
       IN hits' = IF Cardinality(kept) > MaxBuckets
                  THEN [x \in Keys |-> Fresh(grown[x], k)] ELSE grown
    /\ Count(k)

(* A refused request leaves the key's bucket pruned. *)
Refuse(k) ==
    /\ Cardinality(Fresh(hits[k], k)) >= Limit[k]
    /\ hits' = [hits EXCEPT ![k] = Fresh(@, k)]
    /\ UNCHANGED <<logins, issued, links, sentAt, password, task, accountNow,
                   stale, uses, granted, cut>>

-----------------------------------------------------------------------------
(* Reset links. *)

(* forgot_password: create_password_reset_token voids the links before it. *)
BugSendLink(l) == links' = [links EXCEPT ![l] = "live"]

SendLink(l) ==
    links' = [x \in Links |-> IF x = l THEN "live"
                              ELSE IF links[x] = "live" THEN "used" ELSE links[x]]

ForgotPassword(l) ==
    /\ l = Cardinality({x \in Links : links[x] # "unsent"}) + 1
    /\ Allow("forgot")
    /\ SendLink(l)
    /\ sentAt' = [sentAt EXCEPT ![l] = accountNow]
    /\ UNCHANGED <<logins, issued, password, task, accountNow, stale, uses>>

Valid(l) == links[l] = "live" /\ accountNow < sentAt[l] + LinkTtl

(* reset_password reads the link ... (reset_password_with_token's SELECT)  *)
OpenLink(h, l) ==
    /\ task[h] = Free
    /\ Allow("reset")
    /\ Valid(l)
    /\ task' = [task EXCEPT ![h] = [op |-> "reset", link |-> l]]
    /\ UNCHANGED <<logins, issued, links, sentAt, password, accountNow, stale, uses>>

(* ... and in the transaction of its first UPDATE, which counts the row    *)
(* only while it is unused, sets the password and ends every login.        *)
BugStillLive(l) == TRUE

StillLive(l) == links[l] = "live"

ResetPassword(h) ==
    /\ task[h].op = "reset"
    /\ task' = [task EXCEPT ![h] = Free]
    /\ LET l == task[h].link
       IN IF StillLive(l)
          THEN /\ password < MaxPasswords
               /\ links' = [links EXCEPT ![l] = "used"]
               /\ password' = password + 1
               /\ uses' = [uses EXCEPT ![l] = @ + 1]
               /\ stale' = stale \cup logins
               /\ logins' = {}
          ELSE UNCHANGED <<links, password, uses, stale, logins>>
    /\ UNCHANGED <<issued, sentAt, accountNow, limiterVars>>

-----------------------------------------------------------------------------
(* Logins. *)

(* login checks the password ... *)
CheckPassword(h) ==
    /\ task[h] = Free
    /\ task' = [task EXCEPT ![h] = [op |-> "login"]]
    /\ UNCHANGED <<logins, issued, links, sentAt, password, accountNow, stale, uses, limiterVars>>

(* ... and creates the session (create_auth_session). *)
CreateLogin(h) ==
    /\ task[h].op = "login"
    /\ issued < MaxLogins
    /\ issued' = issued + 1
    /\ logins' = logins \cup {issued + 1}
    /\ task' = [task EXCEPT ![h] = Free]
    /\ UNCHANGED <<links, sentAt, password, accountNow, stale, uses, limiterVars>>

Logout(c) ==
    /\ c \in logins
    /\ logins' = logins \ {c}
    /\ UNCHANGED <<issued, links, sentAt, password, task, accountNow, stale, uses, limiterVars>>

(* change_password: the current password is right and the new one is set   *)
(* (set_user_password); before are the logins it will have to end.         *)
SetPassword(h, c) ==
    /\ task[h] = Free
    /\ c \in logins
    /\ password < MaxPasswords
    /\ password' = password + 1
    /\ task' = [task EXCEPT ![h] = [op |-> "change", cookie |-> c, before |-> logins]]
    /\ UNCHANGED <<logins, issued, links, sentAt, accountNow, stale, uses, limiterVars>>

(* delete_user_auth_sessions, all but the caller's *)
BugOthers(h) == logins \ {task[h].cookie}

Others(h) == logins \cap {task[h].cookie}

RevokeOthers(h) ==
    /\ task[h].op = "change"
    /\ logins' = Others(h)
    /\ stale' = stale \cup (task[h].before \ {task[h].cookie})
    /\ task' = [task EXCEPT ![h] = Free]
    /\ UNCHANGED <<issued, links, sentAt, password, accountNow, uses, limiterVars>>

AccountsTick ==
    /\ accountNow < MaxAccountNow
    /\ accountNow' = accountNow + 1
    /\ UNCHANGED <<logins, issued, links, sentAt, password, task, stale, uses, limiterVars>>

(* The server stops: handlers and the limiter's memory go, rows stay.      *)
AccountsRestart ==
    /\ task' = [h \in Handlers |-> Free]
    /\ hits' = [k \in Keys |-> {}]
    /\ granted' = [k \in Keys |-> {}]
    /\ cut' = {}
    /\ UNCHANGED <<logins, issued, links, sentAt, password, accountNow, stale, uses>>

AccountsNext ==
    \/ \E k \in Keys : Refuse(k)
    \/ \E l \in Links : ForgotPassword(l)
    \/ \E h \in Handlers :
          \/ \E l \in Links : OpenLink(h, l)
          \/ ResetPassword(h)
          \/ CheckPassword(h)
          \/ CreateLogin(h)
          \/ \E c \in Cookies : SetPassword(h, c)
          \/ RevokeOthers(h)
    \/ \E c \in Cookies : Logout(c)
    \/ AccountsTick
    \/ AccountsRestart

AccountsSpec == AccountsInit /\ [][AccountsNext]_accountVars

-----------------------------------------------------------------------------
(* Properties *)

Tasks ==
    {Free, [op |-> "login"]} \cup [op : {"reset"}, link : Links]
    \cup [op : {"change"}, cookie : Cookies, before : SUBSET Cookies]

AccountsTypeOK ==
    /\ issued \in 0..MaxLogins /\ logins \subseteq 1..issued /\ stale \subseteq 1..issued
    /\ links \in [Links -> {"unsent", "live", "used"}]
    /\ sentAt \in [Links -> 0..MaxAccountNow]
    /\ password \in 0..MaxPasswords
    /\ task \in [Handlers -> Tasks]
    /\ hits \in [Keys -> SUBSET [nth : Nat \ {0}, at : 0..MaxAccountNow]]
    /\ \A k \in Keys : Cardinality(hits[k]) <= Limit[k]
    /\ cut \subseteq Keys
    /\ accountNow \in 0..MaxAccountNow
    /\ uses \in [Links -> Nat]

\* A reset link sets a password once, however many requests present it and
\* whatever newer link is sent meanwhile, and only the newest link can
\* (reset_password_with_token, create_password_reset_token).
LinkWorksOnce ==
    /\ \A l \in Links : uses[l] <= 1
    /\ Cardinality({l \in Links : links[l] = "live"}) <= 1

\* A login that a finished change or reset of the password has outdated is
\* never live again, whichever handlers were at work then (change_password,
\* reset_password).
OutdatedLoginsEnd == stale \cap logins = {}

Shortest == IF Window["forgot"] <= Window["reset"] THEN Window["forgot"] ELSE Window["reset"]

\* The stretch of time within which a key's limit stands.
HeldFor(k) == IF k \in cut THEN Shortest ELSE Window[k]

\* No key gets more than its limit within any window of its own, while the
\* process lives, until a cleanup run by a call with a shorter window cuts its
\* bucket short; and then still none within any span as long as the shortest
\* window, whatever calls and cleanups fall between (RateLimiter.allow).
RateHeld ==
    \A k \in Keys, t \in 0..MaxAccountNow :
        Cardinality({g \in granted[k] : g.at <= t /\ t < g.at + HeldFor(k)}) <= Limit[k]
=============================================================================
