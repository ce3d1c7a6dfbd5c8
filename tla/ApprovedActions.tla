--------------------------- MODULE ApprovedActions ---------------------------
(***************************************************************************)
(* What alert-driven remediation promises, with no threads, clock, policy  *)
(* or database: a proposal is decided once by a person, an approval can be *)
(* spent once, and only a spent approval is ever acted upon, at most once. *)
(* RemediationExecution is shown to implement this specification.          *)
(***************************************************************************)
CONSTANT Proposals

VARIABLES
    decision,   \* what the people and the executor have settled, per proposal
    done        \* the proposals whose action has reached a cluster

vars == <<decision, done>>

Decisions == {"none", "pending", "approved", "rejected", "spent"}

Init ==
    /\ decision = [p \in Proposals |-> "none"]
    /\ done = {}

\* One proposal moves along its life cycle; nothing reaches a cluster.
Settle(p, from, to) ==
    /\ decision[p] = from
    /\ decision' = [decision EXCEPT ![p] = to]
    /\ UNCHANGED done

Propose(p) == Settle(p, "none", "pending")
Approve(p) == Settle(p, "pending", "approved")
Reject(p)  == Settle(p, "pending", "rejected")
Spend(p)   == Settle(p, "approved", "spent")

\* The action reaches a cluster: once, and only on a spent approval.
Act(p) ==
    /\ decision[p] = "spent"
    /\ p \notin done
    /\ done' = done \cup {p}
    /\ UNCHANGED decision

Next ==
    \E p \in Proposals :
        Propose(p) \/ Approve(p) \/ Reject(p) \/ Spend(p) \/ Act(p)

Spec == Init /\ [][Next]_vars
=============================================================================
