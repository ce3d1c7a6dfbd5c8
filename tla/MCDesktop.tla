------------------------------ MODULE MCDesktop ------------------------------
(* The desktop's components side by side, for TLC. They share no state: a  *)
(* behaviour is one of a single component, chosen at the start, while the  *)
(* others rest, so that one run checks them all at the cost of their sum.  *)
EXTENDS DesktopConfig, DesktopEdits, DesktopAlerts, DesktopShell

VARIABLE part

vars == <<part, configVars, editsVars, alertsVars, shellVars>>

Init ==
    /\ part \in {"config", "edits", "alerts", "shell"}
    /\ ConfigInit /\ EditsInit /\ AlertsInit /\ ShellInit
    /\ part # "edits" => disk = Absent /\ ~granted    \* one rest state

Next ==
    \/ /\ part = "config" /\ ConfigNext
       /\ UNCHANGED <<part, editsVars, alertsVars, shellVars>>
    \/ /\ part = "edits" /\ EditsNext
       /\ UNCHANGED <<part, configVars, alertsVars, shellVars>>
    \/ /\ part = "alerts" /\ AlertsNext
       /\ UNCHANGED <<part, configVars, editsVars, shellVars>>
    \/ /\ part = "shell" /\ ShellNext
       /\ UNCHANGED <<part, configVars, editsVars, alertsVars>>
    \/ /\ part = "shell" /\ shell = "gone"    \* the only one that ends
       /\ UNCHANGED vars

(* AlertsFairness and ShellFairness, for the behaviours that are theirs. *)
Fairness ==
    /\ WF_alertsVars(part = "alerts" /\ PollerStep)
    /\ SF_alertsVars(part = "alerts" /\ Fetch)
    /\ WF_shellVars(part = "shell" /\ SidecarStep)
    /\ WF_shellVars(part = "shell" /\ StarterStep)
    /\ WF_shellVars(part = "shell" /\ Replay)
    /\ WF_shellVars(part = "shell" /\ Queue)
    /\ WF_shellVars(part = "shell" /\ StopBackend)

Spec == Init /\ [][Next]_vars /\ Fairness

\* Every variable of the desktop's components keeps its type.
DesktopTypeOK == ConfigTypeOK /\ EditsTypeOK /\ AlertsTypeOK /\ ShellTypeOK

\* What the desktop's threads share stays sound: a revoked folder is not granted again and a
\* setting nobody else writes stands, a write token works once, answers are bounded, and an alert
\* is announced once.
SharedStateIsSound ==
    /\ DesktopTypeOK
    /\ SettledRevocationHolds /\ LoneSettingStands
    /\ TokenUsedOnce /\ AnswersBounded
    /\ NotifiedOnce

\* No step replaces a file that is not the one reviewed, or keeps a new alert quiet.
StepsAreTold == ReviewedIsReplaced /\ NewAlertAnnounced

\* A request that waits for the sidecar reaches it, and a healthy shell has its sidecar.
ShellServes == WaitingIsReplayed /\ HealthyIsNotOrphaned
=============================================================================
