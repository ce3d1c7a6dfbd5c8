---------------------------- MODULE DesktopShell ----------------------------
(***************************************************************************)
(* The desktop shell and its sidecar: start_backend, dispatch,             *)
(* replay_pending and stop_backend of desktop/src-tauri/src/main.rs, beside*)
(* the start-up and the parent watchdog of desktop_main.py.                *)
(*                                                                         *)
(*   shell     the shell process: up, stopping its backend, or gone        *)
(*   starter   where the start_backend thread is                           *)
(*   sidecar   the backend process; watched: its watchdog thread runs;     *)
(*             kept: the shell holds its handle                            *)
(*   base      base_url is set; pendingRequest the one request that waits for it  *)
(*   queuing   the request dispatch has found no base for, not stored yet  *)
(*   replay    the request taken from pendingRequest, in its 600 ms delay         *)
(*   page      what the window shows: the splash, a failure, the app after *)
(*             /auth (or before it, "early"), with the last request applied*)
(* History: made are the requests of this run, answered those applied to   *)
(* the authenticated app, dropped those another request replaced.          *)
(***************************************************************************)
EXTENDS Naturals, FiniteSets

CONSTANTS Requests,   \* tray, shortcut and deep-link requests
    NoRequest

ASSUME ShellAssumption == NoRequest \notin Requests

VARIABLES shell, starter, sidecar, watched, kept, base, pendingRequest, queuing,
          replay, page, made, answered, dropped

processVars == <<shell, starter, sidecar, watched, kept>>
requestVars == <<base, pendingRequest, queuing, replay, page, made, answered, dropped>>
shellVars == <<processVars, requestVars>>

ShellInit ==
    /\ shell = "up" /\ starter = "spawning"
    /\ sidecar = "none" /\ watched = FALSE /\ kept = FALSE
    /\ base = FALSE
    /\ pendingRequest = NoRequest /\ queuing = NoRequest /\ replay = NoRequest
    /\ page = "splash"
    /\ made = {} /\ answered = {} /\ dropped = {}

Running == {"booting", "ported", "ready", "serving"}

-----------------------------------------------------------------------------
(* The sidecar, desktop_main.main. *)

AnnouncePort ==
    /\ sidecar = "booting"
    /\ sidecar' = "ported"
    /\ UNCHANGED <<shell, starter, watched, kept, requestVars>>

AnnounceReady ==
    /\ sidecar = "ported"
    /\ sidecar' = "ready"
    /\ UNCHANGED <<shell, starter, watched, kept, requestVars>>

\* mutant: the watchdog is left to the desktop's own signal handler
BugWatchParent ==
    /\ sidecar = "ready"
    /\ sidecar' = "serving"
    /\ UNCHANGED <<shell, starter, watched, kept, requestVars>>
(* watch_parent, then server.run: a process that is an orphan already has  *)
(* no parent to watch.                                                     *)
WatchParent ==
    /\ sidecar = "ready"
    /\ watched' = (shell # "gone")
    /\ sidecar' = "serving"
    /\ UNCHANGED <<shell, starter, kept, requestVars>>

BootFails ==
    /\ sidecar \in {"booting", "ported"}
    /\ sidecar' = "exited"
    /\ UNCHANGED <<shell, starter, watched, kept, requestVars>>

(* _watch: the parent id has changed. *)
ParentGone ==
    /\ sidecar = "serving" /\ watched /\ shell = "gone"
    /\ sidecar' = "exited"
    /\ UNCHANGED <<shell, starter, watched, kept, requestVars>>

-----------------------------------------------------------------------------
(* start_backend, while the shell lives. *)

At(stage) == shell = "up" /\ starter = stage

Spawn ==
    /\ At("spawning")
    /\ \/ starter' = "keeping" /\ sidecar' = "booting" /\ UNCHANGED page
       \/ starter' = "failed" /\ page' = "failure" /\ UNCHANGED sidecar
    /\ UNCHANGED <<shell, watched, kept, base, pendingRequest, queuing, replay,
                   made, answered, dropped>>

Keep ==
    /\ At("keeping")
    /\ kept' = TRUE
    /\ starter' = "reading"
    /\ UNCHANGED <<shell, sidecar, watched, requestVars>>

(* PORT= and URL= have been read. *)
ReadPort ==
    /\ At("reading") /\ sidecar \in {"ported", "ready", "serving"}
    /\ starter' = "waiting"
    /\ UNCHANGED <<shell, sidecar, watched, kept, requestVars>>

(* The pipe closes before the port, or /health gives no 200 in 60 seconds. *)
StartFails ==
    /\ \/ At("reading") /\ sidecar = "exited"
       \/ At("waiting")
    /\ starter' = "failed"
    /\ page' = "failure"
    /\ UNCHANGED <<shell, sidecar, watched, kept, base, pendingRequest, queuing, replay,
                   made, answered, dropped>>

Healthy ==
    /\ At("waiting") /\ sidecar = "serving"
    /\ base' = TRUE
    /\ starter' = "opening"
    /\ UNCHANGED <<shell, sidecar, watched, kept, pendingRequest, queuing, replay, page,
                   made, answered, dropped>>

(* The window is sent to /auth, whatever it shows. *)
Open ==
    /\ At("opening")
    /\ \/ page' = "app" /\ starter' = "replaying"
       \/ page' = "failure" /\ starter' = "failed"
    /\ UNCHANGED <<shell, sidecar, watched, kept, base, pendingRequest, queuing, replay,
                   made, answered, dropped>>

\* mutant: what is pendingRequest is read, and cleared by whoever queues next
BugTakePending ==
    /\ At("replaying")
    /\ replay' = NoRequest
    /\ starter' = "draining"
    /\ UNCHANGED <<shell, sidecar, watched, kept, base, pendingRequest, queuing, page, made,
                   answered, dropped>>
(* replay_pending takes what waits. *)
TakePending ==
    /\ At("replaying")
    /\ replay' = pendingRequest
    /\ pendingRequest' = NoRequest
    /\ starter' = "draining"
    /\ UNCHANGED <<shell, sidecar, watched, kept, base, queuing, page, made,
                   answered, dropped>>

(* After 600 ms the window is sent to the request, whatever it shows. *)
Replay ==
    /\ shell = "up" /\ replay # NoRequest
    /\ answered' = answered \cup {replay}
    /\ replay' = NoRequest
    /\ UNCHANGED <<processVars, base, pendingRequest, queuing, page, made, dropped>>

-----------------------------------------------------------------------------
(* dispatch, on the shell's main thread: one request at a time. *)

Dispatch(r) ==
    /\ shell = "up" /\ queuing = NoRequest /\ r \notin made
    /\ made' = made \cup {r}
    /\ \/ /\ ~base
          /\ queuing' = r
          /\ UNCHANGED <<page, answered>>
       \/ /\ base
          /\ answered' = IF page = "app" THEN answered \cup {r} ELSE answered
          /\ page' = IF page = "app" THEN page ELSE "early"
          /\ UNCHANGED queuing
    /\ UNCHANGED <<processVars, base, pendingRequest, replay, dropped>>

(* The request takes the only place there is. *)
Queue ==
    /\ shell = "up" /\ queuing # NoRequest
    /\ pendingRequest' = queuing
    /\ dropped' = dropped \cup ({pendingRequest} \ {NoRequest})
    /\ queuing' = NoRequest
    /\ UNCHANGED <<processVars, base, replay, page, made, answered>>

-----------------------------------------------------------------------------
(* The end of the shell. *)

(* The main thread calls stop_backend. *)
ExitRequested ==
    /\ shell = "up" /\ queuing = NoRequest
    /\ shell' = "stopping"
    /\ UNCHANGED <<starter, sidecar, watched, kept, requestVars>>

(* SIGINT, five seconds of waiting, SIGKILL: when it returns the process   *)
(* whose handle was kept is gone, and the shell ends.                      *)
StopBackend ==
    /\ shell = "stopping"
    /\ sidecar' = IF kept /\ sidecar \in Running THEN "exited" ELSE sidecar
    /\ kept' = FALSE
    /\ shell' = "gone"
    /\ UNCHANGED <<starter, watched, requestVars>>

(* The shell is force-quit or crashes. *)
Crash ==
    /\ shell # "gone"
    /\ shell' = "gone"
    /\ UNCHANGED <<starter, sidecar, watched, kept, requestVars>>

SidecarStep == AnnouncePort \/ AnnounceReady \/ WatchParent \/ ParentGone
StarterStep ==
    Spawn \/ Keep \/ ReadPort \/ StartFails \/ Healthy \/ Open \/ TakePending

ShellNext ==
    \/ SidecarStep \/ BootFails
    \/ StarterStep \/ Replay
    \/ \E r \in Requests : Dispatch(r)
    \/ Queue
    \/ ExitRequested \/ StopBackend \/ Crash

(* The processes and threads keep running; nobody has to press anything,   *)
(* and a crash or a failed start never has to happen.                      *)
ShellFairness ==
    /\ WF_shellVars(SidecarStep) /\ WF_shellVars(StarterStep)
    /\ WF_shellVars(Replay) /\ WF_shellVars(Queue) /\ WF_shellVars(StopBackend)

ShellSpec == ShellInit /\ [][ShellNext]_shellVars /\ ShellFairness

-----------------------------------------------------------------------------
(* Properties. *)

\* Every variable of the shell's model keeps its type.
ShellTypeOK ==
    /\ shell \in {"up", "stopping", "gone"}
    /\ starter \in {"spawning", "keeping", "reading", "waiting", "opening",
                    "replaying", "draining", "failed"}
    /\ sidecar \in Running \cup {"none", "exited"}
    /\ watched \in BOOLEAN /\ kept \in BOOLEAN /\ base \in BOOLEAN
    /\ {pendingRequest, queuing, replay} \subseteq Requests \cup {NoRequest}
    /\ page \in {"splash", "failure", "early", "app"}
    /\ made \subseteq Requests /\ answered \subseteq made /\ dropped \subseteq made

\* A request that waits when the backend becomes reachable is applied in the
\* end, unless a newer one takes its place, the start fails or the shell ends
\* (dispatch, start_backend, replay_pending).
WaitingIsReplayed ==
    \A r \in Requests :
        (pendingRequest = r /\ starter \notin {"draining", "failed"})
            ~> (r \in answered \cup dropped \/ starter = "failed" \/ shell # "up")

\* A backend that was healthy under its shell does not outlive it, however the
\* shell ends: by the signals of a quit, or by the watchdog after a crash, also
\* one in the middle of quitting (stop_backend, watch_parent).
HealthyIsNotOrphaned ==
    (shell = "gone" /\ starter \in {"opening", "replaying", "draining"})
        ~> (sidecar = "exited")

=============================================================================
