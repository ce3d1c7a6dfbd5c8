--------------------------- MODULE ClusterSessions ---------------------------
(***************************************************************************)
(* Which cluster a chat session, and the background work, runs kubectl on: *)
(* routers/cluster.py (upload, connect, disconnect), cluster_session.py    *)
(* (resolve, resolve_default, remember_default, prune) and the connection  *)
(* rows of db.py.                                                          *)
(*                                                                         *)
(* An uploaded kubeconfig is kept in one file per session, which a later   *)
(* upload overwrites; the row of a connection names a context and a file,  *)
(* and KubectlRunner hands both to kubectl for every command, so what a    *)
(* command reaches is decided by what the file holds at that moment.       *)
(*                                                                         *)
(*   files[f]    what the file of session f holds                          *)
(*   conns[s]    the connection row of a session; default, the cluster of  *)
(*               background work in the desktop's settings                 *)
(*   pending     a connect request between its check and the default       *)
(*   drop        the file a disconnect has still to delete                 *)
(*   runner[s]   the runner installed for the session's current turn       *)
(*   aliased     whether the directory of the uploads is named through a   *)
(*               symbolic link, so that a path in it differs from its      *)
(*               resolved form                                             *)
(* One connect and one disconnect are in flight at a time.                 *)
(* History: "wanted" in a target is the cluster its connectivity check     *)
(* reached, and "unkept" says that the check used an uploaded file which   *)
(* the target leaves out; rewritten are the files uploaded over while a    *)
(* target used them.                                                       *)
(***************************************************************************)
EXTENDS Naturals

CONSTANTS
    Chats,          \* chat sessions; each names its own kubeconfig file
    Talkers,        \* those that send messages
    Uploaders,      \* those that upload kubeconfigs
    Contexts,       \* context names
    Clusters,
    Uploads,        \* kubeconfigs: functions from contexts to Places
    LocalConfig,    \* the machine's own kubeconfig
    LocalContext,   \* its current-context
    Nowhere,        \* a context that is absent or cannot be reached
    NoFile, NoTarget, NoPath, NoRequest

Places == Clusters \cup {Nowhere}

ASSUME ClusterAssumption ==
    /\ Talkers \cup Uploaders \subseteq Chats
    /\ Nowhere \notin Clusters
    /\ Uploads \subseteq [Contexts -> Places]
    /\ LocalConfig \in [Contexts -> Places]
    /\ LocalContext \in Contexts
    /\ LocalConfig[LocalContext] \in Clusters
    /\ NoPath \notin Chats
    /\ NoFile \notin Uploads

VARIABLES files, conns, default, pending, drop, runner, aliased, rewritten

clusterVars == <<files, conns, default, pending, drop, runner, aliased, rewritten>>

\* A context and a kubeconfig; NoPath stands for the machine's own.
Target == [ctx : Contexts, path : Chats \cup {NoPath}, wanted : Clusters,
           unkept : BOOLEAN]
Modes == {"autodetect", "kubeconfig-upload"}

ASSUME TargetAssumption == NoTarget \notin Target

\* The runner of a session that never connected: the machine's own choice.
Ambient == [ctx |-> LocalContext, path |-> NoPath,
            wanted |-> LocalConfig[LocalContext], unkept |-> FALSE]

ClusterInit ==
    /\ files = [f \in Chats |-> NoFile]
    /\ conns = [s \in Chats |-> NoTarget]
    /\ default = NoTarget
    /\ pending = NoRequest
    /\ drop = NoPath
    /\ runner = [s \in Talkers |-> NoTarget]
    /\ aliased \in BOOLEAN
    /\ rewritten = {}

(* KubectlRunner.run passes --kubeconfig and --context on every command:   *)
(* where a command of this target goes now, Nowhere if kubectl fails.      *)
Reaches(t) ==
    IF t.path = NoPath THEN LocalConfig[t.ctx]
    ELSE IF files[t.path] = NoFile THEN Nowhere ELSE files[t.path][t.ctx]

Uses(t, f) == t # NoTarget /\ t.path = f

InUse(f) ==
    \/ Uses(default, f)
    \/ pending # NoRequest /\ Uses(pending.target, f)
    \/ \E s \in Chats : Uses(conns[s], f)
    \/ \E s \in Talkers : Uses(runner[s], f)

-----------------------------------------------------------------------------
(* Connecting and disconnecting. *)

(* upload_kubeconfig; _write_temp_kubeconfig truncates the session's file. *)
Upload(s, content) ==
    /\ files[s] # content
    /\ files' = [files EXCEPT ![s] = content]
    /\ rewritten' = IF InUse(s) THEN rewritten \cup {s} ELSE rewritten \ {s}
    /\ UNCHANGED <<conns, default, pending, drop, runner, aliased>>

(* connect_context up to its connectivity check: without a path it is the   *)
(* machine's own kubeconfig, and an uploaded path, which either mode may    *)
(* name, must still be a file.                                              *)
CheckContext(s, mode, path, ctx) ==
    LET t == [ctx |-> ctx, path |-> path, wanted |-> Reaches(
                 [ctx |-> ctx, path |-> path]), unkept |-> FALSE]
    IN /\ pending = NoRequest
       /\ path # NoPath => files[path] # NoFile
       /\ t.wanted # Nowhere
       /\ pending' = [who |-> s, mode |-> mode, target |-> t, saved |-> FALSE]
       /\ UNCHANGED <<files, conns, default, drop, runner, aliased, rewritten>>

\* The row when the modes are taken for each other.
BugRowOf(mode, t) ==
    IF mode = "autodetect" THEN t ELSE [t EXCEPT !.path = NoPath]

\* The row keeps the file of an upload only; autodetect stores none, also
\* when an uploaded file was the one checked.
RowOf(mode, t) ==
    IF mode = "kubeconfig-upload" THEN t
    ELSE [t EXCEPT !.path = NoPath, !.unkept = t.path # NoPath]

(* save_cluster_connection *)
SaveConnection ==
    /\ pending # NoRequest
    /\ ~pending.saved
    /\ conns' = [conns EXCEPT ![pending.who] = RowOf(pending.mode, pending.target)]
    /\ pending' = [pending EXCEPT !.saved = TRUE]
    /\ UNCHANGED <<files, default, drop, runner, aliased, rewritten>>

(* remember_default, after the row is saved; it may fail without a trace.  *)
RememberDefault ==
    /\ pending # NoRequest
    /\ pending.saved
    /\ default' \in {default, pending.target}
    /\ pending' = NoRequest
    /\ UNCHANGED <<files, conns, drop, runner, aliased, rewritten>>

(* disconnect: delete_cluster_connection returns the file of the row ...   *)
Disconnect(s) ==
    /\ conns[s] # NoTarget
    /\ drop = NoPath
    /\ drop' = conns[s].path
    /\ conns' = [conns EXCEPT ![s] = NoTarget]
    /\ UNCHANGED <<files, default, pending, runner, aliased, rewritten>>

(* ... and _delete_temp_kubeconfig removes it, whoever else refers to it.  *)
DeleteTempKubeconfig ==
    /\ drop # NoPath
    /\ files' = [files EXCEPT ![drop] = NoFile]
    /\ drop' = NoPath
    /\ UNCHANGED <<conns, default, pending, runner, aliased, rewritten>>

-----------------------------------------------------------------------------
(* Running commands. *)

(* resolve: the ambient runner without a row, no runner at all when the    *)
(* row's file is gone (ClusterConnectionUnavailable).                      *)
BugResolve(t) ==
    IF t = NoTarget \/ (t.path # NoPath /\ files[t.path] = NoFile)
    THEN {Ambient} ELSE {t}

Resolve(t) ==
    IF t = NoTarget THEN {Ambient}
    ELSE IF t.path # NoPath /\ files[t.path] = NoFile THEN {} ELSE {t}

\* What the operator asked for: the target's cluster, or the machine's own.
Wanted(t) == IF t = NoTarget THEN Ambient.wanted ELSE t.wanted

(* A turn of the chat installs the runner for all of its commands.         *)
StartTurn(s) ==
    /\ runner[s] = NoTarget
    /\ \E t \in Resolve(conns[s]) :
          runner' = [runner EXCEPT ![s] = [t EXCEPT !.wanted = Wanted(conns[s])]]
    /\ UNCHANGED <<files, conns, default, pending, drop, aliased, rewritten>>

(* runner_ctx.reset, in the runner's finally *)
EndTurn(s) ==
    /\ runner[s] # NoTarget
    /\ runner' = [runner EXCEPT ![s] = NoTarget]
    /\ UNCHANGED <<files, conns, default, pending, drop, aliased, rewritten>>

(* The runners of background work on the desktop: none without a default.  *)
ResolveDefault ==
    IF default = NoTarget \/ (default.path # NoPath /\ files[default.path] = NoFile)
    THEN {} ELSE {default}

BugOrphans == {f \in Chats : conns[f] = NoTarget}

(* prune_orphan_kubeconfigs compares the paths it lists, as the directory  *)
(* is named, with those of the rows, which were resolved when they were    *)
(* stored: under a symbolic link none of them is found.                    *)
Orphans == {f \in Chats : aliased \/ \A s \in Chats : ~Uses(conns[s], f)}

(* The process stops, requests and turns with it; the next one prunes,     *)
(* unless no directory is configured or the rows cannot be read.           *)
Restart ==
    /\ \/ files' = [f \in Chats |-> IF f \in Orphans THEN NoFile ELSE files[f]]
       \/ UNCHANGED files
    /\ runner' = [s \in Talkers |-> NoTarget]
    /\ pending' = NoRequest
    /\ drop' = NoPath
    /\ UNCHANGED <<conns, default, aliased, rewritten>>

ClusterNext ==
    \/ Restart
    \/ \E s \in Uploaders, content \in Uploads : Upload(s, content)
    \/ \E s \in Chats :
          \/ \E mode \in Modes, path \in Chats \cup {NoPath}, ctx \in Contexts :
                CheckContext(s, mode, path, ctx)
          \/ Disconnect(s)
    \/ SaveConnection
    \/ RememberDefault
    \/ DeleteTempKubeconfig
    \/ \E s \in Talkers : StartTurn(s) \/ EndTurn(s)

ClusterSpec == ClusterInit /\ [][ClusterNext]_clusterVars

-----------------------------------------------------------------------------
(* Properties *)

ClusterTypeOK ==
    /\ files \in [Chats -> Uploads \cup {NoFile}]
    /\ conns \in [Chats -> Target \cup {NoTarget}]
    /\ default \in Target \cup {NoTarget}
    /\ pending \in [who : Chats, mode : Modes, target : Target, saved : BOOLEAN] \cup {NoRequest}
    /\ drop \in Chats \cup {NoPath}
    /\ runner \in [Talkers -> Target \cup {NoTarget}]
    /\ aliased \in BOOLEAN
    /\ rewritten \subseteq Chats

Faithful(t) == Reaches(t) \in {Nowhere, t.wanted}

\* A runner's commands, and those of background work, reach the cluster the
\* operator connected to, or none, however connects, disconnects, deleted
\* files and restarts fall in between (cluster_session.resolve,
\* resolve_default).  Two things can change that: a file uploaded over while
\* it was in use, and, for the chat only, a connection made in mode
\* autodetect with an uploaded file, which the row leaves out: its commands
\* go to the machine's own context of that name.
CommandsHitTheChoice ==
    /\ \A s \in Talkers : runner[s] # NoTarget =>
          \/ Faithful(runner[s])
          \/ runner[s].path \in rewritten
          \/ runner[s].unkept /\ runner[s].path = NoPath
    /\ \A t \in ResolveDefault : Faithful(t) \/ t.path \in rewritten

\* Where the directory is named by its resolved path, the prune at startup
\* leaves every kubeconfig that a session's row names, also one that another
\* session uploaded (prune_orphan_kubeconfigs).
PruneKeepsReferenced ==
    [][Restart /\ ~aliased => \A s \in Chats :
          conns[s] # NoTarget /\ conns[s].path # NoPath
              => files'[conns[s].path] = files[conns[s].path]]_clusterVars

=============================================================================
