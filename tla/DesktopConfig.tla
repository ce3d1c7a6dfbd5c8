---------------------------- MODULE DesktopConfig ----------------------------
(***************************************************************************)
(* The desktop settings file and the folder grants kept in it:             *)
(* desktop_config.load and save, and add_grant, revoke_grant and           *)
(* touch_last_used of desktop_folders.py.                                  *)
(*                                                                         *)
(* The endpoints and the agent's tools run on a thread pool and nothing    *)
(* locks the file: a caller loads the grants, save loads the file again,   *)
(* truncates it and writes it, and other threads run in between.  Every    *)
(* grant here covers the one folder of interest; ids are random and never  *)
(* reused.                                                                 *)
(*                                                                         *)
(*   file         what config.json holds, Corrupt while it is truncated    *)
(*   saver[s]     where a thread is in its load, merge, truncate and write *)
(*   change[s]    the update it will pass to save; merged[s] what save     *)
(*                will write                                               *)
(*   issued       the grant ids handed out                                 *)
(* History: revoked are the grants whose revocation was answered, settled  *)
(* those whose revocation no other save overlapped; standing is the last   *)
(* URL a lone save stored, until saves overlap or the file is damaged.     *)
(***************************************************************************)
EXTENDS Naturals

CONSTANTS
    Savers,       \* threads of the backend
    Grants,       \* grant ids
    WriteGrants,  \* those of mode "write"; the others are of mode "read"
    Urls,         \* values of alertmanager_url
    NoUrl,        \* the default, ""
    Corrupt,      \* a file that does not parse
    NoGrant, NoChange

ASSUME ConfigAssumption ==
    /\ NoUrl \in Urls
    /\ WriteGrants \subseteq Grants
    /\ NoGrant \notin Grants
    /\ NoChange \notin Urls

VARIABLES file, saver, job, change, merged, issued, revoked, settled, standing

configVars ==
    <<file, saver, job, change, merged, issued, revoked, settled, standing>>
saverVars == <<saver, job, change, merged>>

Config == [grants : SUBSET Grants, url : Urls]
Change == [grants : SUBSET Grants] \cup [url : Urls]
Defaults == [grants |-> {}, url |-> NoUrl]
Stages == {"idle", "adding", "merging", "opening", "writing"}

\* Threads that hold a copy of something they are about to write back.
Holding(s) == saver[s] \in {"merging", "opening", "writing"}
Alone(s) == \A x \in Savers \ {s} : ~Holding(x)

ConfigInit ==
    /\ file = Defaults
    /\ saver = [s \in Savers |-> "idle"]
    /\ job = [s \in Savers |-> NoGrant]
    /\ change = [s \in Savers |-> NoChange]
    /\ merged = [s \in Savers |-> Defaults]
    /\ issued = {}
    /\ revoked = {}
    /\ settled = {}
    /\ standing = NoChange

(* load: the defaults for anything unreadable. *)
Load == IF file = Corrupt THEN Defaults ELSE file

(* _mode_satisfies *)
Satisfies(g, h) == h \notin WriteGrants \/ g \in WriteGrants

-----------------------------------------------------------------------------
(* The callers of save. *)

(* The caller has made its update and calls save. *)
Submit(s, g, c) ==
    /\ saver' = [saver EXCEPT ![s] = "merging"]
    /\ job' = [job EXCEPT ![s] = g]
    /\ change' = [change EXCEPT ![s] = c]
    /\ UNCHANGED <<file, merged, revoked, settled, standing>>

(* add_grant finds no grant that covers the folder, and loads again. *)
AddGrant(s, g) ==
    /\ saver[s] = "idle"
    /\ g \notin issued
    /\ ~ \E h \in Load.grants : Satisfies(h, g)
    /\ issued' = issued \cup {g}
    /\ saver' = [saver EXCEPT ![s] = "adding"]
    /\ job' = [job EXCEPT ![s] = g]
    /\ UNCHANGED <<file, change, merged, revoked, settled, standing>>

AppendGrant(s) ==
    /\ saver[s] = "adding"
    /\ Submit(s, job[s], [grants |-> Load.grants \cup {job[s]}])
    /\ UNCHANGED issued

\* mutant: the id is matched the wrong way round
BugKept(g) == Load.grants \cap {g}
(* revoke_grant's list comprehension. *)
Kept(g) == Load.grants \ {g}

(* revoke_grant; it saves nothing when the id is not there. *)
RevokeGrant(s, g) ==
    /\ saver[s] = "idle"
    /\ g \in Load.grants
    /\ Submit(s, g, [grants |-> Kept(g)])
    /\ UNCHANGED issued

\* mutant: an upsert, as a helper that sets last_used could be written
BugTouch(s, g) ==
    /\ saver[s] = "idle"
    /\ g \in issued
    /\ Submit(s, NoGrant, [grants |-> Load.grants \cup {g}])
    /\ UNCHANGED issued
(* touch_last_used, at the end of a read, a listing, a search or an apply  *)
(* that found grant g earlier; it saves nothing when g is gone.            *)
Touch(s, g) ==
    /\ saver[s] = "idle"
    /\ g \in Load.grants
    /\ Submit(s, NoGrant, [grants |-> Load.grants])
    /\ UNCHANGED issued

(* update_desktop_settings, connect_cluster and the other settings. *)
SetUrl(s, u) ==
    /\ saver[s] = "idle"
    /\ Submit(s, NoGrant, [url |-> u])
    /\ UNCHANGED issued

-----------------------------------------------------------------------------
(* save *)

SetsUrl(s) == change[s] \in [url : Urls]

\* mutant: save writes its updates over the defaults
BugMergedWith(s) ==
    IF SetsUrl(s) THEN [Defaults EXCEPT !.url = change[s].url]
    ELSE [Defaults EXCEPT !.grants = change[s].grants]
MergedWith(s) ==
    IF SetsUrl(s) THEN [Load EXCEPT !.url = change[s].url]
    ELSE [Load EXCEPT !.grants = change[s].grants]

Merge(s) ==
    /\ saver[s] = "merging"
    /\ saver' = [saver EXCEPT ![s] = "opening"]
    /\ merged' = [merged EXCEPT ![s] = MergedWith(s)]
    /\ UNCHANGED <<file, job, change, issued, revoked, settled, standing>>

(* O_TRUNC empties the file. *)
Truncate(s) ==
    /\ saver[s] = "opening"
    /\ file' = Corrupt
    /\ saver' = [saver EXCEPT ![s] = "writing"]
    /\ UNCHANGED <<job, change, merged, issued, revoked, settled, standing>>

Return(s) ==
    /\ saver' = [saver EXCEPT ![s] = "idle"]
    /\ job' = [job EXCEPT ![s] = NoGrant]
    /\ change' = [change EXCEPT ![s] = NoChange]
    /\ merged' = [merged EXCEPT ![s] = Defaults]

(* Two descriptors may be open at once: a write over another thread's      *)
(* bytes leaves what it wrote, or the tail of a longer text behind it.     *)
Written(s) ==
    {merged[s]} \cup (IF file = Corrupt THEN {} ELSE {Corrupt})

(* A revocation is answered once its grant is off the list it saved. *)
Revokes(s) == job[s] # NoGrant /\ job[s] \notin change[s].grants

Write(s) ==
    /\ saver[s] = "writing"
    /\ file' \in Written(s)
    /\ revoked' = IF Revokes(s) THEN revoked \cup {job[s]} ELSE revoked
    /\ settled' = IF Revokes(s) /\ Alone(s) THEN settled \cup {job[s]} ELSE settled
    /\ standing' = IF file' = Corrupt \/ ~Alone(s) THEN NoChange
                   ELSE IF SetsUrl(s) THEN change[s].url ELSE standing
    /\ Return(s)
    /\ UNCHANGED issued

(* The disk is full: the exception leaves the file as it was truncated. *)
FailWrite(s) ==
    /\ saver[s] = "writing"
    /\ standing' = NoChange
    /\ Return(s)
    /\ UNCHANGED <<file, issued, revoked, settled>>

(* The app is closed or killed. *)
Quit ==
    /\ saver' = [s \in Savers |-> "idle"]
    /\ job' = [s \in Savers |-> NoGrant]
    /\ change' = [s \in Savers |-> NoChange]
    /\ merged' = [s \in Savers |-> Defaults]
    /\ standing' = IF file = Corrupt THEN NoChange ELSE standing
    /\ UNCHANGED <<file, issued, revoked, settled>>

ConfigNext ==
    \/ \E s \in Savers, g \in Grants :
           AddGrant(s, g) \/ RevokeGrant(s, g) \/ Touch(s, g)
    \/ \E s \in Savers, u \in Urls : SetUrl(s, u)
    \/ \E s \in Savers :
           AppendGrant(s) \/ Merge(s) \/ Truncate(s) \/ Write(s) \/ FailWrite(s)
    \/ Quit

ConfigSpec == ConfigInit /\ [][ConfigNext]_configVars

-----------------------------------------------------------------------------
(* Properties. *)

\* Every variable of the settings file's model keeps its type.
ConfigTypeOK ==
    /\ file \in Config \cup {Corrupt}
    /\ saver \in [Savers -> Stages]
    /\ job \in [Savers -> Grants \cup {NoGrant}]
    /\ change \in [Savers -> Change \cup {NoChange}]
    /\ merged \in [Savers -> Config]
    /\ issued \subseteq Grants
    /\ settled \subseteq revoked
    /\ revoked \subseteq issued
    /\ standing \in Urls \cup {NoChange}

\* A revocation that no other save overlapped is final: no read or apply of
\* that grant's folder, whenever it looked the grant up, and no later grant
\* or setting brings it back (revoke_grant, touch_last_used).
SettledRevocationHolds ==
    \A g \in settled :
        /\ g \notin Load.grants
        /\ \A s \in Savers : Holding(s) /\ ~SetsUrl(s) => g \notin change[s].grants

\* A setting stored by a save that overlapped no other is still there
\* whenever nobody is writing, until it is set again, two saves overlap, a
\* write fails or the app dies with the file truncated: saving grants does
\* not take it back (desktop_config.save merges into what is stored).
LoneSettingStands ==
    standing # NoChange /\ (\A s \in Savers : saver[s] # "writing")
        => Load.url = standing

=============================================================================
