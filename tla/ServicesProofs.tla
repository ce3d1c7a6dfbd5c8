---------------------------- MODULE ServicesProofs ----------------------------
(***************************************************************************)
(* Theorems about the backend's services side by side (MCServices), for    *)
(* every set of sessions, contexts, clusters, handlers, previews, openers, *)
(* nodes and writers, every limit, window and cap.                         *)
(***************************************************************************)
EXTENDS MCServices, FiniteSetTheorems, WellFoundedInduction, TLAPS

\* A step of the composition is, for each service, a step of it or a stutter.
LEMMA StepOfEach ==
    ASSUME [Next]_vars
    PROVE  /\ [ClusterNext]_clusterVars
           /\ [AccountsNext]_accountVars
           /\ [RepoNext]_repoVars
           /\ [Grow]_spanVars
           /\ [AuditNext]_auditVars
  BY DEF Next, vars

-----------------------------------------------------------------------------
(* Which cluster commands reach.  A target is sound while what it reaches   *)
(* is nothing or the cluster it was checked against, unless its file was    *)
(* uploaded over or left out; every place that holds a target holds a sound *)
(* one, and only rows, and the runners made from them, leave a file out.    *)

Sound(t) == t # NoTarget =>
    Faithful(t) \/ t.path \in rewritten \/ (t.unkept /\ t.path = NoPath)

Kept ==
    /\ default # NoTarget => ~default.unkept
    /\ pending # NoRequest => ~pending.target.unkept

TargetsAreSound ==
    /\ Sound(default)
    /\ pending # NoRequest => Sound(pending.target)
    /\ \A s \in Chats : Sound(conns[s])
    /\ \A s \in Talkers : Sound(runner[s])
    /\ Kept

ClusterInv == ClusterTypeOK /\ TargetsAreSound

Requests == [who : Chats, mode : Modes, target : Target, saved : BOOLEAN]

\* What a target reaches is a cluster or nothing.
LEMMA ReachesAPlace ==
    ASSUME ClusterTypeOK, NEW ctx \in Contexts, NEW path \in Chats \cup {NoPath}
    PROVE  LET t == [ctx |-> ctx, path |-> path]
           IN  Reaches(t) \in Places
  BY ClusterAssumption DEF ClusterTypeOK, Reaches, Places

\* Files that are deleted or stay as they are leave a sound target sound.
LEMMA DeletionIsHarmless ==
    ASSUME ClusterTypeOK, NEW t, t \in Target \cup {NoTarget}, Sound(t),
           rewritten' = rewritten,
           \A f \in Chats : files'[f] = files[f] \/ files'[f] = NoFile
    PROVE  Sound(t)'
<1>1. CASE t = NoTarget
  BY <1>1 DEF Sound
<1>2. CASE t # NoTarget /\ t.path = NoPath
  BY <1>2 DEF Sound, Faithful, Reaches
<1>3. CASE t # NoTarget /\ t.path # NoPath
  <2>1. t.path \in Chats
    BY <1>3 DEF Target
  <2>2. files'[t.path] = files[t.path] \/ files'[t.path] = NoFile
    BY <2>1
  <2>3. CASE files'[t.path] = NoFile
    BY <1>3, <2>3 DEF Sound, Faithful, Reaches
  <2>4. CASE files'[t.path] = files[t.path]
    BY <1>3, <2>4 DEF Sound, Faithful, Reaches
  <2> QED
    BY <2>2, <2>3, <2>4
<1> QED
  BY <1>1, <1>2, <1>3

\* An upload marks the file it overwrites if the target uses it.
LEMMA UploadIsMarked ==
    ASSUME ClusterTypeOK, NEW t, t \in Target \cup {NoTarget}, Sound(t),
           NEW s \in Chats, NEW content, files' = [files EXCEPT ![s] = content],
           Uses(t, s) => s \in rewritten',
           rewritten \ {s} \subseteq rewritten'
    PROVE  Sound(t)'
<1>1. CASE t = NoTarget
  BY <1>1 DEF Sound
<1>2. CASE t # NoTarget /\ t.path = s
  BY <1>2 DEF Sound, Uses
<1>3. CASE t # NoTarget /\ t.path # s
  <2>1. t.path = NoPath \/ files'[t.path] = files[t.path]
    BY <1>3 DEF Target, ClusterTypeOK
  <2> QED
    BY <1>3, <2>1 DEF Sound, Faithful, Reaches
<1> QED
  BY <1>1, <1>2, <1>3

\* Connecting checks a cluster, so the request's target is one that is sound.
LEMMA CheckedTarget ==
    ASSUME ClusterTypeOK,
           NEW s \in Chats, NEW mode \in Modes, NEW path \in Chats \cup {NoPath},
           NEW ctx \in Contexts, CheckContext(s, mode, path, ctx)
    PROVE  /\ pending' \in Requests
           /\ Sound(pending.target)'
           /\ ~pending'.target.unkept
<1> DEFINE reached == Reaches([ctx |-> ctx, path |-> path])
           t == [ctx |-> ctx, path |-> path, wanted |-> reached, unkept |-> FALSE]
<1>1. reached \in Places
  BY ReachesAPlace
<1>2. reached # Nowhere /\ pending' = [who |-> s, mode |-> mode, target |-> t, saved |-> FALSE]
  BY DEF CheckContext
<1>3. t \in Target
  BY <1>1, <1>2 DEF Target, Places
<1>4. Reaches(t) = reached
  BY DEF Reaches
<1>5. Faithful(t)'
  BY <1>4 DEF Faithful, CheckContext, Reaches
<1>8. ~t.unkept
  OBVIOUS
<1> HIDE DEF t
<1>6. pending'.target = t /\ pending' \in Requests
  BY <1>2, <1>3 DEF Requests
<1>7. t' = t
  BY DEF t, CheckContext, Reaches
<1> QED
  BY <1>5, <1>6, <1>7, <1>8 DEF Sound, Faithful, Reaches

\* What a row keeps of a target that was checked.
LEMMA RowIsSound ==
    ASSUME NEW mode \in Modes, NEW t \in Target, Sound(t), ~t.unkept
    PROVE  RowOf(mode, t) \in Target /\ Sound(RowOf(mode, t))
<1>1. CASE mode = "kubeconfig-upload"
  BY <1>1 DEF RowOf
<1>2. CASE mode # "kubeconfig-upload"
  <2> DEFINE r == [t EXCEPT !.path = NoPath, !.unkept = t.path # NoPath]
  <2>1. RowOf(mode, t) = r
    BY <1>2 DEF RowOf
  <2>2. /\ r \in Target /\ r.path = NoPath /\ r.unkept = (t.path # NoPath)
        /\ r.ctx = t.ctx /\ r.wanted = t.wanted
    BY DEF Target
  <2>3. CASE t.path = NoPath
    <3>1. Faithful(t) \/ t.path \in rewritten
      BY TargetAssumption DEF Sound
    <3>2. Reaches(r) = Reaches(t)
      BY <2>2, <2>3 DEF Reaches
    <3> QED
      BY <2>1, <2>2, <2>3, <3>1, <3>2 DEF Sound, Faithful
  <2>4. CASE t.path # NoPath
    BY <2>1, <2>2, <2>4 DEF Sound
  <2> QED
    BY <2>3, <2>4
<1> QED
  BY <1>1, <1>2

\* A turn runs on a sound target.
LEMMA ResolvedTarget ==
    ASSUME ClusterTypeOK, TargetsAreSound, NEW s \in Talkers, NEW t,
           t \in Resolve(conns[s])
    PROVE  LET r == [t EXCEPT !.wanted = Wanted(conns[s])]
           IN  r \in Target /\ Sound(r)
<1> USE ClusterAssumption
<1>1. s \in Chats
  OBVIOUS
<1>2. CASE conns[s] = NoTarget
  <2>1. t = Ambient /\ Wanted(conns[s]) = Ambient.wanted
    BY <1>2 DEF Resolve, Wanted
  <2>2. [t EXCEPT !.wanted = Wanted(conns[s])] = Ambient
    BY <2>1 DEF Ambient
  <2>3. Ambient \in Target /\ Faithful(Ambient)
    BY DEF Ambient, Target, Faithful, Reaches
  <2> QED
    BY <2>2, <2>3 DEF Sound
<1>3. CASE conns[s] # NoTarget
  <2>1. t = conns[s] /\ Wanted(conns[s]) = t.wanted
    BY <1>3 DEF Resolve, Wanted
  <2>2. t \in Target
    BY <1>1, <1>3, <2>1 DEF ClusterTypeOK
  <2>3. [t EXCEPT !.wanted = Wanted(conns[s])] = t
    BY <2>1, <2>2 DEF Target
  <2> QED
    BY <1>1, <2>1, <2>2, <2>3 DEF TargetsAreSound
<1> QED
  BY <1>2, <1>3

\* The invariant of the cluster service.
LEMMA ClusterInvariant == Spec => []ClusterInv
<1>1. Init => ClusterInv
  BY ClusterAssumption
     DEF Init, ClusterInit, ClusterInv, ClusterTypeOK, TargetsAreSound, Sound, Kept
<1>2. ClusterInv /\ [Next]_vars => ClusterInv'
  <2> SUFFICES ASSUME ClusterInv, [Next]_vars
               PROVE  ClusterInv'
    OBVIOUS
  <2> USE DEF Kept
  <2>0. [ClusterNext]_clusterVars /\ ClusterTypeOK /\ TargetsAreSound
    BY StepOfEach DEF ClusterInv
  <2>1. CASE Restart
    <3>1. ClusterTypeOK'
      BY <2>0, <2>1 DEF Restart, ClusterTypeOK
    <3>2. \A f \in Chats : files'[f] = files[f] \/ files'[f] = NoFile
      BY <2>0, <2>1 DEF Restart, ClusterTypeOK
    <3>3. \A t \in Target \cup {NoTarget} : Sound(t) => Sound(t)'
      BY <2>0, <2>1, <3>2, DeletionIsHarmless DEF Restart
    <3>4. TargetsAreSound'
      BY <2>0, <2>1, <3>3 DEF Restart, TargetsAreSound, Sound, ClusterTypeOK
    <3> QED
      BY <3>1, <3>4 DEF ClusterInv
  <2>2. ASSUME NEW s \in Chats, NEW content \in Uploads, Upload(s, content)
        PROVE  ClusterInv'
    <3>1. ClusterTypeOK'
      BY <2>0, <2>2 DEF Upload, ClusterTypeOK
    <3>2. /\ files' = [files EXCEPT ![s] = content]
          /\ InUse(s) => s \in rewritten'
          /\ rewritten \ {s} \subseteq rewritten'
          /\ UNCHANGED <<conns, default, pending, runner>>
          /\ Kept'
      BY <2>0, <2>2 DEF Upload, TargetsAreSound
    <3>3. \A t \in Target \cup {NoTarget} :
             Sound(t) /\ (Uses(t, s) => InUse(s)) => Sound(t)'
      BY <2>0, <3>2, UploadIsMarked
    <3>4. Sound(default)'
      BY <2>0, <3>2, <3>3 DEF TargetsAreSound, ClusterTypeOK, InUse
    <3>5. pending' # NoRequest => Sound(pending.target)'
      BY <2>0, <3>2, <3>3 DEF TargetsAreSound, ClusterTypeOK, InUse
    <3>6. \A x \in Chats : Sound(conns[x])'
      BY <2>0, <3>2, <3>3 DEF TargetsAreSound, ClusterTypeOK, InUse
    <3>7. \A x \in Talkers : Sound(runner[x])'
      BY <2>0, <3>2, <3>3 DEF TargetsAreSound, ClusterTypeOK, InUse
    <3> QED
      BY <3>1, <3>2, <3>4, <3>5, <3>6, <3>7 DEF ClusterInv, TargetsAreSound
  <2>3. ASSUME NEW s \in Chats, NEW mode \in Modes, NEW path \in Chats \cup {NoPath},
               NEW ctx \in Contexts, CheckContext(s, mode, path, ctx)
        PROVE  ClusterInv'
    <3>1. pending' \in Requests /\ Sound(pending.target)' /\ ~pending'.target.unkept
      BY <2>0, <2>3, CheckedTarget
    <3>2. UNCHANGED <<files, conns, default, drop, runner, aliased, rewritten>>
      BY <2>3 DEF CheckContext
    <3>3. ClusterTypeOK'
      BY <2>0, <3>1, <3>2 DEF ClusterTypeOK, Requests
    <3>4. TargetsAreSound'
      <4>1. Sound(pending.target)'
        BY <3>1
      <4>2. Sound(default)'
        BY <2>0, <3>2 DEF TargetsAreSound, Sound, Faithful, Reaches
      <4>3. \A x \in Chats : Sound(conns[x])'
        BY <2>0, <3>2 DEF TargetsAreSound, Sound, Faithful, Reaches
      <4>4. \A x \in Talkers : Sound(runner[x])'
        BY <2>0, <3>2 DEF TargetsAreSound, Sound, Faithful, Reaches
      <4> QED
        BY <2>0, <3>1, <3>2, <4>1, <4>2, <4>3, <4>4 DEF TargetsAreSound
    <3> QED
      BY <3>3, <3>4 DEF ClusterInv
  <2>4. ASSUME NEW s \in Chats, Disconnect(s)
        PROVE  ClusterInv'
    <3>1. ClusterTypeOK'
      BY <2>0, <2>4 DEF Disconnect, ClusterTypeOK, Target
    <3>2. TargetsAreSound'
      BY <2>0, <2>4 DEF Disconnect, TargetsAreSound, Sound, Faithful, Reaches, ClusterTypeOK
    <3> QED
      BY <3>1, <3>2 DEF ClusterInv
  <2>5. CASE SaveConnection
    <3>1. pending \in Requests
      BY <2>0, <2>5 DEF SaveConnection, ClusterTypeOK, Requests
    <3> DEFINE r == RowOf(pending.mode, pending.target)
    <3>2. r \in Target /\ Sound(r)
      <4>1. /\ pending.mode \in Modes /\ pending.target \in Target
            /\ Sound(pending.target) /\ ~pending.target.unkept
        BY <2>0, <2>5, <3>1 DEF SaveConnection, Requests, TargetsAreSound
      <4> QED
        BY <4>1, RowIsSound
    <3>3. /\ conns' = [conns EXCEPT ![pending.who] = r] /\ pending.who \in Chats
          /\ pending' = [pending EXCEPT !.saved = TRUE]
          /\ UNCHANGED <<files, default, drop, runner, aliased, rewritten>>
      BY <2>5, <3>1 DEF SaveConnection, Requests
    <3>4. pending' \in Requests /\ pending'.target = pending.target
      BY <3>1, <3>3 DEF Requests
    <3> HIDE DEF r
    <3>5. ClusterTypeOK'
      BY <2>0, <3>2, <3>3, <3>4 DEF ClusterTypeOK, Requests
    <3>6. TargetsAreSound'
      <4>1. \A t : Sound(t)' <=> Sound(t)
        BY <3>3 DEF Sound, Faithful, Reaches
      <4>2. \A x \in Chats : conns'[x] = IF x = pending.who THEN r ELSE conns[x]
        BY <2>0, <3>3 DEF ClusterTypeOK
      <4>3. pending # NoRequest
        BY <2>5 DEF SaveConnection
      <4>4. \A x \in Chats : Sound(conns'[x])
        BY <2>0, <3>2, <4>2 DEF TargetsAreSound
      <4>5. \A x \in Chats : Sound(conns[x])'
        BY <3>3, <4>4 DEF Sound, Faithful, Reaches
      <4>6. /\ Sound(default)' /\ Sound(pending.target)' /\ \A x \in Talkers : Sound(runner[x])'
        BY <2>0, <3>3, <3>4, <4>3 DEF TargetsAreSound, Sound, Faithful, Reaches
      <4> QED
        BY <2>0, <3>3, <3>4, <4>3, <4>5, <4>6 DEF TargetsAreSound
    <3> QED
      BY <3>5, <3>6 DEF ClusterInv
  <2>6. CASE RememberDefault
    <3>1. ClusterTypeOK'
      BY <2>0, <2>6 DEF RememberDefault, ClusterTypeOK
    <3>2. TargetsAreSound'
      BY <2>0, <2>6 DEF RememberDefault, TargetsAreSound, Sound, Faithful, Reaches
    <3> QED
      BY <3>1, <3>2 DEF ClusterInv
  <2>7. CASE DeleteTempKubeconfig
    <3>1. ClusterTypeOK'
      BY <2>0, <2>7 DEF DeleteTempKubeconfig, ClusterTypeOK
    <3>2. \A f \in Chats : files'[f] = files[f] \/ files'[f] = NoFile
      BY <2>0, <2>7 DEF DeleteTempKubeconfig, ClusterTypeOK
    <3>3. \A t \in Target \cup {NoTarget} : Sound(t) => Sound(t)'
      BY <2>0, <2>7, <3>2, DeletionIsHarmless DEF DeleteTempKubeconfig
    <3>4. TargetsAreSound'
      BY <2>0, <2>7, <3>3 DEF DeleteTempKubeconfig, TargetsAreSound, ClusterTypeOK
    <3> QED
      BY <3>1, <3>4 DEF ClusterInv
  <2>8. ASSUME NEW s \in Talkers, StartTurn(s)
        PROVE  ClusterInv'
    <3>1. PICK t \in Resolve(conns[s]) :
             runner' = [runner EXCEPT ![s] = [t EXCEPT !.wanted = Wanted(conns[s])]]
      BY <2>8 DEF StartTurn
    <3> DEFINE r == [t EXCEPT !.wanted = Wanted(conns[s])]
    <3>2. r \in Target /\ Sound(r)
      BY <2>0, ResolvedTarget
    <3>3. runner' = [runner EXCEPT ![s] = r]
      BY <3>1
    <3>4. UNCHANGED <<files, conns, default, pending, drop, aliased, rewritten>>
      BY <2>8 DEF StartTurn
    <3> HIDE DEF r
    <3>5. ClusterTypeOK'
      BY <2>0, <3>2, <3>3, <3>4 DEF ClusterTypeOK
    <3>6. TargetsAreSound'
      BY <2>0, <3>2, <3>3, <3>4
         DEF TargetsAreSound, Sound, Faithful, Reaches, ClusterTypeOK
    <3> QED
      BY <3>5, <3>6 DEF ClusterInv
  <2>9. ASSUME NEW s \in Talkers, EndTurn(s)
        PROVE  ClusterInv'
    <3>1. ClusterTypeOK'
      BY <2>0, <2>9 DEF EndTurn, ClusterTypeOK
    <3>2. TargetsAreSound'
      BY <2>0, <2>9 DEF EndTurn, TargetsAreSound, Sound, Faithful, Reaches, ClusterTypeOK
    <3> QED
      BY <3>1, <3>2 DEF ClusterInv
  <2>10. CASE UNCHANGED clusterVars
    BY <2>0, <2>10
       DEF clusterVars, ClusterInv, ClusterTypeOK, TargetsAreSound, Sound, Faithful, Reaches
  <2> QED
    BY <2>0, <2>1, <2>2, <2>3, <2>4, <2>5, <2>6, <2>7, <2>8, <2>9, <2>10, ClusterAssumption
       DEF ClusterNext
<1> QED
  BY <1>1, <1>2, PTL DEF Spec

\* Commands of a turn and of background work reach the cluster that was
\* connected to, or none, unless its kubeconfig was uploaded over in use or,
\* in the chat, left out of an autodetect row.
THEOREM CommandsHitTheChoiceHolds == Spec => []CommandsHitTheChoice
<1>1. ClusterInv => CommandsHitTheChoice
  BY DEF ClusterInv, TargetsAreSound, Sound, Kept, CommandsHitTheChoice, ResolveDefault
<1> QED
  BY <1>1, ClusterInvariant, PTL

\* The prune at startup keeps the files that rows name, where the directory
\* is named without a symbolic link.
THEOREM PruneKeepsReferencedHolds == Spec => PruneKeepsReferenced
<1>1. ClusterInv => (Restart /\ ~aliased => \A s \in Chats :
          conns[s] # NoTarget /\ conns[s].path # NoPath
              => files'[conns[s].path] = files[conns[s].path])
  <2> SUFFICES ASSUME ClusterInv, Restart, ~aliased, NEW s \in Chats,
                      conns[s] # NoTarget, conns[s].path # NoPath
               PROVE  files'[conns[s].path] = files[conns[s].path]
    OBVIOUS
  <2>1. conns[s].path \in Chats
    BY DEF ClusterInv, ClusterTypeOK, Target
  <2>2. conns[s].path \notin Orphans
    BY DEF Orphans, Uses
  <2> QED
    BY <2>1, <2>2 DEF Restart
<1> QED
  BY <1>1, ClusterInvariant, PTL DEF PruneKeepsReferenced

-----------------------------------------------------------------------------
(* The limiter.  Its bucket of a key holds every grant that still counts    *)
(* within the time its limit is held for, which a cleanup run for another   *)
(* key may cut down to the shortest window, and grants are told apart by    *)
(* their number.                                                            *)

Grants == [nth : Nat \ {0}, at : 0..MaxAccountNow]
InWindow(k, t) == {g \in granted[k] : g.at <= t /\ t < g.at + HeldFor(k)}
StillHeld(k) == {g \in granted[k] : g.at + HeldFor(k) > accountNow}

BucketsCoverTheWindow ==
    /\ granted \in [Keys -> SUBSET Grants]
    /\ \A k \in Keys :
          /\ IsFiniteSet(granted[k])
          /\ \A g \in granted[k] : g.nth <= Cardinality(granted[k]) /\ g.at <= accountNow
          /\ hits[k] \subseteq granted[k]
          /\ StillHeld(k) \subseteq hits[k]

BucketsFit ==
    /\ hits \in [Keys -> SUBSET Grants]
    /\ \A k \in Keys : Cardinality(hits[k]) <= Limit[k]

Rates == BucketsFit /\ BucketsCoverTheWindow /\ RateHeld /\ cut \subseteq Keys

\* A limit is held for a positive time, no longer than any window once the
\* bucket was cut, and no longer than the key's own before.
LEMMA HeldForIsShort ==
    /\ \A k \in Keys : /\ Window[k] \in Nat \ {0} /\ Limit[k] \in Nat \ {0}
                       /\ HeldFor(k) \in Nat \ {0} /\ HeldFor(k) <= Window[k]
                       /\ k \in cut => \A x \in Keys : HeldFor(k) <= Window[x]
    /\ \A k \in Keys : /\ HeldFor(k)' \in Nat \ {0} /\ HeldFor(k)' <= Window[k]
                       /\ k \in cut' => \A x \in Keys : HeldFor(k)' <= Window[x]
                       /\ k \notin cut' => HeldFor(k)' = Window[k]
                       /\ (k \in cut => k \in cut') => HeldFor(k)' <= HeldFor(k)
<1>1. /\ "forgot" \in Keys /\ "reset" \in Keys
      /\ \A k \in Keys : k = "forgot" \/ k = "reset"
  BY DEF Keys
<1>2. /\ \A k \in Keys : Window[k] \in Nat \ {0} /\ Limit[k] \in Nat \ {0}
      /\ Shortest \in Nat \ {0} /\ \A k \in Keys : Shortest <= Window[k]
  BY <1>1, AccountsAssumption DEF Shortest
<1> QED
  BY <1>2 DEF HeldFor

\* A request let through joins its key's bucket and the other keys' buckets
\* lose, at the cleanup, nothing that still counts.
LEMMA AllowKeepsRates ==
    ASSUME Rates, accountNow \in 0..MaxAccountNow, NEW k \in Keys, Allow(k),
           accountNow' = accountNow
    PROVE  Rates'
<1> DEFINE new == Grant(k)
           grown == [hits EXCEPT ![k] = Fresh(@, k) \cup {new}]
<1>0. /\ BucketsFit /\ BucketsCoverTheWindow /\ RateHeld /\ cut \subseteq Keys
      /\ \A x \in Keys : Limit[x] \in Nat \ {0} /\ Window[x] \in Nat \ {0}
      /\ MaxAccountNow \in Nat
  BY AccountsAssumption, HeldForIsShort DEF Rates
<1>1. IsFiniteSet(granted[k]) /\ Cardinality(granted[k]) \in Nat
  BY <1>0, FS_CardinalityType DEF BucketsCoverTheWindow
<1>2. new \in Grants /\ new \notin granted[k] /\ new.at = accountNow
  BY <1>0, <1>1 DEF Grant, Grants, BucketsCoverTheWindow
<1>3. granted' = [granted EXCEPT ![k] = @ \cup {new}]
  BY DEF Allow, Count
<1>4. /\ Cardinality(Fresh(hits[k], k)) < Limit[k]
      /\ \A x \in Keys : hits'[x] \subseteq grown[x] /\ Fresh(grown[x], k) \subseteq hits'[x]
      /\ hits' \in [Keys -> SUBSET Grants]
      /\ cut' = cut \cup {x \in Keys : ~(Fresh(hits[x], x) \subseteq hits'[x])}
  <2>1. grown \in [Keys -> SUBSET Grants]
    BY <1>0, <1>2 DEF BucketsFit, Fresh
  <2>2. \/ hits' = grown
        \/ hits' = [x \in Keys |-> Fresh(grown[x], k)]
    BY DEF Allow
  <2>3. /\ Cardinality(Fresh(hits[k], k)) < Limit[k]
        /\ cut' = cut \cup {x \in Keys : ~(Fresh(hits[x], x) \subseteq hits'[x])}
    BY DEF Allow, Count
  <2> HIDE DEF grown
  <2> QED
    BY <2>1, <2>2, <2>3 DEF Fresh
<1> HIDE DEF new
<1>5. /\ grown[k] = Fresh(hits[k], k) \cup {new}
      /\ \A x \in Keys \ {k} : grown[x] = hits[x]
      /\ granted'[k] = granted[k] \cup {new}
      /\ \A x \in Keys \ {k} : granted'[x] = granted[x]
  BY <1>0, <1>3 DEF BucketsFit, BucketsCoverTheWindow
<1> HIDE DEF grown
<1>6. /\ IsFiniteSet(granted'[k])
      /\ Cardinality(granted'[k]) = Cardinality(granted[k]) + 1
  BY <1>1, <1>2, <1>5, FS_AddElement
<1>7. \A x \in Keys : IsFiniteSet(hits[x]) /\ Cardinality(hits[x]) \in Nat
  BY <1>0, FS_Subset, FS_CardinalityType DEF BucketsCoverTheWindow
<1>8. /\ IsFiniteSet(Fresh(hits[k], k)) /\ Fresh(hits[k], k) \subseteq hits[k]
      /\ new \notin Fresh(hits[k], k)
      /\ Cardinality(Fresh(hits[k], k)) \in Nat
  BY <1>0, <1>2, <1>7, FS_Subset, FS_CardinalityType DEF Fresh, BucketsCoverTheWindow
<1>9. \A x \in Keys : IsFiniteSet(grown[x]) /\ Cardinality(grown[x]) <= Limit[x]
  <2>1. IsFiniteSet(grown[k]) /\ Cardinality(grown[k]) = Cardinality(Fresh(hits[k], k)) + 1
    BY <1>5, <1>8, FS_AddElement
  <2>2. Cardinality(grown[k]) <= Limit[k]
    BY <1>0, <1>4, <1>8, <2>1
  <2>3. \A x \in Keys \ {k} : IsFiniteSet(grown[x]) /\ Cardinality(grown[x]) <= Limit[x]
    BY <1>0, <1>5, <1>7 DEF BucketsFit
  <2> QED
    BY <2>1, <2>2, <2>3
<1>10. BucketsFit'
  <2> SUFFICES ASSUME NEW x \in Keys
               PROVE  Cardinality(hits'[x]) <= Limit[x]
    BY <1>4 DEF BucketsFit
  <2>1. /\ Cardinality(hits'[x]) <= Cardinality(grown[x])
        /\ Cardinality(hits'[x]) \in Nat /\ Cardinality(grown[x]) \in Nat
    BY <1>4, <1>9, FS_Subset, FS_CardinalityType
  <2> QED
    BY <1>0, <1>9, <2>1
<1>13. /\ cut' \subseteq Keys
       /\ \A x \in Keys : HeldFor(x)' <= HeldFor(x)
       /\ \A x \in Keys : HeldFor(x)' \in Nat /\ HeldFor(x) \in Nat
       /\ \A x \in Keys : x \notin cut' => Fresh(hits[x], x) \subseteq hits'[x]
  BY <1>0, <1>4, HeldForIsShort
<1>11. BucketsCoverTheWindow'
  <2>1. granted' \in [Keys -> SUBSET Grants]
    BY <1>0, <1>2, <1>3 DEF BucketsCoverTheWindow
  <2> SUFFICES ASSUME NEW x \in Keys
               PROVE  /\ IsFiniteSet(granted'[x])
                      /\ \A g \in granted'[x] :
                            g.nth <= Cardinality(granted'[x]) /\ g.at <= accountNow
                      /\ hits'[x] \subseteq granted'[x]
                      /\ StillHeld(x)' \subseteq hits'[x]
    BY <2>1 DEF BucketsCoverTheWindow
  <2>4. \A g \in granted[x] : g.at \in Nat /\ (g.at + HeldFor(x)' > accountNow => g.at + HeldFor(x) > accountNow)
    BY <1>0, <1>13 DEF BucketsCoverTheWindow, Grants
  <2>5. \A g \in granted[x] : g.at + HeldFor(x)' > accountNow => g \in hits[x]
    BY <1>0, <2>4 DEF BucketsCoverTheWindow, StillHeld
  <2>2. CASE x = k
    <3>1. \A g \in granted[k] : g \in Grants
      BY <1>0 DEF BucketsCoverTheWindow
    <3>2. new.nth = Cardinality(granted[k]) + 1
      BY DEF new, Grant
    <3>3. \A g \in granted'[k] : g.nth <= Cardinality(granted'[k]) /\ g.at <= accountNow
      BY <1>0, <1>1, <1>2, <1>5, <1>6, <3>1, <3>2 DEF BucketsCoverTheWindow, Grants
    <3>4. hits'[k] \subseteq granted'[k]
      BY <1>0, <1>4, <1>5, <1>8 DEF BucketsCoverTheWindow
    <3>6. \A g \in granted[k] : g.at + HeldFor(k)' > accountNow => g.at + Window[k] > accountNow
      BY <1>0, <1>13, <2>2, <2>4, HeldForIsShort
    <3>7. new.at + Window[k] > accountNow
      BY <1>0, <1>2
    <3>5. StillHeld(k)' \subseteq hits'[k]
      <4> SUFFICES ASSUME NEW g \in granted'[k], g.at + HeldFor(k)' > accountNow
                   PROVE  g \in hits'[k]
        BY DEF StillHeld
      <4>1. g \in Fresh(hits[k], k) \cup {new}
        BY <1>5, <2>2, <2>5, <3>6 DEF Fresh
      <4>2. g.at + Window[k] > accountNow
        BY <3>7, <4>1 DEF Fresh
      <4> QED
        BY <1>4, <1>5, <4>1, <4>2 DEF Fresh
    <3> QED
      BY <1>6, <2>2, <3>3, <3>4, <3>5
  <2>3. CASE x # k
    <3>1. granted'[x] = granted[x] /\ grown[x] = hits[x]
      BY <1>5, <2>3
    <3>2. hits'[x] \subseteq granted'[x]
      BY <1>0, <1>4, <3>1 DEF BucketsCoverTheWindow
    <3>3. StillHeld(x)' \subseteq hits'[x]
      <4> SUFFICES ASSUME NEW g \in granted[x], g.at + HeldFor(x)' > accountNow
                   PROVE  g \in hits'[x]
        BY <3>1 DEF StillHeld
      <4>1. g \in hits[x] /\ g.at \in Nat /\ accountNow \in Nat
        BY <1>0, <2>4, <2>5
      <4>2. CASE x \in cut'
        <5>1. HeldFor(x)' \in Nat /\ HeldFor(x)' <= Window[k]
          BY <4>2, HeldForIsShort
        <5>2. g.at + Window[k] > accountNow
          BY <1>0, <4>1, <5>1
        <5> QED
          BY <1>4, <3>1, <4>1, <5>2 DEF Fresh
      <4>3. CASE x \notin cut'
        <5>1. g.at + Window[x] > accountNow
          BY <4>3, HeldForIsShort
        <5> QED
          BY <1>13, <4>1, <4>3, <5>1 DEF Fresh
      <4> QED
        BY <4>2, <4>3
    <3> QED
      BY <1>0, <3>1, <3>2, <3>3 DEF BucketsCoverTheWindow
  <2> QED
    BY <2>2, <2>3
<1>12. RateHeld'
  <2> SUFFICES ASSUME NEW x \in Keys, NEW t \in 0..MaxAccountNow
               PROVE  Cardinality(InWindow(x, t)') <= Limit[x]
    BY DEF RateHeld, InWindow
  <2>1. Cardinality(InWindow(x, t)) <= Limit[x] /\ IsFiniteSet(InWindow(x, t))
    BY <1>0, FS_Subset DEF RateHeld, InWindow, BucketsCoverTheWindow
  <2>4. \A g \in granted[x] : g.at \in Nat
    BY <1>0 DEF BucketsCoverTheWindow, Grants
  <2>2. CASE x # k \/ t < accountNow
    <3>1. InWindow(x, t)' \subseteq InWindow(x, t)
      <4>1. \A g \in granted'[x] : g.at <= t => g \in granted[x]
        BY <1>0, <1>2, <1>5, <2>2
      <4> QED
        BY <1>0, <1>13, <2>4, <4>1 DEF InWindow
    <3>2. /\ Cardinality(InWindow(x, t)') <= Cardinality(InWindow(x, t))
          /\ Cardinality(InWindow(x, t)') \in Nat /\ Cardinality(InWindow(x, t)) \in Nat
      BY <2>1, <3>1, FS_Subset, FS_CardinalityType
    <3> QED
      BY <1>0, <2>1, <3>2
  <2>3. CASE x = k /\ t >= accountNow
    <3>1. InWindow(x, t)' \subseteq grown[k]
      <4> SUFFICES ASSUME NEW g \in granted[k], g.at <= t, t < g.at + HeldFor(k)'
                   PROVE  g \in grown[k]
        BY <1>5, <2>3 DEF InWindow
      <4>1. HeldFor(k)' <= HeldFor(k) /\ HeldFor(k)' <= Window[k] /\ HeldFor(k)' \in Nat /\ HeldFor(k) \in Nat
        BY <1>13, HeldForIsShort
      <4>2. g.at + HeldFor(k) > accountNow /\ g.at + Window[k] > accountNow
        BY <1>0, <2>3, <2>4, <4>1
      <4> QED
        BY <1>0, <1>5, <4>2 DEF StillHeld, BucketsCoverTheWindow, Fresh
    <3>2. /\ Cardinality(InWindow(x, t)') <= Cardinality(grown[k])
          /\ Cardinality(InWindow(x, t)') \in Nat /\ Cardinality(grown[k]) \in Nat
      BY <1>9, <3>1, FS_Subset, FS_CardinalityType
    <3> QED
      BY <1>0, <1>9, <2>3, <3>2
  <2> QED
    BY <1>0, <2>2, <2>3
<1> QED
  BY <1>10, <1>11, <1>12, <1>13 DEF Rates

\* A refusal prunes a bucket of what no longer counts.
LEMMA RefuseKeepsRates ==
    ASSUME Rates, accountNow \in Nat, NEW k \in Keys, Refuse(k)
    PROVE  Rates'
<1>0. /\ BucketsFit /\ BucketsCoverTheWindow /\ RateHeld /\ cut \subseteq Keys
      /\ \A x \in Keys : Limit[x] \in Nat
  BY HeldForIsShort DEF Rates
<1>1. /\ hits' = [hits EXCEPT ![k] = Fresh(@, k)]
      /\ UNCHANGED <<granted, accountNow, cut>>
  BY DEF Refuse
<1>2. /\ hits' \in [Keys -> SUBSET Grants]
      /\ \A x \in Keys : hits'[x] \subseteq hits[x] /\ Fresh(hits[x], x) \subseteq hits'[x]
  BY <1>0, <1>1 DEF BucketsFit, Fresh
<1>3. BucketsFit'
  <2> SUFFICES ASSUME NEW x \in Keys
               PROVE  Cardinality(hits'[x]) <= Limit[x]
    BY <1>2 DEF BucketsFit
  <2>1. IsFiniteSet(hits[x])
    BY <1>0, FS_Subset DEF BucketsCoverTheWindow
  <2>2. /\ Cardinality(hits'[x]) <= Cardinality(hits[x])
        /\ Cardinality(hits'[x]) \in Nat /\ Cardinality(hits[x]) \in Nat
    BY <1>2, <2>1, FS_Subset, FS_CardinalityType
  <2> QED
    BY <1>0, <2>2 DEF BucketsFit
<1>6. \A x \in Keys : HeldFor(x)' = HeldFor(x)
  BY <1>1 DEF HeldFor
<1>4. BucketsCoverTheWindow'
  <2>1. \A x \in Keys : StillHeld(x)' = StillHeld(x)
    BY <1>1, <1>6 DEF StillHeld
  <2>2. \A x \in Keys : StillHeld(x) \subseteq hits'[x]
    <3> SUFFICES ASSUME NEW x \in Keys, NEW g \in StillHeld(x)
                 PROVE  g \in hits'[x]
      OBVIOUS
    <3>1. g \in hits[x] /\ g.at \in Nat /\ accountNow \in Nat
      BY <1>0 DEF StillHeld, BucketsCoverTheWindow, Grants
    <3>2. g.at + Window[x] > accountNow
      BY <3>1, HeldForIsShort DEF StillHeld
    <3> QED
      BY <1>2, <3>1, <3>2 DEF Fresh
  <2> QED
    BY <1>0, <1>1, <1>2, <2>1, <2>2 DEF BucketsCoverTheWindow
<1>5. RateHeld'
  BY <1>0, <1>1, <1>6 DEF RateHeld
<1> QED
  BY <1>0, <1>1, <1>3, <1>4, <1>5 DEF Rates

\* Time only takes grants out of the window.
LEMMA TimeKeepsRates ==
    ASSUME Rates, accountNow \in 0..MaxAccountNow, UNCHANGED limiterVars,
           accountNow' = accountNow \/ accountNow' = accountNow + 1
    PROVE  Rates'
<1>0. /\ BucketsFit /\ BucketsCoverTheWindow /\ RateHeld /\ cut \subseteq Keys
      /\ MaxAccountNow \in Nat
  BY AccountsAssumption DEF Rates
<1>1. hits' = hits /\ granted' = granted /\ cut' = cut
  BY DEF limiterVars
<1>6. \A k \in Keys : HeldFor(k)' = HeldFor(k) /\ HeldFor(k) \in Nat
  BY <1>1, HeldForIsShort DEF HeldFor
<1>2. \A k \in Keys : \A g \in granted[k] : g.at \in Nat
  BY <1>0 DEF BucketsCoverTheWindow, Grants
<1>3. \A k \in Keys : StillHeld(k)' \subseteq StillHeld(k)
  BY <1>0, <1>1, <1>2, <1>6 DEF StillHeld
<1>4. BucketsCoverTheWindow'
  BY <1>0, <1>1, <1>2, <1>3 DEF BucketsCoverTheWindow
<1>5. BucketsFit' /\ RateHeld'
  BY <1>0, <1>1, <1>6 DEF BucketsFit, RateHeld
<1> QED
  BY <1>0, <1>1, <1>4, <1>5 DEF Rates

(* The reset links are sent in their order; one that has set a password is *)
(* used, and at most one is live.                                           *)
LinksInOrder ==
    /\ \E n \in 0..MaxLinks : \A l \in Links : links[l] # "unsent" <=> l <= n
    /\ \A l \in Links : /\ uses[l] <= 1
                        /\ links[l] # "used" => uses[l] = 0
    /\ \A l, m \in Links : links[l] = "live" /\ links[m] = "live" => l = m

(* The logins a finished change outdates are those it read before: none of  *)
(* them is live, or will be, since cookies are numbered.                    *)
ChangesReadTheLogins ==
    /\ OutdatedLoginsEnd
    /\ \A h \in Handlers : task[h].op = "change" => task[h].before \subseteq 1..issued

RowsTypeOK ==
    /\ issued \in 0..MaxLogins /\ logins \subseteq 1..issued /\ stale \subseteq 1..issued
    /\ links \in [Links -> {"unsent", "live", "used"}]
    /\ sentAt \in [Links -> 0..MaxAccountNow]
    /\ password \in 0..MaxPasswords
    /\ task \in [Handlers -> Tasks]
    /\ accountNow \in 0..MaxAccountNow
    /\ uses \in [Links -> Nat]

AccountsInv == RowsTypeOK /\ LinksInOrder /\ ChangesReadTheLogins /\ Rates

\* What is held back in a handler is one of the tasks it can have.
LEMMA TaskKinds ==
    ASSUME NEW t \in Tasks
    PROVE  /\ t.op = "reset" => t = [op |-> "reset", link |-> t.link] /\ t.link \in Links
           /\ t.op = "change" => t.cookie \in Cookies /\ t.before \subseteq Cookies
  BY DEF Tasks, Free

\* The number of links sent is the number of the newest.
LEMMA NextLink ==
    ASSUME RowsTypeOK, LinksInOrder, NEW l \in Links, ForgotPassword(l)
    PROVE  /\ links[l] = "unsent"
           /\ \A x \in Links : links[x] # "unsent" <=> x <= l - 1
<1> USE AccountsAssumption DEF Links
<1>1. PICK n \in 0..MaxLinks : \A x \in Links : links[x] # "unsent" <=> x <= n
  BY DEF LinksInOrder
<1>2. {x \in Links : links[x] # "unsent"} = 1..n
  BY <1>1
<1>3. Cardinality(1..n) = n
  BY <1>1, FS_Interval
<1>4. l = n + 1
  BY <1>2, <1>3 DEF ForgotPassword
<1> QED
  BY <1>1, <1>4

\* Sending a link voids the one before it and touches nothing else.
LEMMA LinkIsSent ==
    ASSUME AccountsInv, NEW l \in Links, ForgotPassword(l)
    PROVE  RowsTypeOK' /\ LinksInOrder' /\ ChangesReadTheLogins'
<1> USE AccountsAssumption
<1>0. RowsTypeOK /\ LinksInOrder /\ ChangesReadTheLogins
  BY DEF AccountsInv
<1>1. links[l] = "unsent" /\ \A x \in Links : links[x] # "unsent" <=> x <= l - 1
  BY <1>0, NextLink
<1>2. /\ links' = [x \in Links |-> IF x = l THEN "live"
                                   ELSE IF links[x] = "live" THEN "used" ELSE links[x]]
      /\ sentAt' = [sentAt EXCEPT ![l] = accountNow]
      /\ UNCHANGED <<logins, issued, password, task, accountNow, stale, uses>>
  BY DEF ForgotPassword, SendLink
<1>3. RowsTypeOK'
  BY <1>0, <1>2 DEF RowsTypeOK
<1>4. \A x \in Links : links'[x] # "unsent" <=> x <= l
  BY <1>1, <1>2 DEF Links
<1>5. \A x \in Links : /\ uses'[x] <= 1
                       /\ links'[x] # "used" => uses'[x] = 0
  BY <1>0, <1>1, <1>2 DEF LinksInOrder
<1>6. \A x, m \in Links : links'[x] = "live" /\ links'[m] = "live" => x = m
  BY <1>2
<1>7. LinksInOrder'
  BY <1>4, <1>5, <1>6 DEF LinksInOrder, Links
<1>8. ChangesReadTheLogins'
  BY <1>0, <1>2 DEF ChangesReadTheLogins, OutdatedLoginsEnd
<1> QED
  BY <1>3, <1>7, <1>8

\* Only the link that is still live sets a password; it is used by that and
\* every login ends.
LEMMA PasswordIsReset ==
    ASSUME AccountsInv, NEW h \in Handlers, ResetPassword(h)
    PROVE  RowsTypeOK' /\ LinksInOrder' /\ ChangesReadTheLogins'
<1> USE AccountsAssumption
<1>0. RowsTypeOK /\ LinksInOrder /\ ChangesReadTheLogins
  BY DEF AccountsInv
<1> DEFINE l == task[h].link
<1>1. l \in Links
  BY <1>0, TaskKinds DEF ResetPassword, RowsTypeOK
<1>2. /\ task' = [task EXCEPT ![h] = Free]
      /\ UNCHANGED <<issued, sentAt, accountNow>>
  BY DEF ResetPassword
<1>3. CASE StillLive(l)
  <2>1. /\ links[l] = "live"
        /\ password < MaxPasswords
        /\ links' = [links EXCEPT ![l] = "used"]
        /\ password' = password + 1
        /\ uses' = [uses EXCEPT ![l] = @ + 1]
        /\ stale' = stale \cup logins
        /\ logins' = {}
    BY <1>3 DEF ResetPassword, StillLive
  <2> HIDE DEF l
  <2>2. RowsTypeOK'
    BY <1>0, <1>1, <1>2, <2>1 DEF RowsTypeOK, Tasks
  <2>3. \A x \in Links : links'[x] # "unsent" <=> links[x] # "unsent"
    BY <1>0, <1>1, <2>1 DEF RowsTypeOK
  <2>4. \A x \in Links : /\ uses'[x] <= 1
                         /\ links'[x] # "used" => uses'[x] = 0
    BY <1>0, <1>1, <2>1 DEF RowsTypeOK, LinksInOrder
  <2>5. \A x, m \in Links : links'[x] = "live" /\ links'[m] = "live" => x = m
    BY <1>0, <1>1, <2>1 DEF RowsTypeOK, LinksInOrder
  <2>6. LinksInOrder'
    BY <1>0, <2>3, <2>4, <2>5 DEF LinksInOrder
  <2>7. ChangesReadTheLogins'
    BY <1>0, <1>2, <2>1 DEF ChangesReadTheLogins, OutdatedLoginsEnd, RowsTypeOK, Free
  <2> QED
    BY <2>2, <2>6, <2>7
<1>4. CASE ~StillLive(l)
  <2>1. UNCHANGED <<links, password, uses, stale, logins>>
    BY <1>4 DEF ResetPassword
  <2>2. RowsTypeOK'
    BY <1>0, <1>2, <2>1 DEF RowsTypeOK, Tasks
  <2> QED
    BY <1>0, <1>2, <2>1, <2>2
       DEF LinksInOrder, ChangesReadTheLogins, OutdatedLoginsEnd, RowsTypeOK, Free
<1> QED
  BY <1>3, <1>4

\* The other steps of the handlers, which touch neither links nor limiter.
LEMMA LoginsAreHeld ==
    ASSUME AccountsInv, UNCHANGED <<links, sentAt, uses, accountNow>>,
           \/ \E h \in Handlers : \/ CheckPassword(h) \/ CreateLogin(h) \/ RevokeOthers(h)
                                  \/ \E c \in Cookies : SetPassword(h, c)
           \/ \E c \in Cookies : Logout(c)
    PROVE  RowsTypeOK' /\ LinksInOrder' /\ ChangesReadTheLogins'
<1> USE AccountsAssumption
<1>0. RowsTypeOK /\ LinksInOrder /\ ChangesReadTheLogins
  BY DEF AccountsInv
<1>1. LinksInOrder'
  BY <1>0 DEF LinksInOrder
<1>2. ASSUME NEW h \in Handlers, CheckPassword(h)
      PROVE  RowsTypeOK' /\ ChangesReadTheLogins'
  <2>1. RowsTypeOK'
    BY <1>0, <1>2 DEF CheckPassword, RowsTypeOK, Tasks
  <2> QED
    BY <1>0, <1>2, <2>1 DEF CheckPassword, RowsTypeOK, ChangesReadTheLogins, OutdatedLoginsEnd
<1>3. ASSUME NEW h \in Handlers, CreateLogin(h)
      PROVE  RowsTypeOK' /\ ChangesReadTheLogins'
  <2>1. RowsTypeOK'
    BY <1>0, <1>3 DEF CreateLogin, RowsTypeOK, Tasks
  <2>2. \A x \in Handlers : task'[x].op = "change" => task'[x].before \subseteq 1..issued
    BY <1>0, <1>3 DEF CreateLogin, RowsTypeOK, ChangesReadTheLogins, Free
  <2>3. issued' = issued + 1 /\ issued \in Nat
    BY <1>0, <1>3 DEF CreateLogin, RowsTypeOK
  <2>4. OutdatedLoginsEnd'
    BY <1>0, <1>3, <2>3
       DEF CreateLogin, RowsTypeOK, ChangesReadTheLogins, OutdatedLoginsEnd
  <2>5. 1..issued \subseteq 1..issued'
    BY <2>3
  <2> QED
    BY <2>1, <2>2, <2>4, <2>5 DEF ChangesReadTheLogins
<1>4. ASSUME NEW h \in Handlers, RevokeOthers(h)
      PROVE  RowsTypeOK' /\ ChangesReadTheLogins'
  <2>1. task[h].cookie \in Cookies /\ task[h].before \subseteq 1..issued
    BY <1>0, <1>4, TaskKinds DEF RevokeOthers, RowsTypeOK, ChangesReadTheLogins
  <2>2. RowsTypeOK'
    BY <1>0, <1>4, <2>1 DEF RevokeOthers, Others, RowsTypeOK, Tasks
  <2>3. OutdatedLoginsEnd'
    BY <1>0, <1>4, <2>1 DEF RevokeOthers, Others, ChangesReadTheLogins, OutdatedLoginsEnd
  <2>4. \A x \in Handlers : task'[x].op = "change" => task'[x].before \subseteq 1..issued
    BY <1>0, <1>4 DEF RevokeOthers, RowsTypeOK, ChangesReadTheLogins, Free
  <2> QED
    BY <1>4, <2>2, <2>3, <2>4 DEF ChangesReadTheLogins, RevokeOthers
<1>5. ASSUME NEW h \in Handlers, NEW c \in Cookies, SetPassword(h, c)
      PROVE  RowsTypeOK' /\ ChangesReadTheLogins'
  <2>0. 1..issued \subseteq Cookies
    BY <1>0 DEF RowsTypeOK, Cookies
  <2> DEFINE t == [op |-> "change", cookie |-> c, before |-> logins]
  <2>1. t \in Tasks /\ t.before \subseteq 1..issued
    BY <1>0, <2>0 DEF RowsTypeOK, Tasks
  <2>2. /\ task' = [task EXCEPT ![h] = t] /\ password' = password + 1 /\ password < MaxPasswords
        /\ UNCHANGED <<logins, issued, stale>>
    BY <1>5 DEF SetPassword
  <2> HIDE DEF t
  <2>3. RowsTypeOK'
    BY <1>0, <2>1, <2>2 DEF RowsTypeOK
  <2> QED
    BY <1>0, <2>1, <2>2, <2>3 DEF RowsTypeOK, ChangesReadTheLogins, OutdatedLoginsEnd
<1>6. ASSUME NEW c \in Cookies, Logout(c)
      PROVE  RowsTypeOK' /\ ChangesReadTheLogins'
  BY <1>0, <1>6 DEF Logout, RowsTypeOK, ChangesReadTheLogins, OutdatedLoginsEnd
<1> QED
  BY <1>1, <1>2, <1>3, <1>4, <1>5, <1>6

\* Steps that leave the rows alone and free or take a handler.
LEMMA RowsRest ==
    ASSUME RowsTypeOK, LinksInOrder, ChangesReadTheLogins, AccountsAssumption,
           UNCHANGED <<logins, issued, links, sentAt, password, stale, uses>>,
           accountNow' \in 0..MaxAccountNow,
           task' \in [Handlers -> Tasks],
           \A h \in Handlers : task'[h] = task[h] \/ task'[h].op # "change"
    PROVE  RowsTypeOK' /\ LinksInOrder' /\ ChangesReadTheLogins'
<1>1. RowsTypeOK' /\ LinksInOrder'
  BY DEF RowsTypeOK, LinksInOrder
<1>2. ChangesReadTheLogins'
  BY DEF ChangesReadTheLogins, OutdatedLoginsEnd
<1> QED
  BY <1>1, <1>2

\* The invariant of the accounts.
LEMMA AccountsInvariant == Spec => []AccountsInv
<1> USE AccountsAssumption
<1>1. Init => AccountsInv
  <2> SUFFICES ASSUME Init
               PROVE  AccountsInv
    OBVIOUS
  <2> USE DEF Init, AccountsInit
  <2>1. RowsTypeOK
    BY DEF RowsTypeOK, Tasks
  <2>2. LinksInOrder
    BY DEF LinksInOrder, Links
  <2>3. ChangesReadTheLogins
    BY DEF ChangesReadTheLogins, OutdatedLoginsEnd, Free
  <2>4. IsFiniteSet({}) /\ Cardinality({}) = 0
    BY FS_EmptySet
  <2>5. Rates
    <3>1. \A k \in Keys : hits[k] = {} /\ granted[k] = {} /\ StillHeld(k) = {} /\ Limit[k] \in Nat
      BY HeldForIsShort DEF StillHeld
    <3>2. \A k \in Keys, t \in 0..MaxAccountNow :
             {g \in granted[k] : g.at <= t /\ t < g.at + HeldFor(k)} = {}
      BY <3>1
    <3>3. BucketsFit
      BY <2>4, <3>1 DEF BucketsFit
    <3>4. BucketsCoverTheWindow
      BY <2>4, <3>1 DEF BucketsCoverTheWindow
    <3>5. RateHeld
      BY <2>4, <3>1, <3>2 DEF RateHeld
    <3> QED
      BY <3>3, <3>4, <3>5 DEF Rates
  <2> QED
    BY <2>1, <2>2, <2>3, <2>5 DEF AccountsInv
<1>2. AccountsInv /\ [Next]_vars => AccountsInv'
  <2> SUFFICES ASSUME AccountsInv, [Next]_vars
               PROVE  AccountsInv'
    OBVIOUS
  <2>0. /\ [AccountsNext]_accountVars
        /\ RowsTypeOK /\ LinksInOrder /\ ChangesReadTheLogins /\ Rates
        /\ accountNow \in 0..MaxAccountNow /\ task \in [Handlers -> Tasks]
    BY StepOfEach DEF AccountsInv, RowsTypeOK
  <2>1. ASSUME NEW k \in Keys, Refuse(k)
        PROVE  AccountsInv'
    <3>1. Rates'
      BY <2>0, <2>1, RefuseKeepsRates
    <3>2. RowsTypeOK' /\ LinksInOrder' /\ ChangesReadTheLogins'
      BY <2>0, <2>1, RowsRest DEF Refuse
    <3> QED
      BY <3>1, <3>2 DEF AccountsInv
  <2>2. ASSUME NEW l \in Links, ForgotPassword(l)
        PROVE  AccountsInv'
    <3>1. Allow("forgot") /\ accountNow' = accountNow
      BY <2>2 DEF ForgotPassword
    <3>2. Rates'
      BY <2>0, <3>1, AllowKeepsRates DEF Keys
    <3> QED
      BY <2>2, <3>2, LinkIsSent DEF AccountsInv
  <2>3. ASSUME NEW h \in Handlers, NEW l \in Links, OpenLink(h, l)
        PROVE  AccountsInv'
    <3>1. Allow("reset") /\ accountNow' = accountNow
      BY <2>3 DEF OpenLink
    <3>2. Rates'
      BY <2>0, <3>1, AllowKeepsRates DEF Keys
    <3>3. task' = [task EXCEPT ![h] = [op |-> "reset", link |-> l]]
      BY <2>3 DEF OpenLink
    <3>4. task' \in [Handlers -> Tasks]
      BY <2>0, <3>3 DEF Tasks
    <3>5. \A x \in Handlers : task'[x] = task[x] \/ task'[x].op # "change"
      BY <2>0, <3>3
    <3>6. RowsTypeOK' /\ LinksInOrder' /\ ChangesReadTheLogins'
      BY <2>0, <2>3, <3>4, <3>5, RowsRest DEF OpenLink
    <3> QED
      BY <3>2, <3>6 DEF AccountsInv
  <2>4. ASSUME NEW h \in Handlers, ResetPassword(h)
        PROVE  AccountsInv'
    <3>1. Rates'
      BY <2>0, <2>4, TimeKeepsRates DEF ResetPassword
    <3> QED
      BY <2>4, <3>1, PasswordIsReset DEF AccountsInv
  <2>5. ASSUME \/ \E h \in Handlers : \/ CheckPassword(h) \/ CreateLogin(h) \/ RevokeOthers(h)
                                      \/ \E c \in Cookies : SetPassword(h, c)
               \/ \E c \in Cookies : Logout(c)
        PROVE  AccountsInv'
    <3>1. UNCHANGED <<links, sentAt, uses, accountNow>> /\ UNCHANGED limiterVars
      BY <2>5 DEF CheckPassword, CreateLogin, RevokeOthers, SetPassword, Logout
    <3>2. Rates'
      BY <2>0, <3>1, TimeKeepsRates
    <3>3. RowsTypeOK' /\ LinksInOrder' /\ ChangesReadTheLogins'
      BY <2>5, <3>1, LoginsAreHeld
    <3> QED
      BY <3>2, <3>3 DEF AccountsInv
  <2>6. CASE AccountsTick
    <3>1. accountNow' = accountNow + 1 /\ accountNow' \in 0..MaxAccountNow /\ task' = task
      BY <2>0, <2>6 DEF AccountsTick
    <3>2. Rates'
      BY <2>0, <2>6, <3>1, TimeKeepsRates DEF AccountsTick
    <3>3. RowsTypeOK' /\ LinksInOrder' /\ ChangesReadTheLogins'
      BY <2>0, <2>6, <3>1, RowsRest DEF AccountsTick
    <3> QED
      BY <3>2, <3>3 DEF AccountsInv
  <2>7. CASE AccountsRestart
    <3>1. IsFiniteSet({}) /\ Cardinality({}) = 0
      BY FS_EmptySet
    <3>2. \A k \in Keys : /\ hits'[k] = {} /\ granted'[k] = {} /\ StillHeld(k)' = {}
                          /\ Limit[k] \in Nat
      BY <2>7, HeldForIsShort DEF AccountsRestart, StillHeld
    <3>3. Rates'
      <4>1. (\A k \in Keys, t \in 0..MaxAccountNow :
               {g \in granted[k] : g.at <= t /\ t < g.at + HeldFor(k)} = {})'
        BY <3>2
      <4>2. BucketsFit'
        BY <2>7, <3>1, <3>2 DEF AccountsRestart, BucketsFit
      <4>3. BucketsCoverTheWindow'
        BY <2>7, <3>1, <3>2 DEF AccountsRestart, BucketsCoverTheWindow
      <4>4. RateHeld'
        BY <2>7, <3>1, <3>2, <4>1 DEF RateHeld, AccountsRestart
      <4> QED
        BY <2>7, <4>2, <4>3, <4>4 DEF Rates, AccountsRestart
    <3>4. task' \in [Handlers -> Tasks] /\ \A h \in Handlers : task'[h].op # "change"
      BY <2>7 DEF AccountsRestart, Tasks, Free
    <3>5. RowsTypeOK' /\ LinksInOrder' /\ ChangesReadTheLogins'
      BY <2>0, <2>7, <3>4, RowsRest DEF AccountsRestart
    <3> QED
      BY <3>3, <3>5 DEF AccountsInv
  <2>8. CASE UNCHANGED accountVars
    <3>1. Rates'
      BY <2>0, <2>8, TimeKeepsRates DEF accountVars, limiterVars
    <3>2. RowsTypeOK' /\ LinksInOrder' /\ ChangesReadTheLogins'
      BY <2>0, <2>8, RowsRest DEF accountVars
    <3> QED
      BY <3>1, <3>2 DEF AccountsInv
  <2> QED
    BY <2>0, <2>1, <2>2, <2>3, <2>4, <2>5, <2>6, <2>7, <2>8 DEF AccountsNext
<1> QED
  BY <1>1, <1>2, PTL DEF Spec

\* A link resets one password and only the newest can, a change ends the
\* logins before it, and the limiter holds its rate.
THEOREM AccountsHoldAlways == Spec => []AccountsHold
<1>1. AccountsInv => AccountsHold
  <2> SUFFICES ASSUME AccountsInv
               PROVE  Cardinality({l \in Links : links[l] = "live"}) <= 1
    BY DEF AccountsInv, LinksInOrder, ChangesReadTheLogins, Rates, AccountsHold, LinkWorksOnce
  <2> DEFINE live == {l \in Links : links[l] = "live"}
  <2>1. CASE live = {}
    BY <2>1, FS_EmptySet
  <2>2. CASE live # {}
    <3>1. PICK l \in Links : live = {l}
      BY <2>2 DEF AccountsInv, LinksInOrder
    <3> QED
      BY <3>1, FS_Singleton
  <2> QED
    BY <2>1, <2>2
<1> QED
  BY <1>1, AccountsInvariant, PTL

-----------------------------------------------------------------------------
(* Pull requests.  A preview is in the store, with one opener, or spent;    *)
(* an opener at work was let in while the rows were below the cap.          *)

PreviewRow == [file : Files, seen : Files]
PullRow == [file : Files, seen : Files, onto : Files]
OpenerTasks ==
    {Unused} \cup [at : {"pushing"}, preview : Previews, edit : PreviewRow]
    \cup [at : {"pulling", "recording"}, preview : Previews, edit : PreviewRow, onto : Files]

Holds(o, p) == opener[o].at \in {"pushing", "pulling"} /\ opener[o].preview = p
AtWork == {o \in Openers : opener[o] # Unused}

RowsOfRepo ==
    /\ base \in Files
    /\ overlay \in BOOLEAN
    /\ previews \in [Previews -> PreviewRow \cup {NoPreview}]
    /\ opener \in [Openers -> OpenerTasks]
    /\ pulls \in [Previews -> PullRow \cup {NoPull}]
    /\ branches \subseteq {BranchOf[p] : p \in Previews}
    /\ recorded \subseteq Previews /\ IsFiniteSet(recorded)
    /\ opens \in [Previews -> Nat]

PreviewIsSpentOnce ==
    \A p \in Previews :
        /\ opens[p] <= 1
        /\ previews[p] # NoPreview =>
              opens[p] = 0 /\ \A o \in Openers : ~Holds(o, p)
        /\ \A o \in Openers : Holds(o, p) => opens[p] = 0
        /\ \A o, x \in Openers : Holds(o, p) /\ Holds(x, p) => o = x

RepoInv == RowsOfRepo /\ PreviewIsSpentOnce /\ PullsCapWithinConcurrency

\* What an opener at work carries.
LEMMA OpenerKinds ==
    ASSUME NEW t \in OpenerTasks
    PROVE  /\ t.at \in {"idle", "pushing", "pulling", "recording"}
           /\ t = Unused <=> t.at = "idle"
           /\ t # Unused => t.preview \in Previews /\ t.edit \in PreviewRow
           /\ t.at \in {"pulling", "recording"} => t.onto \in Files
           /\ t.at = "pulling" => [t EXCEPT !.at = "recording"] \in OpenerTasks
  BY DEF OpenerTasks, Unused

\* An edit of a file is a file.
LEMMA EditsAreFiles ==
    ASSUME RowsOfRepo
    PROVE  Edited(base) \in Files
<1>1. KustomizePatch(base) \in Files /\ ApplySpan(base) \in Files
  BY GitOpsAssumption DEF RowsOfRepo, KustomizePatch, ApplySpan, Files
<1> QED
  BY <1>1 DEF Edited

\* The openers are finite in number, so those at work can be counted.
LEMMA AtWorkIsFinite ==
    /\ IsFiniteSet(AtWork)
    /\ Cardinality(AtWork) \in Nat /\ Cardinality(Openers) \in Nat
    /\ Cardinality(AtWork) <= Cardinality(Openers)
  BY GitOpsAssumption, FS_Subset, FS_CardinalityType DEF AtWork

\* Openers that come to rest, and rows that go, only lower the count.
LEMMA CountFalls ==
    ASSUME RowsOfRepo, PullsCapWithinConcurrency,
           recorded' \subseteq recorded,
           AtWork' \subseteq AtWork
    PROVE  PullsCapWithinConcurrency'
<1>1. PrCap \in Nat /\ IsFiniteSet(recorded)
  BY GitOpsAssumption DEF RowsOfRepo
<1>2. /\ Cardinality(recorded') <= Cardinality(recorded)
      /\ Cardinality(recorded') \in Nat /\ Cardinality(recorded) \in Nat
  BY <1>1, FS_Subset, FS_CardinalityType
<1>3. /\ Cardinality(AtWork') <= Cardinality(AtWork)
      /\ Cardinality(AtWork') \in Nat /\ Cardinality(AtWork) \in Nat
      /\ Cardinality(Openers) \in Nat
  BY AtWorkIsFinite, FS_Subset, FS_CardinalityType
<1>4. Cardinality(recorded) + Cardinality(AtWork) <= PrCap + Cardinality(Openers) - 1
  BY DEF PullsCapWithinConcurrency, AtWork
<1>5. Cardinality(recorded') + Cardinality(AtWork') <= PrCap + Cardinality(Openers) - 1
  BY <1>1, <1>2, <1>3, <1>4
<1> QED
  BY <1>5 DEF PullsCapWithinConcurrency, AtWork

\* Steps of the world and of the store's clock: no opener moves.
LEMMA RepoRests ==
    ASSUME RepoInv, UNCHANGED <<opener, overlay>>,
           base' \in Files,
           previews' \in [Previews -> PreviewRow \cup {NoPreview}],
           pulls' = pulls, opens' = opens,
           \A p \in Previews : previews'[p] # NoPreview =>
              opens[p] = 0 /\ \A o \in Openers : ~Holds(o, p),
           branches' \subseteq {BranchOf[p] : p \in Previews},
           recorded' \subseteq recorded
    PROVE  RepoInv'
<1>0. RowsOfRepo /\ PreviewIsSpentOnce /\ PullsCapWithinConcurrency
  BY DEF RepoInv
<1>1. IsFiniteSet(recorded')
  BY <1>0, FS_Subset DEF RowsOfRepo
<1>2. RowsOfRepo'
  BY <1>0, <1>1 DEF RowsOfRepo
<1>3. PreviewIsSpentOnce'
  BY <1>0 DEF PreviewIsSpentOnce, Holds
<1>4. PullsCapWithinConcurrency'
  BY <1>0, CountFalls DEF AtWork
<1> QED
  BY <1>2, <1>3, <1>4 DEF RepoInv

\* The invariant of the pull requests.
LEMMA RepoInvariant == Spec => []RepoInv
<1> USE GitOpsAssumption
<1>1. Init => RepoInv
  <2> SUFFICES ASSUME Init
               PROVE  RepoInv
    OBVIOUS
  <2> USE DEF Init, RepoInit
  <2>1. IsFiniteSet({}) /\ Cardinality({}) = 0
    BY FS_EmptySet
  <2>2. RowsOfRepo
    BY <2>1 DEF RowsOfRepo, Files, OpenerTasks
  <2>3. PreviewIsSpentOnce
    BY DEF PreviewIsSpentOnce, Holds, Unused
  <2>4. AtWork = {}
    BY DEF AtWork
  <2>5. PullsCapWithinConcurrency
    BY <2>1, <2>4, AtWorkIsFinite DEF PullsCapWithinConcurrency, AtWork
  <2> QED
    BY <2>2, <2>3, <2>5 DEF RepoInv
<1>2. RepoInv /\ [Next]_vars => RepoInv'
  <2> SUFFICES ASSUME RepoInv, [Next]_vars
               PROVE  RepoInv'
    OBVIOUS
  <2>0. /\ [RepoNext]_repoVars
        /\ RowsOfRepo /\ PreviewIsSpentOnce /\ PullsCapWithinConcurrency
    BY StepOfEach DEF RepoInv
  <2>1. ASSUME NEW p \in Previews, Preview(p)
        PROVE  RepoInv'
    <3>1. [file |-> Edited(base), seen |-> base] \in PreviewRow
      BY <2>0, EditsAreFiles DEF PreviewRow, RowsOfRepo
    <3>2. previews' \in [Previews -> PreviewRow \cup {NoPreview}]
      BY <2>0, <2>1, <3>1 DEF Preview, RowsOfRepo
    <3>3. \A o \in Openers : ~Holds(o, p)
      BY <2>1 DEF Preview, Holds, Unused
    <3>4. \A x \in Previews : previews'[x] # NoPreview =>
             opens[x] = 0 /\ \A o \in Openers : ~Holds(o, x)
      BY <2>0, <2>1, <3>3 DEF Preview, PreviewIsSpentOnce, RowsOfRepo
    <3> QED
      BY <2>0, <2>1, <3>2, <3>4, RepoRests DEF Preview, RowsOfRepo
  <2>2. ASSUME NEW o \in Openers, NEW p \in Previews, PopPreview(o, p)
        PROVE  RepoInv'
    <3>0. /\ previews' = [previews EXCEPT ![p] = NoPreview]
          /\ opener[o] = Unused /\ previews[p] # NoPreview
          /\ UNCHANGED <<base, overlay, branches, pulls, recorded, opens>>
      BY <2>2 DEF PopPreview, Take
    <3>1. CASE BelowCap
      <4> DEFINE t == [at |-> "pushing", preview |-> p, edit |-> previews[p]]
      <4>1. opener' = [opener EXCEPT ![o] = t]
        BY <2>2, <3>1 DEF PopPreview
      <4>2. t \in OpenerTasks /\ t.at = "pushing" /\ t.preview = p
        BY <2>0, <3>0 DEF RowsOfRepo, OpenerTasks
      <4> HIDE DEF t
      <4>3. RowsOfRepo'
        BY <2>0, <3>0, <4>1, <4>2 DEF RowsOfRepo
      <4>4. \A x \in Openers, q \in Previews :
               Holds(x, q)' <=> IF x = o THEN q = p ELSE Holds(x, q)
        BY <2>0, <4>1, <4>2 DEF Holds, RowsOfRepo
      <4>5. PreviewIsSpentOnce'
        BY <2>0, <3>0, <4>4 DEF PreviewIsSpentOnce, RowsOfRepo
      <4>6. PullsCapWithinConcurrency'
        <5>1. Cardinality(recorded') < PrCap /\ Cardinality(recorded') \in Nat
          BY <2>0, <3>0, <3>1, FS_CardinalityType DEF BelowCap, RowsOfRepo
        <5>2. /\ Cardinality(AtWork') <= Cardinality(Openers)
              /\ Cardinality(AtWork') \in Nat /\ Cardinality(Openers) \in Nat
          BY FS_Subset, FS_CardinalityType DEF AtWork
        <5>3. Cardinality(recorded') + Cardinality(AtWork') <= PrCap + Cardinality(Openers) - 1
          BY <5>1, <5>2
        <5> QED
          BY <5>3 DEF PullsCapWithinConcurrency, AtWork
      <4> QED
        BY <4>3, <4>5, <4>6 DEF RepoInv
    <3>2. CASE ~BelowCap
      <4>1. opener' = opener
        BY <2>2, <3>2 DEF PopPreview
      <4>2. previews' \in [Previews -> PreviewRow \cup {NoPreview}]
        BY <2>0, <3>0 DEF RowsOfRepo
      <4>3. \A x \in Previews : previews'[x] # NoPreview =>
               opens[x] = 0 /\ \A y \in Openers : ~Holds(y, x)
        BY <2>0, <3>0 DEF PreviewIsSpentOnce, RowsOfRepo
      <4> QED
        BY <2>0, <3>0, <4>1, <4>2, <4>3, RepoRests DEF RowsOfRepo
    <3> QED
      BY <3>1, <3>2
  <2>3. ASSUME NEW o \in Openers, PushBranch(o)
        PROVE  RepoInv'
    <3> DEFINE t == [at |-> "pulling", preview |-> opener[o].preview,
                     edit |-> opener[o].edit, onto |-> base]
    <3>0. opener[o] \in OpenerTasks /\ opener[o].at = "pushing" /\ opener[o] # Unused
      BY <2>0, <2>3 DEF PushBranch, At, RowsOfRepo, Unused
    <3>1. /\ opener' = [opener EXCEPT ![o] = t]
          /\ branches' = branches \cup {BranchOf[opener[o].preview]}
          /\ UNCHANGED <<base, overlay, previews, pulls, recorded, opens>>
      BY <2>3 DEF PushBranch
    <3>2. /\ t \in OpenerTasks /\ t # Unused
          /\ t.at = "pulling" /\ t.preview = opener[o].preview
      BY <2>0, <3>0, OpenerKinds DEF RowsOfRepo, OpenerTasks, Unused
    <3> HIDE DEF t
    <3>3. RowsOfRepo'
      BY <2>0, <3>0, <3>1, <3>2, OpenerKinds DEF RowsOfRepo
    <3>4. \A x \in Openers, q \in Previews : Holds(x, q)' <=> Holds(x, q)
      BY <2>0, <3>0, <3>1, <3>2 DEF Holds, RowsOfRepo
    <3>5. PreviewIsSpentOnce'
      BY <2>0, <3>1, <3>4 DEF PreviewIsSpentOnce
    <3>6. PullsCapWithinConcurrency'
      BY <2>0, <3>0, <3>1, <3>2, CountFalls DEF AtWork, RowsOfRepo
    <3> QED
      BY <3>3, <3>5, <3>6 DEF RepoInv
  <2>4. ASSUME NEW o \in Openers, OpenPull(o)
        PROVE  RepoInv'
    <3> DEFINE p == opener[o].preview
               t == [opener[o] EXCEPT !.at = "recording"]
    <3>0. opener[o] \in OpenerTasks /\ opener[o].at = "pulling" /\ opener[o] # Unused
      BY <2>0, <2>4 DEF OpenPull, At, RowsOfRepo, Unused
    <3>1. /\ opener' = [opener EXCEPT ![o] = t]
          /\ opens' = [opens EXCEPT ![p] = @ + 1]
          /\ UNCHANGED <<base, overlay, previews, branches, recorded>>
      BY <2>4 DEF OpenPull, Proceeds
    <3>2. /\ t \in OpenerTasks /\ t.at = "recording" /\ t # Unused
          /\ p \in Previews /\ opener[o].edit \in PreviewRow /\ opener[o].onto \in Files
      BY <3>0, OpenerKinds DEF OpenerTasks, Unused
    <3>3. pulls' \in [Previews -> PullRow \cup {NoPull}]
      <4>1. [file |-> opener[o].edit.file, seen |-> opener[o].edit.seen,
             onto |-> opener[o].onto] \in PullRow
        BY <3>2 DEF PullRow, PreviewRow
      <4> QED
        BY <2>0, <2>4, <4>1 DEF OpenPull, RowsOfRepo
    <3>4. Holds(o, p)
      BY <3>0 DEF Holds
    <3> HIDE DEF t, p
    <3>5. RowsOfRepo'
      <4>1. opener' \in [Openers -> OpenerTasks]
        BY <2>0, <3>1, <3>2 DEF RowsOfRepo
      <4>2. opens' \in [Previews -> Nat]
        BY <2>0, <3>1, <3>2 DEF RowsOfRepo
      <4> QED
        BY <2>0, <3>1, <3>3, <4>1, <4>2 DEF RowsOfRepo
    <3>6. \A x \in Openers, q \in Previews : Holds(x, q)' <=> x # o /\ Holds(x, q)
      BY <2>0, <3>1, <3>2 DEF Holds, RowsOfRepo
    <3>7. opens[p] = 0 /\ previews[p] = NoPreview
      BY <2>0, <3>2, <3>4 DEF PreviewIsSpentOnce
    <3>8. \A x \in Openers : Holds(x, p) => x = o
      BY <2>0, <3>2, <3>4 DEF PreviewIsSpentOnce
    <3>9. PreviewIsSpentOnce'
      BY <2>0, <3>1, <3>2, <3>6, <3>7, <3>8 DEF PreviewIsSpentOnce, RowsOfRepo
    <3>10. PullsCapWithinConcurrency'
      BY <2>0, <3>0, <3>1, <3>2, CountFalls DEF AtWork, RowsOfRepo
    <3> QED
      BY <3>5, <3>9, <3>10 DEF RepoInv
  <2>5. ASSUME NEW o \in Openers, RecordPull(o) \/ FailOpen(o)
        PROVE  RepoInv'
    <3>0. opener[o] # Unused
      BY <2>5 DEF RecordPull, FailOpen, At, Unused
    <3>1. /\ opener' = [opener EXCEPT ![o] = Unused]
          /\ UNCHANGED <<base, overlay, previews, branches, pulls, opens>>
      BY <2>5 DEF RecordPull, FailOpen
    <3>2. recorded' = recorded \/ recorded' = recorded \cup {opener[o].preview}
      BY <2>5 DEF RecordPull, FailOpen
    <3>3. opener[o].preview \in Previews
      BY <2>0, <3>0, OpenerKinds DEF RowsOfRepo
    <3>4. /\ IsFiniteSet(recorded') /\ Cardinality(recorded') \in Nat
          /\ Cardinality(recorded) \in Nat
          /\ Cardinality(recorded') <= Cardinality(recorded) + 1
      <4>1. IsFiniteSet(recorded) /\ Cardinality(recorded) \in Nat
        BY <2>0, FS_CardinalityType DEF RowsOfRepo
      <4>2. /\ IsFiniteSet(recorded \cup {opener[o].preview})
            /\ Cardinality(recorded \cup {opener[o].preview})
                  = IF opener[o].preview \in recorded THEN Cardinality(recorded)
                    ELSE Cardinality(recorded) + 1
        BY <4>1, FS_AddElement
      <4> QED
        BY <3>2, <4>1, <4>2
    <3>5. RowsOfRepo'
      BY <2>0, <3>1, <3>2, <3>3, <3>4 DEF RowsOfRepo, OpenerTasks
    <3>6. \A x \in Openers, q \in Previews : Holds(x, q)' => Holds(x, q)
      BY <2>0, <3>1 DEF Holds, RowsOfRepo, Unused
    <3>7. PreviewIsSpentOnce'
      BY <2>0, <3>1, <3>6 DEF PreviewIsSpentOnce
    <3>8. AtWork' = AtWork \ {o} /\ o \in AtWork
      BY <2>0, <3>0, <3>1 DEF AtWork, RowsOfRepo
    <3>9. Cardinality(AtWork') = Cardinality(AtWork) - 1
      BY <3>8, AtWorkIsFinite, FS_RemoveElement
    <3>10. Cardinality(recorded') + Cardinality(AtWork') <= PrCap + Cardinality(Openers) - 1
      BY <2>0, <3>4, <3>9, AtWorkIsFinite DEF PullsCapWithinConcurrency, AtWork
    <3>11. PullsCapWithinConcurrency'
      BY <3>10 DEF PullsCapWithinConcurrency, AtWork
    <3> QED
      BY <3>5, <3>7, <3>11 DEF RepoInv
  <2>6. ASSUME NEW p \in Previews, MergePull(p)
        PROVE  RepoInv'
    <3>1. pulls[p] \in PullRow
      BY <2>0, <2>6 DEF MergePull, RowsOfRepo
    <3>2. base' \in Files
      BY <2>0, <2>6, <3>1 DEF MergePull, RowsOfRepo, PullRow, Files
    <3> QED
      BY <2>0, <2>6, <3>2, RepoRests DEF MergePull, RowsOfRepo, PreviewIsSpentOnce
  <2>7. ASSUME NEW p \in Previews, ExpirePreview(p) \/ AgeRow(p)
        PROVE  RepoInv'
    <3>1. previews' \in [Previews -> PreviewRow \cup {NoPreview}]
      BY <2>0, <2>7 DEF ExpirePreview, AgeRow, RowsOfRepo
    <3>2. \A x \in Previews : previews'[x] # NoPreview => previews[x] # NoPreview
      BY <2>0, <2>7 DEF ExpirePreview, AgeRow, RowsOfRepo
    <3>3. /\ UNCHANGED <<base, overlay, opener, pulls, opens, branches>>
          /\ recorded' \subseteq recorded
      BY <2>7 DEF ExpirePreview, AgeRow
    <3>4. \A x \in Previews : previews'[x] # NoPreview =>
             opens[x] = 0 /\ \A y \in Openers : ~Holds(y, x)
      BY <2>0, <3>2 DEF PreviewIsSpentOnce
    <3> QED
      BY <2>0, <3>1, <3>3, <3>4, RepoRests DEF RowsOfRepo
  <2>8. CASE PushBase
    <3>1. base' \in Files
      BY <2>0, <2>8 DEF PushBase, RowsOfRepo, Files
    <3> QED
      BY <2>0, <2>8, <3>1, RepoRests DEF PushBase, RowsOfRepo, PreviewIsSpentOnce
  <2>9. CASE UNCHANGED repoVars
    BY <2>0, <2>9, RepoRests DEF repoVars, RowsOfRepo, PreviewIsSpentOnce
  <2> QED
    BY <2>0, <2>1, <2>2, <2>3, <2>4, <2>5, <2>6, <2>7, <2>8, <2>9 DEF RepoNext
<1> QED
  BY <1>1, <1>2, PTL DEF Spec

-----------------------------------------------------------------------------
(* Spans.  The root leads to inner nodes and scalars and is never led to;   *)
(* an inner node leads to scalars, so paths are one or two fields long.      *)

DocumentTyped ==
    /\ Root \in Parents /\ Parents \subseteq {Root} \cup Maps
    /\ doc[Root] \in [FieldNames -> Maps \cup Scalars \cup {NoNode}]
    /\ \A m \in Parents \ {Root} : doc[m] \in [FieldNames -> Scalars \cup {NoNode}]
    /\ field \in Paths

\* What the search visits along a path.
LEMMA VisitedNodes ==
    ASSUME NEW path \in Paths
    PROVE  /\ Len(path) \in {1, 2} /\ \A i \in 1..Len(path) : path[i] \in FieldNames
           /\ Visited(path)[1] = Child(Root, path[1])
           /\ Len(path) = 2 => Visited(path)[2] = Child(Child(Root, path[1]), path[2])
<1>1. Len(path) \in {1, 2} /\ \A i \in 1..Len(path) : path[i] \in FieldNames
  BY DEF Paths
<1> DEFINE step(f) == [i \in 0..Len(path) |->
                          IF i = 0 THEN Root ELSE Child(f[i - 1], path[i])]
           first == Child(Root, path[1])
           g == [i \in 0..Len(path) |-> IF i = 0 THEN Root
                                        ELSE IF i = 1 THEN first ELSE Child(first, path[2])]
           at == CHOOSE f : f = step(f)
<1>2. g = step(g)
  <2> SUFFICES ASSUME NEW i \in 0..Len(path)
               PROVE  g[i] = IF i = 0 THEN Root ELSE Child(g[i - 1], path[i])
    OBVIOUS
  <2>1. i = 0 \/ i = 1 \/ i = 2
    BY <1>1
  <2> QED
    BY <1>1, <2>1
<1>3. at = step(at)
  BY <1>2
<1>4. Visited(path) = at
  BY DEF Visited
<1> HIDE DEF at
<1>5. \A i \in 0..Len(path) :
         at[i] = IF i = 0 THEN Root ELSE Child(at[i - 1], path[i])
  BY <1>3
<1>6. at[0] = Root
  BY <1>1, <1>5
<1>7. at[1] = Child(Root, path[1])
  BY <1>1, <1>5, <1>6
<1>8. Len(path) = 2 => at[2] = Child(at[1], path[2])
  BY <1>1, <1>5
<1> QED
  BY <1>1, <1>4, <1>7, <1>8

\* Two edges that lead to a node make it shared.
LEMMA TwoEdgesShare ==
    ASSUME DocumentTyped, NEW n \in Maps \cup Scalars,
           NEW p \in Parents, NEW j \in FieldNames, NEW q \in Parents, NEW k \in FieldNames,
           <<p, j>> # <<q, k>>, doc[p][j] = n, doc[q][k] = n
    PROVE  n \in Shared
<1> DEFINE edges == {e \in Parents \X FieldNames : doc[e[1]][e[2]] = n}
           both == {<<p, j>>, <<q, k>>}
<1>1. IsFiniteSet(edges)
  <2>1. IsFiniteSet({Root} \cup Maps)
    BY SpanAssumption, FS_AddElement
  <2>2. IsFiniteSet(Parents)
    BY <2>1, FS_Subset DEF DocumentTyped
  <2>3. IsFiniteSet(Parents \X FieldNames)
    BY <2>2, SpanAssumption, FS_Product
  <2> QED
    BY <2>3, FS_Subset
<1>2. both \subseteq edges
  OBVIOUS
<1>3. Cardinality(both) = 2
  <2>1. IsFiniteSet({<<p, j>>}) /\ Cardinality({<<p, j>>}) = 1
    BY FS_Singleton
  <2>2. both = {<<p, j>>} \cup {<<q, k>>} /\ <<q, k>> \notin {<<p, j>>}
    OBVIOUS
  <2>3. Cardinality({<<p, j>>} \cup {<<q, k>>}) = Cardinality({<<p, j>>}) + 1
    BY <2>1, <2>2, FS_AddElement
  <2> HIDE DEF both
  <2> QED
    BY <2>1, <2>2, <2>3
<1>4. Cardinality(both) <= Cardinality(edges) /\ Cardinality(edges) \in Nat
  BY <1>1, <1>2, FS_Subset, FS_CardinalityType
<1> QED
  BY <1>3, <1>4 DEF Shared, References

\* The last edge of a path that ends in a scalar.
LEMMA LastEdge ==
    ASSUME DocumentTyped, NEW path \in Paths, NEW n \in Scalars,
           Visited(path)[Len(path)] = n
    PROVE  \/ Len(path) = 1 /\ doc[Root][path[1]] = n
           \/ LET m == doc[Root][path[1]]
              IN  /\ Len(path) = 2 /\ m \in Parents /\ m \in Maps /\ m # Root
                  /\ doc[m][path[2]] = n /\ Visited(path)[1] = m
<1> USE SpanAssumption
<1>1. /\ Len(path) \in {1, 2} /\ \A i \in 1..Len(path) : path[i] \in FieldNames
      /\ Visited(path)[1] = Child(Root, path[1])
      /\ Len(path) = 2 => Visited(path)[2] = Child(Child(Root, path[1]), path[2])
  BY VisitedNodes
<1>2. Child(Root, path[1]) = doc[Root][path[1]]
  BY DEF Child, DocumentTyped
<1>3. path[1] \in FieldNames
  BY <1>1
<1>4. doc[Root][path[1]] \in Maps \cup Scalars \cup {NoNode}
  BY <1>3 DEF DocumentTyped
<1>5. CASE Len(path) = 1
  BY <1>1, <1>2, <1>5
<1>6. CASE Len(path) = 2
  <2> DEFINE m == doc[Root][path[1]]
  <2>1. Child(m, path[2]) = n
    BY <1>1, <1>2, <1>6
  <2>2. m \in Parents /\ doc[m][path[2]] = n
    BY <2>1 DEF Child
  <2>3. m \in Maps /\ m # Root
    BY <1>4, <2>2 DEF DocumentTyped
  <2> QED
    BY <1>1, <1>2, <1>6, <2>2, <2>3
<1> QED
  BY <1>1, <1>5, <1>6

\* In a well-formed document the span found is the field's alone.
LEMMA SpanOfDocument ==
    ASSUME DocumentTyped
    PROVE  SpanIsExact
<1> USE SpanAssumption
<1> DEFINE n == FindSpan(field)
<1> SUFFICES ASSUME n # NoNode
             PROVE  /\ n \notin anchored
                    /\ \A path \in Paths : Visited(path)[Len(path)] = n => path = field
  BY DEF SpanIsExact
<1>1. /\ n = Visited(field)[Len(field)] /\ n \in Scalars /\ n \notin anchored
      /\ ~SharedOnPath(field)
  BY DEF FindSpan
<1> HIDE DEF n
<1>2. field \in Paths
  BY DEF DocumentTyped
<1>3. /\ Len(field) \in {1, 2} /\ \A i \in 1..Len(field) : field[i] \in FieldNames
  BY <1>2, VisitedNodes
<1>4. \A i \in 0..Len(field) : Visited(field)[i] \notin Shared
  BY <1>1 DEF SharedOnPath
<1>5. n \notin Shared /\ Visited(field)[1] \notin Shared
  BY <1>1, <1>3, <1>4
<1> SUFFICES ASSUME NEW path \in Paths, Visited(path)[Len(path)] = n
             PROVE  path = field
  BY <1>1
<1>6. /\ Len(path) \in {1, 2} /\ \A i \in 1..Len(path) : path[i] \in FieldNames
  BY VisitedNodes
<1>7. path \in [1..Len(path) -> FieldNames] /\ field \in [1..Len(field) -> FieldNames]
  <2>1. \A x \in Paths : x \in [1..Len(x) -> FieldNames]
    <3>1. \A x \in [1..1 -> FieldNames] : Len(x) = 1
      OBVIOUS
    <3>2. \A x \in [1..2 -> FieldNames] : Len(x) = 2
      OBVIOUS
    <3> QED
      BY <3>1, <3>2 DEF Paths
  <2> QED
    BY <1>2, <2>1
<1>8. Root \in Parents /\ n \in Maps \cup Scalars
  BY <1>1 DEF DocumentTyped
<1>9. path[1] \in FieldNames /\ field[1] \in FieldNames
  BY <1>3, <1>6
<1> DEFINE m == doc[Root][path[1]]
           f == doc[Root][field[1]]
<1>10. \/ Len(path) = 1 /\ m = n
       \/ /\ Len(path) = 2 /\ m \in Parents /\ m \in Maps /\ m # Root
          /\ doc[m][path[2]] = n
  BY <1>1, LastEdge
<1>11. \/ Len(field) = 1 /\ f = n
       \/ /\ Len(field) = 2 /\ f \in Parents /\ f \in Maps /\ f # Root
          /\ doc[f][field[2]] = n /\ Visited(field)[1] = f
  BY <1>1, <1>2, LastEdge
<1>12. CASE Len(path) = 1 /\ Len(field) = 1
  <2>1. m = n /\ f = n
    BY <1>10, <1>11, <1>12
  <2>2. path[1] = field[1]
    BY <1>5, <1>8, <1>9, <2>1, TwoEdgesShare
  <2> QED
    BY <1>7, <1>12, <2>2
<1>13. CASE Len(path) = 1 /\ Len(field) = 2
  <2>1. m = n /\ f \in Parents /\ f # Root /\ doc[f][field[2]] = n /\ field[2] \in FieldNames
    BY <1>3, <1>10, <1>11, <1>13
  <2> QED
    BY <1>5, <1>8, <1>9, <2>1, TwoEdgesShare
<1>14. CASE Len(path) = 2 /\ Len(field) = 1
  <2>1. f = n /\ m \in Parents /\ m # Root /\ doc[m][path[2]] = n /\ path[2] \in FieldNames
    BY <1>6, <1>10, <1>11, <1>14
  <2> QED
    BY <1>5, <1>8, <1>9, <2>1, TwoEdgesShare
<1>15. CASE Len(path) = 2 /\ Len(field) = 2
  <2>1. /\ m \in Parents /\ doc[m][path[2]] = n /\ path[2] \in FieldNames
        /\ f \in Parents /\ doc[f][field[2]] = n /\ field[2] \in FieldNames
        /\ f \in Maps /\ f \notin Shared
    BY <1>3, <1>5, <1>6, <1>10, <1>11, <1>15
  <2>2. m = f /\ path[2] = field[2]
    BY <1>5, <1>8, <2>1, TwoEdgesShare
  <2>3. path[1] = field[1]
    BY <1>8, <1>9, <2>1, <2>2, TwoEdgesShare
  <2> QED
    BY <1>7, <1>15, <2>2, <2>3
<1> QED
  BY <1>3, <1>6, <1>12, <1>13, <1>14, <1>15

\* Documents grow by inner nodes and stay well formed.
LEMMA DocumentsAreTyped == Spec => []DocumentTyped
<1> USE SpanAssumption
<1>1. Init => DocumentTyped
  BY DEF Init, SpanInit, DocumentTyped, Parents, Paths
<1>2. DocumentTyped /\ [Next]_vars => DocumentTyped'
  <2> SUFFICES ASSUME DocumentTyped, [Grow]_spanVars
               PROVE  DocumentTyped'
    BY StepOfEach
  <2>1. CASE Grow
    <3>1. PICK m \in Maps \ Parents, keys \in [FieldNames -> Scalars \cup {NoNode}] :
             /\ doc' = [n \in Parents \cup {m} |-> IF n = m THEN keys ELSE doc[n]]
             /\ UNCHANGED <<anchored, field>>
      BY <2>1 DEF Grow
    <3> QED
      BY <3>1 DEF DocumentTyped, Parents
  <2>2. CASE UNCHANGED spanVars
    BY <2>2 DEF spanVars, DocumentTyped, Parents
  <2> QED
    BY <2>1, <2>2
<1> QED
  BY <1>1, <1>2, PTL DEF Spec

\* A preview becomes one pull request, the hourly cap is overrun by the
\* openers at most, and an edit changes the value at its path alone.
THEOREM ManifestsHoldAlways == Spec => []ManifestsHold
<1>1. RepoInv /\ DocumentTyped => ManifestsHold
  BY SpanOfDocument DEF RepoInv, PreviewIsSpentOnce, PreviewOpensOnce, ManifestsHold
<1> QED
  BY <1>1, RepoInvariant, DocumentsAreTyped, PTL

-----------------------------------------------------------------------------
(* The audit trail.  Every row names the row before it at the time of its   *)
(* insert, which is still the row before it or was pruned; the write lock   *)
(* keeps what its holder has read true until its row is in.                 *)

EventIds == 1..MaxEvents
Pending == [step : {"stamped", "linked"}, id : EventIds, ts : 0..MaxAuditNow,
            prev : EventIds \cup {NoHash}]

\* The row q comes right before the rows from seq n on.
Precedes(q, n) ==
    /\ q \in trail /\ q.seq < n
    /\ \A x \in trail : x.seq < n => x.seq <= q.seq

RowsAreNumbered ==
    /\ \A r \in trail : r.seq <= lastSeq /\ r.id <= emitted /\ r.id \notin pruned
    /\ \A q, r \in trail : q.seq = r.seq \/ q.id = r.id => q = r

EventsAreNew ==
    /\ event \in [Emitters -> {Quiet} \cup Pending]
    /\ \A e \in Emitters : event[e] # Quiet =>
          /\ event[e].id <= emitted /\ event[e].id \notin pruned
          /\ \A r \in trail : r.id # event[e].id
    /\ \A e, d \in Emitters :
          event[e] # Quiet /\ event[d] # Quiet /\ event[e].id = event[d].id => e = d

WriterHoldsTheEnd ==
    \A e \in Emitters : event[e] # Quiet /\ event[e].step = "linked" =>
        writer = e /\ event[e].prev = HashOfLast(trail)

RowsNameTheRowBefore ==
    \A r \in trail :
        IF r.prev = NoHash THEN \A x \in trail : x.seq >= r.seq
        ELSE r.prev \in pruned \/ \E q \in trail : Precedes(q, r.seq) /\ r.prev = q.id

TrailInv ==
    /\ AuditTypeOK /\ RowsAreNumbered /\ EventsAreNew
    /\ WriterHoldsTheEnd /\ RowsNameTheRowBefore

\* Rows below a number have a last one.
LEMMA LastRow ==
    ASSUME NEW rows, rows # {}, NEW n \in Nat, \A r \in rows : r.seq \in Nat /\ r.seq <= n
    PROVE  \E q \in rows : \A r \in rows : r.seq <= q.seq
<1> DEFINE left == {n - r.seq : r \in rows}
<1>1. left \subseteq Nat /\ left # {}
  OBVIOUS
<1>2. PICK x \in left : \A y \in left : ~ (<<y, x>> \in OpToRel(<, Nat))
  BY <1>1, WFMin, NatLessThanWellFounded
<1>3. \A y \in left : ~ (y < x)
  BY <1>1, <1>2 DEF OpToRel
<1>4. PICK q \in rows : x = n - q.seq
  OBVIOUS
<1>5. ASSUME NEW r \in rows
      PROVE  r.seq <= q.seq
  <2>1. ~ (n - r.seq < x)
    BY <1>3
  <2> QED
    BY <1>4, <2>1
<1> QED
  BY <1>5

\* The hash of the last of some rows of the table is that of a row of them.
LEMMA HashOfTheLast ==
    ASSUME AuditTypeOK, RowsAreNumbered, NEW rows, rows \subseteq trail
    PROVE  /\ rows = {} => HashOfLast(rows) = NoHash
           /\ \A q \in rows : (\A r \in rows : r.seq <= q.seq) => HashOfLast(rows) = q.id
           /\ rows # {} => \E q \in rows : /\ \A r \in rows : r.seq <= q.seq
                                           /\ HashOfLast(rows) = q.id
<1>1. \A r \in rows : r \in Event /\ r.seq \in Nat /\ r.seq <= lastSeq
  BY DEF AuditTypeOK, RowsAreNumbered, Event
<1>2. lastSeq \in Nat
  BY DEF AuditTypeOK
<1>3. rows = {} => HashOfLast(rows) = NoHash
  BY DEF HashOfLast
<1>4. ASSUME NEW q \in rows, \A r \in rows : r.seq <= q.seq
      PROVE  HashOfLast(rows) = q.id
  <2> DEFINE last == CHOOSE r \in rows : \A x \in rows : x.seq <= r.seq
  <2>1. last \in rows /\ \A x \in rows : x.seq <= last.seq
    BY <1>4
  <2> HIDE DEF last
  <2>2. last.seq = q.seq
    BY <1>1, <1>4, <2>1
  <2>3. last = q
    BY <2>1, <2>2 DEF RowsAreNumbered
  <2> QED
    BY <2>3 DEF HashOfLast, last
<1>5. rows # {} => \E q \in rows : \A r \in rows : r.seq <= q.seq
  BY <1>1, <1>2, LastRow
<1> QED
  BY <1>3, <1>4, <1>5

\* Such a hash is an event's id or none.
LEMMA HashIsTyped ==
    ASSUME AuditTypeOK, RowsAreNumbered
    PROVE  HashOfLast(trail) \in EventIds \cup {NoHash}
<1>1. \A q \in trail : q.id \in EventIds
  BY DEF AuditTypeOK, Event, EventIds
<1>2. CASE trail = {}
  BY <1>2, HashOfTheLast
<1>3. CASE trail # {}
  <2>1. PICK q \in trail : HashOfLast(trail) = q.id
    BY <1>3, HashOfTheLast
  <2> QED
    BY <1>1, <2>1
<1> QED
  BY <1>2, <1>3

\* What a row names decides whether verify_chain sees a break at it.
LEMMA BreaksAreKnown ==
    ASSUME TrailInv
    PROVE  BreaksOnlyWherePruned
<1> USE AuditAssumption
<1>0. AuditTypeOK /\ RowsAreNumbered /\ RowsNameTheRowBefore
  BY DEF TrailInv
<1> SUFFICES ASSUME NEW r \in trail
             PROVE  r.prev # Expected(r) <=> r.prev # NoHash /\ r.prev \in pruned
  BY DEF BreaksOnlyWherePruned, Breaks
<1> DEFINE before == {q \in trail : q.seq < r.seq}
<1>1. Expected(r) = HashOfLast(before) /\ before \subseteq trail
  BY DEF Expected
<1>2. \A q \in trail : q.seq \in Nat /\ q.id \in EventIds /\ q.id # NoHash
  BY <1>0 DEF AuditTypeOK, Event, EventIds
<1>3. CASE r.prev = NoHash
  <2>1. \A x \in trail : x.seq >= r.seq
    BY <1>0, <1>3 DEF RowsNameTheRowBefore
  <2>2. before = {}
    BY <1>2, <2>1
  <2> QED
    BY <1>0, <1>1, <1>3, <2>2, HashOfTheLast
<1>4. CASE r.prev # NoHash /\ r.prev \in pruned
  <2>1. CASE before = {}
    BY <1>0, <1>1, <1>4, <2>1, HashOfTheLast
  <2>2. CASE before # {}
    <3>1. PICK q \in before : HashOfLast(before) = q.id
      BY <1>0, <1>1, <2>2, HashOfTheLast
    <3>2. q.id \notin pruned
      BY <1>0 DEF RowsAreNumbered
    <3> QED
      BY <1>1, <1>4, <3>1, <3>2
  <2> QED
    BY <2>1, <2>2
<1>5. CASE r.prev # NoHash /\ r.prev \notin pruned
  <2>1. PICK q \in trail : Precedes(q, r.seq) /\ r.prev = q.id
    BY <1>0, <1>5 DEF RowsNameTheRowBefore
  <2>2. q \in before /\ \A x \in before : x.seq <= q.seq
    BY <2>1 DEF Precedes
  <2>3. HashOfLast(before) = q.id
    BY <1>0, <1>1, <2>2, HashOfTheLast
  <2> QED
    BY <1>1, <1>5, <2>1, <2>3
<1> QED
  BY <1>3, <1>4, <1>5

\* Whatever is written, read or rolled back, the table's rows keep naming
\* the row before them while the table and what was pruned stay.
LEMMA TableRests ==
    ASSUME RowsAreNumbered, RowsNameTheRowBefore,
           UNCHANGED <<trail, lastSeq, pruned>>, emitted \in Nat,
           emitted' = emitted \/ emitted' = emitted + 1, AuditTypeOK
    PROVE  RowsAreNumbered' /\ RowsNameTheRowBefore'
<1>1. \A r \in trail : r.id \in Nat
  BY DEF AuditTypeOK, Event
<1>2. RowsAreNumbered'
  BY <1>1 DEF RowsAreNumbered
<1>3. RowsNameTheRowBefore'
  BY DEF RowsNameTheRowBefore, Precedes
<1> QED
  BY <1>2, <1>3

\* The commit puts the row behind all others, naming the one it has read.
LEMMA RowIsAppended ==
    ASSUME TrailInv, NEW e \in Emitters, InsertRow(e)
    PROVE  TrailInv'
<1> USE AuditAssumption
<1>0. /\ AuditTypeOK /\ RowsAreNumbered /\ EventsAreNew
      /\ WriterHoldsTheEnd /\ RowsNameTheRowBefore
  BY DEF TrailInv
<1>p. PICK new : new = [seq |-> lastSeq + 1, id |-> event[e].id,
                        ts |-> event[e].ts, prev |-> event[e].prev]
  OBVIOUS
<1>1. /\ event[e].step = "linked" /\ event[e] # Quiet
      /\ event[e] \in Pending
  BY <1>0 DEF InsertRow, EventsAreNew, Quiet
<1>2. /\ lastSeq' = lastSeq + 1 /\ trail' = trail \cup {new}
      /\ writer' = NoEmitter /\ event' = [event EXCEPT ![e] = Quiet]
      /\ UNCHANGED <<auditNow, emitted, pruned>>
  BY <1>p DEF InsertRow
<1>3. /\ new \in Event /\ new.seq = lastSeq + 1 /\ lastSeq \in Nat
      /\ new.id = event[e].id /\ new.prev = HashOfLast(trail)
  BY <1>0, <1>1, <1>p DEF Pending, Event, EventIds, AuditTypeOK, WriterHoldsTheEnd
<1>4. \A r \in trail : r.seq \in Nat /\ r.seq <= lastSeq /\ r.id # new.id
  BY <1>0, <1>1, <1>3 DEF AuditTypeOK, Event, RowsAreNumbered, EventsAreNew
<1>5. new.id <= emitted /\ new.id \notin pruned
  BY <1>0, <1>1, <1>3 DEF EventsAreNew
<1>6. \A x \in Emitters : event'[x] = IF x = e THEN Quiet ELSE event[x]
  BY <1>0, <1>2 DEF EventsAreNew
<1>7. AuditTypeOK'
  BY <1>0, <1>2, <1>3, <1>6 DEF AuditTypeOK
<1>8. RowsAreNumbered'
  <2>1. \A r \in trail' : r.seq <= lastSeq' /\ r.id <= emitted' /\ r.id \notin pruned'
    BY <1>0, <1>2, <1>3, <1>4, <1>5 DEF RowsAreNumbered
  <2>2. \A q, r \in trail' : q.seq = r.seq \/ q.id = r.id => q = r
    BY <1>0, <1>2, <1>3, <1>4 DEF RowsAreNumbered
  <2> QED
    BY <2>1, <2>2 DEF RowsAreNumbered
<1>9. EventsAreNew'
  <2>1. event' \in [Emitters -> {Quiet} \cup Pending]
    BY <1>0, <1>2 DEF EventsAreNew
  <2>2. \A x \in Emitters : event'[x] # Quiet =>
           /\ event'[x].id <= emitted' /\ event'[x].id \notin pruned'
           /\ \A r \in trail' : r.id # event'[x].id
    BY <1>0, <1>1, <1>2, <1>3, <1>6 DEF EventsAreNew
  <2>3. \A x, d \in Emitters :
           event'[x] # Quiet /\ event'[d] # Quiet /\ event'[x].id = event'[d].id => x = d
    BY <1>0, <1>6 DEF EventsAreNew
  <2> QED
    BY <2>1, <2>2, <2>3 DEF EventsAreNew
<1>10. WriterHoldsTheEnd'
  BY <1>0, <1>1, <1>6 DEF WriterHoldsTheEnd
<1>11. RowsNameTheRowBefore'
  <2>1. ASSUME NEW r \in trail
        PROVE  IF r.prev = NoHash THEN \A x \in trail' : x.seq >= r.seq
               ELSE r.prev \in pruned'
                    \/ \E q \in trail' : Precedes(q, r.seq)' /\ r.prev = q.id
    <3>1. CASE r.prev = NoHash
      BY <1>0, <1>2, <1>3, <1>4, <3>1 DEF RowsNameTheRowBefore
    <3>2. CASE r.prev # NoHash /\ r.prev \in pruned
      BY <1>2, <3>2
    <3>3. CASE r.prev # NoHash /\ r.prev \notin pruned
      <4>1. PICK q \in trail : Precedes(q, r.seq) /\ r.prev = q.id
        BY <1>0, <3>3 DEF RowsNameTheRowBefore
      <4>2. Precedes(q, r.seq)'
        BY <1>2, <1>3, <1>4, <4>1 DEF Precedes
      <4> QED
        BY <1>2, <3>3, <4>1, <4>2
    <3> QED
      BY <3>1, <3>2, <3>3
  <2>2. IF new.prev = NoHash THEN \A x \in trail' : x.seq >= new.seq
        ELSE new.prev \in pruned'
             \/ \E q \in trail' : Precedes(q, new.seq)' /\ new.prev = q.id
    <3>1. CASE trail = {}
      <4>1. new.prev = NoHash
        BY <1>0, <1>3, <3>1, HashOfTheLast
      <4> QED
        BY <1>2, <1>3, <3>1, <4>1
    <3>2. CASE trail # {}
      <4>1. PICK q \in trail : /\ \A r \in trail : r.seq <= q.seq
                               /\ HashOfLast(trail) = q.id
        BY <1>0, <3>2, HashOfTheLast
      <4>2. q.id \in EventIds
        BY <1>0 DEF AuditTypeOK, Event, EventIds
      <4>3. new.prev = q.id /\ new.prev # NoHash
        BY <1>3, <4>1, <4>2 DEF EventIds
      <4>4. Precedes(q, new.seq)'
        BY <1>2, <1>3, <1>4, <4>1 DEF Precedes
      <4> QED
        BY <1>2, <4>3, <4>4
    <3> QED
      BY <3>1, <3>2
  <2> QED
    BY <1>2, <2>1, <2>2 DEF RowsNameTheRowBefore
<1> QED
  BY <1>7, <1>8, <1>9, <1>10, <1>11 DEF TrailInv

\* What is pruned is remembered, so that a row left behind names a row that
\* is still before it or one that was pruned.
LEMMA RowsArePruned ==
    ASSUME TrailInv, NEW cutoff, Prune(cutoff)
    PROVE  TrailInv'
<1> USE AuditAssumption
<1>0. /\ AuditTypeOK /\ RowsAreNumbered /\ EventsAreNew
      /\ WriterHoldsTheEnd /\ RowsNameTheRowBefore
  BY DEF TrailInv
<1> DEFINE old == {r \in trail : r.ts < cutoff}
<1>1. /\ writer = NoEmitter /\ trail' = trail \ old
      /\ pruned' = pruned \cup {r.id : r \in old}
      /\ UNCHANGED <<lastSeq, writer, event, auditNow, emitted>>
  BY DEF Prune
<1>2. old \subseteq trail
  OBVIOUS
<1> HIDE DEF old
<1>3. {r.id : r \in old} \subseteq 1..emitted
  <2>1. emitted \in Nat /\ \A r \in old : r.id \in 1..MaxEvents /\ r.id <= emitted
    BY <1>0, <1>2 DEF AuditTypeOK, Event, RowsAreNumbered
  <2> QED
    BY <2>1
<1>4. AuditTypeOK'
  BY <1>0, <1>1, <1>3 DEF AuditTypeOK
<1>5. RowsAreNumbered'
  BY <1>0, <1>1, <1>2 DEF RowsAreNumbered
<1>6. EventsAreNew'
  BY <1>0, <1>1, <1>2 DEF EventsAreNew
<1>7. WriterHoldsTheEnd'
  BY <1>0, <1>1 DEF WriterHoldsTheEnd
<1>8. RowsNameTheRowBefore'
  <2> SUFFICES ASSUME NEW r \in trail'
               PROVE  IF r.prev = NoHash THEN \A x \in trail' : x.seq >= r.seq
                      ELSE r.prev \in pruned'
                           \/ \E q \in trail' : Precedes(q, r.seq)' /\ r.prev = q.id
    BY DEF RowsNameTheRowBefore
  <2>0. r \in trail
    BY <1>1
  <2>1. CASE r.prev = NoHash
    BY <1>0, <1>1, <2>0, <2>1 DEF RowsNameTheRowBefore
  <2>2. CASE r.prev # NoHash /\ r.prev \in pruned
    BY <1>1, <2>2
  <2>3. CASE r.prev # NoHash /\ r.prev \notin pruned
    <3>1. PICK q \in trail : Precedes(q, r.seq) /\ r.prev = q.id
      BY <1>0, <2>0, <2>3 DEF RowsNameTheRowBefore
    <3>2. CASE q \in old
      BY <1>1, <2>3, <3>1, <3>2
    <3>3. CASE q \notin old
      <4>1. q \in trail' /\ Precedes(q, r.seq)'
        BY <1>1, <3>1, <3>3 DEF Precedes
      <4> QED
        BY <2>3, <3>1, <4>1
    <3> QED
      BY <3>2, <3>3
  <2> QED
    BY <2>1, <2>2, <2>3
<1> QED
  BY <1>4, <1>5, <1>6, <1>7, <1>8 DEF TrailInv

\* The invariant of the audit trail.
LEMMA TrailInvariant == Spec => []TrailInv
<1> USE AuditAssumption
<1>1. Init => TrailInv
  BY DEF Init, AuditInit, TrailInv, AuditTypeOK, RowsAreNumbered, EventsAreNew,
         WriterHoldsTheEnd, RowsNameTheRowBefore
<1>2. TrailInv /\ [Next]_vars => TrailInv'
  <2> SUFFICES ASSUME TrailInv, [Next]_vars
               PROVE  TrailInv'
    OBVIOUS
  <2>0. /\ [AuditNext]_auditVars
        /\ AuditTypeOK /\ RowsAreNumbered /\ EventsAreNew
        /\ WriterHoldsTheEnd /\ RowsNameTheRowBefore /\ emitted \in Nat
    BY StepOfEach DEF TrailInv, AuditTypeOK
  <2>1. ASSUME NEW e \in Emitters, Stamp(e)
        PROVE  TrailInv'
    <3> DEFINE t == [step |-> "stamped", id |-> emitted + 1, ts |-> auditNow, prev |-> NoHash]
    <3>1. /\ event[e] = Quiet /\ emitted < MaxEvents /\ emitted' = emitted + 1
          /\ event' = [event EXCEPT ![e] = t]
          /\ UNCHANGED <<trail, lastSeq, writer, auditNow, pruned>>
      BY <2>1 DEF Stamp, tableVars
    <3>2. t \in Pending /\ t.id = emitted + 1 /\ t.step = "stamped"
      BY <2>0, <3>1 DEF Pending, EventIds, AuditTypeOK
    <3> HIDE DEF t
    <3>3. RowsAreNumbered' /\ RowsNameTheRowBefore'
      BY <2>0, <3>1, TableRests
    <3>4. \A x \in Emitters : event'[x] = IF x = e THEN t ELSE event[x]
      BY <2>0, <3>1 DEF EventsAreNew
    <3>5. \A x \in Emitters : event[x] # Quiet => event[x].id \in Nat /\ event[x].id <= emitted
      BY <2>0 DEF EventsAreNew, Pending, EventIds
    <3>6. \A i \in pruned : i \in Nat /\ i <= emitted
      BY <2>0 DEF AuditTypeOK
    <3>7. \A r \in trail : r.id \in Nat /\ r.id <= emitted
      BY <2>0 DEF AuditTypeOK, Event, RowsAreNumbered
    <3>8. AuditTypeOK'
      <4>1. pruned' \subseteq 1..emitted' /\ emitted' \in 0..MaxEvents
        BY <2>0, <3>1 DEF AuditTypeOK
      <4>2. \A x \in Emitters : event'[x] # Quiet =>
               event'[x].id \in 1..emitted' /\ event'[x].step \in {"stamped", "linked"}
        BY <2>0, <3>1, <3>2, <3>4 DEF AuditTypeOK
      <4> QED
        BY <2>0, <3>1, <4>1, <4>2 DEF AuditTypeOK
    <3>9. EventsAreNew'
      <4>1. event' \in [Emitters -> {Quiet} \cup Pending]
        BY <2>0, <3>1, <3>2 DEF EventsAreNew
      <4>2. \A x \in Emitters : event'[x] # Quiet =>
               /\ event'[x].id <= emitted' /\ event'[x].id \notin pruned'
               /\ \A r \in trail' : r.id # event'[x].id
        BY <2>0, <3>1, <3>2, <3>4, <3>5, <3>6, <3>7 DEF EventsAreNew
      <4>3. \A x, d \in Emitters :
               event'[x] # Quiet /\ event'[d] # Quiet /\ event'[x].id = event'[d].id => x = d
        BY <2>0, <3>2, <3>4, <3>5 DEF EventsAreNew
      <4> QED
        BY <4>1, <4>2, <4>3 DEF EventsAreNew
    <3>10. WriterHoldsTheEnd'
      BY <2>0, <3>1, <3>2, <3>4 DEF WriterHoldsTheEnd, HashOfLast
    <3> QED
      BY <3>3, <3>8, <3>9, <3>10 DEF TrailInv
  <2>2. ASSUME NEW e \in Emitters, ReadLast(e)
        PROVE  TrailInv'
    <3> DEFINE t == [event[e] EXCEPT !.step = "linked", !.prev = HashOfLast(trail)]
    <3>1. /\ event[e].step = "stamped" /\ event[e] # Quiet /\ event[e] \in Pending
          /\ writer = NoEmitter /\ writer' = e
          /\ UNCHANGED <<trail, lastSeq, auditNow, emitted, pruned>>
      BY <2>0, <2>2 DEF ReadLast, Begin, tableVars, EventsAreNew, Quiet
    <3>2. event' = [event EXCEPT ![e] = t]
      BY <2>0, <2>2 DEF ReadLast, EventsAreNew
    <3>3. t \in Pending /\ t.id = event[e].id /\ t.prev = HashOfLast(trail)
          /\ t.step = "linked" /\ t # Quiet
      BY <2>0, <3>1, HashIsTyped DEF Pending, Quiet
    <3> HIDE DEF t
    <3>4. RowsAreNumbered' /\ RowsNameTheRowBefore'
      BY <2>0, <3>1, TableRests
    <3>5. \A x \in Emitters : event'[x] = IF x = e THEN t ELSE event[x]
      BY <2>0, <3>2 DEF EventsAreNew
    <3>6. AuditTypeOK'
      BY <2>0, <3>1, <3>3, <3>5 DEF AuditTypeOK
    <3>7. EventsAreNew'
      <4>1. event' \in [Emitters -> {Quiet} \cup Pending]
        BY <2>0, <3>2, <3>3 DEF EventsAreNew
      <4>2. \A x \in Emitters : event'[x] # Quiet => event[x] # Quiet /\ event'[x].id = event[x].id
        BY <3>1, <3>3, <3>5
      <4> QED
        BY <2>0, <3>1, <4>1, <4>2 DEF EventsAreNew
    <3>8. WriterHoldsTheEnd'
      <4>1. \A x \in Emitters \ {e} : event[x] # Quiet => event[x].step # "linked"
        BY <2>0, <3>1 DEF WriterHoldsTheEnd
      <4> QED
        BY <3>1, <3>3, <3>5, <4>1 DEF WriterHoldsTheEnd, HashOfLast
    <3> QED
      BY <3>4, <3>6, <3>7, <3>8 DEF TrailInv
  <2>3. ASSUME NEW e \in Emitters, InsertRow(e)
        PROVE  TrailInv'
    BY <2>3, RowIsAppended
  <2>4. ASSUME NEW e \in Emitters, FailEmit(e)
        PROVE  TrailInv'
    <3>1. /\ writer' = IF writer = e THEN NoEmitter ELSE writer
          /\ event' = [event EXCEPT ![e] = Quiet]
          /\ UNCHANGED <<trail, lastSeq, auditNow, emitted, pruned>>
      BY <2>4 DEF FailEmit, tableVars
    <3>2. RowsAreNumbered' /\ RowsNameTheRowBefore'
      BY <2>0, <3>1, TableRests
    <3>3. \A x \in Emitters : event'[x] = IF x = e THEN Quiet ELSE event[x]
      BY <2>0, <3>1 DEF EventsAreNew
    <3>4. AuditTypeOK'
      BY <2>0, <3>1, <3>3 DEF AuditTypeOK
    <3>5. EventsAreNew'
      <4>1. event' \in [Emitters -> {Quiet} \cup Pending]
        BY <2>0, <3>1 DEF EventsAreNew
      <4> QED
        BY <2>0, <3>1, <3>3, <4>1 DEF EventsAreNew
    <3>6. WriterHoldsTheEnd'
      BY <2>0, <3>1, <3>3 DEF WriterHoldsTheEnd, HashOfLast
    <3> QED
      BY <3>2, <3>4, <3>5, <3>6 DEF TrailInv
  <2>5. ASSUME NEW cutoff \in 1..auditNow, Prune(cutoff)
        PROVE  TrailInv'
    BY <2>5, RowsArePruned
  <2>6. CASE AuditTick
    <3>1. UNCHANGED <<trail, lastSeq, writer, event, emitted, pruned>>
          /\ auditNow' \in 0..MaxAuditNow
      BY <2>0, <2>6 DEF AuditTick, tableVars, AuditTypeOK
    <3>2. RowsAreNumbered' /\ RowsNameTheRowBefore'
      BY <2>0, <3>1, TableRests
    <3> QED
      BY <2>0, <3>1, <3>2
         DEF TrailInv, AuditTypeOK, EventsAreNew, WriterHoldsTheEnd, HashOfLast
  <2>7. CASE UNCHANGED auditVars
    <3>1. UNCHANGED <<trail, lastSeq, writer, event, emitted, pruned, auditNow>>
      BY <2>7 DEF auditVars
    <3>2. RowsAreNumbered' /\ RowsNameTheRowBefore'
      BY <2>0, <3>1, TableRests
    <3> QED
      BY <2>0, <3>1, <3>2
         DEF TrailInv, AuditTypeOK, EventsAreNew, WriterHoldsTheEnd, HashOfLast
  <2> QED
    BY <2>0, <2>1, <2>2, <2>3, <2>4, <2>5, <2>6, <2>7 DEF AuditNext
<1> QED
  BY <1>1, <1>2, PTL DEF Spec

\* The services' state keeps its types, and the audit trail breaks where rows
\* were pruned and nowhere else.
THEOREM TrailHoldsAlways == Spec => []TrailHolds
<1>1. ClusterInv => ClusterTypeOK
  BY DEF ClusterInv
<1>2. AccountsInv => AccountsTypeOK
  BY DEF AccountsInv, RowsTypeOK, Rates, BucketsFit, Grants, AccountsTypeOK
<1>3. RepoInv => RepoTypeOK
  BY DEF RepoInv, RowsOfRepo, RepoTypeOK, PreviewRow, PullRow
<1>4. TrailInv => AuditTypeOK /\ BreaksOnlyWherePruned
  BY BreaksAreKnown DEF TrailInv
<1>5. ClusterInv /\ AccountsInv /\ RepoInv /\ TrailInv => TrailHolds
  BY <1>1, <1>2, <1>3, <1>4 DEF TrailHolds, ServicesTypeOK
<1> QED
  BY <1>5, ClusterInvariant, AccountsInvariant, RepoInvariant, TrailInvariant, PTL
=============================================================================
