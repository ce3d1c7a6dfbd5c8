---------------------------- MODULE DesktopProofs ----------------------------
(***************************************************************************)
(* Theorems about the desktop's components side by side (MCDesktop), for   *)
(* every set of threads, grants, tokens, sessions, alerts and requests and *)
(* every cap.                                                              *)
(***************************************************************************)
EXTENDS MCDesktop, FiniteSetTheorems, SequenceTheorems, WellFoundedInduction, TLAPS

\* A step of the composition is, for each component, a step of it or a stutter.
LEMMA StepOfEach ==
    ASSUME [Next]_vars
    PROVE  /\ [ConfigNext]_configVars
           /\ [EditsNext]_editsVars
           /\ [AlertsNext]_alertsVars
           /\ [ShellNext]_shellVars
  BY DEF Next, vars

-----------------------------------------------------------------------------
(* The settings file.  A grant is gone when neither the file nor anything  *)
(* a thread is about to write holds it.  The grants never issued and those *)
(* whose revocation settled are gone, and so is one that is being added,   *)
(* until it is appended.                                                   *)

Storing(s) == saver[s] \in {"opening", "writing"}

Gone(g) ==
    /\ g \notin Load.grants
    /\ \A s \in Savers :
          /\ Holding(s) /\ ~SetsUrl(s) => g \notin change[s].grants
          /\ Storing(s) => g \notin merged[s].grants

(* What a thread carries agrees with where it is. *)
CopiesFit ==
    \A s \in Savers :
        /\ saver[s] = "idle" => job[s] = NoGrant
        /\ Holding(s) => change[s] \in Change
        /\ Holding(s) /\ SetsUrl(s) => job[s] = NoGrant
        /\ Storing(s) /\ SetsUrl(s) => merged[s].url = change[s].url
        /\ Storing(s) /\ ~SetsUrl(s) => merged[s].grants = change[s].grants

UnissuedIsGone == \A g \in Grants \ issued : Gone(g) /\ \A s \in Savers : job[s] # g

AddedIsGone ==
    \A s \in Savers : saver[s] = "adding" =>
        /\ job[s] \in Grants \ settled
        /\ Gone(job[s])
        /\ \A x \in Savers \ {s} : job[x] # job[s]

SettledIsGone == \A g \in settled : Gone(g)

StandingIsStored ==
    standing # NoChange =>
        /\ file # Corrupt => file.url = standing
        /\ file = Corrupt => \E s \in Savers : saver[s] = "writing"
        /\ \A s \in Savers : Storing(s) /\ ~SetsUrl(s) =>
              \/ merged[s].url = standing
              \/ \E x \in Savers \ {s} : saver[x] = "writing"

ConfigInv ==
    /\ ConfigTypeOK
    /\ CopiesFit
    /\ UnissuedIsGone /\ AddedIsGone /\ SettledIsGone
    /\ StandingIsStored

LEMMA ConfigStart ==
    ASSUME ConfigInit
    PROVE  ConfigInv
  BY ConfigAssumption DEF ConfigInit, ConfigInv, ConfigTypeOK, CopiesFit, UnissuedIsGone,
     AddedIsGone, SettledIsGone, StandingIsStored, Gone, Holding, Storing, Load, Config,
     Defaults, Stages

\* load always answers with settings.
LEMMA LoadTyped ==
    ASSUME ConfigTypeOK
    PROVE  Load \in Config
  BY ConfigAssumption DEF ConfigTypeOK, Load, Config, Defaults

\* An update of the grants is not one of the URL.
LEMMA ChangeOfGrants ==
    ASSUME NEW S \in SUBSET Grants
    PROVE  [grants |-> S] \in Change /\ [grants |-> S] \notin [url : Urls]
<1>1. "grants" \in DOMAIN [grants |-> S]
  OBVIOUS
<1>2. \A r \in [url : Urls] : "grants" \notin DOMAIN r
  OBVIOUS
<1> QED
  BY <1>1, <1>2 DEF Change

\* What save will write carries the update, and the rest as it was stored.
LEMMA MergedTyped ==
    ASSUME ConfigTypeOK, NEW s \in Savers, change[s] \in Change
    PROVE  /\ MergedWith(s) \in Config
           /\ SetsUrl(s) => /\ MergedWith(s).url = change[s].url
                            /\ MergedWith(s).grants = Load.grants
           /\ ~SetsUrl(s) => /\ MergedWith(s).grants = change[s].grants
                             /\ MergedWith(s).url = Load.url
<1>1. Load \in Config
  BY LoadTyped
<1>2. CASE SetsUrl(s)
  BY <1>1, <1>2 DEF MergedWith, Config, SetsUrl
<1>3. CASE ~SetsUrl(s)
  BY <1>1, <1>3 DEF MergedWith, Config, SetsUrl, Change
<1> QED
  BY <1>2, <1>3

LEMMA ConfigTyped ==
    ASSUME ConfigInv, ConfigNext
    PROVE  ConfigTypeOK'
<1>1. Load \in Config /\ Defaults \in Config
  BY LoadTyped, ConfigAssumption DEF ConfigInv, Defaults, Config
<1> USE ConfigAssumption DEF ConfigInv, ConfigTypeOK, Stages
<1>2. ASSUME NEW s \in Savers, NEW g \in Grants, AddGrant(s, g)
      PROVE  ConfigTypeOK'
  BY <1>2 DEF AddGrant
<1>3. ASSUME NEW s \in Savers, NEW g \in Grants, RevokeGrant(s, g) \/ Touch(s, g)
      PROVE  ConfigTypeOK'
  BY <1>1, <1>3 DEF RevokeGrant, Touch, Submit, Kept, Change, Config
<1>4. ASSUME NEW s \in Savers, NEW u \in Urls, SetUrl(s, u)
      PROVE  ConfigTypeOK'
  BY <1>4 DEF SetUrl, Submit, Change
<1>5. ASSUME NEW s \in Savers, AppendGrant(s)
      PROVE  ConfigTypeOK'
  BY <1>1, <1>5 DEF AppendGrant, Submit, Change, Config, AddedIsGone
<1>6. ASSUME NEW s \in Savers, Merge(s)
      PROVE  ConfigTypeOK'
  <2>1. MergedWith(s) \in Config
    BY <1>6, MergedTyped DEF Merge, CopiesFit, Holding
  <2> QED
    BY <1>6, <2>1 DEF Merge
<1>7. ASSUME NEW s \in Savers, Truncate(s)
      PROVE  ConfigTypeOK'
  BY <1>7 DEF Truncate
<1>8. ASSUME NEW s \in Savers, Return(s), UNCHANGED issued,
             file' \in Config \cup {Corrupt}, settled' \subseteq revoked',
             revoked' \subseteq issued, standing' \in Urls \cup {NoChange}
      PROVE  ConfigTypeOK'
  BY <1>1, <1>8 DEF Return
<1>9. ASSUME NEW s \in Savers, Write(s)
      PROVE  ConfigTypeOK'
  <2>1. file' \in Config \cup {Corrupt}
    BY <1>9 DEF Write, Written
  <2>2. job[s] # NoGrant => job[s] \in issued
    BY DEF UnissuedIsGone
  <2>3. revoked' \subseteq issued /\ settled' \subseteq revoked'
    BY <1>9, <2>2 DEF Write, Revokes
  <2>4. SetsUrl(s) => change[s].url \in Urls
    BY DEF SetsUrl
  <2>5. standing' \in Urls \cup {NoChange}
    BY <1>9, <2>4 DEF Write
  <2> QED
    BY <1>8, <1>9, <2>1, <2>3, <2>5 DEF Write
<1>10. ASSUME NEW s \in Savers, FailWrite(s)
       PROVE  ConfigTypeOK'
  BY <1>8, <1>10 DEF FailWrite
<1>11. CASE Quit
  BY <1>1, <1>11 DEF Quit
<1> QED
  BY <1>2, <1>3, <1>4, <1>5, <1>6, <1>7, <1>9, <1>10, <1>11 DEF ConfigNext

LEMMA CopiesFitStill ==
    ASSUME ConfigInv, ConfigNext
    PROVE  CopiesFit'
<1>1. Load \in Config
  BY LoadTyped DEF ConfigInv
<1>2. ASSUME NEW s \in Savers, NEW g \in Grants \cup {NoGrant}, NEW c \in Change,
             Submit(s, g, c), c \in [url : Urls] => g = NoGrant
      PROVE  CopiesFit'
  BY <1>2 DEF ConfigInv, ConfigTypeOK, Submit, CopiesFit, Holding, SetsUrl, Storing
<1>3. ASSUME NEW s \in Savers, Return(s)
      PROVE  CopiesFit'
  BY <1>3 DEF ConfigInv, ConfigTypeOK, Return, CopiesFit, Holding, SetsUrl, Storing
<1>4. ASSUME NEW s \in Savers, NEW g \in Grants, AddGrant(s, g)
      PROVE  CopiesFit'
  BY <1>4 DEF ConfigInv, ConfigTypeOK, AddGrant, CopiesFit, Holding, SetsUrl, Storing
<1>5. ASSUME NEW s \in Savers, NEW g \in Grants, RevokeGrant(s, g)
      PROVE  CopiesFit'
  <2>1. Kept(g) \in SUBSET Grants
    BY <1>1 DEF Kept, Config
  <2> QED
    BY <1>2, <1>5, <2>1, ChangeOfGrants DEF RevokeGrant
<1>6. ASSUME NEW s \in Savers, NEW g \in Grants, Touch(s, g)
      PROVE  CopiesFit'
  <2>1. Load.grants \in SUBSET Grants
    BY <1>1 DEF Config
  <2> QED
    BY <1>2, <1>6, <2>1, ChangeOfGrants DEF Touch
<1>7. ASSUME NEW s \in Savers, NEW u \in Urls, SetUrl(s, u)
      PROVE  CopiesFit'
  BY <1>2, <1>7 DEF SetUrl, Change
<1>8. ASSUME NEW s \in Savers, AppendGrant(s)
      PROVE  CopiesFit'
  <2>1. job[s] \in Grants /\ Load.grants \cup {job[s]} \in SUBSET Grants
    BY <1>1, <1>8 DEF Config, AppendGrant, ConfigInv, AddedIsGone
  <2> QED
    BY <1>2, <1>8, <2>1, ChangeOfGrants DEF AppendGrant
<1>9. ASSUME NEW s \in Savers, Merge(s)
      PROVE  CopiesFit'
  <2>1. change[s] \in Change
    BY <1>9 DEF Merge, ConfigInv, CopiesFit, Holding
  <2> HIDE DEF MergedWith
  <2> QED
    BY <1>9, <2>1, MergedTyped DEF ConfigInv, ConfigTypeOK, Merge, CopiesFit, Holding, SetsUrl, Storing
<1>10. ASSUME NEW s \in Savers, Truncate(s)
       PROVE  CopiesFit'
  BY <1>10 DEF ConfigInv, ConfigTypeOK, Truncate, CopiesFit, Holding, SetsUrl, Storing
<1>11. CASE Quit
  BY <1>11 DEF Quit, CopiesFit, Holding, Storing
<1> QED
  BY <1>3, <1>4, <1>5, <1>6, <1>7, <1>8, <1>9, <1>10, <1>11
  DEF ConfigNext, Write, FailWrite

\* A grant that is gone comes back only by being added.
LEMMA GoneStays ==
    ASSUME ConfigInv, ConfigNext, NEW g \in Grants, Gone(g),
           \A s \in Savers : AppendGrant(s) => job[s] # g
    PROVE  Gone(g)'
<1>1. Load \in Config /\ \A s \in Savers : g \notin Defaults.grants
  BY LoadTyped DEF ConfigInv, Defaults
<1>2. ASSUME NEW s \in Savers, NEW h, NEW S \in SUBSET Grants, g \notin S,
             Submit(s, h, [grants |-> S])
      PROVE  Gone(g)'
  BY <1>2 DEF ConfigInv, ConfigTypeOK, Submit, Gone, Load, Holding, SetsUrl, Storing
<1>3. ASSUME NEW s \in Savers, Return(s), file' # Corrupt => g \notin file'.grants
      PROVE  Gone(g)'
  BY <1>1, <1>3 DEF ConfigInv, ConfigTypeOK, Return, Gone, Load, Holding, SetsUrl, Storing
<1>4. ASSUME NEW s \in Savers, NEW h \in Grants, AddGrant(s, h)
      PROVE  Gone(g)'
  BY <1>4 DEF ConfigInv, ConfigTypeOK, AddGrant, Gone, Load, Holding, SetsUrl, Storing
<1>5. ASSUME NEW s \in Savers, NEW h \in Grants, RevokeGrant(s, h)
      PROVE  Gone(g)'
  <2>1. Kept(h) \in SUBSET Grants /\ g \notin Kept(h)
    BY <1>1 DEF Kept, Config, Gone
  <2> QED
    BY <1>2, <1>5, <2>1 DEF RevokeGrant
<1>6. ASSUME NEW s \in Savers, NEW h \in Grants, Touch(s, h)
      PROVE  Gone(g)'
  <2>1. Load.grants \in SUBSET Grants /\ g \notin Load.grants
    BY <1>1 DEF Config, Gone
  <2> QED
    BY <1>2, <1>6, <2>1 DEF Touch
<1>7. ASSUME NEW s \in Savers, NEW u \in Urls, SetUrl(s, u)
      PROVE  Gone(g)'
  BY <1>7 DEF ConfigInv, ConfigTypeOK, SetUrl, Submit, Gone, Load, Holding, SetsUrl, Storing
<1>8. ASSUME NEW s \in Savers, AppendGrant(s)
      PROVE  Gone(g)'
  <2>1. Load.grants \cup {job[s]} \in SUBSET Grants /\ g \notin Load.grants \cup {job[s]}
    BY <1>1, <1>8 DEF Config, AppendGrant, ConfigInv, AddedIsGone, Gone
  <2> QED
    BY <1>2, <1>8, <2>1 DEF AppendGrant
<1>9. ASSUME NEW s \in Savers, Merge(s)
      PROVE  Gone(g)'
  <2>1. change[s] \in Change /\ Holding(s)
    BY <1>9 DEF Merge, ConfigInv, CopiesFit, Holding
  <2>2. g \notin MergedWith(s).grants
    BY <2>1, MergedTyped DEF ConfigInv, Gone
  <2> HIDE DEF MergedWith
  <2> QED
    BY <1>9, <2>2 DEF ConfigInv, ConfigTypeOK, Merge, Gone, Load, Holding, SetsUrl, Storing
<1>10. ASSUME NEW s \in Savers, Truncate(s)
       PROVE  Gone(g)'
  BY <1>1, <1>10 DEF ConfigInv, ConfigTypeOK, Truncate, Gone, Load, Holding, SetsUrl, Storing
<1>11. ASSUME NEW s \in Savers, Write(s)
       PROVE  Gone(g)'
  <2>1. file' # Corrupt => file' = merged[s]
    BY <1>11 DEF Write, Written
  <2>2. Storing(s)
    BY <1>11 DEF Write, Storing
  <2> QED
    BY <1>3, <1>11, <2>1, <2>2 DEF Write, Gone
<1>12. ASSUME NEW s \in Savers, FailWrite(s)
       PROVE  Gone(g)'
  BY <1>3, <1>12 DEF FailWrite, Gone, Load
<1>13. CASE Quit
  BY <1>13 DEF Quit, Gone, Load, Holding, Storing
<1> QED
  BY <1>4, <1>5, <1>6, <1>7, <1>8, <1>9, <1>10, <1>11, <1>12, <1>13 DEF ConfigNext

\* A grant being appended was issued and its revocation has not settled.
LEMMA AppendedIsLive ==
    ASSUME ConfigInv, NEW s \in Savers, AppendGrant(s)
    PROVE  job[s] \in issued \ settled
  BY DEF ConfigInv, ConfigTypeOK, AppendGrant, AddedIsGone, UnissuedIsGone

\* What a step does to the jobs: one begins, stays where it is, or ends.
LEMMA JobsOfAStep ==
    ASSUME ConfigInv, ConfigNext, NEW s \in Savers
    PROVE  \/ job'[s] = job[s] /\ saver'[s] = saver[s]
           \/ job'[s] = job[s] /\ saver'[s] # "adding"
           \/ job'[s] = NoGrant /\ saver'[s] # "adding"
           \/ \E g \in Grants : RevokeGrant(s, g) /\ job'[s] = g /\ saver'[s] # "adding"
           \/ \E g \in Grants : AddGrant(s, g) /\ job'[s] = g
<1> USE DEF ConfigInv, ConfigTypeOK
<1>1. ASSUME NEW x \in Savers, NEW g \in Grants, AddGrant(x, g) \/ RevokeGrant(x, g) \/ Touch(x, g)
      PROVE  \/ job'[s] = job[s] /\ saver'[s] = saver[s]
             \/ job'[s] = NoGrant /\ saver'[s] # "adding"
             \/ RevokeGrant(s, g) /\ job'[s] = g /\ saver'[s] # "adding"
             \/ AddGrant(s, g) /\ job'[s] = g
  BY <1>1 DEF AddGrant, RevokeGrant, Touch, Submit
<1>2. ASSUME NEW x \in Savers, NEW u \in Urls, SetUrl(x, u)
      PROVE  \/ job'[s] = job[s] /\ saver'[s] = saver[s]
             \/ job'[s] = NoGrant /\ saver'[s] # "adding"
  BY <1>2 DEF SetUrl, Submit
<1>3. ASSUME NEW x \in Savers,
             AppendGrant(x) \/ Merge(x) \/ Truncate(x) \/ Write(x) \/ FailWrite(x)
      PROVE  \/ job'[s] = job[s] /\ saver'[s] = saver[s]
             \/ job'[s] = job[s] /\ saver'[s] # "adding"
             \/ job'[s] = NoGrant /\ saver'[s] # "adding"
  BY <1>3 DEF AppendGrant, Merge, Truncate, Write, FailWrite, Submit, Return
<1>4. CASE Quit
  BY <1>4 DEF Quit
<1> QED
  BY <1>1, <1>2, <1>3, <1>4 DEF ConfigNext

LEMMA IssuedGrows ==
    ASSUME ConfigNext
    PROVE  issued \subseteq issued'
  BY DEF ConfigNext, AddGrant, RevokeGrant, Touch, SetUrl, AppendGrant, Merge, Truncate,
     Write, FailWrite, Quit

LEMMA UnissuedIsGoneStill ==
    ASSUME ConfigInv, ConfigNext
    PROVE  UnissuedIsGone'
<1> SUFFICES ASSUME NEW g \in Grants \ issued'
             PROVE  Gone(g)' /\ \A s \in Savers : job'[s] # g
  BY DEF UnissuedIsGone
<1>1. g \notin issued /\ Gone(g) /\ \A s \in Savers : job[s] # g
  BY IssuedGrows DEF ConfigInv, UnissuedIsGone
<1>2. Gone(g)'
  BY <1>1, GoneStays
<1>3. ASSUME NEW s \in Savers
      PROVE  job'[s] # g
  <2>1. ASSUME NEW h \in Grants, RevokeGrant(s, h) \/ AddGrant(s, h)
        PROVE  h # g
    BY <1>1, <2>1 DEF RevokeGrant, AddGrant, Gone
  <2> QED
    BY <1>1, <2>1, JobsOfAStep, ConfigAssumption
<1> QED
  BY <1>2, <1>3

LEMMA AddedIsGoneStill ==
    ASSUME ConfigInv, ConfigNext
    PROVE  AddedIsGone'
<1> SUFFICES ASSUME NEW s \in Savers, saver'[s] = "adding"
             PROVE  /\ job'[s] \in Grants \ settled'
                    /\ Gone(job[s])'
                    /\ \A x \in Savers \ {s} : job'[x] # job'[s]
  BY DEF AddedIsGone
<1>1. ASSUME NEW g \in Grants, AddGrant(s, g), job'[s] = g
      PROVE  /\ job'[s] \in Grants \ settled'
             /\ Gone(job[s])'
             /\ \A x \in Savers \ {s} : job'[x] # job'[s]
  <2>1. g \notin issued /\ Gone(g) /\ \A x \in Savers : job[x] # g
    BY <1>1 DEF AddGrant, ConfigInv, UnissuedIsGone
  <2>2. Gone(g)'
    <3>1. \A x \in Savers : AppendGrant(x) => job[x] # g
      BY <2>1
    <3> QED
      BY <2>1, <3>1, GoneStays
  <2>3. \A x \in Savers \ {s} : job'[x] = job[x]
    BY <1>1 DEF AddGrant, ConfigInv, ConfigTypeOK
  <2>4. settled' = settled /\ g \notin settled
    BY <1>1, <2>1 DEF AddGrant, ConfigInv, ConfigTypeOK
  <2>5. Gone(job[s])'
    BY <1>1, <2>2 DEF Gone
  <2> QED
    BY <1>1, <2>1, <2>3, <2>4, <2>5
<1>2. CASE job'[s] = job[s] /\ saver'[s] = saver[s]
  <2>1. job[s] \in Grants \ settled /\ Gone(job[s]) /\ \A x \in Savers \ {s} : job[x] # job[s]
    BY <1>2 DEF ConfigInv, AddedIsGone
  <2>2. job[s] \in issued
    BY <2>1 DEF ConfigInv, UnissuedIsGone
  <2>3. ~AppendGrant(s)
    BY <1>2 DEF AppendGrant, Submit, ConfigInv, ConfigTypeOK
  <2>4. PICK g \in Grants : g = job[s]
    BY <2>1
  <2>5. Gone(g)'
    <3>1. \A x \in Savers : AppendGrant(x) => job[x] # g
      BY <2>1, <2>3, <2>4
    <3> QED
      BY <2>1, <2>4, <3>1, GoneStays
  <2>6. ASSUME NEW x \in Savers \ {s}
        PROVE  job'[x] # g
    <3>1. ASSUME NEW h \in Grants, RevokeGrant(x, h)
          PROVE  h # g
      BY <2>1, <2>4, <3>1 DEF RevokeGrant, Gone
    <3>2. ASSUME NEW h \in Grants, AddGrant(x, h)
          PROVE  h # g
      BY <2>2, <2>4, <3>2 DEF AddGrant
    <3> QED
      BY <2>1, <2>4, <3>1, <3>2, JobsOfAStep, ConfigAssumption
  <2>7. g \notin settled'
    <3>1. settled' = settled \/ \E x \in Savers : settled' = settled \cup {job[x]} /\ saver[x] = "writing"
      BY DEF ConfigNext, AddGrant, RevokeGrant, Touch, SetUrl, AppendGrant, Submit, Merge, Truncate,
             Write, FailWrite, Quit
    <3> QED
      BY <1>2, <2>1, <2>4, <3>1
  <2>8. Gone(job[s])'
    BY <1>2, <2>4, <2>5 DEF Gone
  <2> QED
    BY <1>2, <2>4, <2>6, <2>7, <2>8
<1> QED
  BY <1>1, <1>2, JobsOfAStep

LEMMA SettledIsGoneStill ==
    ASSUME ConfigInv, ConfigNext
    PROVE  SettledIsGone'
<1> SUFFICES ASSUME NEW g \in settled'
             PROVE  Gone(g)'
  BY DEF SettledIsGone
<1>1. CASE g \in settled
  <2>1. g \in Grants /\ Gone(g)
    BY <1>1 DEF ConfigInv, ConfigTypeOK, SettledIsGone
  <2>2. \A s \in Savers : AppendGrant(s) => job[s] # g
    BY <1>1, AppendedIsLive
  <2> QED
    BY <2>1, <2>2, GoneStays
<1>2. CASE g \notin settled
  <2>1. PICK s \in Savers : Write(s) /\ Revokes(s) /\ Alone(s) /\ g = job[s]
    BY <1>2 DEF ConfigNext, AddGrant, RevokeGrant, Touch, SetUrl, AppendGrant, Submit, Merge,
           Truncate, Write, FailWrite, Quit
  <2>2. Holding(s) /\ Storing(s)
    BY <2>1 DEF Write, Holding, Storing
  <2>3. g \notin merged[s].grants
    BY <2>1, <2>2 DEF ConfigInv, CopiesFit, Revokes
  <2>4. file' = merged[s] \/ file' = Corrupt
    BY <2>1 DEF Write, Written
  <2>5. g \notin Load'.grants
    BY <2>3, <2>4 DEF Load, Defaults
  <2>6. \A x \in Savers : saver'[x] \notin {"merging", "opening", "writing"}
    BY <2>1 DEF Write, Return, Alone, Holding, ConfigInv, ConfigTypeOK
  <2> QED
    BY <2>5, <2>6 DEF Gone, Holding, Storing
<1> QED
  BY <1>1, <1>2

LEMMA StandingIsStoredStill ==
    ASSUME ConfigInv, ConfigNext
    PROVE  StandingIsStored'
<1> SUFFICES ASSUME standing' # NoChange
             PROVE  StandingIsStored'
  BY DEF StandingIsStored
<1>1. Load \in Config
  BY LoadTyped DEF ConfigInv
<1>2. ASSUME NEW s \in Savers, UNCHANGED <<file, standing, merged>>, ~Storing(s),
             saver'[s] \notin {"opening", "writing"},
             \A x \in Savers \ {s} : saver'[x] = saver[x] /\ change'[x] = change[x]
      PROVE  StandingIsStored'
  BY <1>2 DEF ConfigInv, ConfigTypeOK, StandingIsStored, Storing, SetsUrl
<1>3. ASSUME NEW s \in Savers, NEW g \in Grants,
             AddGrant(s, g) \/ RevokeGrant(s, g) \/ Touch(s, g)
      PROVE  StandingIsStored'
  BY <1>2, <1>3 DEF ConfigInv, ConfigTypeOK, AddGrant, RevokeGrant, Touch, Submit, Storing
<1>4. ASSUME NEW s \in Savers, NEW u \in Urls, SetUrl(s, u)
      PROVE  StandingIsStored'
  BY <1>2, <1>4 DEF ConfigInv, ConfigTypeOK, SetUrl, Submit, Storing
<1>5. ASSUME NEW s \in Savers, AppendGrant(s)
      PROVE  StandingIsStored'
  BY <1>2, <1>5 DEF ConfigInv, ConfigTypeOK, AppendGrant, Submit, Storing
<1>6. ASSUME NEW s \in Savers, Merge(s)
      PROVE  StandingIsStored'
  <2>1. change[s] \in Change
    BY <1>6 DEF Merge, ConfigInv, CopiesFit, Holding
  <2>2. ~SetsUrl(s) => MergedWith(s).url = Load.url
    BY <2>1, MergedTyped DEF ConfigInv
  <2>3. file = Corrupt => \E x \in Savers \ {s} : saver[x] = "writing"
    BY <1>6 DEF Merge, ConfigInv, StandingIsStored
  <2>4. file # Corrupt => Load.url = standing
    BY <1>6 DEF Merge, ConfigInv, StandingIsStored, Load
  <2> HIDE DEF MergedWith
  <2> QED
    BY <1>6, <2>2, <2>3, <2>4 DEF Merge, ConfigInv, ConfigTypeOK, StandingIsStored, Storing, SetsUrl
<1>7. ASSUME NEW s \in Savers, Truncate(s)
      PROVE  StandingIsStored'
  <2>1. saver'[s] = "writing"
    BY <1>7 DEF Truncate, ConfigInv, ConfigTypeOK
  <2> QED
    BY <1>7, <2>1 DEF Truncate, ConfigInv, ConfigTypeOK, StandingIsStored, Storing, SetsUrl
<1>8. ASSUME NEW s \in Savers, Write(s)
      PROVE  StandingIsStored'
  <2>1. file' = merged[s] /\ file' # Corrupt /\ Alone(s)
    BY <1>8 DEF Write, Written
  <2>2. \A x \in Savers : saver'[x] \notin {"opening", "writing"}
    BY <1>8, <2>1 DEF Write, Return, Alone, Holding, ConfigInv, ConfigTypeOK
  <2>3. file'.url = standing'
    <3>1. CASE SetsUrl(s)
      BY <1>8, <2>1, <3>1 DEF Write, ConfigInv, CopiesFit, Storing
    <3>2. CASE ~SetsUrl(s)
      <4>1. standing' = standing
        BY <1>8, <2>1, <3>2 DEF Write
      <4>2. merged[s].url = standing \/ \E x \in Savers \ {s} : saver[x] = "writing"
        BY <1>8, <3>2, <4>1 DEF Write, ConfigInv, StandingIsStored, Storing
      <4> QED
        BY <2>1, <4>1, <4>2 DEF Alone, Holding
    <3> QED
      BY <3>1, <3>2
  <2> QED
    BY <2>1, <2>2, <2>3 DEF StandingIsStored, Storing
<1>9. ASSUME NEW s \in Savers, FailWrite(s)
      PROVE  StandingIsStored'
  BY <1>9 DEF FailWrite
<1>10. CASE Quit
  BY <1>10 DEF Quit, ConfigInv, StandingIsStored, Storing
<1> QED
  BY <1>3, <1>4, <1>5, <1>6, <1>7, <1>8, <1>9, <1>10 DEF ConfigNext

LEMMA ConfigRests ==
    ASSUME ConfigInv, UNCHANGED configVars
    PROVE  ConfigInv'
  BY DEF ConfigInv, ConfigTypeOK, CopiesFit, UnissuedIsGone, AddedIsGone, SettledIsGone,
     StandingIsStored, Gone, Load, Holding, Storing, SetsUrl, configVars

LEMMA ConfigSound ==
    ASSUME ConfigInv
    PROVE  SettledRevocationHolds /\ LoneSettingStands
<1>1. SettledRevocationHolds
  BY DEF ConfigInv, SettledIsGone, Gone, SettledRevocationHolds
<1>2. LoneSettingStands
  BY DEF ConfigInv, StandingIsStored, LoneSettingStands, Load
<1> QED
  BY <1>1, <1>2

LEMMA ConfigHolds == Spec => []ConfigInv
<1>1. Init => ConfigInv
  BY ConfigStart DEF Init
<1>2. ConfigInv /\ [Next]_vars => ConfigInv'
  <2> SUFFICES ASSUME ConfigInv, [Next]_vars
               PROVE  ConfigInv'
    OBVIOUS
  <2>1. CASE ConfigNext
    BY <2>1, ConfigTyped, CopiesFitStill, UnissuedIsGoneStill, AddedIsGoneStill,
       SettledIsGoneStill, StandingIsStoredStill DEF ConfigInv
  <2>2. CASE UNCHANGED configVars
    BY <2>2, ConfigRests
  <2> QED
    BY <2>1, <2>2, StepOfEach
<1> QED
  BY <1>1, <1>2, PTL DEF Spec

-----------------------------------------------------------------------------
(* The proposed edits.  A token is in one place: unminted, pending, with   *)
(* the one worker that popped it, or used up.  A worker that has verified  *)
(* the file and not seen it move still finds it as the user reviewed it.   *)

Applying(w) == worker[w] \in {"popped", "permitted", "verified"}
Unused(t) == applied[t] = 0 /\ t \notin discarded

WorkersFit ==
    \A w \in Workers :
        /\ worker[w] \in {"evaluating", "validating"} => asker[w] \in Sessions
        /\ worker[w] = "validating" \/ Applying(w) => edit[w] \in Edit
        /\ Applying(w) => edit[w].token \in minted

TokensInOnePlace ==
    /\ \A t \in Tokens : t \notin minted \/ pending[t] # NoToken => Unused(t)
    /\ \A t \in Tokens : pending[t] # NoToken =>
          /\ pending[t].token = t
          /\ t \in minted
          /\ \A w \in Workers : Applying(w) => edit[w].token # t
    /\ \A w \in Workers : Applying(w) =>
          /\ Unused(edit[w].token)
          /\ \A x \in Workers \ {w} : Applying(x) => edit[x].token # edit[w].token

VerifiedIsReviewed ==
    \A w \in Workers :
        worker[w] = "verified" => moved[w] \/ disk = edit[w].before

AnswersCounted ==
    /\ \A i \in DOMAIN attempts : answers[attempts[i].key] <= attempts[i].count
    /\ \A k \in Keys : k \notin Known(attempts) => answers[k] = 0

EditsInv ==
    /\ EditsTypeOK
    /\ WorkersFit
    /\ TokensInOnePlace
    /\ TokenUsedOnce
    /\ VerifiedIsReviewed
    /\ AnswersCounted
    /\ AnswersBounded

LEMMA CapTyped ==
    ASSUME NEW k \in Keys
    PROVE  Cap(k) \in Nat
  BY EditsAssumption DEF Cap, Keys

LEMMA EditsStart ==
    ASSUME EditsInit
    PROVE  EditsInv
<1>1. EditsTypeOK
  BY EditsAssumption DEF EditsInit, EditsTypeOK, Steps
<1>2. WorkersFit /\ TokensInOnePlace /\ TokenUsedOnce /\ VerifiedIsReviewed
  BY DEF EditsInit, WorkersFit, TokensInOnePlace, TokenUsedOnce, VerifiedIsReviewed,
     Applying, Unused
<1>3. AnswersCounted /\ AnswersBounded
  BY CapTyped DEF EditsInit, AnswersCounted, AnswersBounded
<1> QED
  BY <1>1, <1>2, <1>3 DEF EditsInv

\* What dropping a counter keeps.
LEMMA RemovedAt ==
    ASSUME NEW S, NEW s \in Seq(S), NEW p \in DOMAIN s
    PROVE  /\ RemoveAt(s, p) \in Seq(S)
           /\ Len(RemoveAt(s, p)) = Len(s) - 1
           /\ \A i \in 1..(p - 1) : RemoveAt(s, p)[i] = s[i]
           /\ \A i \in p..(Len(s) - 1) : RemoveAt(s, p)[i] = s[i + 1]
<1> DEFINE a == SubSeq(s, 1, p - 1)
           b == SubSeq(s, p + 1, Len(s))
<1>1. p \in 1..Len(s) /\ Len(s) \in Nat
  OBVIOUS
<1>2. a \in Seq(S) /\ Len(a) = p - 1 /\ \A i \in 1..(p - 1) : a[i] = s[i]
  BY <1>1
<1>3. b \in Seq(S) /\ Len(b) = Len(s) - p /\ \A i \in 1..(Len(s) - p) : b[i] = s[p + i]
  BY <1>1
<1>4. RemoveAt(s, p) = a \o b
  BY DEF RemoveAt
<1> HIDE DEF a, b
<1>5. a \o b \in Seq(S) /\ Len(a \o b) = Len(s) - 1
  BY <1>1, <1>2, <1>3
<1>6. ASSUME NEW i \in 1..(p - 1)
      PROVE  (a \o b)[i] = s[i]
  BY <1>1, <1>2, <1>3
<1>7. ASSUME NEW i \in p..(Len(s) - 1)
      PROVE  (a \o b)[i] = s[i + 1]
  <2>1. (a \o b)[i] = b[i - (p - 1)]
    BY <1>1, <1>2, <1>3
  <2>2. i - (p - 1) \in 1..(Len(s) - p) /\ p + (i - (p - 1)) = i + 1
    BY <1>1
  <2> QED
    BY <1>3, <2>1, <2>2
<1> QED
  BY <1>4, <1>5, <1>6, <1>7

\* The counter of a known key is one of its entries.
LEMMA PlaceOfKey ==
    ASSUME NEW k \in Known(attempts)
    PROVE  Place(k) \in DOMAIN attempts /\ attempts[Place(k)].key = k
  BY DEF Known, Place

LEMMA CountTyped ==
    ASSUME EditsTypeOK, NEW k
    PROVE  Count(k) \in Nat /\ (Count(k) > 0 <=> k \in Known(attempts))
<1>1. CASE k \in Known(attempts)
  <2>1. attempts[Place(k)] \in Counter
    BY <1>1, PlaceOfKey DEF EditsTypeOK
  <2> QED
    BY <1>1, <2>1 DEF Count, Counter
<1>2. CASE k \notin Known(attempts)
  BY <1>2 DEF Count
<1> QED
  BY <1>1, <1>2

\* What counting a failure does to the counters.
LEMMA BumpedCounters ==
    ASSUME EditsTypeOK, NEW k \in Keys
    PROVE  /\ Bumped(k) \in Seq(Counter)
           /\ Len(Bumped(k)) <= KeysCap
           /\ \A i \in DOMAIN Bumped(k) :
                 \/ \E j \in DOMAIN attempts :
                       /\ attempts[j].key = Bumped(k)[i].key
                       /\ Bumped(k)[i].count =
                             attempts[j].count + (IF attempts[j].key = k THEN 1 ELSE 0)
                 \/ k \notin Known(attempts) /\ Bumped(k)[i] = [key |-> k, count |-> 1]
<1> DEFINE raised == [i \in DOMAIN attempts |->
                         IF attempts[i].key = k
                         THEN [attempts[i] EXCEPT !.count = @ + 1] ELSE attempts[i]]
           longer == Append(attempts, [key |-> k, count |-> 1])
<1>1. attempts \in Seq(Counter) /\ Len(attempts) \in Nat /\ Len(attempts) <= KeysCap
  BY DEF EditsTypeOK
<1>4. \A i \in DOMAIN attempts : attempts[i] \in Counter
  BY <1>1
<1>5. \A c \in Counter : /\ c.key \in Keys /\ c.count \in Nat \ {0}
                         /\ [c EXCEPT !.count = @ + 1] \in Counter
                         /\ [c EXCEPT !.count = @ + 1].key = c.key
                         /\ [c EXCEPT !.count = @ + 1].count = c.count + 1
  BY DEF Counter
<1>2. CASE k \in Known(attempts)
  <2>1. Count(k) > 0
    BY <1>2, CountTyped
  <2>2. \A i \in DOMAIN attempts : raised[i] \in Counter
    BY <1>4, <1>5
  <2>3. raised \in Seq(Counter) /\ Len(raised) = Len(attempts)
    BY <1>1, <2>2
  <2>4. Bumped(k) = raised
    <3> HIDE DEF raised
    <3>1. Bumped(k) = IF Len(raised) > KeysCap
                      THEN SubSeq(raised, Len(raised) - KeysCap + 1, Len(raised)) ELSE raised
      BY <2>1 DEF Bumped, raised
    <3> QED
      BY <1>1, <2>3, <3>1, EditsAssumption
  <2>5. ASSUME NEW i \in DOMAIN attempts
        PROVE  /\ raised[i].key = attempts[i].key
               /\ raised[i].count = attempts[i].count + (IF attempts[i].key = k THEN 1 ELSE 0)
    <3>1. attempts[i] \in Counter
      BY <1>4
    <3>2. CASE attempts[i].key = k
      BY <1>5, <3>1, <3>2
    <3>3. CASE attempts[i].key # k
      <4>1. raised[i] = attempts[i]
        BY <3>3
      <4>2. attempts[i].count \in Nat
        BY <1>5, <3>1
      <4> HIDE DEF raised
      <4> QED
        BY <3>3, <4>1, <4>2
    <3> QED
      BY <3>2, <3>3
  <2>6. DOMAIN raised = DOMAIN attempts
    OBVIOUS
  <2> HIDE DEF raised
  <2> QED
    BY <1>1, <2>3, <2>4, <2>5, <2>6
<1>3. CASE k \notin Known(attempts)
  <2>1. Count(k) = 0
    BY <1>3 DEF Count
  <2>2. longer \in Seq(Counter) /\ Len(longer) = Len(attempts) + 1
    BY <1>1 DEF Counter
  <2>3. \A i \in 1..Len(longer) :
           IF i \in DOMAIN attempts THEN longer[i] = attempts[i]
           ELSE longer[i] = [key |-> k, count |-> 1]
    BY <1>1
  <2>4. \A i \in DOMAIN attempts : attempts[i].key # k /\ attempts[i].count \in Nat
    BY <1>3, <1>4, <1>5 DEF Known
  <2> DEFINE cut == SubSeq(longer, Len(longer) - KeysCap + 1, Len(longer))
  <2>5. Bumped(k) = IF Len(longer) > KeysCap THEN cut ELSE longer
    BY <2>1 DEF Bumped
  <2> HIDE DEF longer
  <2>6. CASE Len(longer) > KeysCap
    <3>1. Len(longer) = KeysCap + 1 /\ KeysCap \in Nat \ {0}
      BY <1>1, <2>2, <2>6, EditsAssumption
    <3>2. cut \in Seq(Counter) /\ Len(cut) = KeysCap /\ \A i \in 1..KeysCap : cut[i] = longer[i + 1]
      BY <2>2, <3>1
    <3>3. Bumped(k) = cut
      BY <2>5, <2>6
    <3> HIDE DEF cut
    <3>4. \A i \in DOMAIN cut : i \in 1..KeysCap /\ i + 1 \in 1..Len(longer)
      BY <3>1, <3>2
    <3> QED
      BY <1>3, <2>3, <2>4, <3>2, <3>3, <3>4, EditsAssumption
  <2>7. CASE ~(Len(longer) > KeysCap)
    <3>1. Bumped(k) = longer /\ Len(longer) <= KeysCap
      BY <2>2, <2>5, <2>7, EditsAssumption
    <3> QED
      BY <1>3, <2>2, <2>3, <2>4, <3>1
  <2> QED
    BY <2>6, <2>7
<1> QED
  BY <1>2, <1>3

LEMMA FailureCounted ==
    ASSUME EditsInv, NEW s \in Sessions, NEW h \in BOOLEAN, Failed(s, h)
    PROVE  /\ attempts' \in Seq(Counter) /\ Len(attempts') <= KeysCap
           /\ answers' \in [Keys -> Nat]
           /\ AnswersCounted' /\ AnswersBounded'
<1> DEFINE k == Key(s, h)
<1>1. k \in Keys
  BY DEF Key, Keys
<1> HIDE DEF k
<1>2. attempts' = Bumped(k)
  BY DEF Failed, k
<1>3. answers' = [x \in Keys |->
                     IF x \notin Known(attempts') THEN 0
                     ELSE IF x = k /\ Count(k) < Cap(k) THEN answers[x] + 1
                     ELSE answers[x]]
  BY DEF Failed, k
<1>4. Count(k) \in Nat /\ \A x \in Keys : Cap(x) \in Nat /\ answers[x] \in Nat /\ answers[x] <= Cap(x)
  BY CountTyped, CapTyped DEF EditsInv, EditsTypeOK, AnswersBounded
<1>5. answers' \in [Keys -> Nat]
  BY <1>3, <1>4
<1>6. answers[k] <= Count(k)
  <2>1. CASE k \in Known(attempts)
    BY <2>1, PlaceOfKey DEF EditsInv, AnswersCounted, Count
  <2>2. CASE k \notin Known(attempts)
    BY <1>1, <2>2 DEF EditsInv, AnswersCounted, Count
  <2> QED
    BY <2>1, <2>2
<1>7. ASSUME NEW x \in Keys
      PROVE  answers'[x] <= Cap(x)
  BY <1>1, <1>3, <1>4, <1>6
<1>8. ASSUME NEW x \in Keys
      PROVE  answers'[x] <= answers[x] + (IF x = k THEN 1 ELSE 0)
  BY <1>3, <1>4
<1>9. ASSUME NEW i \in DOMAIN attempts'
      PROVE  answers'[attempts'[i].key] <= attempts'[i].count
  <2>1. attempts'[i] \in Counter
    BY <1>1, <1>2, BumpedCounters DEF EditsInv
  <2>2. PICK x \in Keys : x = attempts'[i].key
    BY <2>1 DEF Counter
  <2>3. CASE \E j \in DOMAIN attempts :
                /\ attempts[j].key = attempts'[i].key
                /\ attempts'[i].count =
                      attempts[j].count + (IF attempts[j].key = k THEN 1 ELSE 0)
    <3>1. PICK j \in DOMAIN attempts :
              /\ attempts[j].key = x
              /\ attempts'[i].count = attempts[j].count + (IF x = k THEN 1 ELSE 0)
      BY <2>2, <2>3
    <3>2. attempts[j] \in Counter
      BY DEF EditsInv, EditsTypeOK
    <3>3. attempts[j].count \in Nat
      BY <3>2 DEF Counter
    <3>4. answers[x] <= attempts[j].count
      BY <3>1 DEF EditsInv, AnswersCounted
    <3>5. answers'[x] \in Nat /\ answers[x] \in Nat
      BY <1>4, <1>5
    <3> QED
      BY <1>8, <2>2, <3>1, <3>3, <3>4, <3>5
  <2>4. CASE k \notin Known(attempts) /\ attempts'[i] = [key |-> k, count |-> 1]
    <3>1. x = k /\ answers[k] = 0
      BY <1>1, <2>2, <2>4 DEF EditsInv, AnswersCounted
    <3> QED
      BY <1>5, <1>8, <2>2, <2>4, <3>1
  <2> QED
    BY <1>1, <1>2, <2>3, <2>4, BumpedCounters DEF EditsInv
<1>10. AnswersCounted'
  BY <1>3, <1>9 DEF AnswersCounted
<1> QED
  BY <1>1, <1>2, <1>5, <1>7, <1>10, BumpedCounters DEF EditsInv, AnswersBounded

LEMMA ResetCounted ==
    ASSUME EditsInv, NEW s \in Sessions, Reset(s)
    PROVE  /\ attempts' \in Seq(Counter) /\ Len(attempts') <= KeysCap
           /\ answers' \in [Keys -> Nat]
           /\ AnswersCounted' /\ AnswersBounded'
<1> DEFINE k == Key(s, FALSE)
<1>1. k \in Keys
  BY DEF Key, Keys
<1> HIDE DEF k
<1>2. attempts' = Dropped(k) /\ answers' = [answers EXCEPT ![k] = 0]
  BY DEF Reset, k
<1>3. answers' \in [Keys -> Nat] /\ AnswersBounded'
  BY <1>1, <1>2, CapTyped DEF EditsInv, EditsTypeOK, AnswersBounded
<1>4. attempts \in Seq(Counter) /\ Len(attempts) \in Nat /\ Len(attempts) <= KeysCap
  BY DEF EditsInv, EditsTypeOK
<1>5. ASSUME NEW i \in DOMAIN attempts
      PROVE  answers'[attempts[i].key] <= attempts[i].count
  <2>1. attempts[i] \in Counter
    BY <1>4
  <2>2. attempts[i].key \in Keys /\ attempts[i].count \in Nat
    BY <2>1 DEF Counter
  <2>3. answers[attempts[i].key] <= attempts[i].count
    BY DEF EditsInv, AnswersCounted
  <2> QED
    BY <1>1, <1>2, <2>2, <2>3 DEF EditsInv, EditsTypeOK
<1>6. CASE k \in Known(attempts)
  <2> DEFINE p == Place(k)
  <2>1. p \in DOMAIN attempts /\ p \in 1..Len(attempts) /\ attempts[p].key = k
    BY <1>4, <1>6, PlaceOfKey
  <2>2. attempts' = RemoveAt(attempts, p)
    BY <1>2, <1>6 DEF Dropped
  <2> HIDE DEF p
  <2>3. /\ attempts' \in Seq(Counter) /\ Len(attempts') = Len(attempts) - 1
        /\ \A i \in 1..(p - 1) : attempts'[i] = attempts[i]
        /\ \A i \in p..(Len(attempts) - 1) : attempts'[i] = attempts[i + 1]
    <3>1. \A q \in DOMAIN attempts :
             /\ RemoveAt(attempts, q) \in Seq(Counter)
             /\ Len(RemoveAt(attempts, q)) = Len(attempts) - 1
             /\ \A i \in 1..(q - 1) : RemoveAt(attempts, q)[i] = attempts[i]
             /\ \A i \in q..(Len(attempts) - 1) : RemoveAt(attempts, q)[i] = attempts[i + 1]
      BY <1>4, RemovedAt
    <3> QED
      BY <2>1, <2>2, <3>1
  <2>4. ASSUME NEW i \in DOMAIN attempts'
        PROVE  \E j \in DOMAIN attempts : attempts'[i] = attempts[j]
    <3>1. i \in 1..(p - 1) \/ i \in p..(Len(attempts) - 1)
      BY <1>4, <2>1, <2>3
    <3> QED
      BY <1>4, <2>1, <2>3, <3>1
  <2>5. ASSUME NEW j \in DOMAIN attempts, j # p
        PROVE  \E i \in DOMAIN attempts' : attempts'[i] = attempts[j]
    <3>1. CASE j < p
      <4>1. j \in DOMAIN attempts' /\ attempts'[j] = attempts[j]
        BY <1>4, <2>1, <2>3, <3>1
      <4> QED
        BY <4>1
    <3>2. CASE j > p
      <4>1. j - 1 \in p..(Len(attempts) - 1) /\ j - 1 \in 1..Len(attempts')
        BY <1>4, <2>1, <2>3, <3>2
      <4>2. attempts'[j - 1] = attempts[(j - 1) + 1] /\ (j - 1) + 1 = j
        BY <1>4, <2>3, <4>1
      <4>3. j - 1 \in DOMAIN attempts' /\ attempts'[j - 1] = attempts[j]
        BY <2>3, <4>1, <4>2
      <4> QED
        BY <4>3
    <3> QED
      BY <1>4, <2>1, <2>5, <3>1, <3>2
  <2>6. ASSUME NEW x \in Keys, x \notin Known(attempts)'
        PROVE  answers'[x] = 0
    <3>1. CASE x = k
      BY <1>2, <3>1 DEF EditsInv, EditsTypeOK
    <3>2. CASE x # k
      <4>1. x \notin Known(attempts)
        <5> SUFFICES ASSUME NEW j \in DOMAIN attempts, attempts[j].key = x
                     PROVE  FALSE
          BY DEF Known
        <5>1. PICK i \in DOMAIN attempts' : attempts'[i] = attempts[j]
          BY <2>1, <2>5, <3>2
        <5> QED
          BY <2>6, <5>1 DEF Known
      <4> QED
        BY <1>2, <3>2, <4>1 DEF EditsInv, EditsTypeOK, AnswersCounted
    <3> QED
      BY <3>1, <3>2
  <2>7. AnswersCounted'
    <3>1. \A i \in DOMAIN attempts' : answers'[attempts'[i].key] <= attempts'[i].count
      BY <1>5, <2>4
    <3> QED
      BY <2>6, <3>1 DEF AnswersCounted
  <2>8. Len(attempts') <= KeysCap
    BY <1>4, <2>3, EditsAssumption
  <2> QED
    BY <1>3, <2>3, <2>7, <2>8
<1>7. CASE k \notin Known(attempts)
  <2>1. attempts' = attempts
    BY <1>2, <1>7 DEF Dropped
  <2>2. \A x \in Keys : answers'[x] = 0 \/ answers'[x] = answers[x]
    BY <1>2 DEF EditsInv, EditsTypeOK
  <2>3. AnswersCounted'
    BY <1>5, <2>1, <2>2 DEF EditsInv, AnswersCounted, Known
  <2> QED
    BY <1>3, <1>4, <2>1, <2>3
<1> QED
  BY <1>6, <1>7

\* What counting failures and dropping counters leaves sound.
LEMMA CountersStep ==
    ASSUME EditsInv, EditsNext
    PROVE  /\ attempts' \in Seq(Counter) /\ Len(attempts') <= KeysCap
           /\ answers' \in [Keys -> Nat]
           /\ AnswersCounted' /\ AnswersBounded'
<1>1. CASE UNCHANGED <<attempts, answers>>
  BY <1>1 DEF EditsInv, EditsTypeOK, AnswersCounted, AnswersBounded, Known
<1>2. ASSUME NEW w \in Workers, RejectEdit(w) \/ RejectHidden(w)
      PROVE  \E s \in Sessions, h \in BOOLEAN : Failed(s, h)
  BY <1>2 DEF RejectEdit, RejectHidden, EditsInv, WorkersFit
<1>3. ASSUME NEW w \in Workers, NEW t \in Tokens, ParkEdit(w, t)
      PROVE  \E s \in Sessions : Reset(s)
  BY <1>3 DEF ParkEdit, EditsInv, WorkersFit
<1>4. CASE RestartEdits
  <2>1. attempts' = <<>> /\ attempts' \in Seq(Counter) /\ Len(attempts') <= KeysCap
    BY <1>4, EditsAssumption DEF RestartEdits
  <2>2. answers' = [k \in Keys |-> 0]
    BY <1>4 DEF RestartEdits
  <2> QED
    BY <2>1, <2>2, CapTyped DEF AnswersCounted, AnswersBounded
<1>5. \/ UNCHANGED <<attempts, answers>>
      \/ \E w \in Workers : RejectEdit(w) \/ RejectHidden(w)
      \/ \E w \in Workers, t \in Tokens : ParkEdit(w, t)
      \/ RestartEdits
  BY DEF EditsNext, StartProposal, RefuseEdit, EvaluateEdit, PopEdit, PermitEdit, VerifyEdit,
     ReplaceFile, FailReplace, DiscardEdit, LapseEdit, EditElsewhere, ChangeGrant
<1> QED
  BY <1>1, <1>2, <1>3, <1>4, <1>5, FailureCounted, ResetCounted

LEMMA EditsTyped ==
    ASSUME EditsInv, EditsNext
    PROVE  EditsTypeOK'
<1> DEFINE Rest == /\ disk' \in Contents \cup {Absent, Link}
                   /\ granted' \in BOOLEAN
                   /\ pending' \in [Tokens -> Edit \cup {NoToken}]
                   /\ minted' \subseteq Tokens
                   /\ worker' \in [Workers -> Steps]
                   /\ asker' \in [Workers -> Sessions \cup {NoToken}]
                   /\ edit' \in [Workers -> Edit \cup {NoToken}]
                   /\ applied' \in [Tokens -> Nat]
                   /\ discarded' \subseteq Tokens
                   /\ moved' \in [Workers -> BOOLEAN]
<1> SUFFICES Rest
  BY CountersStep DEF EditsTypeOK
<1> USE DEF EditsInv, EditsTypeOK, Steps, Goto, Leave, useVars
<1>1. ASSUME NEW w \in Workers, NEW s \in Sessions, StartProposal(w, s)
      PROVE  Rest
  BY <1>1 DEF StartProposal
<1>2. ASSUME NEW w \in Workers, RejectEdit(w) \/ RejectHidden(w) \/ RefuseEdit(w)
      PROVE  Rest
  BY <1>2 DEF RejectEdit, RejectHidden, RefuseEdit
<1>3. ASSUME NEW w \in Workers, NEW c \in Contents, EvaluateEdit(w, c)
      PROVE  Rest
  <2>1. disk \in Contents \cup {Absent}
    BY <1>3 DEF EvaluateEdit
  <2>2. [before |-> disk, after |-> c, token |-> NoToken] \in Edit
    BY <2>1 DEF Edit
  <2> QED
    BY <1>3, <2>2 DEF EvaluateEdit
<1>4. ASSUME NEW w \in Workers, NEW t \in Tokens, ParkEdit(w, t)
      PROVE  Rest
  <2>1. [edit[w] EXCEPT !.token = t] \in Edit
    BY <1>4 DEF ParkEdit, WorkersFit, Edit
  <2> QED
    BY <1>4, <2>1 DEF ParkEdit
<1>5. ASSUME NEW w \in Workers, NEW t \in Tokens, PopEdit(w, t)
      PROVE  Rest
  BY <1>5 DEF PopEdit
<1>6. ASSUME NEW w \in Workers, PermitEdit(w) \/ FailReplace(w)
      PROVE  Rest
  BY <1>6 DEF PermitEdit, FailReplace
<1>7. ASSUME NEW w \in Workers, VerifyEdit(w)
      PROVE  Rest
  BY <1>7 DEF VerifyEdit
<1>8. ASSUME NEW w \in Workers, ReplaceFile(w)
      PROVE  Rest
  <2>1. edit[w] \in Edit
    BY <1>8 DEF ReplaceFile, WorkersFit, Applying
  <2>2. moved' \in [Workers -> BOOLEAN]
    BY <1>8 DEF ReplaceFile, Disturbed
  <2>3. disk' \in Contents
    BY <1>8, <2>1 DEF ReplaceFile, Edit
  <2>4. applied' \in [Tokens -> Nat]
    <3>1. edit[w].token \in Tokens
      BY <1>8 DEF ReplaceFile, WorkersFit, Applying
    <3>2. applied[edit[w].token] + 1 \in Nat
      BY <3>1
    <3> QED
      BY <1>8, <3>2 DEF ReplaceFile
  <2> QED
    BY <1>8, <2>2, <2>3, <2>4 DEF ReplaceFile
<1>9. ASSUME NEW t \in Tokens, DiscardEdit(t) \/ LapseEdit(t)
      PROVE  Rest
  BY <1>9 DEF DiscardEdit, LapseEdit
<1>10. ASSUME NEW c \in Contents \cup {Absent, Link}, EditElsewhere(c)
       PROVE  Rest
  <2>1. moved' \in [Workers -> BOOLEAN]
    BY <1>10 DEF EditElsewhere, Disturbed
  <2> QED
    BY <1>10, <2>1 DEF EditElsewhere
<1>11. CASE ChangeGrant \/ RestartEdits
  BY <1>11 DEF ChangeGrant, RestartEdits
<1> HIDE DEF Rest
<1> QED
  BY <1>1, <1>2, <1>3, <1>4, <1>5, <1>6, <1>7, <1>8, <1>9, <1>10, <1>11 DEF EditsNext

LEMMA WorkersFitStill ==
    ASSUME EditsInv, EditsNext
    PROVE  WorkersFit'
<1> USE DEF EditsInv, EditsTypeOK, Goto, Leave, WorkersFit, Applying
<1>1. ASSUME NEW w \in Workers, NEW s \in Sessions, StartProposal(w, s)
      PROVE  WorkersFit'
  BY <1>1 DEF StartProposal
<1>2. ASSUME NEW w \in Workers, RejectEdit(w) \/ RejectHidden(w) \/ RefuseEdit(w)
      PROVE  WorkersFit'
  BY <1>2 DEF RejectEdit, RejectHidden, RefuseEdit
<1>3. ASSUME NEW w \in Workers, NEW c \in Contents, EvaluateEdit(w, c)
      PROVE  WorkersFit'
  <2>1. disk \in Contents \cup {Absent}
    BY <1>3 DEF EvaluateEdit
  <2>2. [before |-> disk, after |-> c, token |-> NoToken] \in Edit
    BY <2>1 DEF Edit
  <2> QED
    BY <1>3, <2>2 DEF EvaluateEdit
<1>4. ASSUME NEW w \in Workers, NEW t \in Tokens, ParkEdit(w, t)
      PROVE  WorkersFit'
  BY <1>4 DEF ParkEdit
<1>5. ASSUME NEW w \in Workers, NEW t \in Tokens, PopEdit(w, t)
      PROVE  WorkersFit'
  BY <1>5 DEF PopEdit, TokensInOnePlace
<1>6. ASSUME NEW w \in Workers, PermitEdit(w) \/ FailReplace(w)
      PROVE  WorkersFit'
  BY <1>6 DEF PermitEdit, FailReplace
<1>7. ASSUME NEW w \in Workers, VerifyEdit(w)
      PROVE  WorkersFit'
  BY <1>7 DEF VerifyEdit
<1>8. ASSUME NEW w \in Workers, ReplaceFile(w)
      PROVE  WorkersFit'
  BY <1>8 DEF ReplaceFile
<1>9. ASSUME NEW t \in Tokens, DiscardEdit(t) \/ LapseEdit(t)
      PROVE  WorkersFit'
  BY <1>9 DEF DiscardEdit, LapseEdit
<1>10. ASSUME NEW c \in Contents \cup {Absent, Link}, EditElsewhere(c)
       PROVE  WorkersFit'
  BY <1>10 DEF EditElsewhere
<1>11. CASE ChangeGrant \/ RestartEdits
  BY <1>11 DEF ChangeGrant, RestartEdits
<1> QED
  BY <1>1, <1>2, <1>3, <1>4, <1>5, <1>6, <1>7, <1>8, <1>9, <1>10, <1>11 DEF EditsNext

\* Steps that mint nothing and begin no apply.
LEMMA TokensRest ==
    ASSUME EditsInv, UNCHANGED <<minted, useVars>>,
           \A t \in Tokens : pending'[t] \in {pending[t], NoToken},
           \A w \in Workers : Applying(w)' => Applying(w) /\ edit'[w] = edit[w]
    PROVE  TokensInOnePlace' /\ TokenUsedOnce'
  BY DEF EditsInv, TokensInOnePlace, TokenUsedOnce, Unused, useVars

LEMMA TokensStep ==
    ASSUME EditsInv, EditsNext
    PROVE  TokensInOnePlace' /\ TokenUsedOnce'
<1> USE DEF EditsInv, EditsTypeOK
<1>1. ASSUME NEW w \in Workers,
             \/ \E s \in Sessions : StartProposal(w, s)
             \/ RejectEdit(w) \/ RejectHidden(w) \/ RefuseEdit(w)
             \/ \E c \in Contents : EvaluateEdit(w, c)
             \/ FailReplace(w)
      PROVE  TokensInOnePlace' /\ TokenUsedOnce'
  <2>1. \A x \in Workers : Applying(x)' => Applying(x) /\ edit'[x] = edit[x]
    BY <1>1 DEF StartProposal, RejectEdit, RejectHidden, RefuseEdit, EvaluateEdit, FailReplace,
           Goto, Leave, Applying
  <2>2. UNCHANGED <<minted, useVars, pending>>
    BY <1>1 DEF StartProposal, RejectEdit, RejectHidden, RefuseEdit, EvaluateEdit, FailReplace
  <2> QED
    BY <2>1, <2>2, TokensRest
<1>2. ASSUME NEW w \in Workers, PermitEdit(w) \/ VerifyEdit(w)
      PROVE  TokensInOnePlace' /\ TokenUsedOnce'
  <2>1. \A x \in Workers : Applying(x)' => Applying(x) /\ edit'[x] = edit[x]
    BY <1>2 DEF PermitEdit, VerifyEdit, Goto, Leave, Applying
  <2>2. UNCHANGED <<minted, useVars, pending>>
    BY <1>2 DEF PermitEdit, VerifyEdit
  <2> QED
    BY <2>1, <2>2, TokensRest
<1>3. ASSUME NEW t \in Tokens, LapseEdit(t)
      PROVE  TokensInOnePlace' /\ TokenUsedOnce'
  BY <1>3, TokensRest DEF LapseEdit, Applying
<1>4. CASE ChangeGrant \/ \E c \in Contents \cup {Absent, Link} : EditElsewhere(c)
  BY <1>4, TokensRest DEF ChangeGrant, EditElsewhere, Applying
<1>5. CASE RestartEdits
  BY <1>5, TokensRest DEF RestartEdits, Applying
<1>6. ASSUME NEW w \in Workers, NEW t \in Tokens, ParkEdit(w, t)
      PROVE  TokensInOnePlace' /\ TokenUsedOnce'
  <2>1. pending'[t].token = t
    BY <1>6 DEF ParkEdit, WorkersFit, Edit
  <2>2. ~Applying(w) /\ \A x \in Workers : Applying(x)' <=> Applying(x)
    BY <1>6 DEF ParkEdit, Leave, Goto, Applying
  <2>3. \A x \in Workers : Applying(x) => edit'[x] = edit[x] /\ edit[x].token # t
    BY <1>6, <2>2 DEF ParkEdit, Leave, WorkersFit
  <2>4. t \in minted' /\ t \notin minted /\ minted' = minted \cup {t}
    BY <1>6 DEF ParkEdit
  <2>5. \A u \in Tokens \ {t} : pending'[u] = pending[u]
    BY <1>6 DEF ParkEdit
  <2>6. \A u \in Tokens : Unused(u)' <=> Unused(u)
    BY <1>6 DEF ParkEdit, Unused, useVars
  <2>7. TokensInOnePlace'
    <3>1. Unused(t)
      BY <2>4 DEF TokensInOnePlace
    <3>2. \A u \in Tokens : u \notin minted' \/ pending'[u] # NoToken => Unused(u)'
      BY <2>4, <2>5, <2>6, <3>1 DEF TokensInOnePlace
    <3>3. \A u \in Tokens : pending'[u] # NoToken =>
             /\ pending'[u].token = u
             /\ u \in minted'
             /\ \A x \in Workers : Applying(x)' => edit'[x].token # u
      BY <2>1, <2>2, <2>3, <2>4, <2>5 DEF TokensInOnePlace
    <3>4. \A x \in Workers : Applying(x)' => Unused(edit[x].token)'
      <4> SUFFICES ASSUME NEW x \in Workers, Applying(x)'
                   PROVE  Unused(edit[x].token)'
        OBVIOUS
      <4>1. edit'[x] = edit[x] /\ edit[x].token \in Tokens /\ Unused(edit[x].token)
        BY <2>2, <2>3 DEF TokensInOnePlace, WorkersFit
      <4> QED
        BY <1>6, <4>1 DEF ParkEdit, Unused, useVars
    <3>5. \A x \in Workers : Applying(x)' =>
             \A y \in Workers \ {x} : Applying(y)' => edit'[y].token # edit'[x].token
      BY <2>2, <2>3 DEF TokensInOnePlace
    <3> QED
      BY <3>2, <3>3, <3>4, <3>5 DEF TokensInOnePlace
  <2> QED
    BY <1>6, <2>7 DEF ParkEdit, useVars, TokenUsedOnce
<1>7. ASSUME NEW w \in Workers, NEW t \in Tokens, PopEdit(w, t)
      PROVE  TokensInOnePlace' /\ TokenUsedOnce'
  BY <1>7 DEF PopEdit, Goto, TokensInOnePlace, TokenUsedOnce, Unused, Applying, useVars
<1>8. ASSUME NEW w \in Workers, ReplaceFile(w)
      PROVE  TokensInOnePlace' /\ TokenUsedOnce'
  <2> DEFINE t == edit[w].token
  <2>1. Applying(w) /\ t \in Tokens /\ Unused(t) /\ t \in minted
    BY <1>8 DEF ReplaceFile, Applying, WorkersFit, TokensInOnePlace
  <2>2. pending[t] = NoToken
    BY <2>1 DEF TokensInOnePlace
  <2>3. ~Applying(w)' /\ \A x \in Workers \ {w} :
            (Applying(x)' <=> Applying(x)) /\ edit'[x] = edit[x] /\ (Applying(x) => edit[x].token # t)
    BY <1>8, <2>1 DEF ReplaceFile, Leave, Goto, Applying, TokensInOnePlace
  <2> HIDE DEF t
  <2>4. applied' = [applied EXCEPT ![t] = @ + 1] /\ UNCHANGED <<discarded, pending, minted>>
    BY <1>8 DEF ReplaceFile, t
  <2>5. \A u \in Tokens \ {t} : Unused(u)' <=> Unused(u)
    BY <2>4 DEF Unused
  <2>6. TokensInOnePlace'
    BY <2>1, <2>2, <2>3, <2>4, <2>5 DEF TokensInOnePlace, WorkersFit
  <2> QED
    BY <2>1, <2>4, <2>6 DEF TokenUsedOnce, Unused
<1>9. ASSUME NEW t \in Tokens, DiscardEdit(t)
      PROVE  TokensInOnePlace' /\ TokenUsedOnce'
  <2>1. Unused(t) /\ t \in minted /\ \A w \in Workers : Applying(w) => edit[w].token # t
    BY <1>9 DEF DiscardEdit, TokensInOnePlace
  <2>2. \A u \in Tokens \ {t} : (Unused(u)' <=> Unused(u)) /\ pending'[u] = pending[u]
    BY <1>9 DEF DiscardEdit, Unused
  <2>3. \A x \in Workers : (Applying(x)' <=> Applying(x)) /\ edit'[x] = edit[x]
    BY <1>9 DEF DiscardEdit, Applying
  <2>4. minted' = minted /\ pending'[t] = NoToken
    BY <1>9 DEF DiscardEdit
  <2>5. TokensInOnePlace'
    BY <2>1, <2>2, <2>3, <2>4 DEF TokensInOnePlace, WorkersFit
  <2> QED
    BY <1>9, <2>1, <2>5 DEF DiscardEdit, TokenUsedOnce, Unused
<1> QED
  BY <1>1, <1>2, <1>3, <1>4, <1>5, <1>6, <1>7, <1>8, <1>9 DEF EditsNext

LEMMA VerifiedIsReviewedStill ==
    ASSUME EditsInv, EditsNext
    PROVE  VerifiedIsReviewed'
<1> USE DEF EditsInv, EditsTypeOK, VerifiedIsReviewed, Goto, Leave
<1>1. ASSUME NEW w \in Workers,
             \/ \E s \in Sessions : StartProposal(w, s)
             \/ RejectEdit(w) \/ RejectHidden(w) \/ RefuseEdit(w)
             \/ \E c \in Contents : EvaluateEdit(w, c)
             \/ FailReplace(w)
      PROVE  VerifiedIsReviewed'
  BY <1>1 DEF StartProposal, RejectEdit, RejectHidden, RefuseEdit, EvaluateEdit, FailReplace
<1>2. ASSUME NEW w \in Workers, NEW t \in Tokens, ParkEdit(w, t) \/ PopEdit(w, t)
      PROVE  VerifiedIsReviewed'
  BY <1>2 DEF ParkEdit, PopEdit
<1>3. ASSUME NEW w \in Workers, PermitEdit(w)
      PROVE  VerifiedIsReviewed'
  BY <1>3 DEF PermitEdit
<1>4. ASSUME NEW w \in Workers, VerifyEdit(w)
      PROVE  VerifiedIsReviewed'
  BY <1>4 DEF VerifyEdit, Unchanged
<1>5. ASSUME NEW w \in Workers, ReplaceFile(w)
      PROVE  VerifiedIsReviewed'
  BY <1>5 DEF ReplaceFile, Disturbed
<1>6. CASE \/ \E t \in Tokens : DiscardEdit(t) \/ LapseEdit(t)
           \/ ChangeGrant \/ RestartEdits
  BY <1>6 DEF DiscardEdit, LapseEdit, ChangeGrant, RestartEdits
<1>7. ASSUME NEW c \in Contents \cup {Absent, Link}, EditElsewhere(c)
      PROVE  VerifiedIsReviewed'
  BY <1>7 DEF EditElsewhere, Disturbed
<1> QED
  BY <1>1, <1>2, <1>3, <1>4, <1>5, <1>6, <1>7 DEF EditsNext

LEMMA EditsRest ==
    ASSUME EditsInv, UNCHANGED editsVars
    PROVE  EditsInv'
  BY DEF EditsInv, EditsTypeOK, WorkersFit, TokensInOnePlace, TokenUsedOnce, VerifiedIsReviewed,
     AnswersCounted, AnswersBounded, Applying, Unused, Known, editsVars

LEMMA EditsHold == Spec => []EditsInv
<1>1. Init => EditsInv
  BY EditsStart DEF Init
<1>2. EditsInv /\ [Next]_vars => EditsInv'
  <2> SUFFICES ASSUME EditsInv, [Next]_vars
               PROVE  EditsInv'
    OBVIOUS
  <2>1. CASE EditsNext
    BY <2>1, EditsTyped, WorkersFitStill, TokensStep, VerifiedIsReviewedStill, CountersStep
    DEF EditsInv
  <2>2. CASE UNCHANGED editsVars
    BY <2>2, EditsRest
  <2> QED
    BY <2>1, <2>2, StepOfEach
<1> QED
  BY <1>1, <1>2, PTL DEF Spec

\* The only step that counts a token as applied is the apply that holds it.
LEMMA AppliedByItsWorker ==
    ASSUME EditsInv, EditsNext, NEW w \in Workers, worker[w] = "verified",
           applied'[edit[w].token] > applied[edit[w].token]
    PROVE  ReplaceFile(w)
<1>1. Applying(w) /\ edit[w].token \in Tokens /\ applied[edit[w].token] \in Nat
  BY DEF Applying, EditsInv, EditsTypeOK, WorkersFit
<1>2. \/ applied' = applied
      \/ \E x \in Workers : ReplaceFile(x)
  BY DEF EditsNext, StartProposal, RejectEdit, RejectHidden, RefuseEdit, EvaluateEdit, ParkEdit,
     PopEdit, PermitEdit, VerifyEdit, FailReplace, DiscardEdit, LapseEdit, EditElsewhere,
     ChangeGrant, RestartEdits, useVars
<1>3. ASSUME NEW x \in Workers, ReplaceFile(x), x # w
      PROVE  applied'[edit[w].token] = applied[edit[w].token]
  <2>1. Applying(x) /\ edit[x].token # edit[w].token
    BY <1>1, <1>3 DEF ReplaceFile, Applying, EditsInv, TokensInOnePlace
  <2> QED
    BY <1>1, <1>3, <2>1 DEF ReplaceFile, EditsInv, EditsTypeOK
<1> QED
  BY <1>1, <1>2, <1>3

\* An apply replaces what the user reviewed, or what was saved over it since
\* the check, and a new file replaces nothing (ReviewedIsReplaced).
THEOREM ReviewedIsReplacedHolds == Spec => ReviewedIsReplaced
<1>1. EditsInv /\ [Next]_vars =>
          [\A w \in Workers :
             worker[w] = "verified" /\ applied'[edit[w].token] > applied[edit[w].token]
             => disk = edit[w].before \/ (moved[w] /\ edit[w].before # Absent)]_editsVars
  <2> SUFFICES ASSUME EditsInv, EditsNext, NEW w \in Workers, worker[w] = "verified",
                      applied'[edit[w].token] > applied[edit[w].token]
               PROVE  disk = edit[w].before \/ (moved[w] /\ edit[w].before # Absent)
    BY StepOfEach
  <2>1. ReplaceFile(w)
    BY AppliedByItsWorker
  <2> QED
    BY <2>1 DEF ReplaceFile, Clobbers, EditsInv, VerifiedIsReviewed
<1> QED
  BY <1>1, EditsHold, PTL DEF Spec, ReviewedIsReplaced

-----------------------------------------------------------------------------
(* The notifications.  Until it is forgotten, an alert is in one place:    *)
(* queued, in the shell's hand, or shown; it is nowhere while it is not    *)
(* remembered, or when it was remembered silently.                         *)

OnceIn(a, s) == \A i, j \in DOMAIN s : s[i] = a /\ s[j] = a => i = j

InOnePlace ==
    \A a \in Alerts \ forgotten :
        /\ OnceIn(a, queue) /\ OnceIn(a, inHand)
        /\ shown[a] <= 1
        /\ ~ (a \in ToSet(queue) /\ a \in ToSet(inHand))
        /\ shown[a] = 1 => a \notin ToSet(queue) /\ a \notin ToSet(inHand)
        /\ a \in backlog \/ a \notin ToSet(seen) =>
              /\ shown[a] = 0
              /\ a \notin ToSet(queue) /\ a \notin ToSet(inHand)
        /\ a \in backlog => a \in ToSet(seen)

RawIsDistinct == \A i, j \in DOMAIN raw : raw[i] = raw[j] => i = j

AlertsInv == AlertsTypeOK /\ RawIsDistinct /\ InOnePlace

\* What is kept of a sequence is its end.
LEMMA EndOf ==
    ASSUME NEW S, NEW s \in Seq(S), NEW n \in Nat \ {0}, NEW d \in Nat, Len(s) = n + d
    PROVE  LET e == SubSeq(s, d + 1, Len(s))
           IN  e \in Seq(S) /\ Len(e) = n /\ \A i \in 1..n : e[i] = s[i + d]
<1>1. \A i \in (d + 1)..(n + d) : s[i] \in S
  OBVIOUS
<1>2. d + 1 \in Int /\ n + d \in Int /\ d + 1 <= n + d /\ (n + d) - (d + 1) + 1 = n
  OBVIOUS
<1>3. /\ SubSeq(s, d + 1, n + d) \in Seq(S) /\ Len(SubSeq(s, d + 1, n + d)) = n
      /\ \A i \in 1..n : SubSeq(s, d + 1, n + d)[i] = s[(d + 1) + i - 1]
  BY <1>1, <1>2, SubSeqProperties
<1>4. \A i \in 1..n : (d + 1) + i - 1 = i + d
  OBVIOUS
<1> QED
  BY <1>3, <1>4

LEMMA NewestOf ==
    ASSUME NEW S, NEW s \in Seq(S), NEW n \in Nat \ {0}
    PROVE  /\ Newest(s, n) \in Seq(S) /\ Len(Newest(s, n)) <= n
           /\ \E d \in Nat : \A i \in DOMAIN Newest(s, n) :
                 i + d \in DOMAIN s /\ Newest(s, n)[i] = s[i + d]
<1>1. CASE Len(s) > n
  <2> DEFINE d == Len(s) - n
             e == SubSeq(s, d + 1, Len(s))
  <2>1. d \in Nat /\ Len(s) = n + d
    BY <1>1
  <2>2. e \in Seq(S) /\ Len(e) = n /\ \A i \in 1..n : e[i] = s[i + d]
    BY <2>1, EndOf
  <2>3. Newest(s, n) = e
    BY <1>1 DEF Newest
  <2> HIDE DEF d, e
  <2>4. \A i \in DOMAIN e : i + d \in DOMAIN s /\ e[i] = s[i + d]
    BY <2>1, <2>2
  <2> QED
    BY <2>1, <2>2, <2>3, <2>4
<1>2. CASE ~(Len(s) > n)
  <2>1. Newest(s, n) = s /\ Len(s) <= n
    BY <1>2 DEF Newest
  <2>2. \A i \in DOMAIN s : i + 0 \in DOMAIN s /\ s[i] = s[i + 0]
    OBVIOUS
  <2> QED
    BY <2>1, <2>2
<1> QED
  BY <1>1, <1>2

LEMMA NewestKeepsOnce ==
    ASSUME NEW S, NEW s \in Seq(S), NEW n \in Nat \ {0}
    PROVE  /\ ToSet(Newest(s, n)) \subseteq ToSet(s)
           /\ \A a : OnceIn(a, s) => OnceIn(a, Newest(s, n))
<1>1. PICK d \in Nat : \A i \in DOMAIN Newest(s, n) :
                          i + d \in DOMAIN s /\ Newest(s, n)[i] = s[i + d]
  BY NewestOf
<1>2. \A i \in DOMAIN Newest(s, n) : i \in Nat
  BY NewestOf
<1>3. ToSet(Newest(s, n)) \subseteq ToSet(s)
  BY <1>1 DEF ToSet
<1>4. ASSUME NEW a, OnceIn(a, s)
      PROVE  OnceIn(a, Newest(s, n))
  <2> SUFFICES ASSUME NEW i \in DOMAIN Newest(s, n), NEW j \in DOMAIN Newest(s, n),
                      Newest(s, n)[i] = a, Newest(s, n)[j] = a
               PROVE  i = j
    BY DEF OnceIn
  <2>1. i + d = j + d
    BY <1>1, <1>4 DEF OnceIn
  <2> QED
    BY <1>2, <2>1
<1> QED
  BY <1>3, <1>4

\* How often an alert occurs in a sequence that holds it at most once.
LEMMA OccurrencesOfOnce ==
    ASSUME NEW s, NEW a, OnceIn(a, s)
    PROVE  Occurrences(s, a) = IF a \in ToSet(s) THEN 1 ELSE 0
<1> DEFINE at == {i \in DOMAIN s : s[i] = a}
<1>1. CASE a \in ToSet(s)
  <2>1. PICK i \in DOMAIN s : s[i] = a
    BY <1>1 DEF ToSet
  <2>2. at = {i}
    BY <2>1 DEF OnceIn
  <2>3. Cardinality(at) = 1
    BY <2>2, FS_Singleton
  <2> QED
    BY <1>1, <2>3 DEF Occurrences
<1>2. CASE a \notin ToSet(s)
  <2>1. at = {}
    BY <1>2 DEF ToSet
  <2>2. Cardinality(at) = 0
    BY <2>1, FS_EmptySet
  <2> QED
    BY <1>2, <2>2 DEF Occurrences
<1> QED
  BY <1>1, <1>2

Answer == [seen : Seq(Alerts), fresh : Seq(Alerts)]

\* One alert more.
LEMMA IngestOneMore ==
    ASSUME NEW acc \in Answer, Len(acc.seen) <= MaxRemembered, NEW a \in Alerts
    PROVE  LET new == IngestOne(acc, a)
           IN  /\ new \in Answer /\ Len(new.seen) <= MaxRemembered
               /\ ToSet(new.seen) \subseteq ToSet(acc.seen) \cup {a}
               /\ new.fresh = acc.fresh \/ (primed /\ new.fresh = Append(acc.fresh, a))
<1> DEFINE stay == Remembered(acc.seen, a)
           longer == Append(acc.seen, a)
<1>1. acc.seen \in Seq(Alerts) /\ acc.fresh \in Seq(Alerts)
  BY DEF Answer
<1>2. longer \in Seq(Alerts) /\ ToSet(longer) \subseteq ToSet(acc.seen) \cup {a}
  BY <1>1 DEF ToSet
<1>3. /\ stay \in Seq(Alerts) /\ Len(stay) <= MaxRemembered
      /\ ToSet(stay) \subseteq ToSet(longer)
  BY <1>2, AlertsAssumption, NewestOf, NewestKeepsOnce DEF Remembered
<1> HIDE DEF stay, longer
<1>4. CASE a \in ToSet(acc.seen)
  BY <1>4 DEF IngestOne
<1>5. CASE a \notin ToSet(acc.seen)
  <2>1. IngestOne(acc, a) = [seen |-> stay,
                             fresh |-> IF primed THEN Append(acc.fresh, a) ELSE acc.fresh]
    BY <1>5 DEF IngestOne, stay
  <2>2. Append(acc.fresh, a) \in Seq(Alerts)
    BY <1>1
  <2>3. CASE primed
    BY <1>2, <1>3, <2>1, <2>2, <2>3 DEF Answer
  <2>4. CASE ~primed
    BY <1>1, <1>2, <1>3, <2>1, <2>4 DEF Answer
  <2> QED
    BY <2>3, <2>4
<1> QED
  BY <1>4, <1>5

\* A set of numbers that is not empty has a least one.
LEMMA LeastNumber ==
    ASSUME NEW S, S \subseteq Nat, S # {}
    PROVE  \E n \in S : \A m \in S : n <= m
<1>1. PICK n \in S : \A m \in S : ~ (<<m, n>> \in OpToRel(<, Nat))
  BY WFMin, NatLessThanWellFounded
<1>2. \A m \in S : ~ (m < n)
  BY <1>1 DEF OpToRel
<1> QED
  BY <1>2

\* The fold of a poll is a function of how many of its alerts are taken in.
LEMMA IngestedFolds ==
    ASSUME AlertsTypeOK
    PROVE  \E f : /\ f[0] = [seen |-> seen, fresh |-> <<>>]
                  /\ \A i \in 1..Len(raw) : f[i] = IngestOne(f[i - 1], raw[i])
                  /\ Ingested = f[Len(raw)]
<1> DEFINE start == [seen |-> seen, fresh |-> <<>>]
           step(f) == [i \in 0..Len(raw) |-> IF i = 0 THEN start
                                             ELSE IngestOne(f[i - 1], raw[i])]
           chosen == CHOOSE f : f = step(f)
           Fits(f, n) == f[0] = start /\ \A i \in 1..n : f[i] = IngestOne(f[i - 1], raw[i])
           bad == {n \in 0..Len(raw) : ~ \E f : Fits(f, n)}
<1>1. Len(raw) \in Nat
  BY DEF AlertsTypeOK
<1>2. bad = {}
  <2> SUFFICES ASSUME bad # {}
               PROVE  FALSE
    OBVIOUS
  <2>1. PICK n \in bad : \A m \in bad : n <= m
    <3>1. bad \subseteq Nat
      BY <1>1
    <3> HIDE DEF bad
    <3> QED
      BY <3>1, LeastNumber
  <2>2. n # 0
    <3>1. Fits([i \in {0} |-> start], 0)
      OBVIOUS
    <3> QED
      BY <2>1, <3>1
  <2>3. n - 1 \in 0..Len(raw) /\ ~ (n <= n - 1)
    BY <1>1, <2>2
  <2>4. PICK f : Fits(f, n - 1)
    BY <2>1, <2>3
  <2> DEFINE g == [i \in 0..n |-> IF i = n THEN IngestOne(f[n - 1], raw[n]) ELSE f[i]]
  <2>5. Fits(g, n)
    <3>1. g[0] = start
      BY <1>1, <2>2, <2>4
    <3>2. ASSUME NEW i \in 1..n
          PROVE  g[i] = IngestOne(g[i - 1], raw[i])
      <4>1. g[i - 1] = f[i - 1]
        BY <1>1
      <4>2. CASE i = n
        BY <1>1, <4>1, <4>2
      <4>3. CASE i # n
        BY <1>1, <2>4, <4>1, <4>3
      <4> QED
        BY <4>2, <4>3
    <3> QED
      BY <3>1, <3>2
  <2> QED
    BY <2>5
<1>3. PICK f : Fits(f, Len(raw))
  BY <1>1, <1>2
<1> DEFINE g == [i \in 0..Len(raw) |-> f[i]]
<1>4. g = step(g)
  <2> SUFFICES ASSUME NEW i \in 0..Len(raw)
               PROVE  g[i] = IF i = 0 THEN start ELSE IngestOne(g[i - 1], raw[i])
    OBVIOUS
  <2>1. CASE i = 0
    BY <1>1, <1>3, <2>1
  <2>2. CASE i # 0
    <3>1. i \in 1..Len(raw) /\ i - 1 \in 0..Len(raw)
      BY <1>1, <2>2
    <3> QED
      BY <1>3, <2>2, <3>1
  <2> QED
    BY <2>1, <2>2
<1>5. chosen = step(chosen)
  BY <1>4
<1>6. Ingested = chosen[Len(raw)]
  BY DEF Ingested
<1> HIDE DEF chosen
<1>7. \A i \in 0..Len(raw) :
         chosen[i] = IF i = 0 THEN start ELSE IngestOne(chosen[i - 1], raw[i])
  BY <1>5
<1>8. chosen[0] = start /\ \A i \in 1..Len(raw) : chosen[i] = IngestOne(chosen[i - 1], raw[i])
  BY <1>1, <1>7
<1> QED
  BY <1>6, <1>8

\* What a poll takes in: the alerts it lists and those remembered, each
\* announced at most once, and none by the poll that primes.
LEMMA IngestedSound ==
    ASSUME AlertsTypeOK, RawIsDistinct
    PROVE  /\ Ingested \in Answer /\ Len(Ingested.seen) <= MaxRemembered
           /\ ToSet(Ingested.seen) \subseteq ToSet(seen) \cup ToSet(raw)
           /\ ToSet(Ingested.fresh) \subseteq ToSet(raw)
           /\ \A a : OnceIn(a, Ingested.fresh)
           /\ ~primed => Ingested.fresh = <<>>
<1>1. Len(raw) \in Nat /\ \A i \in 1..Len(raw) : i \in DOMAIN raw /\ raw[i] \in Alerts
  BY DEF AlertsTypeOK
<1>2. PICK f : /\ f[0] = [seen |-> seen, fresh |-> <<>>]
               /\ \A i \in 1..Len(raw) : f[i] = IngestOne(f[i - 1], raw[i])
               /\ Ingested = f[Len(raw)]
  BY IngestedFolds
<1> DEFINE Fine(n) == /\ f[n] \in Answer /\ Len(f[n].seen) <= MaxRemembered
                      /\ ToSet(f[n].seen) \subseteq ToSet(seen) \cup ToSet(raw)
                      /\ \A j \in DOMAIN f[n].fresh :
                            \E k \in 1..n : raw[k] = f[n].fresh[j]
                      /\ \A a : OnceIn(a, f[n].fresh)
                      /\ ~primed => f[n].fresh = <<>>
           bad == {n \in 0..Len(raw) : ~Fine(n)}
<1>3. Fine(0)
  <2>1. f[0] \in Answer /\ f[0].seen = seen /\ f[0].fresh = <<>>
    BY <1>2 DEF Answer, AlertsTypeOK
  <2> QED
    BY <2>1 DEF AlertsTypeOK, OnceIn
<1>4. ASSUME NEW n \in 1..Len(raw), Fine(n - 1)
      PROVE  Fine(n)
  <2>1. PICK acc \in Answer : acc = f[n - 1]
    BY <1>4
  <2>2. PICK new : new = IngestOne(acc, raw[n])
    OBVIOUS
  <2>3. /\ new \in Answer /\ Len(new.seen) <= MaxRemembered
        /\ ToSet(new.seen) \subseteq ToSet(acc.seen) \cup {raw[n]}
        /\ new.fresh = acc.fresh \/ (primed /\ new.fresh = Append(acc.fresh, raw[n]))
    BY <1>1, <1>4, <2>1, <2>2, IngestOneMore
  <2>4. f[n] = new
    BY <1>2, <2>1, <2>2
  <2>5. ToSet(new.seen) \subseteq ToSet(seen) \cup ToSet(raw)
    <3>1. raw[n] \in ToSet(raw)
      BY <1>1 DEF ToSet
    <3> QED
      BY <1>4, <2>1, <2>3, <3>1
  <2>6. acc.fresh \in Seq(Alerts) /\ new.fresh \in Seq(Alerts)
    BY <2>3 DEF Answer
  <2>7. CASE new.fresh = acc.fresh
    <3>1. \A k \in 1..(n - 1) : k \in 1..n
      BY <1>1
    <3> QED
      BY <1>4, <2>1, <2>3, <2>4, <2>5, <2>7, <3>1
  <2>8. CASE primed /\ new.fresh = Append(acc.fresh, raw[n])
    <3> DEFINE m == Len(acc.fresh) + 1
    <3>1. /\ m \in Nat /\ DOMAIN new.fresh = 1..m
          /\ new.fresh[m] = raw[n]
          /\ \A j \in 1..(m - 1) : j \in DOMAIN acc.fresh /\ new.fresh[j] = acc.fresh[j]
      BY <2>6, <2>8
    <3> HIDE DEF m
    <3>2. \A j \in 1..(m - 1) : \E k \in 1..(n - 1) : raw[k] = new.fresh[j]
      BY <1>4, <2>1, <3>1
    <3>3. \A j \in 1..m : j = m \/ j \in 1..(m - 1)
      BY <3>1
    <3>4. \A j \in DOMAIN new.fresh : \E k \in 1..n : raw[k] = new.fresh[j]
      <4>1. n \in 1..n /\ \A k \in 1..(n - 1) : k \in 1..n
        BY <1>1
      <4> QED
        BY <3>1, <3>2, <3>3, <4>1
    <3>5. \A j \in 1..(m - 1) : new.fresh[j] # raw[n]
      <4>1. \A k \in 1..(n - 1) : raw[k] # raw[n]
        BY <1>1 DEF RawIsDistinct
      <4> QED
        BY <3>2, <4>1
    <3>6. ASSUME NEW a
          PROVE  OnceIn(a, new.fresh)
      <4>1. OnceIn(a, acc.fresh)
        BY <1>4, <2>1
      <4> SUFFICES ASSUME NEW i \in 1..m, NEW j \in 1..m, new.fresh[i] = a, new.fresh[j] = a
                   PROVE  i = j
        BY <3>1 DEF OnceIn
      <4>2. CASE i = m /\ j = m
        BY <4>2
      <4>3. CASE i # m /\ j # m
        <5>1. i \in DOMAIN acc.fresh /\ j \in DOMAIN acc.fresh /\ acc.fresh[i] = a /\ acc.fresh[j] = a
          BY <3>1, <3>3, <4>3
        <5> QED
          BY <4>1, <5>1 DEF OnceIn
      <4> QED
        BY <3>1, <3>3, <3>5, <4>2, <4>3
    <3> QED
      BY <2>3, <2>4, <2>5, <2>8, <3>4, <3>6
  <2> QED
    BY <2>3, <2>7, <2>8
<1>5. bad = {}
  <2> SUFFICES ASSUME bad # {}
               PROVE  FALSE
    OBVIOUS
  <2>1. bad \subseteq Nat
    BY <1>1
  <2>2. PICK n \in bad : \A m \in bad : n <= m
    <3> HIDE DEF bad
    <3> QED
      BY <2>1, LeastNumber
  <2> HIDE DEF Fine
  <2>3. n \in 0..Len(raw) /\ ~Fine(n) /\ n # 0
    BY <1>3, <2>2
  <2>4. n \in 1..Len(raw) /\ n - 1 \in 0..Len(raw) /\ ~ (n <= n - 1)
    BY <1>1, <2>3
  <2>5. Fine(n - 1)
    BY <2>2, <2>4
  <2> QED
    BY <1>4, <2>3, <2>4, <2>5
<1>6. Fine(Len(raw))
  <2> HIDE DEF Fine
  <2>1. Len(raw) \in 0..Len(raw)
    BY <1>1
  <2> QED
    BY <1>5, <2>1
<1>7. ToSet(Ingested.fresh) \subseteq ToSet(raw)
  BY <1>1, <1>2, <1>6 DEF ToSet
<1> QED
  BY <1>2, <1>6, <1>7

LEMMA AlertsStart ==
    ASSUME AlertsInit
    PROVE  AlertsInv
<1>1. AlertsTypeOK
  <2>1. <<>> \in Seq(Alerts) /\ Len(<<>>) <= MaxRemembered /\ Len(<<>>) <= MaxQueued
    BY AlertsAssumption
  <2> QED
    BY <2>1 DEF AlertsInit, AlertsTypeOK
<1>2. RawIsDistinct /\ InOnePlace
  BY DEF AlertsInit, RawIsDistinct, InOnePlace, OnceIn, ToSet
<1> QED
  BY <1>1, <1>2 DEF AlertsInv

\* A listing of the firing alerts names each once.
LEMMA ListedOnce ==
    ASSUME AlertsTypeOK, raw' \in Listings[firing]
    PROVE  raw' \in Seq(Alerts) /\ RawIsDistinct'
<1>1. Cardinality(firing) \in Nat
  BY AlertsAssumption, FS_Subset, FS_CardinalityType DEF AlertsTypeOK
<1>2. Listings[firing] = SetToSeqs(firing)
  BY DEF AlertsTypeOK, Listings
<1>3. raw' \in [1..Cardinality(firing) -> Alerts]
  BY <1>2 DEF SetToSeqs, AlertsTypeOK
<1>4. \A i, j \in 1..Cardinality(firing) : i # j => raw'[i] # raw'[j]
  BY <1>2 DEF SetToSeqs
<1> QED
  BY <1>1, <1>3, <1>4 DEF RawIsDistinct

\* Steps that move no announcement.
LEMMA AlertsQuiet ==
    ASSUME AlertsInv, UNCHANGED <<seen, queue, inHand, shown, backlog, forgotten>>
    PROVE  InOnePlace'
  BY DEF AlertsInv, InOnePlace

LEMMA ShowStep ==
    ASSUME AlertsInv, Show
    PROVE  AlertsInv'
<1> DEFINE a == Head(inHand)
<1>1. inHand \in Seq(Alerts) /\ inHand # <<>>
  BY DEF AlertsInv, AlertsTypeOK, Show
<1>2. /\ a \in Alerts /\ 1 \in DOMAIN inHand /\ inHand[1] = a
      /\ Tail(inHand) \in Seq(Alerts)
      /\ \A i \in DOMAIN Tail(inHand) :
            i \in Nat \ {0} /\ i + 1 \in DOMAIN inHand /\ Tail(inHand)[i] = inHand[i + 1]
  BY <1>1
<1>3. inHand' = Tail(inHand)
      /\ UNCHANGED <<firing, notifying, poller, raw, primed, seen, queue, backlog, forgotten, heard>>
  BY DEF Show
<1> HIDE DEF a
<1>4. shown' = IF a \in forgotten THEN shown ELSE [shown EXCEPT ![a] = @ + 1]
  BY DEF Show, a
<1>5. ToSet(inHand') \subseteq ToSet(inHand)
  BY <1>2, <1>3 DEF ToSet
<1>6. \A b : OnceIn(b, inHand) => OnceIn(b, inHand')
  BY <1>2, <1>3 DEF OnceIn
<1>7. a \in ToSet(inHand)
  BY <1>2 DEF ToSet
<1>8. OnceIn(a, inHand) => a \notin ToSet(inHand')
  BY <1>2, <1>3 DEF OnceIn, ToSet
<1>9. AlertsTypeOK'
  BY <1>2, <1>3, <1>4 DEF AlertsInv, AlertsTypeOK
<1>10. ASSUME NEW b \in Alerts \ forgotten
       PROVE  /\ OnceIn(b, queue) /\ OnceIn(b, inHand')
              /\ shown'[b] <= 1
              /\ ~ (b \in ToSet(queue) /\ b \in ToSet(inHand'))
              /\ shown'[b] = 1 => b \notin ToSet(queue) /\ b \notin ToSet(inHand')
              /\ b \in backlog \/ b \notin ToSet(seen) =>
                    /\ shown'[b] = 0
                    /\ b \notin ToSet(queue) /\ b \notin ToSet(inHand')
              /\ b \in backlog => b \in ToSet(seen)
  <2>1. shown[b] \in Nat
    BY DEF AlertsInv, AlertsTypeOK
  <2>2. CASE b = a
    <3>1. shown'[b] = shown[b] + 1
      BY <1>4, <2>2 DEF AlertsInv, AlertsTypeOK
    <3> QED
      BY <1>5, <1>6, <1>7, <1>8, <2>1, <2>2, <3>1 DEF AlertsInv, InOnePlace
  <2>3. CASE b # a
    <3>1. shown'[b] = shown[b]
      BY <1>4, <2>3 DEF AlertsInv, AlertsTypeOK
    <3> QED
      BY <1>5, <1>6, <3>1 DEF AlertsInv, InOnePlace
  <2> QED
    BY <2>2, <2>3
<1>11. InOnePlace'
  BY <1>3, <1>10 DEF InOnePlace
<1> QED
  BY <1>3, <1>9, <1>11 DEF AlertsInv, RawIsDistinct

LEMMA IngestStep ==
    ASSUME AlertsInv, Ingest
    PROVE  AlertsInv'
<1>1. PICK stay \in Seq(Alerts), fresh \in Seq(Alerts) :
          stay = Ingested.seen /\ fresh = Ingested.fresh
  BY IngestedSound DEF AlertsInv, Answer
<1>2. /\ Len(stay) <= MaxRemembered
      /\ ToSet(stay) \subseteq ToSet(seen) \cup ToSet(raw)
      /\ ToSet(fresh) \subseteq ToSet(raw)
      /\ \A a : OnceIn(a, fresh)
      /\ ~primed => fresh = <<>>
  BY <1>1, IngestedSound DEF AlertsInv
<1>3. /\ seen' = stay
      /\ queue' = Newest(queue \o fresh, MaxQueued)
      /\ backlog' = IF primed THEN backlog ELSE backlog \cup (ToSet(stay) \ ToSet(seen))
      /\ forgotten' = forgotten \cup ((ToSet(seen) \cup ToSet(raw)) \ ToSet(stay))
                                \cup (ToSet(fresh) \cap ToSet(seen))
      /\ heard' = [a \in Alerts |-> heard[a] \/ a \in ToSet(fresh)]
      /\ primed' = TRUE /\ raw' = <<>> /\ poller' = "sleeping"
      /\ UNCHANGED <<firing, notifying, inHand, shown>>
  BY <1>1 DEF Ingest
<1>4. queue \in Seq(Alerts) /\ ToSet(seen) \subseteq Alerts /\ ToSet(raw) \subseteq Alerts
  BY DEF AlertsInv, AlertsTypeOK, ToSet
<1>5. PICK told \in Seq(Alerts) : told = queue \o fresh
  <2>1. queue \o fresh \in Seq(Alerts)
    BY <1>4
  <2> QED
    BY <2>1
<1>6. /\ queue' \in Seq(Alerts) /\ Len(queue') <= MaxQueued
      /\ ToSet(queue') \subseteq ToSet(told)
      /\ \A a : OnceIn(a, told) => OnceIn(a, queue')
  BY <1>3, <1>5, AlertsAssumption, NewestOf, NewestKeepsOnce
<1>7. /\ DOMAIN told = 1..(Len(queue) + Len(fresh))
      /\ \A i \in 1..Len(queue) : told[i] = queue[i]
      /\ \A i \in 1..Len(fresh) : told[Len(queue) + i] = fresh[i]
  BY <1>2, <1>4, <1>5
<1>7a. Len(queue) \in Nat /\ Len(fresh) \in Nat
  BY <1>4
<1>7b. /\ \A i \in 1..Len(queue) : queue[i] \in ToSet(queue)
       /\ \A i \in 1..Len(fresh) : fresh[i] \in ToSet(fresh) /\ i \in DOMAIN fresh
  BY <1>4 DEF ToSet
<1>8. \A i \in DOMAIN told : \/ i \in 1..Len(queue)
                             \/ i - Len(queue) \in 1..Len(fresh) /\ i = Len(queue) + (i - Len(queue))
  BY <1>2, <1>4, <1>7
<1>9. ToSet(told) \subseteq ToSet(queue) \cup ToSet(fresh)
  <2>1. \A i \in DOMAIN told : told[i] \in ToSet(queue) \cup ToSet(fresh)
    BY <1>7, <1>8, <1>7b
  <2> QED
    BY <2>1 DEF ToSet
<1>10. ASSUME NEW a, a \notin ToSet(queue) \/ a \notin ToSet(fresh), OnceIn(a, queue)
       PROVE  OnceIn(a, told)
  <2> SUFFICES ASSUME NEW i \in DOMAIN told, NEW j \in DOMAIN told, told[i] = a, told[j] = a
               PROVE  i = j
    BY DEF OnceIn
  <2>1. CASE i \in 1..Len(queue) /\ j \in 1..Len(queue)
    BY <1>4, <1>7, <1>10, <2>1 DEF OnceIn
  <2>2. CASE i - Len(queue) \in 1..Len(fresh) /\ j - Len(queue) \in 1..Len(fresh)
    <3>1. fresh[i - Len(queue)] = a /\ fresh[j - Len(queue)] = a
      BY <1>7, <1>8, <2>2
    <3>2. i - Len(queue) = j - Len(queue)
      BY <1>2, <1>7b, <2>2, <3>1 DEF OnceIn
    <3> QED
      BY <1>4, <1>7, <3>2
  <2>3. \A n \in 1..Len(queue) : told[n] \in ToSet(queue)
    BY <1>4, <1>7 DEF ToSet
  <2>4. \A n \in DOMAIN told : n - Len(queue) \in 1..Len(fresh) => told[n] \in ToSet(fresh)
    BY <1>7, <1>8, <1>7a, <1>7b
  <2> QED
    BY <1>8, <1>10, <2>1, <2>2, <2>3, <2>4
<1>11. AlertsTypeOK'
  BY <1>2, <1>3, <1>4, <1>6 DEF AlertsInv, AlertsTypeOK
<1>12. RawIsDistinct'
  BY <1>3 DEF RawIsDistinct
<1>13. ASSUME NEW a \in Alerts \ forgotten'
       PROVE  /\ OnceIn(a, queue') /\ OnceIn(a, inHand)
              /\ shown[a] <= 1
              /\ ~ (a \in ToSet(queue') /\ a \in ToSet(inHand))
              /\ shown[a] = 1 => a \notin ToSet(queue') /\ a \notin ToSet(inHand)
              /\ a \in backlog' \/ a \notin ToSet(seen') =>
                    /\ shown[a] = 0
                    /\ a \notin ToSet(queue') /\ a \notin ToSet(inHand)
              /\ a \in backlog' => a \in ToSet(seen')
  <2>1. /\ a \notin forgotten
        /\ a \in ToSet(seen) \cup ToSet(raw) => a \in ToSet(stay)
        /\ a \notin ToSet(fresh) \/ a \notin ToSet(seen)
    BY <1>3
  <2>2. CASE a \in ToSet(seen)
    <3>1. a \notin ToSet(fresh) /\ a \in ToSet(seen') /\ (a \in backlog' <=> a \in backlog)
      BY <1>3, <2>1, <2>2
    <3>2. OnceIn(a, queue') /\ (a \in ToSet(queue') => a \in ToSet(queue))
      BY <1>6, <1>9, <1>10, <2>1, <3>1 DEF AlertsInv, InOnePlace
    <3> QED
      BY <2>1, <3>1, <3>2 DEF AlertsInv, InOnePlace
  <2>3. CASE a \notin ToSet(seen)
    <3>1. shown[a] = 0 /\ a \notin ToSet(queue) /\ a \notin ToSet(inHand) /\ a \notin backlog
      BY <2>1, <2>3 DEF AlertsInv, InOnePlace
    <3>2. OnceIn(a, queue') /\ (a \in ToSet(queue') => a \in ToSet(fresh))
      BY <1>6, <1>9, <1>10, <2>1, <3>1 DEF AlertsInv, InOnePlace
    <3>3. a \in ToSet(fresh) => a \in ToSet(seen') /\ primed
      <4>1. fresh = <<>> => ToSet(fresh) = {}
        BY DEF ToSet
      <4> QED
        BY <1>2, <1>3, <2>1, <4>1
    <3>4. a \in backlog' => a \in ToSet(seen') /\ ~primed
      BY <1>3, <3>1
    <3> QED
      BY <2>1, <3>1, <3>2, <3>3, <3>4 DEF AlertsInv, InOnePlace
  <2> QED
    BY <2>2, <2>3
<1>14. InOnePlace'
  BY <1>3, <1>13 DEF InOnePlace
<1> QED
  BY <1>11, <1>12, <1>14 DEF AlertsInv

LEMMA AlertsStep ==
    ASSUME AlertsInv, AlertsNext
    PROVE  AlertsInv'
<1>1. ASSUME NEW a \in Alerts, Fire(a) \/ Subside(a)
      PROVE  AlertsInv'
  BY <1>1, AlertsQuiet DEF Fire, Subside, memoryVars, AlertsInv, AlertsTypeOK, RawIsDistinct
<1>2. CASE Switch \/ Check \/ FetchFails \/ Wake
  BY <1>2, AlertsQuiet DEF Switch, Check, FetchFails, Wake, memoryVars, AlertsInv, AlertsTypeOK,
     RawIsDistinct
<1>3. CASE Fetch
  BY <1>3, AlertsQuiet, ListedOnce DEF Fetch, memoryVars, AlertsInv, AlertsTypeOK
<1>4. CASE Drain
  <2>1. AlertsTypeOK' /\ RawIsDistinct'
    BY <1>4, AlertsAssumption DEF Drain, AlertsInv, AlertsTypeOK, RawIsDistinct
  <2>2. ToSet(queue') = {} /\ \A a : OnceIn(a, queue')
    BY <1>4 DEF Drain, ToSet, OnceIn
  <2> QED
    BY <1>4, <2>1, <2>2 DEF Drain, AlertsInv, InOnePlace
<1>5. CASE LoseAnswer
  <2>1. AlertsTypeOK' /\ RawIsDistinct'
    BY <1>5 DEF LoseAnswer, memoryVars, AlertsInv, AlertsTypeOK, RawIsDistinct
  <2>2. ToSet(inHand') = {} /\ \A a : OnceIn(a, inHand')
    BY <1>5 DEF LoseAnswer, ToSet, OnceIn
  <2> QED
    BY <1>5, <2>1, <2>2 DEF LoseAnswer, memoryVars, AlertsInv, InOnePlace
<1>6. CASE Relaunch
  <2>1. AlertsTypeOK'
    <3>1. <<>> \in Seq(Alerts) /\ Len(<<>>) <= MaxRemembered /\ Len(<<>>) <= MaxQueued
      BY AlertsAssumption
    <3> QED
      BY <1>6, <3>1 DEF Relaunch, AlertsInv, AlertsTypeOK
  <2>2. RawIsDistinct' /\ InOnePlace'
    BY <1>6 DEF Relaunch, RawIsDistinct, InOnePlace, OnceIn, ToSet
  <2> QED
    BY <2>1, <2>2 DEF AlertsInv
<1> QED
  BY <1>1, <1>2, <1>3, <1>4, <1>5, <1>6, ShowStep, IngestStep DEF AlertsNext

LEMMA AlertsRest ==
    ASSUME AlertsInv, UNCHANGED alertsVars
    PROVE  AlertsInv'
  BY DEF AlertsInv, AlertsTypeOK, RawIsDistinct, InOnePlace, alertsVars

LEMMA AlertsSound ==
    ASSUME AlertsInv
    PROVE  NotifiedOnce
<1> SUFFICES ASSUME NEW a \in Alerts \ forgotten
             PROVE  shown[a] + Occurrences(queue, a) + Occurrences(inHand, a)
                        <= IF a \in backlog THEN 0 ELSE 1
  BY DEF NotifiedOnce
<1>1. /\ Occurrences(queue, a) = IF a \in ToSet(queue) THEN 1 ELSE 0
      /\ Occurrences(inHand, a) = IF a \in ToSet(inHand) THEN 1 ELSE 0
  BY OccurrencesOfOnce DEF AlertsInv, InOnePlace
<1>2. shown[a] \in Nat
  BY DEF AlertsInv, AlertsTypeOK
<1>3. /\ shown[a] <= 1
      /\ ~ (a \in ToSet(queue) /\ a \in ToSet(inHand))
      /\ shown[a] = 1 => a \notin ToSet(queue) /\ a \notin ToSet(inHand)
      /\ a \in backlog => /\ shown[a] = 0
                          /\ a \notin ToSet(queue) /\ a \notin ToSet(inHand)
  BY DEF AlertsInv, InOnePlace
<1> QED
  BY <1>1, <1>2, <1>3

LEMMA AlertsHold == Spec => []AlertsInv
<1>1. Init => AlertsInv
  BY AlertsStart DEF Init
<1>2. AlertsInv /\ [Next]_vars => AlertsInv'
  BY StepOfEach, AlertsStep, AlertsRest
<1> QED
  BY <1>1, <1>2, PTL DEF Spec

-----------------------------------------------------------------------------
(* The shell.  What waits, is being stored or is about to be replayed is a *)
(* request that was made.                                                  *)

ShellInv == ShellTypeOK /\ {pendingRequest, queuing, replay} \subseteq made \cup {NoRequest}

LEMMA ShellStep ==
    ASSUME ShellInv, ShellNext
    PROVE  ShellInv'
<1> USE DEF ShellInv, ShellTypeOK, Running, processVars, requestVars, At
<1>1. CASE SidecarStep
  BY <1>1 DEF SidecarStep, AnnouncePort, AnnounceReady, WatchParent, ParentGone
<1>2. CASE BootFails
  BY <1>2 DEF BootFails
<1>3. CASE Spawn \/ Keep \/ ReadPort
  BY <1>3 DEF Spawn, Keep, ReadPort
<1>4. CASE StartFails \/ Healthy \/ Open
  BY <1>4 DEF StartFails, Healthy, Open
<1>5. CASE TakePending \/ Replay \/ Queue
  BY <1>5 DEF TakePending, Replay, Queue
<1>6. ASSUME NEW r \in Requests, Dispatch(r)
      PROVE  ShellInv'
  BY <1>6 DEF Dispatch
<1>7. CASE ExitRequested \/ StopBackend \/ Crash
  BY <1>7 DEF ExitRequested, StopBackend, Crash
<1> QED
  BY <1>1, <1>2, <1>3, <1>4, <1>5, <1>6, <1>7 DEF ShellNext, StarterStep

LEMMA ShellHolds == Spec => []ShellInv
<1>1. Init => ShellInv
  BY DEF Init, ShellInit, ShellInv, ShellTypeOK, Running
<1>2. ShellInv /\ [Next]_vars => ShellInv'
  <2> SUFFICES ASSUME ShellInv, [Next]_vars
               PROVE  ShellInv'
    OBVIOUS
  <2>1. CASE UNCHANGED shellVars
    BY <2>1 DEF ShellInv, ShellTypeOK, shellVars, processVars, requestVars
  <2> QED
    BY <2>1, StepOfEach, ShellStep
<1> QED
  BY <1>1, <1>2, PTL DEF Spec

-----------------------------------------------------------------------------
\* What the desktop's threads share stays sound, for every set of threads,
\* grants, tokens, sessions and alerts and every cap (SharedStateIsSound).
THEOREM SharedStateHolds == Spec => []SharedStateIsSound
<1>1. ConfigInv /\ EditsInv /\ AlertsInv /\ ShellInv => SharedStateIsSound
  BY ConfigSound, AlertsSound
  DEF ConfigInv, EditsInv, AlertsInv, ShellInv, SharedStateIsSound, DesktopTypeOK
<1> QED
  BY <1>1, ConfigHolds, EditsHold, AlertsHold, ShellHolds, PTL

=============================================================================
