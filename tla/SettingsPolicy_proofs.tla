------------------------ MODULE SettingsPolicy_proofs ------------------------
(***************************************************************************)
(* Theorems about the managed settings policy, for any settings, any       *)
(* callers, anything the server may publish and any number of revisions,   *)
(* edits, failures and worker terminations.                                *)
(*                                                                         *)
(* The pass is a sequence of steps over a copy of the store read at one of *)
(* them, so what is proved of the store rests on what the pass still       *)
(* knows at each step (Steps): the revision it fetched is not older than   *)
(* the stored policy, and the backup it goes by is the one stored.         *)
(***************************************************************************)
EXTENDS SettingsPolicy, SequenceTheorems, TLAPS

Working == pass.pc \notin {"none", "fetch"}
Reading == pass.pc \notin {"none", "fetch", "reply"}

Queue ==
    /\ waiters \in Seq(Forced)
    /\ \A i \in DOMAIN waiters : caller[waiters[i]].at = "awaits"

StoreOK ==
    /\ published \in Seq(Configs) /\ Rev \in 1..MaxRev
    /\ settings \in SettingMap
    /\ policy \in PolicyType
    /\ backup \in SettingMap \cup {NoBackup}
    /\ toggles \in Nat

PanelOK ==
    panel \in [flags : SettingMap, seen : PolicyType, reload : BOOLEAN,
               save : {"none", "guard", "write"}, guard : PolicyType]

CallerType == [at : {"idle", "owns", "awaits", "ok", "failed"},
               asked : 0..MaxRev, got : 0..MaxRev]

CallOK ==
    /\ caller \in [Callers -> CallerType]
    /\ pass = NoPass <=> ~\E c \in Callers : caller[c].at \in {"owns", "awaits"}
    /\ \A c, d \in Callers : caller[c].at = "owns" /\ caller[d].at = "owns" => c = d
    /\ \A c \in Forced : caller[c].at = "awaits" <=> \E i \in DOMAIN waiters : waiters[i] = c
    /\ \A i, j \in DOMAIN waiters : waiters[i] = waiters[j] => i = j
    /\ Queue

PassOK ==
    /\ PassType
    /\ Working => pass.rev <= Rev
    /\ pass.pc = "restore" => pass.kept # NoBackup

TInv == StoreOK /\ PanelOK /\ PassOK /\ CallOK

\* What the owner of a pass that has its reply asked for, the reply has.
Fresh ==
    /\ \A c \in Callers : caller[c].asked <= Rev
    /\ \A c \in Callers : caller[c].at = "owns" /\ Working => caller[c].asked <= pass.rev

\* The pass goes by a revision that is not older than the stored policy.
Steps ==
    /\ Working => policy.rev <= pass.rev
    /\ policy.rev <= Rev
    /\ policy.managed = IF policy.rev = 0 THEN Nothing ELSE Config(policy.rev).managed
    /\ pass.pc \in {"restore", "bypass", "drop"} => Config(pass.rev).bypass
    /\ toggles = 0 => panel.save = "none"

\* While no page writes, the user's own values are in the maps or in the backup.
Own(map) == \A k \in Keys : map[k].own
Kept ==
    /\ backup # NoBackup => Own(backup)
    /\ Own(settings) \/ backup # NoBackup
    /\ pass.pc = "backup" => Own(pass.current)
    /\ pass.pc = "force" => Keys = {} \/ backup # NoBackup
    /\ pass.pc = "restore" => Own(pass.kept)
    /\ pass.pc \in {"bypass", "drop"} => Own(settings)

IInv == TInv /\ Fresh /\ ForcedSyncIsFresh /\ Steps /\ (toggles = 0 => Kept) /\ PolicyInForce
-----------------------------------------------------------------------------
(* The operators of the model.                                             *)

LEMMA PassFacts ==
    ASSUME PassType
    PROVE  /\ pass.pc \in {"none", "fetch", "reply", "restore", "bypass", "backup", "force",
                           "drop", "done"}
           /\ pass.pc = "none" <=> pass = NoPass
           /\ pass.pc = "fetch" <=> pass = NewPass
           /\ Working => pass.rev \in 1..MaxRev
           /\ Reading => /\ pass.current \in SettingMap
                         /\ pass.kept \in SettingMap \cup {NoBackup}
                         /\ pass \in [pc : {"restore", "bypass", "backup", "force", "drop",
                                            "done"},
                                      rev : 1..MaxRev, current : SettingMap,
                                      kept : SettingMap \cup {NoBackup}]
BY DEF PassType, NoPass, NewPass, Working, Reading

LEMMA ConfigFacts ==
    ASSUME StoreOK, NEW r \in 1..Rev
    PROVE  /\ Config(r) \in Configs /\ Config(r).bypass \in BOOLEAN /\ Config(r).managed \in Maps
           /\ Config(r).bypass => Config(r).managed = Nothing
<1>1. Config(r) \in Configs
  BY DEF StoreOK, Config, Rev
<1>2. Configs \subseteq [bypass : BOOLEAN, managed : Maps]
  BY PolicyConstants
<1> QED
  BY <1>1, <1>2, PolicyConstants

LEMMA NothingFacts == Nothing \in Maps /\ DOMAIN Nothing = {}
BY DEF Nothing, Maps

LEMMA OverrideFacts ==
    ASSUME NEW map \in SettingMap, NEW managed \in Maps
    PROVE  /\ Override(map, managed) \in SettingMap
           /\ \A k \in DOMAIN managed : Override(map, managed)[k].v = managed[k]
<1>1. DOMAIN managed \subseteq Keys /\ \A k \in DOMAIN managed : managed[k] \in BOOLEAN
  BY DEF Maps
<1>2. \A k \in Keys : (IF k \in DOMAIN managed THEN [v |-> managed[k], own |-> FALSE] ELSE map[k])
                        \in Setting
  BY <1>1 DEF SettingMap, Setting
<1>3. Override(map, managed) \in SettingMap
  BY <1>2 DEF Override, SettingMap
<1>4. \A k \in DOMAIN managed : Override(map, managed)[k].v = managed[k]
  BY <1>1 DEF Override
<1> QED
  BY <1>3, <1>4

\* A stored map is a backup unless there is nothing to store.
LEMMA MapIsBackup ==
    ASSUME NEW map \in SettingMap, map = NoBackup PROVE Keys = {}
<1>1. DOMAIN map = Keys
  BY DEF SettingMap
<1> QED
  BY <1>1, NothingFacts DEF NoBackup

LEMMA PolicyTypes == NoPolicy \in PolicyType
BY PolicyConstants, NothingFacts DEF NoPolicy, PolicyType

LEMMA TailFacts ==
    ASSUME NEW S, NEW s \in Seq(S), s # <<>>
    PROVE  /\ Head(s) = s[1] /\ Head(s) \in S /\ 1 \in DOMAIN s
           /\ Tail(s) \in Seq(S)
           /\ \A i \in DOMAIN Tail(s) : i + 1 \in DOMAIN s /\ Tail(s)[i] = s[i + 1]
           /\ \A i \in DOMAIN s : i # 1 => i - 1 \in DOMAIN Tail(s) /\ Tail(s)[i - 1] = s[i]
           /\ DOMAIN Tail(s) \subseteq Nat /\ DOMAIN s \subseteq Nat
OBVIOUS

LEMMA AppendFacts ==
    ASSUME NEW S, NEW s \in Seq(S), NEW e \in S
    PROVE  /\ Append(s, e) \in Seq(S) /\ Len(Append(s, e)) = Len(s) + 1
           /\ DOMAIN Append(s, e) = DOMAIN s \cup {Len(s) + 1}
           /\ \A i \in DOMAIN s : Append(s, e)[i] = s[i]
           /\ Append(s, e)[Len(s) + 1] = e
           /\ Len(s) + 1 \notin DOMAIN s
OBVIOUS
-----------------------------------------------------------------------------
(* Types.                                                                  *)

Bookkeeping ==
    \/ Fetch \/ Read \/ Fault \/ Finish \/ Crash
    \/ PanelSeesPolicy \/ PanelReloads \/ PanelGuards
    \/ \E c \in Callers : Sync(c) \/ Resume(c)

LEMMA Bookkeeps ==
    ASSUME Bookkeeping PROVE UNCHANGED <<published, settings, policy, backup, toggles>>
BY DEF Bookkeeping, Fetch, Read, Fault, Finish, Crash, PanelSeesPolicy, PanelReloads, PanelGuards,
       Sync, Resume, stored

LEMMA Cases ==
    ASSUME [Next]_vars
    PROVE  \/ UNCHANGED vars \/ Publish \/ Bookkeeping
           \/ BackUp \/ Enforce \/ Restore \/ Bypass \/ DropBackup
           \/ PanelWrites \/ \E k \in Keys : PanelToggles(k)
BY DEF Next, Pass, Panel, Bookkeeping

LEMMA StoreStep == ASSUME TInv, [Next]_vars PROVE StoreOK'
<1>1. /\ StoreOK /\ PanelOK /\ PassType
      /\ Working => pass.rev <= Rev
      /\ pass.pc = "restore" => pass.kept # NoBackup
  BY DEF TInv, PassOK
<1>2. CASE UNCHANGED vars \/ Bookkeeping
  <2>1. UNCHANGED <<published, settings, policy, backup, toggles>>
    BY <1>2, Bookkeeps DEF vars, stored
  <2> QED
    BY <1>1, <2>1 DEF StoreOK, Rev
<1>3. CASE Publish
  <2>1. PICK c \in Configs : published' = Append(published, c)
    BY <1>3 DEF Publish
  <2>2. /\ Rev < MaxRev /\ UNCHANGED <<settings, policy, backup, toggles>>
    BY <1>3 DEF Publish, stored
  <2>3. published' \in Seq(Configs) /\ Len(published') = Len(published) + 1
    BY <1>1, <2>1, AppendFacts DEF StoreOK
  <2>4. Rev' \in 1..MaxRev
    BY <1>1, <2>2, <2>3, PolicyConstants DEF StoreOK, Rev
  <2> QED
    BY <1>1, <2>2, <2>3, <2>4 DEF StoreOK
<1>4. CASE BackUp
  <2>1. /\ pass.pc = "backup" /\ backup' = pass.current
        /\ UNCHANGED <<published, settings, policy, toggles>>
    BY <1>4 DEF BackUp
  <2>2. pass.current \in SettingMap
    BY <1>1, <2>1, PassFacts DEF Reading
  <2> QED
    BY <1>1, <2>1, <2>2 DEF StoreOK, Rev
<1>5. CASE Enforce
  <2> DEFINE managed == Config(pass.rev).managed
  <2>1. /\ pass.pc = "force" /\ settings' = Override(pass.current, managed)
        /\ policy' = [rev |-> pass.rev, bypass |-> FALSE, managed |-> managed]
        /\ UNCHANGED <<published, backup, toggles>>
    BY <1>5 DEF Enforce
  <2>2. pass.current \in SettingMap /\ pass.rev \in 1..MaxRev /\ pass.rev \in 1..Rev
    <3>1. pass.current \in SettingMap /\ pass.rev \in 1..MaxRev /\ pass.rev <= Rev
      BY <1>1, <2>1, PassFacts DEF Working, Reading
    <3> QED
      BY <1>1, <3>1, PolicyConstants DEF StoreOK
  <2>3. managed \in Maps
    BY <1>1, <2>2, ConfigFacts
  <2>4. settings' \in SettingMap
    BY <2>1, <2>2, <2>3, OverrideFacts
  <2>5. policy' \in PolicyType
    BY <2>1, <2>2, <2>3 DEF PolicyType
  <2> QED
    BY <1>1, <2>1, <2>4, <2>5 DEF StoreOK, Rev
<1>6. CASE Restore
  <2>1. /\ pass.pc = "restore" /\ settings' = pass.kept
        /\ UNCHANGED <<published, policy, backup, toggles>>
    BY <1>6 DEF Restore
  <2>2. pass.kept \in SettingMap
    BY <1>1, <2>1, PassFacts DEF Reading
  <2> QED
    BY <1>1, <2>1, <2>2 DEF StoreOK, Rev
<1>7. CASE Bypass
  <2>1. /\ pass.pc = "bypass"
        /\ policy' = [rev |-> pass.rev, bypass |-> TRUE, managed |-> Nothing]
        /\ UNCHANGED <<published, settings, backup, toggles>>
    BY <1>7 DEF Bypass
  <2>2. pass.rev \in 1..MaxRev
    BY <1>1, <2>1, PassFacts DEF Working
  <2> QED
    BY <1>1, <2>1, <2>2, NothingFacts DEF StoreOK, Rev, PolicyType
<1>8. CASE DropBackup
  BY <1>1, <1>8 DEF DropBackup, StoreOK, Rev
<1>9. CASE PanelWrites
  <2>1. /\ settings' = Override(panel.flags, panel.guard.managed)
        /\ UNCHANGED <<published, policy, backup, toggles>>
    BY <1>9 DEF PanelWrites
  <2>2. panel.flags \in SettingMap /\ panel.guard.managed \in Maps
    BY <1>1 DEF PanelOK, PolicyType
  <2> QED
    BY <1>1, <2>1, <2>2, OverrideFacts DEF StoreOK, Rev
<1>10. CASE \E k \in Keys : PanelToggles(k)
  <2>1. UNCHANGED <<published, settings, policy, backup>> /\ toggles' = toggles + 1
    BY <1>10 DEF PanelToggles, stored
  <2> QED
    BY <1>1, <2>1 DEF StoreOK, Rev
<1> QED
  BY <1>2, <1>3, <1>4, <1>5, <1>6, <1>7, <1>8, <1>9, <1>10, Cases

PanelKept ==
    \/ Publish \/ Pass \/ Fault \/ Crash \/ \E c \in Callers : Sync(c) \/ Resume(c)

LEMMA PanelStep == ASSUME TInv, [Next]_vars PROVE PanelOK'
<1>1. /\ PanelOK /\ policy \in PolicyType /\ settings \in SettingMap
      /\ panel.flags \in SettingMap /\ panel.seen \in PolicyType /\ panel.reload \in BOOLEAN
      /\ panel.save \in {"none", "guard", "write"} /\ panel.guard \in PolicyType
  BY DEF TInv, StoreOK, PanelOK
<1>2. CASE UNCHANGED vars \/ PanelKept
  <2>1. UNCHANGED panel
    <3>1. CASE UNCHANGED vars \/ Publish \/ Fault \/ Crash \/ \E c \in Callers : Sync(c) \/ Resume(c)
      BY <3>1 DEF vars, Publish, Fault, Crash, Sync, Resume
    <3>2. CASE Fetch \/ Read \/ BackUp \/ Enforce
      BY <3>2 DEF Fetch, Read, BackUp, Enforce
    <3>3. CASE Restore \/ Bypass \/ DropBackup \/ Finish
      BY <3>3 DEF Restore, Bypass, DropBackup, Finish
    <3> QED
      BY <1>2, <3>1, <3>2, <3>3 DEF PanelKept, Pass
  <2> QED
    BY <1>1, <2>1 DEF PanelOK
<1>3. CASE PanelSeesPolicy
  <2> DEFINE stale == panel.reload \/ panel.seen.rev # policy.rev
                        \/ panel.seen.bypass # policy.bypass
  <2>1. panel' = [panel EXCEPT !.seen = policy, !.reload = stale] /\ stale \in BOOLEAN
    BY <1>1, <1>3 DEF PanelSeesPolicy
  <2> HIDE DEF stale
  <2> QED
    BY <1>1, <2>1 DEF PanelOK
<1>4. CASE PanelReloads
  BY <1>1, <1>4 DEF PanelReloads, PanelOK
<1>5. CASE PanelGuards
  BY <1>1, <1>5 DEF PanelGuards, PanelOK
<1>6. CASE PanelWrites
  BY <1>1, <1>6, PolicyTypes DEF PanelWrites, PanelOK
<1>7. ASSUME NEW k \in Keys, PanelToggles(k) PROVE PanelOK'
  <2> DEFINE turned == [v |-> ~panel.flags[k].v, own |-> TRUE]
             flags == [panel.flags EXCEPT ![k] = turned]
  <2>1. panel' = [panel EXCEPT !.flags = flags, !.save = "guard"]
    BY <1>7 DEF PanelToggles
  <2>2. turned \in Setting
    BY DEF Setting
  <2> HIDE DEF turned
  <2>3. flags \in SettingMap
    BY <1>1, <2>2 DEF SettingMap
  <2> HIDE DEF flags
  <2> QED
    BY <1>1, <2>1, <2>3 DEF PanelOK
<1> QED
  BY <1>2, <1>3, <1>4, <1>5, <1>6, <1>7 DEF Next, Panel, PanelKept

\* The next step of a pass that has read the store.
Proceeds(to) ==
    /\ Reading /\ pass' = [pass EXCEPT !.pc = to]
    /\ UNCHANGED <<published, waiters, caller, toggles>>

LEMMA ProceedsFacts ==
    ASSUME PassOK, NEW to \in {"restore", "bypass", "backup", "force", "drop", "done"},
           Proceeds(to), to # "restore"
    PROVE  /\ PassOK' /\ pass'.pc = to /\ pass'.rev = pass.rev
           /\ pass'.current = pass.current /\ pass'.kept = pass.kept
           /\ Working /\ pass' # NoPass /\ pass # NoPass
<1>1. pass \in [pc : {"restore", "bypass", "backup", "force", "drop", "done"},
                rev : 1..MaxRev, current : SettingMap, kept : SettingMap \cup {NoBackup}]
      /\ pass.rev <= Rev /\ Working
  BY PassFacts DEF PassOK, Proceeds, Reading, Working
<1>2. /\ pass' \in [pc : {"restore", "bypass", "backup", "force", "drop", "done"},
                     rev : 1..MaxRev, current : SettingMap, kept : SettingMap \cup {NoBackup}]
      /\ pass'.pc = to /\ pass'.rev = pass.rev
      /\ pass'.current = pass.current /\ pass'.kept = pass.kept
  BY <1>1 DEF Proceeds
<1>3. Rev' = Rev
  BY DEF Proceeds, Rev
<1>4. PassOK'
  BY <1>1, <1>2, <1>3 DEF PassOK, PassType, Working
<1>5. pass' # NoPass /\ pass # NoPass
  BY <1>1, <1>2 DEF NoPass
<1> QED
  BY <1>1, <1>2, <1>4, <1>5

LEMMA StepsProceed ==
    /\ BackUp => pass.pc = "backup" /\ Proceeds("force")
    /\ Enforce => pass.pc = "force" /\ Proceeds("done")
    /\ Restore => pass.pc = "restore" /\ Proceeds("bypass")
    /\ Bypass => pass.pc = "bypass" /\ Proceeds("drop")
    /\ DropBackup => pass.pc = "drop" /\ Proceeds("done")
<1>1. BackUp => pass.pc = "backup" /\ Proceeds("force")
  BY DEF BackUp, Proceeds, Reading
<1>2. Enforce => pass.pc = "force" /\ Proceeds("done")
  BY DEF Enforce, Proceeds, Reading
<1>3. Restore => pass.pc = "restore" /\ Proceeds("bypass")
  BY DEF Restore, Proceeds, Reading
<1>4. Bypass => pass.pc = "bypass" /\ Proceeds("drop")
  BY DEF Bypass, Proceeds, Reading
<1>5. DropBackup => pass.pc = "drop" /\ Proceeds("done")
  BY DEF DropBackup, Proceeds, Reading
<1> QED
  BY <1>1, <1>2, <1>3, <1>4, <1>5

\* A step of the pass in progress, apart from its end.
LEMMA AdvanceFacts ==
    ASSUME PassOK, BackUp \/ Enforce \/ Restore \/ Bypass \/ DropBackup
    PROVE  /\ PassOK' /\ Working /\ Working' /\ pass'.rev = pass.rev
           /\ pass' # NoPass /\ pass # NoPass
           /\ UNCHANGED <<published, waiters, caller, toggles>>
<1>1. PICK to \in {"force", "done", "bypass", "drop"} : Proceeds(to)
  BY StepsProceed
<1>2. /\ PassOK' /\ pass'.pc = to /\ pass'.rev = pass.rev
      /\ Working /\ pass' # NoPass /\ pass # NoPass
  BY <1>1, ProceedsFacts
<1> QED
  BY <1>1, <1>2 DEF Proceeds, Working

\* Which step follows which.
LEMMA TargetFacts ==
    ASSUME PassOK
    PROVE  /\ BackUp => pass.pc = "backup" /\ pass'.pc = "force"
           /\ Enforce => pass.pc = "force" /\ pass'.pc = "done"
           /\ Restore => pass.pc = "restore" /\ pass'.pc = "bypass"
           /\ Bypass => pass.pc = "bypass" /\ pass'.pc = "drop"
           /\ DropBackup => pass.pc = "drop" /\ pass'.pc = "done"
BY StepsProceed, ProceedsFacts

LEMMA SettleFacts ==
    ASSUME NEW ok \in BOOLEAN, Settle(ok)
    PROVE  (pass' = NewPass \/ pass' = NoPass) /\ ~Working' /\ ~Reading' /\ PassOK'
<1>1. pass' = NewPass \/ pass' = NoPass
  BY DEF Settle
<1> QED
  BY <1>1 DEF NewPass, NoPass, Working, Reading, PassOK, PassType

LEMMA ReadFacts ==
    ASSUME StoreOK, PassOK, Read
    PROVE  /\ pass.pc = "reply" /\ pass.rev \in 1..Rev
           /\ PassOK' /\ Working' /\ pass'.rev = pass.rev
           /\ pass'.current = settings /\ pass'.kept = backup
           /\ pass'.pc = IF Config(pass.rev).bypass
                         THEN IF backup # NoBackup THEN "restore" ELSE "bypass"
                         ELSE IF backup = NoBackup THEN "backup" ELSE "force"
           /\ pass # NoPass /\ pass' # NoPass
           /\ UNCHANGED <<published, stored, waiters, caller, panel, toggles>>
<1> DEFINE step == IF Config(pass.rev).bypass
                   THEN IF backup # NoBackup THEN "restore" ELSE "bypass"
                   ELSE IF backup = NoBackup THEN "backup" ELSE "force"
<1>1. /\ pass.pc = "reply"
      /\ pass' = [pc |-> step, rev |-> pass.rev, current |-> settings, kept |-> backup]
      /\ UNCHANGED <<published, stored, waiters, caller, panel, toggles>>
  BY DEF Read
<1>2. pass.rev \in 1..MaxRev /\ pass.rev <= Rev
  BY <1>1, PassFacts DEF PassOK, Working
<1>3. pass.rev \in 1..Rev /\ Rev' = Rev
  BY <1>1, <1>2, PolicyConstants DEF StoreOK, Rev
<1>4. /\ step \in {"restore", "bypass", "backup", "force"}
      /\ step = "restore" => backup # NoBackup
  OBVIOUS
<1> HIDE DEF step
<1>5. /\ pass'.pc = step /\ pass'.rev = pass.rev
      /\ pass'.current = settings /\ pass'.kept = backup
      /\ pass' \in [pc : {"restore", "bypass", "backup", "force", "drop", "done"},
                     rev : 1..MaxRev, current : SettingMap, kept : SettingMap \cup {NoBackup}]
  BY <1>1, <1>2, <1>4 DEF StoreOK
<1>6. PassOK' /\ Working' /\ pass # NoPass /\ pass' # NoPass
  BY <1>1, <1>2, <1>3, <1>4, <1>5 DEF PassOK, PassType, Working, NoPass
<1> QED
  BY <1>1, <1>3, <1>5, <1>6 DEF step

LEMMA FetchFacts ==
    ASSUME StoreOK, PassOK, Fetch
    PROVE  /\ PassOK' /\ pass'.pc = "reply" /\ pass'.rev = Rev
           /\ pass # NoPass /\ pass' # NoPass
           /\ UNCHANGED <<published, stored, waiters, caller, panel, toggles>>
<1>1. /\ pass.pc = "fetch" /\ pass' = [pc |-> "reply", rev |-> Rev]
      /\ UNCHANGED <<published, stored, waiters, caller, panel, toggles>>
  BY DEF Fetch
<1>2. pass'.pc = "reply" /\ pass'.rev = Rev /\ Rev' = Rev /\ Rev \in 1..MaxRev
  BY <1>1 DEF StoreOK, Rev
<1>3. PassOK'
  BY <1>1, <1>2, PolicyConstants DEF PassOK, PassType, Working
<1> QED
  BY <1>1, <1>2, <1>3 DEF NoPass

LEMMA PassStep == ASSUME TInv, [Next]_vars PROVE PassOK'
<1>1. StoreOK /\ PassOK
  BY DEF TInv
<1>2. CASE Publish
  <2>1. /\ UNCHANGED pass
        /\ \E c \in Configs : published' = Append(published, c)
    BY <1>2 DEF Publish, worker
  <2>2. Rev' = Rev + 1 /\ Rev \in Nat
    BY <1>1, <2>1, AppendFacts DEF StoreOK, Rev
  <2>3. Working => pass.rev \in 1..MaxRev /\ pass.rev <= Rev
    BY <1>1, PassFacts DEF PassOK
  <2>4. Working => pass.rev <= Rev'
    BY <2>2, <2>3, PolicyConstants
  <2> QED
    BY <1>1, <2>1, <2>4 DEF PassOK, PassType, Working
<1>3. CASE UNCHANGED vars \/ Panel \/ \E c \in Callers : Resume(c)
  <2>1. UNCHANGED <<pass, published>>
    BY <1>3 DEF vars, worker, Panel, PanelSeesPolicy, PanelReloads, PanelGuards, PanelWrites,
                PanelToggles, Resume
  <2> QED
    BY <1>1, <2>1 DEF PassOK, PassType, Working, Rev
<1>4. CASE \E c \in Callers : Sync(c)
  <2>1. UNCHANGED published /\ (pass' = NewPass \/ pass' = pass)
    BY <1>4 DEF Sync
  <2> QED
    BY <1>1, <2>1 DEF PassOK, PassType, Working, Rev, NewPass
<1>5. CASE Fault \/ Finish
  <2>1. Settle(TRUE) \/ Settle(FALSE)
    BY <1>5 DEF Fault, Finish
  <2> QED
    BY <2>1, SettleFacts
<1>6. CASE Crash
  BY <1>6 DEF Crash, PassOK, PassType, Working, NoPass
<1>7. CASE Fetch
  BY <1>1, <1>7, FetchFacts
<1>8. CASE Read
  BY <1>1, <1>8, ReadFacts
<1>9. CASE BackUp \/ Enforce \/ Restore \/ Bypass \/ DropBackup
  BY <1>1, <1>9, AdvanceFacts
<1> QED
  BY <1>2, <1>3, <1>4, <1>5, <1>6, <1>7, <1>8, <1>9 DEF Next, Pass
-----------------------------------------------------------------------------
(* The promise and its callers.                                            *)

\* What is left to the callers when neither they nor the promise move.
LEMMA CallsStay ==
    ASSUME CallOK, UNCHANGED <<waiters, caller>>, pass = NoPass <=> pass' = NoPass
    PROVE  CallOK'
BY DEF CallOK, Queue

LEMMA CallsSync ==
    ASSUME TInv, NEW c \in Callers, Sync(c) PROVE CallOK'
<1>1. CallOK /\ Rev \in 0..MaxRev /\ 0 \in 0..MaxRev
  BY PolicyConstants DEF TInv, StoreOK
<1>2. caller[c].at = "idle" /\ caller \in [Callers -> CallerType]
  BY <1>1 DEF Sync, CallOK
<1>3. NewPass # NoPass
  BY DEF NewPass, NoPass
<1>4. CASE pass = NoPass
  <2> DEFINE owner == [Idle EXCEPT !.at = "owns", !.asked = Rev]
  <2>1. pass' = NewPass /\ caller' = [caller EXCEPT ![c] = owner] /\ UNCHANGED waiters
    BY <1>4 DEF Sync
  <2>2. owner \in CallerType /\ owner.at = "owns"
    BY <1>1 DEF Idle, CallerType
  <2> HIDE DEF owner
  <2>3. \A d \in Callers : caller[d].at # "owns" /\ caller[d].at # "awaits"
    BY <1>1, <1>4 DEF CallOK
  <2>4. /\ caller' \in [Callers -> CallerType] /\ caller'[c].at = "owns"
        /\ \A d \in Callers : d # c => caller'[d] = caller[d]
    BY <1>2, <2>1, <2>2
  <2>5. \A d \in Callers : caller'[d].at = "owns" => d = c
    BY <2>3, <2>4
  <2>6. \A d \in Callers : caller'[d].at # "awaits"
    BY <2>3, <2>4
  <2>7. \A k \in DOMAIN waiters : FALSE
    BY <1>1, <2>3 DEF CallOK, Queue, Callers
  <2> QED
    BY <1>1, <1>3, <2>1, <2>4, <2>5, <2>6, <2>7 DEF CallOK, Queue, Callers
<1>5. CASE pass # NoPass
  <2> DEFINE waiting == [Idle EXCEPT !.at = "awaits", !.asked = Rev]
  <2>1. /\ caller' = [caller EXCEPT ![c] = waiting] /\ UNCHANGED pass
        /\ waiters' = IF c \in Forced THEN Append(waiters, c) ELSE waiters
    BY <1>5 DEF Sync
  <2>2. waiting \in CallerType /\ waiting.at = "awaits"
    BY <1>1 DEF Idle, CallerType
  <2> HIDE DEF waiting
  <2>3. /\ caller' \in [Callers -> CallerType] /\ caller'[c].at = "awaits"
        /\ \A d \in Callers : d # c => caller'[d] = caller[d]
    BY <1>2, <2>1, <2>2
  <2>4. waiters \in Seq(Forced) /\ \A k \in DOMAIN waiters : waiters[k] # c /\ waiters[k] \in Forced
    BY <1>1, <1>2 DEF CallOK, Queue
  <2>5. /\ \A d, e \in Callers : caller'[d].at = "owns" /\ caller'[e].at = "owns" => d = e
        /\ \E d \in Callers : caller'[d].at \in {"owns", "awaits"}
    BY <1>1, <2>3 DEF CallOK
  <2>6. CASE c \in Forced
    <3>1. /\ waiters' \in Seq(Forced)
          /\ DOMAIN waiters' = DOMAIN waiters \cup {Len(waiters) + 1}
          /\ \A k \in DOMAIN waiters : waiters'[k] = waiters[k]
          /\ waiters'[Len(waiters) + 1] = c
          /\ Len(waiters) + 1 \notin DOMAIN waiters
      BY <2>1, <2>4, <2>6, AppendFacts
    <3>2. \A k \in DOMAIN waiters' : caller'[waiters'[k]].at = "awaits"
      BY <1>1, <2>3, <2>4, <3>1 DEF CallOK, Queue, Callers
    <3>3. \A d \in Forced : caller'[d].at = "awaits" <=> \E k \in DOMAIN waiters' : waiters'[k] = d
      BY <1>1, <2>3, <2>4, <3>1 DEF CallOK, Callers
    <3>4. \A k, l \in DOMAIN waiters' : waiters'[k] = waiters'[l] => k = l
      BY <1>1, <2>4, <3>1 DEF CallOK
    <3> QED
      BY <1>5, <2>1, <2>3, <2>5, <3>1, <3>2, <3>3, <3>4 DEF CallOK, Queue
  <2>7. CASE c \notin Forced
    <3>1. waiters' = waiters
      BY <2>1, <2>7
    <3>2. \A k \in DOMAIN waiters' : caller'[waiters'[k]].at = "awaits"
      BY <1>1, <2>3, <2>4, <3>1 DEF CallOK, Queue, Callers
    <3>3. \A d \in Forced : caller'[d].at = "awaits" <=> \E k \in DOMAIN waiters' : waiters'[k] = d
      BY <1>1, <2>3, <2>7, <3>1 DEF CallOK, Callers
    <3> QED
      BY <1>1, <1>5, <2>1, <2>3, <2>5, <3>1, <3>2, <3>3 DEF CallOK, Queue
  <2> QED
    BY <2>6, <2>7
<1> QED
  BY <1>4, <1>5

\* A caller that is settled neither owns the promise nor awaits it.
LEMMA SettledFacts ==
    ASSUME TInv, NEW c \in Callers, NEW ok \in BOOLEAN, ok => pass.pc = "done"
    PROVE  /\ Settled(c, ok) \in CallerType
           /\ Settled(c, ok).at = IF ok THEN "ok" ELSE "failed"
           /\ Settled(c, ok).asked = caller[c].asked
           /\ ok => Settled(c, ok).got = pass.rev
<1>1. caller[c] \in CallerType
  BY DEF TInv, CallOK
<1>2. ok => pass.rev \in 0..MaxRev
  BY PassFacts DEF TInv, PassOK, Working
<1> QED
  BY <1>1, <1>2 DEF Settled, CallerType

\* The pass ends and the first forced waiter starts one of its own.
LEMMA CallsHandOn ==
    ASSUME TInv, pass.pc = "done", Settle(TRUE), waiters # <<>> PROVE CallOK'
<1> DEFINE h == Head(waiters)
<1>1. /\ pass' = NewPass /\ waiters' = Tail(waiters)
      /\ caller' = [c \in Callers |->
             IF c = h THEN [caller[c] EXCEPT !.at = "owns"]
             ELSE IF caller[c].at = "owns" \/ (caller[c].at = "awaits" /\ c = quiet)
                  THEN Settled(c, TRUE) ELSE caller[c]]
  BY DEF Settle
<1>2. /\ CallOK /\ caller \in [Callers -> CallerType] /\ waiters \in Seq(Forced)
  BY DEF TInv, CallOK, Queue
<1>3. /\ h = waiters[1] /\ h \in Forced /\ 1 \in DOMAIN waiters
      /\ waiters' \in Seq(Forced)
      /\ \A k \in DOMAIN waiters' : k + 1 \in DOMAIN waiters /\ waiters'[k] = waiters[k + 1]
      /\ \A k \in DOMAIN waiters : k # 1 => k - 1 \in DOMAIN waiters' /\ waiters'[k - 1] = waiters[k]
      /\ DOMAIN waiters' \subseteq Nat /\ DOMAIN waiters \subseteq Nat
  BY <1>1, <1>2, TailFacts
<1> HIDE DEF h
<1>4. h \in Callers /\ h # quiet
  BY <1>3, PolicyConstants DEF Callers
<1>5. \A c \in Callers :
        /\ caller'[c] \in CallerType
        /\ c = h => caller'[c].at = "owns"
        /\ c # h /\ (caller[c].at = "owns" \/ (caller[c].at = "awaits" /\ c = quiet))
             => caller'[c].at = "ok"
        /\ c # h /\ ~(caller[c].at = "owns" \/ (caller[c].at = "awaits" /\ c = quiet))
             => caller'[c].at = caller[c].at
  <2> SUFFICES ASSUME NEW c \in Callers
               PROVE  /\ caller'[c] \in CallerType
                      /\ c = h => caller'[c].at = "owns"
                      /\ c # h /\ (caller[c].at = "owns" \/ (caller[c].at = "awaits" /\ c = quiet))
                           => caller'[c].at = "ok"
                      /\ c # h /\ ~(caller[c].at = "owns" \/ (caller[c].at = "awaits" /\ c = quiet))
                           => caller'[c].at = caller[c].at
    OBVIOUS
  <2>1. caller[c] \in CallerType
    BY <1>2
  <2>2. CASE c = h
    <3>1. caller'[c] = [caller[c] EXCEPT !.at = "owns"]
      BY <1>1, <2>2
    <3> QED
      BY <2>1, <2>2, <3>1 DEF CallerType
  <2>3. CASE c # h /\ (caller[c].at = "owns" \/ (caller[c].at = "awaits" /\ c = quiet))
    <3>1. caller'[c] = Settled(c, TRUE)
      BY <1>1, <2>3
    <3> QED
      BY <2>3, <3>1, SettledFacts
  <2>4. CASE c # h /\ ~(caller[c].at = "owns" \/ (caller[c].at = "awaits" /\ c = quiet))
    <3>1. caller'[c] = caller[c]
      BY <1>1, <2>4
    <3> QED
      BY <2>1, <2>4, <3>1
  <2> QED
    BY <2>2, <2>3, <2>4
<1>6. caller' \in [Callers -> CallerType]
  <2>1. caller' = [c \in Callers |-> caller'[c]]
    BY <1>1
  <2> QED
    BY <1>5, <2>1
<1>7. pass' # NoPass /\ \E c \in Callers : caller'[c].at \in {"owns", "awaits"}
  BY <1>1, <1>4, <1>5 DEF NewPass, NoPass
<1>8. \A c, d \in Callers : caller'[c].at = "owns" /\ caller'[d].at = "owns" => c = d
  BY <1>5
<1>9. \A k \in DOMAIN waiters' : waiters'[k] \in Forced /\ waiters'[k] # h /\ caller[waiters'[k]].at = "awaits"
  <2> SUFFICES ASSUME NEW k \in DOMAIN waiters'
               PROVE  waiters'[k] \in Forced /\ waiters'[k] # h /\ caller[waiters'[k]].at = "awaits"
    OBVIOUS
  <2>1. k \in Nat /\ k + 1 \in DOMAIN waiters /\ waiters'[k] = waiters[k + 1]
    BY <1>3
  <2>2. k + 1 # 1
    <3>1. k \in DOMAIN waiters' => k # 0
      BY <1>3
    <3> QED
      BY <2>1, <3>1
  <2>3. waiters[k + 1] # h
    BY <1>2, <1>3, <2>1, <2>2 DEF CallOK
  <2> QED
    BY <1>2, <2>1, <2>3 DEF CallOK, Queue
<1>10. \A k \in DOMAIN waiters' : caller'[waiters'[k]].at = "awaits"
  BY <1>5, <1>9, PolicyConstants DEF Callers
<1>11. \A c \in Forced : caller'[c].at = "awaits" <=> \E k \in DOMAIN waiters' : waiters'[k] = c
  <2> SUFFICES ASSUME NEW c \in Forced, caller'[c].at = "awaits"
               PROVE  \E k \in DOMAIN waiters' : waiters'[k] = c
    BY <1>10
  <2>1. caller[c].at = "awaits" /\ c # h
    BY <1>5 DEF Callers
  <2>2. PICK k \in DOMAIN waiters : waiters[k] = c
    BY <1>2, <2>1 DEF CallOK
  <2>3. k # 1
    BY <1>3, <2>1, <2>2
  <2> QED
    BY <1>3, <2>2, <2>3
<1>12. \A k, l \in DOMAIN waiters' : waiters'[k] = waiters'[l] => k = l
  <2> SUFFICES ASSUME NEW k \in DOMAIN waiters', NEW l \in DOMAIN waiters',
                      waiters'[k] = waiters'[l]
               PROVE  k = l
    OBVIOUS
  <2>1. k + 1 = l + 1
    BY <1>2, <1>3 DEF CallOK
  <2>2. k \in Nat /\ l \in Nat
    BY <1>3
  <2> QED
    BY <2>1, <2>2
<1> QED
  BY <1>3, <1>6, <1>7, <1>8, <1>10, <1>11, <1>12 DEF CallOK, Queue

\* The promise settles and nobody is left.
LEMMA CallsEnd ==
    ASSUME TInv, NEW ok \in BOOLEAN, ok => pass.pc = "done", Settle(ok), ~ok \/ waiters = <<>>
    PROVE  CallOK'
<1>1. /\ pass' = NoPass /\ waiters' = <<>>
      /\ caller' = [c \in Callers |->
             IF caller[c].at \in {"owns", "awaits"} THEN Settled(c, ok) ELSE caller[c]]
  BY DEF Settle
<1>2. caller \in [Callers -> CallerType]
  BY DEF TInv, CallOK
<1>3. \A c \in Callers : caller'[c] \in CallerType /\ caller'[c].at \notin {"owns", "awaits"}
  <2> SUFFICES ASSUME NEW c \in Callers
               PROVE  caller'[c] \in CallerType /\ caller'[c].at \notin {"owns", "awaits"}
    OBVIOUS
  <2>1. CASE caller[c].at \in {"owns", "awaits"}
    <3>1. caller'[c] = Settled(c, ok)
      BY <1>1, <2>1
    <3> QED
      BY <3>1, SettledFacts
  <2>2. CASE caller[c].at \notin {"owns", "awaits"}
    BY <1>1, <1>2, <2>2
  <2> QED
    BY <2>1, <2>2
<1>4. caller' \in [Callers -> CallerType]
  <2>1. caller' = [c \in Callers |-> caller'[c]]
    BY <1>1
  <2> QED
    BY <1>3, <2>1
<1>5. waiters' \in Seq(Forced) /\ DOMAIN waiters' = {}
  BY <1>1
<1> QED
  BY <1>1, <1>3, <1>4, <1>5 DEF CallOK, Queue, Callers

LEMMA CallStep == ASSUME TInv, [Next]_vars PROVE CallOK'
<1>1. StoreOK /\ PassOK /\ CallOK
  BY DEF TInv
<1>2. CASE UNCHANGED vars \/ Publish \/ Panel
  <2>1. UNCHANGED <<pass, waiters, caller>>
    BY <1>2 DEF vars, worker, Publish, Panel, PanelSeesPolicy, PanelReloads, PanelGuards,
                PanelWrites, PanelToggles
  <2> QED
    BY <1>1, <2>1, CallsStay
<1>3. CASE Fetch \/ Read
  <2>1. UNCHANGED <<waiters, caller>> /\ pass # NoPass /\ pass' # NoPass
    BY <1>1, <1>3, FetchFacts, ReadFacts
  <2> QED
    BY <1>1, <2>1, CallsStay
<1>4. CASE BackUp \/ Enforce \/ Restore \/ Bypass \/ DropBackup
  <2>1. UNCHANGED <<waiters, caller>> /\ pass # NoPass /\ pass' # NoPass
    BY <1>1, <1>4, AdvanceFacts
  <2> QED
    BY <1>1, <2>1, CallsStay
<1>5. CASE \E c \in Callers : Sync(c)
  BY <1>5, CallsSync
<1>6. ASSUME NEW c \in Callers, Resume(c) PROVE CallOK'
  <2>1. /\ caller[c].at \in {"ok", "failed"} /\ caller' = [caller EXCEPT ![c] = Idle]
        /\ UNCHANGED <<pass, waiters>>
    BY <1>6 DEF Resume
  <2>2. Idle \in CallerType /\ Idle.at = "idle"
    BY PolicyConstants DEF Idle, CallerType
  <2> USE <1>1 DEF CallOK, Queue
  <2>3. /\ caller' \in [Callers -> CallerType] /\ caller'[c].at = "idle"
        /\ \A d \in Callers : d # c => caller'[d] = caller[d]
    BY <2>1, <2>2
  <2>4. \A k \in DOMAIN waiters : waiters[k] # c /\ waiters[k] \in Callers
    BY <2>1 DEF Callers
  <2> QED
    BY <2>1, <2>3, <2>4 DEF Callers
<1>7. CASE Fault
  BY <1>7, CallsEnd DEF Fault
<1>8. CASE Finish
  BY <1>8, CallsEnd, CallsHandOn DEF Finish
<1>9. CASE Crash
  <2>1. /\ pass' = NoPass /\ waiters' = <<>> /\ caller' = [c \in Callers |-> Idle]
    BY <1>9 DEF Crash
  <2>2. Idle \in CallerType /\ Idle.at = "idle"
    BY PolicyConstants DEF Idle, CallerType
  <2>3. waiters' \in Seq(Forced) /\ DOMAIN waiters' = {}
    BY <2>1
  <2> QED
    BY <2>1, <2>2, <2>3 DEF CallOK, Queue, Callers
<1> QED
  BY <1>2, <1>3, <1>4, <1>5, <1>6, <1>7, <1>8, <1>9 DEF Next, Pass

LEMMA TypeStep == ASSUME TInv, [Next]_vars PROVE TInv'
BY StoreStep, PanelStep, PassStep, CallStep DEF TInv

\* Every caller is idle and nothing is published but a first configuration.
LEMMA InitHolds == Init => IInv
<1> SUFFICES ASSUME Init PROVE IInv
  OBVIOUS
<1>1. PICK c \in Configs : published = <<c>>
  BY DEF Init
<1>2. /\ settings = [k \in Keys |-> [v |-> TRUE, own |-> TRUE]]
      /\ policy = NoPolicy /\ backup = NoBackup /\ pass = NoPass /\ waiters = <<>>
      /\ caller = [d \in Callers |-> Idle]
      /\ panel = [flags |-> settings, seen |-> NoPolicy, reload |-> FALSE,
                  save |-> "none", guard |-> NoPolicy]
      /\ toggles = 0
  BY DEF Init
<1>3. settings \in SettingMap /\ Own(settings)
  BY <1>2 DEF SettingMap, Setting, Own
<1>4. Rev = 1 /\ published \in Seq(Configs) /\ Rev \in 1..MaxRev
  BY <1>1, PolicyConstants DEF Rev
<1>5. StoreOK
  BY <1>2, <1>3, <1>4, PolicyTypes DEF StoreOK
<1>6. PanelOK
  BY <1>2, <1>3, PolicyTypes DEF PanelOK
<1>7. ~Working /\ pass.pc = "none" /\ PassOK
  BY <1>2 DEF PassOK, PassType, Working, NoPass
<1>8. Idle \in CallerType /\ Idle.at = "idle" /\ Idle.asked = 0
  BY PolicyConstants DEF Idle, CallerType
<1>9. CallOK
  <2>1. waiters \in Seq(Forced) /\ DOMAIN waiters = {}
    BY <1>2
  <2> QED
    BY <1>2, <1>8, <2>1 DEF CallOK, Queue, Callers
<1>10. Fresh /\ ForcedSyncIsFresh
  BY <1>2, <1>4, <1>7, <1>8 DEF Fresh, ForcedSyncIsFresh, Callers
<1>11. Steps
  BY <1>2, <1>4, <1>7 DEF Steps, NoPolicy
<1>12. Kept
  BY <1>2, <1>3, <1>7 DEF Kept
<1>13. PolicyInForce
  BY <1>2, NothingFacts DEF PolicyInForce, NoPolicy
<1> QED
  BY <1>5, <1>6, <1>7, <1>9, <1>10, <1>11, <1>12, <1>13 DEF IInv, TInv
-----------------------------------------------------------------------------
(* Acknowledgements.                                                       *)

\* Nobody's question changes when the promise settles, and a forced caller is
\* told only by the pass it owns.
LEMMA SettleTells ==
    ASSUME TInv, Fresh, ForcedSyncIsFresh,
           NEW ok \in BOOLEAN, ok => pass.pc = "done", Settle(ok), NEW c \in Callers
    PROVE  /\ caller'[c].asked = caller[c].asked
           /\ c \in Forced /\ caller'[c].at = "ok" => caller'[c].got >= caller'[c].asked
<1>1. /\ caller[c] \in CallerType /\ CallOK
      /\ c \in Forced /\ caller[c].at = "ok" => caller[c].got >= caller[c].asked
  BY DEF TInv, CallOK, ForcedSyncIsFresh
<1>2. /\ Settled(c, ok).asked = caller[c].asked
      /\ Settled(c, ok).at = IF ok THEN "ok" ELSE "failed"
      /\ ok => Settled(c, ok).got = pass.rev
  BY SettledFacts
<1>3. caller[c].at = "owns" /\ ok => pass.rev >= caller[c].asked
  <2>1. pass.pc = "done" => Working /\ pass.rev \in 1..MaxRev
    BY PassFacts DEF Working, TInv, PassOK
  <2>2. caller[c].asked \in 0..MaxRev
    BY <1>1 DEF CallerType
  <2>3. caller[c].at = "owns" /\ ok => caller[c].asked <= pass.rev
    BY <2>1 DEF Fresh
  <2> QED
    BY <2>1, <2>2, <2>3, PolicyConstants
<1>4. CASE caller'[c] = Settled(c, ok) /\ (caller[c].at = "owns" \/ c \notin Forced \/ ~ok)
  BY <1>2, <1>3, <1>4
<1>5. CASE caller'[c] = caller[c] \/ caller'[c] = [caller[c] EXCEPT !.at = "owns"]
  BY <1>1, <1>5 DEF CallerType
<1>6. CASE ok /\ waiters # <<>>
  <2>1. caller'[c] =
          IF c = Head(waiters) THEN [caller[c] EXCEPT !.at = "owns"]
          ELSE IF caller[c].at = "owns" \/ (caller[c].at = "awaits" /\ c = quiet)
               THEN Settled(c, ok) ELSE caller[c]
    BY <1>6 DEF Settle
  <2> QED
    BY <1>4, <1>5, <2>1, PolicyConstants
<1>7. CASE ~(ok /\ waiters # <<>>)
  <2>1. caller'[c] = IF caller[c].at \in {"owns", "awaits"} THEN Settled(c, ok) ELSE caller[c]
    BY <1>7 DEF Settle
  <2>2. c \in Forced /\ ok => caller[c].at # "awaits"
    BY <1>1, <1>7 DEF CallOK
  <2> QED
    BY <1>4, <1>5, <2>1, <2>2
<1> QED
  BY <1>6, <1>7

LEMMA FreshStep ==
    ASSUME TInv, Fresh, ForcedSyncIsFresh, [Next]_vars PROVE Fresh' /\ ForcedSyncIsFresh'
<1>1. StoreOK /\ PassOK /\ CallOK /\ Rev \in 1..MaxRev /\ Rev \in Nat
  BY DEF TInv, StoreOK
<1>2. \A c \in Callers : caller[c] \in CallerType
  BY <1>1 DEF CallOK
<1>3. CASE UNCHANGED vars \/ Panel
  <2>1. UNCHANGED <<pass, caller, published>>
    BY <1>3 DEF vars, worker, Panel, PanelSeesPolicy, PanelReloads, PanelGuards,
                PanelWrites, PanelToggles
  <2> QED
    BY <2>1 DEF Fresh, ForcedSyncIsFresh, Working, Rev
<1>4. CASE Publish
  <2>1. UNCHANGED <<pass, caller>> /\ \E c \in Configs : published' = Append(published, c)
    BY <1>4 DEF Publish, worker
  <2>2. Rev' = Rev + 1
    BY <1>1, <2>1, AppendFacts DEF StoreOK, Rev
  <2>3. \A c \in Callers : caller[c].asked <= Rev'
    <3> SUFFICES ASSUME NEW c \in Callers PROVE caller[c].asked <= Rev'
      OBVIOUS
    <3>1. caller[c].asked \in 0..MaxRev /\ caller[c].asked <= Rev
      BY <1>2 DEF CallerType, Fresh
    <3> QED
      BY <1>1, <2>2, <3>1, PolicyConstants
  <2> QED
    BY <2>1, <2>3 DEF Fresh, ForcedSyncIsFresh, Working
<1>5. ASSUME NEW c \in Callers, Sync(c) \/ Resume(c) PROVE Fresh' /\ ForcedSyncIsFresh'
  <2> DEFINE owner == [Idle EXCEPT !.at = "owns", !.asked = Rev]
             waiting == [Idle EXCEPT !.at = "awaits", !.asked = Rev]
  <2>1. /\ UNCHANGED published
        /\ pass' = NewPass \/ pass' = pass
        /\ \/ caller' = [caller EXCEPT ![c] = owner] /\ pass' = NewPass
           \/ caller' = [caller EXCEPT ![c] = waiting]
           \/ caller' = [caller EXCEPT ![c] = Idle]
    BY <1>5 DEF Sync, Resume
  <2>0. /\ owner.at = "owns" /\ owner.asked = Rev
        /\ waiting.at = "awaits" /\ waiting.asked = Rev
        /\ Idle.at = "idle" /\ Idle.asked = 0
    BY DEF Idle
  <2> HIDE DEF owner, waiting
  <2>2. /\ \A d \in Callers : d # c => caller'[d] = caller[d]
        /\ caller'[c].at \in {"owns", "awaits", "idle"} /\ caller'[c].asked <= Rev
        /\ caller'[c].at = "owns" => pass' = NewPass
    BY <1>1, <2>0, <2>1 DEF CallOK
  <2>3. Rev' = Rev
    BY <2>1 DEF Rev
  <2>4. pass' = NewPass => ~Working'
    BY DEF NewPass, Working
  <2> QED
    BY <2>1, <2>2, <2>3, <2>4 DEF Fresh, ForcedSyncIsFresh, Working, Callers
<1>6. CASE Fetch
  <2>1. pass'.rev = Rev /\ UNCHANGED <<published, caller>>
    BY <1>1, <1>6, FetchFacts
  <2> QED
    BY <2>1 DEF Fresh, ForcedSyncIsFresh, Rev
<1>7. CASE Read \/ BackUp \/ Enforce \/ Restore \/ Bypass \/ DropBackup
  <2>1. pass'.rev = pass.rev /\ Working /\ UNCHANGED <<published, caller>>
    BY <1>1, <1>7, ReadFacts, AdvanceFacts DEF Working
  <2> QED
    BY <2>1 DEF Fresh, ForcedSyncIsFresh, Rev
<1>8. CASE Fault \/ Finish
  <2>1. PICK ok \in BOOLEAN : Settle(ok) /\ (ok => pass.pc = "done") /\ UNCHANGED published
    BY <1>8 DEF Fault, Finish
  <2>2. ~Working'
    BY <2>1, SettleFacts
  <2>3. \A c \in Callers :
          /\ caller'[c].asked = caller[c].asked
          /\ c \in Forced /\ caller'[c].at = "ok" => caller'[c].got >= caller'[c].asked
    BY <2>1, SettleTells
  <2> QED
    BY <2>1, <2>2, <2>3 DEF Fresh, ForcedSyncIsFresh, Rev, Callers
<1>9. CASE Crash
  <2>1. /\ \A c \in Callers : caller'[c] = Idle
        /\ UNCHANGED published
    BY <1>9 DEF Crash
  <2> QED
    BY <1>1, <2>1 DEF Fresh, ForcedSyncIsFresh, Rev, Idle, Callers
<1> QED
  BY <1>3, <1>4, <1>5, <1>6, <1>7, <1>8, <1>9 DEF Next, Pass
-----------------------------------------------------------------------------
(* The store and the pass.                                                 *)

\* What was published stays published.
LEMMA PublishFacts ==
    ASSUME StoreOK, Publish
    PROVE  /\ UNCHANGED <<settings, policy, backup, pass, toggles, panel>>
           /\ Rev' = Rev + 1 /\ Rev \in Nat
           /\ \A r \in 1..Rev : Config(r)' = Config(r)
<1>1. /\ UNCHANGED <<settings, policy, backup, pass, toggles, panel>>
      /\ \E c \in Configs : published' = Append(published, c)
  BY DEF Publish, stored, worker
<1> QED
  BY <1>1, AppendFacts DEF StoreOK, Rev, Config

\* A step of the callers leaves the pass as it is, begins one or ends it.
LEMMA CallersFacts ==
    ASSUME Fault \/ Finish \/ Crash \/ \E c \in Callers : Sync(c) \/ Resume(c)
    PROVE  /\ UNCHANGED <<published, settings, policy, backup, panel, toggles>>
           /\ pass' = pass \/ (~Working' /\ pass'.pc \in {"none", "fetch"})
<1>1. UNCHANGED <<published, settings, policy, backup, panel, toggles>>
  BY DEF Fault, Finish, Crash, Sync, Resume, stored
<1>2. pass' \in {pass, NewPass, NoPass}
  <2>1. CASE Fault \/ Finish
    BY <2>1 DEF Fault, Finish, Settle
  <2>2. CASE Crash \/ \E c \in Callers : Sync(c) \/ Resume(c)
    BY <2>2 DEF Crash, Sync, Resume
  <2> QED
    BY <2>1, <2>2
<1>3. (pass' = NewPass \/ pass' = NoPass) => ~Working' /\ pass'.pc \in {"none", "fetch"}
  BY DEF NewPass, NoPass, Working
<1> QED
  BY <1>1, <1>2, <1>3

LEMMA PanelFacts ==
    ASSUME Panel, StoreOK, Steps
    PROVE  /\ UNCHANGED <<published, policy, backup, pass>>
           /\ toggles' = 0 => toggles = 0 /\ settings' = settings /\ panel'.save = "none"
<1>1. /\ UNCHANGED <<published, policy, backup, pass>>
      /\ \/ toggles' = toggles /\ settings' = settings /\ panel.save = panel'.save
         \/ toggles' = toggles /\ panel.save # "none"
         \/ toggles' = toggles + 1
  <2>1. CASE PanelSeesPolicy \/ PanelReloads
    <3>1. panel'.save = panel.save
      <4>1. CASE PanelSeesPolicy
        BY <4>1 DEF PanelSeesPolicy
      <4>2. CASE PanelReloads
        BY <4>2 DEF PanelReloads
      <4> QED
        BY <2>1, <4>1, <4>2
    <3> QED
      BY <2>1, <3>1 DEF PanelSeesPolicy, PanelReloads, stored, worker
  <2>2. CASE PanelGuards
    BY <2>2 DEF PanelGuards, stored, worker
  <2>3. CASE PanelWrites
    BY <2>3 DEF PanelWrites, worker
  <2>4. CASE \E k \in Keys : PanelToggles(k)
    BY <2>4 DEF PanelToggles, stored, worker
  <2> QED
    BY <2>1, <2>2, <2>3, <2>4 DEF Panel
<1>2. toggles \in Nat /\ (toggles = 0 => panel.save = "none")
  BY DEF StoreOK, Steps
<1> QED
  BY <1>1, <1>2

\* What a step of the pass does to the store and to the panel.
LEMMA PassKeeps ==
    ASSUME BackUp \/ Enforce \/ Restore \/ Bypass \/ DropBackup
    PROVE  /\ UNCHANGED <<published, panel, toggles>>
           /\ Enforce \/ Bypass \/ UNCHANGED policy
           /\ Enforce \/ Restore \/ UNCHANGED settings
           /\ BackUp \/ DropBackup \/ UNCHANGED backup
<1>1. CASE BackUp \/ Restore \/ DropBackup
  BY <1>1 DEF BackUp, Restore, DropBackup
<1>2. CASE Enforce \/ Bypass
  BY <1>2 DEF Enforce, Bypass
<1> QED
  BY <1>1, <1>2

LEMMA StepsStep == ASSUME TInv, Steps, [Next]_vars PROVE Steps'
<1>1. StoreOK /\ PassOK
  BY DEF TInv
<1>2. /\ policy.rev \in 0..MaxRev /\ policy.rev <= Rev /\ Rev \in 1..MaxRev
      /\ Working => pass.rev \in 1..MaxRev /\ pass.rev <= Rev
      /\ Rev \in Nat /\ MaxRev \in Nat
  <2>1. Working => pass.rev \in 1..MaxRev /\ pass.rev <= Rev
    BY <1>1, PassFacts DEF PassOK
  <2> QED
    BY <1>1, <2>1, PolicyConstants DEF StoreOK, PolicyType, Steps
<1>3. policy.rev = 0 \/ policy.rev \in 1..Rev
  BY <1>2
<1>4. Working => pass.rev \in 1..Rev
  BY <1>2
<1>5. CASE UNCHANGED vars
  BY <1>5 DEF vars, stored, worker, Steps, Working, Rev, Config
<1>6. CASE Panel
  BY <1>1, <1>6, PanelFacts DEF Steps, Working, Rev, Config
<1>7. CASE Publish
  <2>1. /\ UNCHANGED <<policy, pass, toggles, panel>>
        /\ Rev' = Rev + 1
        /\ \A r \in 1..Rev : Config(r)' = Config(r)
    BY <1>1, <1>7, PublishFacts
  <2>2. policy.rev <= Rev'
    BY <1>2, <2>1
  <2>3. policy.managed = IF policy.rev = 0 THEN Nothing ELSE Config(policy.rev)'.managed
    BY <1>3, <2>1 DEF Steps
  <2>4. pass.pc \in {"restore", "bypass", "drop"} => Config(pass.rev)'.bypass
    BY <1>4, <2>1 DEF Steps, Working
  <2> QED
    BY <2>1, <2>2, <2>3, <2>4 DEF Steps, Working, Config
<1>8. CASE Fault \/ Finish \/ Crash \/ \E c \in Callers : Sync(c) \/ Resume(c)
  BY <1>8, CallersFacts DEF Steps, Working, Rev, Config
<1>9. CASE Fetch
  BY <1>1, <1>9, FetchFacts DEF Steps, Working, Rev, Config, stored
<1>10. CASE Read
  <2>1. /\ pass.pc = "reply" /\ pass'.rev = pass.rev
        /\ pass'.pc \in {"restore", "bypass"} => Config(pass.rev).bypass
        /\ pass'.pc # "drop"
        /\ UNCHANGED <<published, policy, panel, toggles>>
    BY <1>1, <1>10, ReadFacts DEF stored
  <2> QED
    BY <2>1 DEF Steps, Working, Rev, Config
<1>11. CASE BackUp \/ DropBackup
  <2>1. /\ pass'.pc \notin {"restore", "bypass", "drop"} /\ pass'.rev = pass.rev /\ Working
        /\ UNCHANGED <<published, policy, panel, toggles>>
    BY <1>1, <1>11, PassKeeps, AdvanceFacts, TargetFacts
  <2> QED
    BY <2>1 DEF Steps, Rev, Config
<1>12. CASE Restore
  <2>1. /\ pass.pc = "restore" /\ pass'.rev = pass.rev /\ Working
        /\ UNCHANGED <<published, policy, panel, toggles>>
    BY <1>1, <1>12, PassKeeps, AdvanceFacts, TargetFacts
  <2> QED
    BY <2>1 DEF Steps, Rev, Config
<1>13. CASE Enforce \/ Bypass
  <2>1. pass'.rev = pass.rev /\ Working /\ UNCHANGED <<published, panel, toggles>>
    BY <1>1, <1>13, PassKeeps, AdvanceFacts
  <2>2. /\ policy'.rev = pass.rev
        /\ \/ policy'.managed = Config(pass.rev).managed
           \/ policy'.managed = Nothing /\ pass.pc = "bypass"
    BY <1>13 DEF Enforce, Bypass
  <2>3. policy'.managed = Config(pass.rev).managed
    BY <1>1, <1>4, <2>1, <2>2, ConfigFacts DEF Steps
  <2>4. pass'.pc \in {"restore", "bypass", "drop"} => Config(pass.rev).bypass
    <3>1. CASE Enforce
      BY <1>1, <3>1, TargetFacts
    <3>2. CASE Bypass
      BY <3>2 DEF Bypass, Steps
    <3> QED
      BY <1>13, <3>1, <3>2
  <2>5. pass.rev # 0
    BY <1>2, <2>1
  <2> QED
    BY <1>2, <2>1, <2>2, <2>3, <2>4, <2>5 DEF Steps, Rev, Config
<1> QED
  BY <1>5, <1>6, <1>7, <1>8, <1>9, <1>10, <1>11, <1>12, <1>13 DEF Next, Pass

\* The steps at which a pass holds what a lift needs: nothing of it is lost.
LEMMA KeptAdvance ==
    ASSUME TInv, Kept, BackUp \/ Enforce \/ Restore \/ Bypass \/ DropBackup PROVE Kept'
<1>1. PassOK
  BY DEF TInv
<1>2. CASE BackUp
  <2>1. /\ pass.pc = "backup" /\ pass'.pc = "force"
        /\ backup' = pass.current /\ UNCHANGED settings
    BY <1>1, <1>2, TargetFacts DEF BackUp
  <2>2. pass.current \in SettingMap /\ Own(pass.current)
    BY <1>1, <2>1, PassFacts DEF Reading, PassOK, Kept
  <2>3. Keys = {} \/ backup' # NoBackup
    BY <2>1, <2>2, MapIsBackup
  <2>4. Keys = {} => Own(settings)
    BY DEF Own
  <2> QED
    BY <2>1, <2>2, <2>3, <2>4 DEF Kept, Own
<1>3. CASE Enforce
  <2>1. pass.pc = "force" /\ pass'.pc = "done" /\ UNCHANGED backup
    BY <1>1, <1>3, TargetFacts DEF Enforce
  <2>2. Keys = {} => Own(settings')
    BY DEF Own
  <2> QED
    BY <2>1, <2>2 DEF Kept, Own
<1>4. CASE Restore
  <2>1. /\ pass.pc = "restore" /\ pass'.pc = "bypass" /\ UNCHANGED backup
        /\ settings' = pass.kept
    BY <1>1, <1>4, TargetFacts DEF Restore
  <2> QED
    BY <2>1 DEF Kept, Own
<1>5. CASE Bypass
  <2>1. pass.pc = "bypass" /\ pass'.pc = "drop" /\ UNCHANGED <<backup, settings>>
    BY <1>1, <1>5, TargetFacts DEF Bypass
  <2> QED
    BY <2>1 DEF Kept, Own
<1>6. CASE DropBackup
  <2>1. /\ pass.pc = "drop" /\ pass'.pc = "done"
        /\ backup' \in {NoBackup, backup} /\ UNCHANGED settings
    BY <1>1, <1>6, TargetFacts DEF DropBackup
  <2> QED
    BY <2>1 DEF Kept, Own
<1> QED
  BY <1>2, <1>3, <1>4, <1>5, <1>6

LEMMA KeptStep ==
    ASSUME TInv, Steps, toggles = 0 => Kept, [Next]_vars, toggles' = 0 PROVE Kept'
<1>1. StoreOK /\ PassOK /\ toggles \in Nat
  BY DEF TInv, StoreOK
<1>2. ASSUME UNCHANGED <<settings, backup>>, toggles = 0,
             pass' = pass \/ pass'.pc \in {"none", "fetch", "reply"}
      PROVE  Kept'
  BY <1>2 DEF Kept, Own
<1>3. CASE UNCHANGED vars
  BY <1>2, <1>3 DEF vars, stored, worker
<1>4. CASE Panel
  BY <1>1, <1>2, <1>4, PanelFacts
<1>5. CASE Publish
  BY <1>1, <1>2, <1>5, PublishFacts
<1>6. CASE Fault \/ Finish \/ Crash \/ \E c \in Callers : Sync(c) \/ Resume(c)
  BY <1>2, <1>6, CallersFacts
<1>7. CASE Fetch
  BY <1>1, <1>2, <1>7, FetchFacts DEF stored
<1>8. CASE Read
  <2>1. /\ pass'.current = settings /\ pass'.kept = backup
        /\ pass'.pc \in {"restore", "force"} => backup # NoBackup
        /\ pass'.pc \in {"bypass", "backup"} => backup = NoBackup
        /\ pass'.pc # "drop"
        /\ UNCHANGED <<settings, backup, toggles>>
    BY <1>1, <1>8, ReadFacts DEF stored
  <2> QED
    BY <2>1 DEF Kept, Own
<1>9. CASE BackUp \/ Enforce \/ Restore \/ Bypass \/ DropBackup
  <2>1. UNCHANGED toggles
    BY <1>9, PassKeeps
  <2> QED
    BY <1>9, <2>1, KeptAdvance
<1> QED
  BY <1>3, <1>4, <1>5, <1>6, <1>7, <1>8, <1>9 DEF Next, Pass

LEMMA InForceStep ==
    ASSUME TInv, Steps, PolicyInForce, [Next]_vars PROVE PolicyInForce'
<1> SUFFICES ASSUME toggles' = 0 PROVE PolicyInForce'
  <2>1. toggles' \in Nat
    BY TypeStep DEF TInv, StoreOK
  <2> QED
    BY <2>1 DEF PolicyInForce
<1>1. StoreOK /\ PassOK /\ toggles \in Nat
  BY DEF TInv, StoreOK
<1>2. /\ policy.rev \in 0..MaxRev /\ policy.rev <= Rev /\ Rev \in 1..MaxRev
      /\ Working => pass.rev \in 1..MaxRev /\ pass.rev <= Rev
      /\ Rev \in Nat /\ MaxRev \in Nat
  <2>1. Working => pass.rev \in 1..MaxRev /\ pass.rev <= Rev
    BY <1>1, PassFacts DEF PassOK
  <2> QED
    BY <1>1, <2>1, PolicyConstants DEF StoreOK, PolicyType, Steps
<1>3. ASSUME UNCHANGED <<published, settings, policy>>, toggles = 0 PROVE PolicyInForce'
  BY <1>3 DEF PolicyInForce, Rev, Config
<1>4. CASE UNCHANGED vars
  BY <1>3, <1>4 DEF vars, stored
<1>5. CASE Panel
  BY <1>1, <1>3, <1>5, PanelFacts
<1>6. CASE Publish
  <2>1. /\ UNCHANGED <<settings, policy, toggles>>
        /\ Rev' = Rev + 1
        /\ \A r \in 1..Rev : Config(r)' = Config(r)
    BY <1>1, <1>6, PublishFacts
  <2>2. CASE \E r \in policy.rev + 1 .. Rev : Config(r).bypass
    <3>1. PICK r \in policy.rev + 1 .. Rev : Config(r).bypass
      BY <2>2
    <3>2. r \in 1..Rev /\ r \in policy.rev + 1 .. Rev'
      BY <1>2, <2>1
    <3>3. Config(r)'.bypass /\ r \in policy'.rev + 1 .. Rev'
      BY <2>1, <3>1, <3>2
    <3> QED
      BY <3>3 DEF PolicyInForce, Config
  <2>3. CASE \A k \in DOMAIN policy.managed : settings[k].v = policy.managed[k]
    BY <2>1, <2>3 DEF PolicyInForce
  <2> QED
    BY <2>1, <2>2, <2>3 DEF PolicyInForce
<1>7. CASE Fault \/ Finish \/ Crash \/ \E c \in Callers : Sync(c) \/ Resume(c)
  BY <1>3, <1>7, CallersFacts
<1>8. CASE Fetch \/ Read
  BY <1>1, <1>3, <1>8, FetchFacts, ReadFacts DEF stored
<1>9. CASE BackUp \/ DropBackup
  BY <1>3, <1>9 DEF BackUp, DropBackup
<1>10. CASE Enforce
  <2>1. /\ pass.pc = "force" /\ settings' = Override(pass.current, Config(pass.rev).managed)
        /\ policy' = [rev |-> pass.rev, bypass |-> FALSE, managed |-> Config(pass.rev).managed]
    BY <1>10 DEF Enforce
  <2>2. pass.current \in SettingMap /\ pass.rev \in 1..Rev
    BY <1>1, <1>2, <2>1, PassFacts DEF PassOK, Reading, Working
  <2>3. Config(pass.rev).managed \in Maps
    BY <1>1, <2>2, ConfigFacts
  <2> DEFINE managed == Config(pass.rev).managed
  <2>4. \A k \in DOMAIN managed : settings'[k].v = managed[k]
    BY <2>1, <2>2, <2>3, OverrideFacts
  <2>5. policy'.managed = managed
    BY <2>1
  <2> HIDE DEF managed
  <2> QED
    BY <2>4, <2>5 DEF PolicyInForce
<1>11. CASE Bypass
  <2>1. policy'.managed = Nothing
    BY <1>11 DEF Bypass
  <2> QED
    BY <2>1, NothingFacts DEF PolicyInForce
<1>12. CASE Restore
  <2>1. pass.pc = "restore" /\ UNCHANGED <<published, policy, toggles>>
    BY <1>12 DEF Restore
  <2>2. Config(pass.rev).bypass /\ policy.rev <= pass.rev /\ pass.rev \in 1..Rev
    BY <1>2, <2>1 DEF Steps, Working
  <2>3. CASE pass.rev = policy.rev
    <3>1. policy.managed = Nothing
      BY <1>1, <1>2, <2>2, <2>3, ConfigFacts DEF Steps
    <3> QED
      BY <2>1, <3>1, NothingFacts DEF PolicyInForce
  <2>4. CASE pass.rev # policy.rev
    <3>1. pass.rev \in policy.rev + 1 .. Rev
      BY <1>2, <2>2, <2>4
    <3> QED
      BY <2>1, <2>2, <3>1 DEF PolicyInForce, Rev, Config
  <2> QED
    BY <2>3, <2>4
<1> QED
  BY <1>4, <1>5, <1>6, <1>7, <1>8, <1>9, <1>10, <1>11, <1>12 DEF Next, Pass
-----------------------------------------------------------------------------
(* The theorems.                                                           *)

LEMMA StepHolds == IInv /\ [Next]_vars => IInv'
<1> SUFFICES ASSUME IInv, [Next]_vars PROVE IInv'
  OBVIOUS
<1>1. TInv' /\ Fresh' /\ ForcedSyncIsFresh'
  BY TypeStep, FreshStep DEF IInv
<1>2. Steps' /\ PolicyInForce'
  BY StepsStep, InForceStep DEF IInv
<1>3. (toggles = 0 => Kept)'
  <2>1. toggles' = 0 => Kept'
    BY KeptStep DEF IInv
  <2> QED
    BY <2>1
<1> QED
  BY <1>1, <1>2, <1>3 DEF IInv

LEMMA InvHolds == Spec => []IInv
BY InitHolds, StepHolds, PTL DEF Spec

\* The store, the pass and the page keep their types; a pass has one owner, and
\* the queue holds the forced callers that await, each once.
THEOREM TypeCorrect == Spec => []TypeOK
<1>1. IInv => TypeOK
  BY DEF IInv, TInv, StoreOK, PanelOK, PassOK, CallOK, CallerType, TypeOK
<1> QED
  BY <1>1, InvHolds, PTL

\* remote-settings-policy.js:235-237: whatever the callers, the revisions and the
\* failures, an invalidation is acknowledged only by a pass that asked after it.
THEOREM AcknowledgedFresh == Spec => []ForcedSyncIsFresh
<1>1. IInv => ForcedSyncIsFresh
  BY DEF IInv
<1> QED
  BY <1>1, InvHolds, PTL

\* As long as no page writes, a stored map that carries a forced value has the
\* user's own values in the backup, whichever step a pass stops at.
THEOREM ForcedIsLiftable == Spec => []ForcedCanBeLifted
<1>1. IInv => ForcedCanBeLifted
  BY DEF IInv, Kept, Own, ForcedCanBeLifted
<1> QED
  BY <1>1, InvHolds, PTL

\* As long as no page writes, the stored policy is in force or a bypass has been
\* granted since.
THEOREM PolicyHolds == Spec => []PolicyInForce
<1>1. IInv => PolicyInForce
  BY DEF IInv
<1> QED
  BY <1>1, InvHolds, PTL
=============================================================================
