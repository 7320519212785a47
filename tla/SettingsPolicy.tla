---------------------------- MODULE SettingsPolicy ----------------------------
(***************************************************************************)
(* lib/remote-settings-policy.js: the worker fetches the server's policy,  *)
(* forces the managed settings and keeps a backup of the user's own, which *)
(* an administrator bypass gives back.  Next to it, the pages that write   *)
(* the same setting maps (src/src/lib/flags.js, SettingsPanel.jsx).        *)
(*                                                                         *)
(* One stored map stands for featureFlags and devSettings: both are read,  *)
(* backed up, forced and restored in the same calls.  A setting carries    *)
(* its value and whether the user chose it (own) or a policy forced it;    *)
(* the tag is copied along with the value and decides nothing.             *)
(***************************************************************************)
EXTENDS Naturals, Sequences

CONSTANTS
    Keys,        \* setting names
    Forced,      \* callers of sync({force: true}): outbox rows being applied
    Configs,     \* what the server may publish: [bypass, managed]
    MaxRev,      \* bound: published revisions
    MaxToggles,  \* bound: edits in the settings page
    MaxMishaps   \* bound: worker terminations, failed fetches and failed storage
                 \* writes, and edits in the settings page, together

quiet == "quiet"            \* alarm, onStartup, onInstalled, Settings opening
Callers == Forced \cup {quiet}

Nothing == [k \in {} |-> TRUE]
Maps == UNION {[S -> BOOLEAN] : S \in SUBSET Keys}

ASSUME PolicyConstants ==
    /\ Configs \subseteq [bypass : BOOLEAN, managed : Maps]
    /\ \A c \in Configs : c.bypass => c.managed = Nothing
    /\ MaxRev \in Nat \ {0} /\ MaxToggles \in Nat
    /\ MaxMishaps \in Nat
    /\ quiet \notin Forced

VARIABLES
    published,   \* the server's configurations, oldest first
    settings,    \* chrome.storage: featureFlags and devSettings
    policy,      \* chrome.storage: gbRemoteSettingsPolicy
    backup,      \* chrome.storage: gbRemoteSettingsBackup, or NoBackup
    pass,        \* the pass behind syncPromise, or NoPass
    waiters,     \* forced callers awaiting syncPromise, in await order
    caller,      \* where each caller of sync() is
    panel,       \* the open settings page
    toggles, crashes, faults

stored == <<settings, policy, backup>>
worker == <<pass, waiters, caller>>
vars == <<published, stored, worker, panel, toggles, crashes, faults>>

Setting == [v : BOOLEAN, own : BOOLEAN]
SettingMap == [Keys -> Setting]
NoBackup == Nothing
NoPass == [pc |-> "none"]
NoPolicy == [rev |-> 0, bypass |-> FALSE, managed |-> Nothing]
Idle == [at |-> "idle", asked |-> 0, got |-> 0]

MishapLeft == toggles + crashes + faults < MaxMishaps

Rev == Len(published)
Config(r) == published[r]

Init ==
    /\ published \in {<<c>> : c \in Configs}
    /\ settings = [k \in Keys |-> [v |-> TRUE, own |-> TRUE]]
    /\ policy = NoPolicy
    /\ backup = NoBackup
    /\ pass = NoPass
    /\ waiters = <<>>
    /\ caller = [c \in Callers |-> Idle]
    /\ panel = [flags |-> settings, seen |-> NoPolicy, reload |-> FALSE,
                save |-> "none", guard |-> NoPolicy]
    /\ toggles = 0 /\ crashes = 0 /\ faults = 0

\* The server gets a new configuration.
Publish ==
    /\ Rev < MaxRev
    /\ \E c \in Configs : published' = Append(published, c)
    /\ UNCHANGED <<stored, worker, panel, toggles, crashes, faults>>

----------------------------------------------------------------------------
(* sync(): one pass at a time; a forced caller outlives the pass it found. *)

NewPass == [pc |-> "fetch"]

Sync(c) ==
    /\ caller[c].at = "idle"
    /\ IF pass = NoPass
       THEN /\ pass' = NewPass
            /\ caller' = [caller EXCEPT ![c] = [Idle EXCEPT !.at = "owns", !.asked = Rev]]
            /\ UNCHANGED waiters
       ELSE /\ caller' = [caller EXCEPT ![c] = [Idle EXCEPT !.at = "awaits", !.asked = Rev]]
            /\ waiters' = IF c \in Forced THEN Append(waiters, c) ELSE waiters
            /\ UNCHANGED pass
    /\ UNCHANGED <<published, stored, panel, toggles, crashes, faults>>

Settled(c, ok) ==
    IF ok THEN [caller[c] EXCEPT !.at = "ok", !.got = pass.rev]
          ELSE [caller[c] EXCEPT !.at = "failed"]

\* Mutant: forced callers share the result of the pass they found in flight.
SettleTogether(ok) ==
    /\ pass' = NoPass
    /\ waiters' = <<>>
    /\ caller' = [c \in Callers |->
           IF caller[c].at \in {"owns", "awaits"} THEN Settled(c, ok) ELSE caller[c]]

\* syncPromise settles: its owner clears it, the callers that shared it get its
\* result, and the first forced waiter starts a pass of its own.
Settle(ok) ==
    IF ok /\ waiters # <<>>
    THEN /\ pass' = NewPass
         /\ waiters' = Tail(waiters)
         /\ caller' = [c \in Callers |->
                IF c = Head(waiters) THEN [caller[c] EXCEPT !.at = "owns"]
                ELSE IF caller[c].at = "owns" \/ (caller[c].at = "awaits" /\ c = quiet)
                     THEN Settled(c, ok) ELSE caller[c]]
    ELSE /\ pass' = NoPass
         /\ waiters' = <<>>
         /\ caller' = [c \in Callers |->
                IF caller[c].at \in {"owns", "awaits"} THEN Settled(c, ok) ELSE caller[c]]

\* The caller goes on; a failed outbox row is delivered again.
Resume(c) ==
    /\ caller[c].at \in {"ok", "failed"}
    /\ caller' = [caller EXCEPT ![c] = Idle]
    /\ UNCHANGED <<published, stored, pass, waiters, panel, toggles, crashes, faults>>

----------------------------------------------------------------------------
(* One pass.  Each step ends at an await.                                  *)

\* The request is answered with the configuration the server has then.
Fetch ==
    /\ pass.pc = "fetch"
    /\ pass' = [pc |-> "reply", rev |-> Rev]
    /\ UNCHANGED <<published, stored, waiters, caller, panel, toggles, crashes, faults>>

\* The reply is validated and the stored maps are read.
Read ==
    /\ pass.pc = "reply"
    /\ LET step == IF Config(pass.rev).bypass
                   THEN IF backup # NoBackup THEN "restore" ELSE "bypass"
                   ELSE IF backup = NoBackup THEN "backup" ELSE "force"
       IN  pass' = [pc |-> step, rev |-> pass.rev, current |-> settings, kept |-> backup]
    /\ UNCHANGED <<published, stored, waiters, caller, panel, toggles, crashes, faults>>

\* Mutant: syncPromise is not cleared when a pass rejects.
FaultKeepsPromise ==
    /\ pass.pc \notin {"none", "drop", "rejected"}
    /\ MishapLeft
    /\ faults' = faults + 1
    /\ pass' = [pc |-> "rejected"]
    /\ caller' = [c \in Callers |->
           IF caller[c].at \in {"owns", "awaits"} THEN Settled(c, FALSE) ELSE caller[c]]
    /\ waiters' = <<>>
    /\ UNCHANGED <<published, stored, panel, toggles, crashes>>

\* An unusable reply, or a read, a write or the broadcast that fails: the pass rejects
\* with what it has stored so far.  (A removal never rejects.)
Fault ==
    /\ pass.pc \notin {"none", "drop"}
    /\ MishapLeft
    /\ faults' = faults + 1
    /\ Settle(FALSE)
    /\ UNCHANGED <<published, stored, panel, toggles, crashes>>

\* applyConfiguration: back up, then write settings and policy in one set.
BackUp ==
    /\ pass.pc = "backup"
    /\ backup' = pass.current
    /\ pass' = [pass EXCEPT !.pc = "force"]
    /\ UNCHANGED <<published, settings, policy, waiters, caller, panel, toggles, crashes, faults>>

\* Mutant: the spreads are swapped, so the stored value wins.
OverrideUnder(map, managed) == map

\* Managed values over a map; everything else as it was.
Override(map, managed) ==
    [k \in Keys |-> IF k \in DOMAIN managed THEN [v |-> managed[k], own |-> FALSE] ELSE map[k]]

Enforce ==
    /\ pass.pc = "force"
    /\ settings' = Override(pass.current, Config(pass.rev).managed)
    /\ policy' = [rev |-> pass.rev, bypass |-> FALSE, managed |-> Config(pass.rev).managed]
    /\ pass' = [pass EXCEPT !.pc = "done"]
    /\ UNCHANGED <<published, backup, waiters, caller, panel, toggles, crashes, faults>>

\* Mutant: the backup is consumed before it is written back.
RestoreConsumesFirst ==
    /\ pass.pc = "restore"
    /\ IF backup # NoBackup
       THEN backup' = NoBackup /\ UNCHANGED <<settings, pass>>
       ELSE settings' = pass.kept /\ pass' = [pass EXCEPT !.pc = "bypass"] /\ UNCHANGED backup
    /\ UNCHANGED <<published, policy, waiters, caller, panel, toggles, crashes, faults>>

\* restoreForAdmin: the backup back into the maps, then the policy, then the backup goes.
Restore ==
    /\ pass.pc = "restore"
    /\ settings' = pass.kept
    /\ pass' = [pass EXCEPT !.pc = "bypass"]
    /\ UNCHANGED <<published, policy, backup, waiters, caller, panel, toggles, crashes, faults>>

Bypass ==
    /\ pass.pc = "bypass"
    /\ policy' = [rev |-> pass.rev, bypass |-> TRUE, managed |-> Nothing]
    /\ pass' = [pass EXCEPT !.pc = "drop"]
    /\ UNCHANGED <<published, settings, backup, waiters, caller, panel, toggles, crashes, faults>>

\* The backup is removed, or the browser refuses to and nobody looks.
DropBackup ==
    /\ pass.pc = "drop"
    /\ \/ backup' = NoBackup /\ UNCHANGED faults
       \/ MishapLeft /\ faults' = faults + 1 /\ UNCHANGED backup
    /\ pass' = [pass EXCEPT !.pc = "done"]
    /\ UNCHANGED <<published, settings, policy, waiters, caller, panel, toggles, crashes>>

\* The flags are broadcast, the alarm is set, the promise resolves.
Finish ==
    /\ pass.pc = "done"
    /\ Settle(TRUE)
    /\ UNCHANGED <<published, stored, panel, toggles, crashes, faults>>

\* The worker is stopped at any await; nothing of the pass survives but storage.
Crash ==
    /\ MishapLeft
    /\ pass # NoPass
    /\ crashes' = crashes + 1
    /\ pass' = NoPass
    /\ waiters' = <<>>
    /\ caller' = [c \in Callers |-> Idle]
    /\ UNCHANGED <<published, stored, panel, toggles, faults>>

----------------------------------------------------------------------------
(* The settings page: its own copy of the map, written back as a whole.    *)

PageOpen == MaxToggles > 0      \* bound: a page nobody edits in is left out

\* storage.onChanged: a new revision or bypass makes the page load the map again.
PanelSeesPolicy ==
    /\ PageOpen
    /\ panel.seen # policy
    /\ panel' = [panel EXCEPT !.seen = policy,
           !.reload = panel.reload \/ panel.seen.rev # policy.rev
                                   \/ panel.seen.bypass # policy.bypass]
    /\ UNCHANGED <<published, stored, worker, toggles, crashes, faults>>

PanelReloads ==
    /\ panel.reload
    /\ panel' = [panel EXCEPT !.flags = settings, !.reload = FALSE]
    /\ UNCHANGED <<published, stored, worker, toggles, crashes, faults>>

\* toggleFlag: refused for a setting the page believes managed.
PanelToggles(k) ==
    /\ toggles < MaxToggles /\ MishapLeft
    /\ panel.save = "none"
    /\ k \notin DOMAIN panel.seen.managed
    /\ toggles' = toggles + 1
    /\ panel' = [panel EXCEPT !.flags[k] = [v |-> ~panel.flags[k].v, own |-> TRUE],
                              !.save = "guard"]
    /\ UNCHANGED <<published, stored, worker, crashes, faults>>

\* saveFlags: read the policy, then write the map with its values over it.
PanelGuards ==
    /\ panel.save = "guard"
    /\ panel' = [panel EXCEPT !.guard = policy, !.save = "write"]
    /\ UNCHANGED <<published, stored, worker, toggles, crashes, faults>>

PanelWrites ==
    /\ panel.save = "write"
    /\ settings' = Override(panel.flags, panel.guard.managed)
    /\ panel' = [panel EXCEPT !.save = "none", !.guard = NoPolicy]
    /\ UNCHANGED <<published, policy, backup, worker, toggles, crashes, faults>>

----------------------------------------------------------------------------
Pass == Fetch \/ Read \/ BackUp \/ Enforce \/ Restore \/ Bypass \/ DropBackup \/ Finish

Panel == \/ PanelSeesPolicy \/ PanelReloads \/ PanelGuards \/ PanelWrites
         \/ \E k \in Keys : PanelToggles(k)

Next ==
    \/ Publish \/ Pass \/ Fault \/ Crash \/ Panel
    \/ \E c \in Callers : Sync(c) \/ Resume(c)

Spec == Init /\ [][Next]_vars

\* The worker runs while awake, the alarm comes back, storage events arrive;
\* nothing makes the server publish, an outbox row appear or the user act.
Fairness ==
    /\ WF_vars(Pass)
    /\ WF_vars(Sync(quiet))
    /\ \A c \in Callers : WF_vars(Resume(c))
    /\ WF_vars(PanelGuards) /\ WF_vars(PanelWrites)

FairSpec == Spec /\ Fairness

----------------------------------------------------------------------------
(* Properties *)

PolicyType == [rev : 0..MaxRev, bypass : BOOLEAN, managed : Maps]
PassType ==
    \/ pass = NoPass \/ pass = NewPass
    \/ pass \in [pc : {"reply"}, rev : 1..MaxRev]
    \/ pass \in [pc : {"restore", "bypass", "backup", "force", "drop", "done"},
                 rev : 1..MaxRev, current : SettingMap, kept : SettingMap \cup {NoBackup}]

\* Types, with what ties the promise to its callers: a pass has exactly one
\* owner, and only forced callers that still await are queued, each once.
TypeOK ==
    /\ published \in Seq(Configs) /\ Rev \in 1..MaxRev
    /\ settings \in SettingMap
    /\ policy \in PolicyType
    /\ backup \in SettingMap \cup {NoBackup}
    /\ PassType
    /\ caller \in [Callers -> [at : {"idle", "owns", "awaits", "ok", "failed"},
                               asked : 0..MaxRev, got : 0..MaxRev]]
    /\ pass = NoPass <=> ~\E c \in Callers : caller[c].at \in {"owns", "awaits"}
    /\ \A c, d \in Callers : caller[c].at = "owns" /\ caller[d].at = "owns" => c = d
    /\ \A c \in Forced : caller[c].at = "awaits" <=> \E i \in DOMAIN waiters : waiters[i] = c
    /\ \A i, j \in DOMAIN waiters : waiters[i] = waiters[j] => i = j
    /\ panel \in [flags : SettingMap, seen : PolicyType, reload : BOOLEAN,
                  save : {"none", "guard", "write"}, guard : PolicyType]

\* remote-settings-policy.js:235-237: a settings invalidation is acknowledged
\* only after a pass that asked the server after the event came in.
ForcedSyncIsFresh ==
    \A c \in Forced : caller[c].at = "ok" => caller[c].got >= caller[c].asked

\* While no page writes, a forced value can be taken back: as long as one is
\* stored, so is the backup, and it is the user's own, never a copy of what a
\* policy forced, whatever step the worker dies at.
ForcedCanBeLifted ==
    toggles = 0 /\ (\E k \in Keys : ~settings[k].own) =>
        backup # NoBackup /\ \A k \in Keys : backup[k].own

\* While no page writes, the stored policy is in force, unless the server has since
\* granted the bypass (the maps are restored one write before the policy says so).
PolicyInForce ==
    \/ toggles > 0
    \/ (\E r \in policy.rev + 1 .. Rev : Config(r).bypass)
    \/ \A k \in DOMAIN policy.managed : settings[k].v = policy.managed[k]

\* Once the server is quiet, the client ends up with its newest policy, in force,
\* in spite of pages that wrote an older map meanwhile.
PolicyConverges ==
    <>[](policy.rev = Rev /\ \A k \in DOMAIN policy.managed : settings[k].v = policy.managed[k])
=============================================================================
