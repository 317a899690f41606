--------------------------- MODULE ApplyPipeline ----------------------------
(***************************************************************************)
(* `purewrt apply` and the operations that share its files                 *)
(* (internal/manager/manager.go, internal/generator, internal/system).     *)
(*                                                                         *)
(* An apply renders the configuration into a stage directory, validates    *)
(* it, promotes the files of the groups whose fingerprint changed, loads   *)
(* them into the kernel and the daemons one after the other, and commits   *)
(* the generation fingerprint last.  A failure on the way restores the     *)
(* backed-up files and reloads from them.                                  *)
(*                                                                         *)
(* Data abstraction: what a part of the system holds is the version of the *)
(* settings (and of the rule files) it was rendered from, <<setting, rules>>. *)
(* One apply runs at a time: see OperationLock.                            *)
(***************************************************************************)
EXTENDS Naturals, Sequences

CONSTANTS
    MaxVersion,   \* bound: versions a group's settings go through
    MaxRules,     \* bound: versions the rule provider files go through
    Scenarios     \* the kinds of histories examined, see Scenario

Groups == {"mihomo", "bundle", "firewall", "zapret", "policy"}

(* Generated files, and the parts that are set from the config directly.   *)
Files == {"mihomo", "nft", "sets", "fragments", "firewall", "zapret"}
Parts == Files \cup {"upstream", "policy", "network"}

(* What runServiceRestart and runService restart: dnsmasq on its fragments,*)
(* Zapret and mihomo.                                                      *)
Services == {"fragments", "zapret", "mihomo"}

GroupOf(p) == IF p \in {"nft", "sets", "fragments", "upstream", "network"}
                THEN "bundle" ELSE p

(* Each history belongs to a scenario, which says what may happen in it.   *)
Scenario ==
    [editable : SUBSET Groups,  \* the groups whose settings are edited
     rejected : SUBSET Nat,     \* versions of mihomo's settings `mihomo -t` rejects
     large : SUBSET Files,      \* files above apply_backup_max_bytes
     fresh : BOOLEAN,           \* nothing was ever applied
     env : SUBSET {"force", "revert", "update", "generate", "rules", "disable",
                   "reboot", "drift"},
     faults : SUBSET {"cmd",    \* a command fails
                      "disk",   \* a write fails
                      "kill",   \* the process dies
                      "undo",   \* these happen during a rollback too
                      "slow"}]  \* a service restart times out, rollback or not

VARIABLE scenario

Editable == scenario.editable
Rejected == scenario.rejected
Large == scenario.large
Fresh == scenario.fresh
Env == scenario.env
Faults == scenario.faults

Backed == {"mihomo", "nft", "sets", "firewall"} \ Large   \* applyBackup
Volatile == {"sets", "fragments"}                       \* on tmpfs
Required == Files \ {"fragments"}                       \* pathComplete

Promotion == <<"mihomo", "nft", "sets", "firewall", "zapret", "fragments">>
Loading   == <<"nft", "sets", "firewall", "upstream", "policy", "zapret",
               "fragments", "mihomo", "network">>
ReloadingKernel == <<"nft", "sets", "firewall">>   \* variant: no daemons
Reloading == <<"nft", "sets", "firewall", "fragments", "zapret", "mihomo">>
Writing   == <<"mihomo", "fragments", "nft", "sets", "firewall", "zapret">>

ASSUME BoundAssumption == MaxVersion \in Nat \ {0} /\ MaxRules \in Nat \ {0}
ASSUME ScenarioAssumption == \A s \in Scenarios : s \in Scenario

(* The configuration a history begins with passed `mihomo -t`.             *)
ASSUME RejectedAssumption == \A s \in Scenarios : s.rejected \cap {0, 1} = {}

Versions == 1..MaxVersion
Contents == (0..MaxVersion) \X (0..MaxRules)
Absent == <<0, 0>>

VARIABLES
    config,   \* /etc/config/purewrt: the version of each group's settings
    rules,    \* the version of the rule provider files
    disk,     \* the generated files
    live,     \* what the kernel, dnsmasq, Zapret, mihomo and UCI run on
    late,     \* the services whose last restart timed out
    fp,       \* the generation fingerprint, Absent everywhere when missing
    phase,    \* where the apply is
    at,       \* the index in the phase's sequence
    snap,     \* the configuration the apply loaded
    staged,   \* the rule files' version it rendered
    due,      \* the parts it has to promote and load
    backup,   \* the backups it made, Absent for a file without one
    sound,    \* observation: backed-up files that were live when it began
    errs      \* the rollback met an error

env == <<config, rules>>
opVars == <<phase, at, snap, staged, due, backup, sound, errs>>
vars == <<scenario, config, rules, disk, live, late, fp, opVars>>

Busy == {"check", "promote", "load", "commit", "restore", "reload"}
Undoing == {"restore", "reload"}
Outcomes == {"ok", "failed", "rolledback"}

(* The groups whose output depends on the rule files.                      *)
Inputs(g, c, r) == <<c[g], IF g \in {"mihomo", "bundle"} THEN r ELSE 0>>

NoConfig == [g \in Groups |-> 0]
NoFiles == [f \in Files |-> Absent]

TypeOK ==
    /\ scenario \in Scenarios
    /\ config \in [Groups -> Versions]
    /\ rules \in 1..MaxRules
    /\ disk \in [Files -> Contents]
    /\ live \in [Parts -> Contents]
    /\ late \subseteq Services
    /\ fp \in [Groups -> Contents]
    /\ phase \in {"idle"} \cup Busy \cup Outcomes
    /\ at \in 0..Len(Loading)
    /\ snap \in [Groups -> 0..MaxVersion]
    /\ staged \in 0..MaxRules
    /\ due \subseteq Parts
    /\ backup \in [Files -> Contents]
    /\ sound \subseteq Files
    /\ errs \in BOOLEAN

Quiet == /\ phase = "idle" /\ at = 0 /\ snap = NoConfig /\ staged = 0
         /\ due = {} /\ backup = NoFiles /\ sound = {} /\ errs = FALSE
Silence == /\ phase' = "idle" /\ at' = 0 /\ snap' = NoConfig /\ staged' = 0
           /\ due' = {} /\ backup' = NoFiles /\ sound' = {} /\ errs' = FALSE

First(g) == IF g \in {"mihomo", "bundle"} THEN <<1, 1>> ELSE <<1, 0>>

Init ==
    /\ scenario \in Scenarios
    /\ config = [g \in Groups |-> 1]
    /\ rules = 1
    /\ disk = [f \in Files |-> IF Fresh THEN Absent ELSE First(GroupOf(f))]
    /\ live = [p \in Parts |-> IF Fresh THEN Absent ELSE First(GroupOf(p))]
    /\ late = {}
    /\ fp = [g \in Groups |-> IF Fresh THEN Absent ELSE First(g)]
    /\ Quiet

-----------------------------------------------------------------------------
(* Generation                                                              *)

(* generationDirtyGroups: a changed hash or a missing output.              *)
Dirty(c, r) ==
    {g \in Groups : \/ fp[g] # Inputs(g, c, r)
                    \/ \E f \in Required : GroupOf(f) = g /\ disk[f] = Absent}

(* WriteAllToResult on the live paths; a write error or a death leaves the *)
(* files after some point unwritten.                                       *)
Generated(c, r, dirty, n) ==
    [f \in Files |-> IF GroupOf(f) \in dirty /\ \E i \in 1..n : Writing[i] = f
                       THEN Inputs(GroupOf(f), c, r) ELSE disk[f]]

Fingerprint(c, r) == [g \in Groups |-> Inputs(g, c, r)]

-----------------------------------------------------------------------------
(* The apply                                                               *)

(* Variant: a backup of the files that exist only.                         *)
PreparePartial(force) ==
    /\ phase = "idle" /\ snap' = config /\ staged' = rules
    /\ due' = Parts /\ sound' = {} /\ phase' = "check"
    /\ backup' = [f \in Backed |-> disk[f]]
    /\ UNCHANGED <<env, disk, live, late, fp, at, errs>>

(* applyPrepare: load the configuration, back up, stage.  Without a dirty  *)
(* group applyWithRunnerPaths reports success here.                        *)
Prepare(force) ==
    /\ phase = "idle" /\ (force => "force" \in Env)
    /\ snap' = config /\ staged' = rules
    /\ due' = {p \in Parts : force \/ GroupOf(p) \in Dirty(config, rules)}
    /\ backup' = [f \in Files |-> IF f \in Backed THEN disk[f] ELSE Absent]
    /\ sound' = {f \in Backed : disk[f] # Absent /\ live[f] = disk[f]}
    /\ phase' = IF due' = {} THEN "ok" ELSE "check"
    /\ UNCHANGED <<env, disk, live, late, fp, at, errs>>

(* applyRollback.  (rollback_on_fail is on, the default.)                  *)
Rollback == phase' = "restore" /\ at' = 0

(* Variant: promote without asking mihomo.                                 *)
ValidateNothing ==
    /\ phase = "check" /\ phase' = "promote" /\ at' = 1
    /\ UNCHANGED <<env, disk, live, late, fp, snap, staged, due, backup, sound, errs>>

(* applyValidateStaged: mihomo -t and nft -c on the staged files.          *)
Validate ==
    /\ phase = "check"
    /\ \/ /\ "mihomo" \in due => snap["mihomo"] \notin Rejected
          /\ phase' = "promote" /\ at' = 1
       \/ /\ \/ "mihomo" \in due /\ snap["mihomo"] \in Rejected
             \/ "cmd" \in Faults
          /\ Rollback
    /\ UNCHANGED <<env, disk, live, late, fp, snap, staged, due, backup, sound, errs>>

(* PromoteGeneratedPathsForGroups: each file atomically, one at a time.    *)
Promote ==
    /\ phase = "promote"
    /\ LET f == Promotion[at] IN
         \/ /\ disk' = IF f \in due
                         THEN [disk EXCEPT ![f] = Inputs(GroupOf(f), snap, staged)]
                         ELSE disk
            /\ IF at = Len(Promotion) THEN phase' = "load" /\ at' = 1
                                      ELSE at' = at + 1 /\ UNCHANGED phase
         \/ "disk" \in Faults /\ f \in due /\ Rollback /\ UNCHANGED disk
    /\ UNCHANGED <<env, live, late, fp, snap, staged, due, backup, sound, errs>>

(* What loading a part makes live; nft -f of the main file replaces the    *)
(* table and so empties its sets.                                          *)
Source(p) == IF p \in Files THEN disk[p] ELSE Inputs(GroupOf(p), snap, staged)
Loaded(p) == [q \in Parts |-> IF q = p THEN Source(p)
                              ELSE IF p = "nft" /\ q = "sets" THEN Absent
                              ELSE live[q]]

ProbedTable == {"nft"}   \* variant: no probe of the ip rule
Probed == {"nft", "policy"}

(* The init script is killed when its time is up: the old daemon still     *)
(* runs, or none does; what comes of it is LateStart's.                    *)
TimesOut(p) ==
    /\ "slow" \in Faults /\ p \in Services
    /\ \E now \in {live[p], Absent} : live' = [live EXCEPT ![p] = now]
    /\ late' = late \cup {p}

(* A part whose group is clean is skipped, except that a probe finds a     *)
(* missing table or ip rule.  runServiceRestart takes a restart that times *)
(* out for one that went well; any other failure rolls back.               *)
Load(parts) ==
    /\ phase = "load" /\ Loading[at] \in parts
    /\ LET p == Loading[at]
           missing == p \in Probed /\ live[p] = Absent
           taken == p \in due \/ missing
       IN \/ /\ \/ ~taken /\ UNCHANGED <<live, late, due>>
                \/ /\ taken /\ live' = Loaded(p) /\ late' = late \ {p}
                   /\ due' = due \cup IF p = "nft" /\ missing THEN {"sets"} ELSE {}
                \/ taken /\ TimesOut(p) /\ UNCHANGED due
             /\ IF at = Len(Loading) THEN phase' = "commit" /\ at' = 0
                                     ELSE at' = at + 1 /\ UNCHANGED phase
          \/ "cmd" \in Faults /\ taken /\ Rollback /\ UNCHANGED <<live, late, due>>
    /\ UNCHANGED <<env, disk, fp, snap, staged, backup, sound, errs>>

LoadTable == Load({"nft", "sets"})                        \* applyNFT
LoadUCI == Load({"firewall", "upstream"})                 \* applyUCIDNSFirewall
LoadPolicy == Load({"policy"})                            \* applyPolicyRules
RestartServices == Load({"zapret", "fragments", "mihomo"}) \* applyServiceRestarts
LoadNetwork == Load({"network"})                          \* applyNetworkInterfaces

(* CommitGenerationFingerprint hashes the rule files as they are now.      *)
Commit ==
    /\ phase = "commit"
    /\ \/ fp' = Fingerprint(snap, rules) /\ phase' = "ok" /\ UNCHANGED at
       \/ "disk" \in Faults /\ Rollback /\ UNCHANGED fp
    /\ UNCHANGED <<env, disk, live, late, snap, staged, due, backup, sound, errs>>

(* BackupSet.Restore: in map order, up to the first error.                 *)
Restore ==
    /\ phase = "restore"
    /\ LET have == {f \in Files : backup[f] # Absent} IN
       \E done \in SUBSET have :
         /\ done = have \/ "undo" \in Faults
         /\ disk' = [f \in Files |-> IF f \in done THEN backup[f] ELSE disk[f]]
         /\ errs' = (done # have)
    /\ phase' = "reload" /\ at' = 1
    /\ UNCHANGED <<env, live, late, fp, snap, staged, due, backup, sound>>

(* /etc/init.d/mihomo runs `purewrt generate` when its config is missing.  *)
MihomoGenerates == disk["mihomo"] = Absent
MihomoStarts(others) ==
    IF MihomoGenerates
      THEN LET c == config IN
           /\ disk' = Generated(c, rules, Dirty(c, rules), Len(Writing))
           /\ fp' = Fingerprint(c, rules)
           /\ live' = [others EXCEPT !["mihomo"] = Inputs("mihomo", c, rules)]
      ELSE /\ live' = [others EXCEPT !["mihomo"] = disk["mihomo"]]
           /\ UNCHANGED <<disk, fp>>

(* Its time can be up while the init script generates.                     *)
MihomoTimesOut ==
    /\ TimesOut("mihomo")
    /\ IF MihomoGenerates
         THEN \E n \in 0..Len(Writing) :
                /\ disk' = Generated(config, rules, Dirty(config, rules), n)
                /\ fp' \in {fp} \cup IF n = Len(Writing)
                                       THEN {Fingerprint(config, rules)} ELSE {}
         ELSE UNCHANGED <<disk, fp>>

(* restoreAndReload: each reload may fail, the others still run; a service *)
(* restart that times out is no error.                                     *)
Reload ==
    /\ phase = "reload"
    /\ LET p == Reloading[at]
           ok == p \in {"nft", "sets", "firewall"} => disk[p] # Absent
       IN \/ /\ ok
             /\ IF p = "mihomo" THEN MihomoStarts(live)
                                ELSE live' = Loaded(p) /\ UNCHANGED <<disk, fp>>
             /\ late' = late \ {p} /\ UNCHANGED errs
          \/ /\ IF p = "mihomo" THEN MihomoTimesOut
                                ELSE TimesOut(p) /\ UNCHANGED <<disk, fp>>
             /\ UNCHANGED errs
          \/ /\ ~ok \/ "undo" \in Faults
             /\ errs' = TRUE
             /\ UNCHANGED <<live, late, disk, fp>>
    /\ IF at = Len(Reloading)
         THEN phase' = (IF errs' THEN "failed" ELSE "rolledback") /\ at' = 0
         ELSE at' = at + 1 /\ UNCHANGED phase
    /\ UNCHANGED <<env, snap, staged, due, backup, sound>>

(* The command exits.                                                      *)
Return == phase \in Outcomes /\ Silence /\ UNCHANGED <<env, disk, live, late, fp>>

(* The process dies; its stage directory and its backups are garbage.      *)
Kill == /\ \/ "kill" \in Faults /\ phase \in Busy \ Undoing
           \/ "undo" \in Faults /\ phase \in Undoing
        /\ Silence
        /\ UNCHANGED <<env, disk, live, late, fp>>

LoadStep == \/ LoadTable \/ LoadUCI \/ LoadPolicy \/ RestartServices \/ LoadNetwork

ApplyStep == \/ Validate \/ Promote \/ LoadStep \/ Commit
             \/ Restore \/ Reload \/ Return

-----------------------------------------------------------------------------
(* Everything around it                                                    *)

(* A UCI commit from LuCI or a command: to a version never used before, or *)
(* back to an old one.                                                     *)
Edit(g) ==
    /\ \E v \in Versions : /\ v = config[g] + 1 \/ ("revert" \in Env /\ v # config[g])
                           /\ config' = [config EXCEPT ![g] = v]
    /\ UNCHANGED <<rules, disk, live, late, fp, opVars>>

(* Variant: an update that commits the fingerprint.                        *)
UpdateCommits ==
    /\ "update" \in Env /\ phase = "idle" /\ rules < MaxRules
    /\ rules' = rules + 1
    /\ disk' = Generated(config, rules', Dirty(config, rules'), Len(Writing))
    /\ fp' = Fingerprint(config, rules')
    /\ UNCHANGED <<config, live, late, opVars>>

(* UpdateDetailedWithOptions, under the lock: download rule files, rewrite *)
(* the live outputs (SkipFingerprint), possibly dying on the way.          *)
Update ==
    /\ "update" \in Env /\ phase = "idle"
    /\ \E r \in {rules, rules + 1} \cap 1..MaxRules, n \in 0..Len(Writing) :
         /\ n < Len(Writing) => Faults # {}
         /\ rules' = r
         /\ disk' = Generated(config, r, Dirty(config, r), n)
    /\ UNCHANGED <<config, live, late, fp, opVars>>

(* `purewrt generate`: live files and fingerprint, nothing loaded.  It     *)
(* takes no lock; the model runs it between applies only.                  *)
Generate ==
    /\ "generate" \in Env /\ phase = "idle"
    /\ disk' = Generated(config, rules, Dirty(config, rules), Len(Writing))
    /\ fp' = Fingerprint(config, rules)
    /\ UNCHANGED <<env, live, late, opVars>>

(* LuCI writes a manual rule file, whatever runs meanwhile.                *)
EditRules ==
    /\ "rules" \in Env /\ rules < MaxRules
    /\ rules' = rules + 1
    /\ UNCHANGED <<config, disk, live, late, fp, opVars>>

(* `purewrt disable`: outputs, table, rules and UCI changes go; the        *)
(* fingerprint, mihomo and Zapret stay.  No lock either; see Generate.     *)
Disable ==
    /\ "disable" \in Env /\ phase = "idle"
    /\ disk' = [f \in Files |-> IF f \in {"nft", "sets", "fragments", "firewall"}
                                  THEN Absent ELSE disk[f]]
    /\ live' = [p \in Parts |->
                  IF p \in {"nft", "sets", "firewall", "upstream", "policy"}
                    THEN Absent ELSE live[p]]
    /\ UNCHANGED <<env, late, fp, opVars>>

(* The daemon of a restart that timed out comes up after all, whatever is  *)
(* under way, on the file as it is then.                                   *)
LateStart(p) ==
    /\ p \in late
    /\ live' = [live EXCEPT ![p] = disk[p]]
    /\ UNCHANGED <<env, disk, late, fp, opVars>>

(* The kernel and tmpfs are lost, fingerprint included; UCI and persistent *)
(* files stay, and Zapret and mihomo start from theirs.                    *)
Reboot ==
    /\ "reboot" \in Env
    /\ disk["mihomo"] # Absent
    /\ disk' = [f \in Files |-> IF f \in Volatile THEN Absent ELSE disk[f]]
    /\ live' = [p \in Parts |->
                  IF p \in {"nft", "sets", "fragments", "policy"} THEN Absent
                  ELSE IF p \in {"zapret", "mihomo"} THEN disk[p] ELSE live[p]]
    /\ fp' = [g \in Groups |-> Absent]
    /\ late' = {}
    /\ Silence
    /\ UNCHANGED env

(* Something else flushes the nft table or deletes the ip rule.            *)
Drift ==
    /\ "drift" \in Env /\ phase = "idle"
    /\ \E lost \in {{"nft", "sets"}, {"policy"}} :
         live' = [p \in Parts |-> IF p \in lost THEN Absent ELSE live[p]]
    /\ UNCHANGED <<env, disk, late, fp, opVars>>

Step ==
    \/ \E force \in BOOLEAN : Prepare(force)
    \/ ApplyStep \/ Kill
    \/ \E g \in Editable : Edit(g)
    \/ \E p \in Services : LateStart(p)
    \/ Update \/ Generate \/ EditRules \/ Disable \/ Reboot \/ Drift

Next == Step /\ UNCHANGED scenario

Spec == Init /\ [][Next]_vars

-----------------------------------------------------------------------------
(* Properties                                                              *)

(* The part runs on what the apply loaded, or its restart timed out and it *)
(* has that to start on, whenever it does.                                 *)
Loads(p) == Inputs(GroupOf(p), snap, staged)
Current(p) == live[p] = Loads(p) \/ (p \in late /\ disk[p] = Loads(p))

(* Other programs' doings, and histories, that an apply does not see.      *)
Unseen(hidden) == Env \cap hidden # {}

(* Histories in which a fingerprint can be committed, or outlive, what it  *)
(* describes, so that a later apply skips what is not running: the ip      *)
(* rules of a failed apply stay when the settings go "back"; "disable" and *)
(* "generate" before it, and "rules", a file edited during the apply that  *)
(* is recorded as rendered; the first apply of a fresh install fails, and  *)
(* mihomo's init script generates; a rollback goes wrong; an apply whose   *)
(* groups were clean, forced or repairing drift, dies with the table       *)
(* loaded and its sets not.                                                *)
Misled ==
    \/ Unseen({"revert", "disable", "generate", "rules"}) \/ Fresh \/ "undo" \in Faults
    \/ "kill" \in Faults /\ Unseen({"force", "drift"})

(* An apply that reports success leaves everything, the parts it skipped   *)
(* included, running on the configuration it loaded ("applied PureWRT      *)
(* safely"): the fingerprint it trusted was a statement about live state.  *)
(* One that finds nothing dirty and returns early also misses "drift":     *)
(* another program took the rules away.  What a service runs on whose last *)
(* restart timed out nobody knows: its group's fingerprint is committed,   *)
(* and no probe looks and no apply without changes starts it again.        *)
AppliedMeansLoaded ==
    phase = "ok" =>
        Misled \/ Unseen({"drift"}) \/ \A p \in Parts : Current(p)

(* The same for the applies that found something to do: their probes catch *)
(* what was lost from the kernel behind the fingerprint's back.            *)
ReloadMeansLoaded ==
    phase = "ok" /\ due # {} => Misled \/ \A p \in Parts : Current(p)

(* A clean rollback leaves every file that had a backup, and ran when the  *)
(* apply began, on disk and running again, mihomo unless its last restart  *)
(* timed out: the table, the sets and the firewall rules are back for sure.*)
RollbackRestores ==
    phase = "rolledback" =>
        \A f \in sound : disk[f] = backup[f] /\ (live[f] = backup[f] \/ f \in late)

(* mihomo never runs on a configuration that `mihomo -t` rejects: an apply *)
(* validates before it promotes, and its rollback restores what passed.    *)
(* update and generate write the live file unvalidated, and an apply that  *)
(* follows backs it up and can roll back to it; so does mihomo's init      *)
(* script when the first apply of a fresh install fails and leaves it no   *)
(* file.  The property is about histories without them.                    *)
RejectedNeverRuns ==
    Unseen({"update", "generate"}) \/ Fresh \/ live["mihomo"][1] \notin Rejected
=============================================================================
