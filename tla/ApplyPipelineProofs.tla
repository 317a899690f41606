-------------------------- MODULE ApplyPipelineProofs --------------------------
(***************************************************************************)
(* Theorems about ApplyPipeline, for any versions of the settings and of   *)
(* the rule files and any kinds of histories.                              *)
(***************************************************************************)
EXTENDS ApplyPipeline, TLAPS

(* The index is one of the sequence at hand.                               *)
AtInv ==
    /\ phase = "promote" => at \in 1..6
    /\ phase = "load" => at \in 1..9
    /\ phase = "reload" => at \in 1..6
    /\ phase \in Busy => snap \in [Groups -> Versions] /\ staged \in 1..MaxRules

(* mihomo's file is the first to be written and is never removed: as long  *)
(* as there is none, nothing was generated and nothing can be restored.    *)
BaseInv ==
    disk["mihomo"] = Absent =>
        /\ \A f \in Files : disk[f] = Absent
        /\ phase \notin {"load", "commit"} /\ (phase = "promote" => at = 1)
        /\ phase \in Busy =>
             /\ \A f \in Files : backup[f] = Absent
             /\ sound = {}
             /\ phase \in {"check", "promote"} => "mihomo" \in due

Unvalidated == Unseen({"update", "generate"}) \/ Fresh
Passes(content) == content[1] \notin Rejected

(* What mihomo runs on, has on disk and may get back has passed; so has    *)
(* what an apply goes on to promote.                                       *)
RejectedInv ==
    Unvalidated \/
        /\ Passes(live["mihomo"]) /\ Passes(disk["mihomo"]) /\ Passes(backup["mihomo"])
        /\ disk["mihomo"] # Absent
        /\ phase \in {"promote", "load", "commit"} /\ "mihomo" \in due =>
             snap["mihomo"] \notin Rejected

(* The rollback has reloaded the files whose turn has passed.              *)
Reloaded(f) == (f = "nft" /\ at > 1) \/ (f = "sets" /\ at > 2) \/ (f = "firewall" /\ at > 3)
RollbackInv ==
    /\ sound \subseteq {"mihomo", "nft", "sets", "firewall"}
    /\ \A f \in sound : backup[f] # Absent
    /\ phase = "reload" /\ ~errs =>
         \A f \in sound : disk[f] = backup[f] /\ (Reloaded(f) => live[f] = backup[f])
    /\ phase = "rolledback" =>
         \A f \in sound : disk[f] = backup[f] /\ (live[f] = backup[f] \/ f \in late)

FileInv == TypeOK /\ AtInv /\ BaseInv /\ RejectedInv /\ RollbackInv

-----------------------------------------------------------------------------
(* The model's operators                                                   *)

LEMMA Bounds == MaxVersion \in Nat /\ MaxVersion >= 1 /\ MaxRules \in Nat /\ MaxRules >= 1
  BY BoundAssumption

LEMMA Sequencing ==
    /\ Len(Promotion) = 6 /\ \A i \in 1..6 : Promotion[i] \in Files
    /\ Promotion[1] = "mihomo"
    /\ Len(Loading) = 9 /\ \A i \in 1..9 : Loading[i] \in Parts
    /\ Len(Reloading) = 6 /\ \A i \in 1..6 : Reloading[i] \in Files
    /\ Reloading[1] = "nft" /\ Reloading[2] = "sets" /\ Reloading[3] = "firewall"
    /\ Reloading[4] = "fragments" /\ Reloading[5] = "zapret" /\ Reloading[6] = "mihomo"
    /\ Len(Writing) = 6 /\ Writing[1] = "mihomo"
  <1>1. /\ Promotion[1] = "mihomo" /\ Promotion[2] = "nft" /\ Promotion[3] = "sets"
        /\ Promotion[4] = "firewall" /\ Promotion[5] = "zapret" /\ Promotion[6] = "fragments"
        /\ Len(Promotion) = 6
    BY DEF Promotion
  <1>2. /\ Loading[1] = "nft" /\ Loading[2] = "sets" /\ Loading[3] = "firewall"
        /\ Loading[4] = "upstream" /\ Loading[5] = "policy" /\ Loading[6] = "zapret"
        /\ Loading[7] = "fragments" /\ Loading[8] = "mihomo" /\ Loading[9] = "network"
        /\ Len(Loading) = 9
    BY DEF Loading
  <1>3. /\ Reloading[1] = "nft" /\ Reloading[2] = "sets" /\ Reloading[3] = "firewall"
        /\ Reloading[4] = "fragments" /\ Reloading[5] = "zapret" /\ Reloading[6] = "mihomo"
        /\ Len(Reloading) = 6
    BY DEF Reloading
  <1>4. Len(Writing) = 6 /\ Writing[1] = "mihomo"
    BY DEF Writing
  <1>5. \A i \in 1..6 : i = 1 \/ i = 2 \/ i = 3 \/ i = 4 \/ i = 5 \/ i = 6
    OBVIOUS
  <1>6. \A i \in 1..9 : i \in 1..6 \/ i = 7 \/ i = 8 \/ i = 9
    OBVIOUS
  <1>7. \A i \in 1..6 : Promotion[i] \in Files /\ Reloading[i] \in Files
    BY <1>1, <1>3, <1>5 DEF Files
  <1>8. \A i \in 1..9 : Loading[i] \in Parts
    BY <1>2, <1>5, <1>6 DEF Files, Parts
  <1>. QED BY <1>1, <1>2, <1>3, <1>4, <1>7, <1>8

LEMMA Sorts ==
    /\ \A p \in Parts : GroupOf(p) \in Groups
    /\ Files \subseteq Parts /\ "mihomo" \in Files /\ "mihomo" \in Groups
    /\ GroupOf("mihomo") = "mihomo"
    /\ Absent \in Contents /\ NoConfig \in [Groups -> 0..MaxVersion]
    /\ NoFiles \in [Files -> Contents]
    /\ 0 \in 0..MaxRules /\ 1..MaxRules \subseteq 0..MaxRules
    /\ [Groups -> Versions] \subseteq [Groups -> 0..MaxVersion]
  <1>1. Absent \in Contents
    BY Bounds DEF Absent, Contents
  <1>2. /\ \A p \in Parts : GroupOf(p) \in Groups
        /\ Files \subseteq Parts /\ "mihomo" \in Files /\ "mihomo" \in Groups
        /\ GroupOf("mihomo") = "mihomo"
    BY DEF GroupOf, Groups, Parts, Files
  <1>3. NoConfig \in [Groups -> 0..MaxVersion]
    BY Bounds DEF NoConfig
  <1>4. \A v \in Versions : v \in 0..MaxVersion
    BY Bounds DEF Versions
  <1>. QED BY <1>1, <1>2, <1>3, <1>4, Bounds DEF NoFiles

LEMMA InputsFacts ==
    ASSUME NEW c \in [Groups -> 0..MaxVersion], NEW r \in 0..MaxRules, NEW g \in Groups
    PROVE  Inputs(g, c, r) \in Contents /\ Inputs(g, c, r)[1] = c[g]
  BY Bounds DEF Inputs, Contents

LEMMA NotAbsent ==
    /\ Absent[1] = 0
    /\ \A c \in [Groups -> Versions], g \in Groups : \A r : Inputs(g, c, r) # Absent
  BY DEF Absent, Inputs, Versions

LEMMA FingerprintType ==
    ASSUME NEW c \in [Groups -> 0..MaxVersion], NEW r \in 0..MaxRules
    PROVE  Fingerprint(c, r) \in [Groups -> Contents]
  BY InputsFacts DEF Fingerprint

LEMMA GeneratedFacts ==
    ASSUME disk \in [Files -> Contents], NEW c \in [Groups -> Versions], NEW r \in 1..MaxRules,
           NEW n \in 0..6
    PROVE  LET new == Generated(c, r, Dirty(c, r), n) IN
           /\ new \in [Files -> Contents]
           /\ disk["mihomo"] # Absent => new["mihomo"] # Absent
           /\ disk["mihomo"] = Absent /\ n > 0 => new["mihomo"] # Absent
           /\ n = 0 => new = disk
  <1>. DEFINE new == Generated(c, r, Dirty(c, r), n)
  <1>1. c \in [Groups -> 0..MaxVersion] /\ r \in 0..MaxRules
    BY Sorts
  <1>2. \A f \in Files : Inputs(GroupOf(f), c, r) \in Contents
    BY <1>1, Sorts, InputsFacts
  <1>3. new \in [Files -> Contents]
    BY <1>2 DEF Generated
  <1>4. new["mihomo"] = IF "mihomo" \in Dirty(c, r) /\ \E i \in 1..n : Writing[i] = "mihomo"
                          THEN Inputs("mihomo", c, r) ELSE disk["mihomo"]
    BY Sorts DEF Generated
  <1>5. disk["mihomo"] = Absent => "mihomo" \in Dirty(c, r)
    BY Sorts DEF Dirty, Required
  <1>6. n > 0 => \E i \in 1..n : Writing[i] = "mihomo"
    BY Sequencing
  <1>7. Inputs("mihomo", c, r) # Absent
    BY Sorts, NotAbsent
  <1>8. n = 0 => new = disk
    BY DEF Generated
  <1>. QED BY <1>3, <1>4, <1>5, <1>6, <1>7, <1>8

LEMMA LoadedFacts ==
    ASSUME TypeOK, NEW p \in Parts
    PROVE  /\ Loaded(p) \in [Parts -> Contents]
           /\ Loaded(p)[p] = Source(p)
           /\ \A q \in Parts : q # p /\ (p # "nft" \/ q # "sets") => Loaded(p)[q] = live[q]
  <1>1. Source(p) \in Contents
    <2>1. snap \in [Groups -> 0..MaxVersion] /\ staged \in 0..MaxRules /\ GroupOf(p) \in Groups
      BY Sorts DEF TypeOK
    <2>2. Inputs(GroupOf(p), snap, staged) \in Contents
      BY <2>1, InputsFacts
    <2>. QED BY <2>2 DEF Source, TypeOK
  <1>. QED BY <1>1, Sorts DEF Loaded, TypeOK

(* A restart that times out is about a service, and leaves the rest alone. *)
LEMMA TimesOutFacts ==
    ASSUME TypeOK, NEW p, TimesOut(p)
    PROVE  /\ p \in Services /\ p \in Parts /\ p \in Files
           /\ live' \in [Parts -> Contents] /\ live'[p] \in {live[p], Absent}
           /\ \A q \in Parts : q # p => live'[q] = live[q]
           /\ late' = late \cup {p} /\ late' \subseteq Services
  <1>1. p \in Services /\ p \in Parts /\ p \in Files
    BY DEF TimesOut, Services, Parts, Files
  <1>. QED BY <1>1, Sorts DEF TimesOut, TypeOK

LEMMA LateStartFacts ==
    ASSUME TypeOK, NEW p, LateStart(p)
    PROVE  /\ p \in late /\ p \in Services /\ p \in Parts /\ p \in Files
           /\ live' \in [Parts -> Contents] /\ live'[p] = disk[p]
           /\ \A q \in Parts : q # p => live'[q] = live[q]
           /\ UNCHANGED <<config, rules, disk, late, fp, phase, at, snap, staged, due,
                           backup, sound, errs>>
  <1>1. p \in late /\ p \in Services /\ p \in Parts /\ p \in Files
    BY DEF LateStart, Services, Parts, Files, TypeOK
  <1>. QED BY <1>1 DEF LateStart, TypeOK, env, opVars

LEMMA ServicesApart == /\ Services \subseteq Files
                       /\ "nft" \notin Services /\ "sets" \notin Services
                       /\ "firewall" \notin Services /\ "policy" \notin Services
  BY DEF Services, Files

(* What a history's scenario says stays.                                   *)
LEMMA SameScenario ==
    ASSUME TypeOK, UNCHANGED scenario
    PROVE  /\ scenario' \in Scenarios /\ Rejected' = Rejected /\ Env' = Env
           /\ Faults' = Faults /\ (Unvalidated' <=> Unvalidated)
           /\ 0 \notin Rejected /\ 1 \notin Rejected
           /\ ~Unvalidated => "update" \notin Env /\ "generate" \notin Env
           /\ \A c : Passes(c)' <=> Passes(c')
           /\ Passes(Absent)
  BY RejectedAssumption, NotAbsent
  DEF TypeOK, Rejected, Env, Faults, Unvalidated, Unseen, Fresh, Passes

-----------------------------------------------------------------------------
(* The steps: types first                                                  *)

LEMMA SilenceTypes ==
    ASSUME Silence, scenario' \in Scenarios,
           config' \in [Groups -> Versions], rules' \in 1..MaxRules,
           disk' \in [Files -> Contents], live' \in [Parts -> Contents],
           late' \subseteq Services, fp' \in [Groups -> Contents]
    PROVE  TypeOK' /\ AtInv'
  <1>1. /\ phase' = "idle" /\ at' = 0 /\ snap' = NoConfig /\ staged' = 0
        /\ due' = {} /\ backup' = NoFiles /\ sound' = {} /\ errs' = FALSE
    BY DEF Silence
  <1>2. at' \in 0..Len(Loading)
    BY <1>1, Sequencing
  <1>. QED BY <1>1, <1>2, Sorts DEF TypeOK, AtInv, Busy

LEMMA PrepareTypes ==
    ASSUME TypeOK, NEW force, Prepare(force), UNCHANGED scenario
    PROVE  TypeOK' /\ AtInv'
  <1>1. /\ phase' \in {"ok", "check"} /\ snap' = config /\ staged' = rules
        /\ due' \subseteq Parts /\ UNCHANGED <<config, rules, disk, live, late, fp, at, errs>>
    BY DEF Prepare, env
  <1>2. backup' \in [Files -> Contents] /\ sound' \subseteq Files
    <2>1. backup' = [f \in Files |-> IF f \in Backed THEN disk[f] ELSE Absent]
      BY DEF Prepare
    <2>2. backup' \in [Files -> Contents]
      BY <2>1, Sorts DEF TypeOK
    <2>3. Backed \subseteq Files
      BY DEF Backed, Files
    <2>4. sound' \subseteq Backed
      BY DEF Prepare
    <2>. QED BY <2>2, <2>3, <2>4
  <1>3. snap' \in [Groups -> 0..MaxVersion] /\ staged' \in 0..MaxRules
    BY <1>1, Sorts DEF TypeOK
  <1>. QED BY <1>1, <1>2, <1>3 DEF TypeOK, AtInv, Busy, Outcomes

LEMMA ForwardTypes ==
    ASSUME TypeOK, AtInv, Validate \/ Promote \/ Commit \/ Restore, UNCHANGED scenario
    PROVE  TypeOK' /\ AtInv'
  <1>. USE Sequencing
  <1>1. UNCHANGED <<config, rules, live, late, snap, staged, due, backup, sound>>
        /\ phase \in Busy
    BY DEF Validate, Promote, Commit, Restore, env, Busy
  <1>2. snap \in [Groups -> Versions] /\ staged \in 1..MaxRules
    BY <1>1 DEF AtInv
  <1>3. CASE Validate
    <2>1. /\ UNCHANGED <<disk, fp, errs>>
          /\ \/ phase' = "promote" /\ at' = 1
             \/ phase' = "restore" /\ at' = 0
      BY <1>3 DEF Validate, Rollback
    <2>. QED BY <1>1, <1>2, <2>1 DEF TypeOK, AtInv, Busy
  <1>4. CASE Promote
    <2>1. Promotion[at] \in Files
      BY <1>4 DEF Promote, AtInv
    <2>2. disk' \in [Files -> Contents]
      <3>1. Inputs(GroupOf(Promotion[at]), snap, staged) \in Contents
        BY <2>1, Sorts, InputsFacts DEF TypeOK
      <3>. QED BY <1>4, <2>1, <3>1 DEF Promote, TypeOK
    <2>3. /\ UNCHANGED <<fp, errs>>
          /\ \/ phase' = "restore" /\ at' = 0
             \/ phase' = "load" /\ at' = 1
             \/ phase' = "promote" /\ at' \in 1..6
      BY <1>4 DEF Promote, Rollback, AtInv
    <2>. QED BY <1>1, <1>2, <2>2, <2>3 DEF TypeOK, AtInv, Busy
  <1>5. CASE Commit
    <2>1. fp' \in [Groups -> Contents]
      BY <1>5, Sorts, FingerprintType DEF Commit, TypeOK
    <2>2. /\ UNCHANGED <<disk, errs>>
          /\ \/ phase' = "ok" /\ at' = at
             \/ phase' = "restore" /\ at' = 0
      BY <1>5 DEF Commit, Rollback
    <2>. QED BY <1>1, <1>2, <2>1, <2>2 DEF TypeOK, AtInv, Busy, Outcomes
  <1>6. CASE Restore
    <2>1. /\ disk' \in [Files -> Contents] /\ errs' \in BOOLEAN
          /\ phase' = "reload" /\ at' = 1 /\ UNCHANGED fp
      BY <1>6 DEF Restore, TypeOK
    <2>. QED BY <1>1, <1>2, <2>1 DEF TypeOK, AtInv, Busy
  <1>. QED BY <1>3, <1>4, <1>5, <1>6

(* What a step of the loading does, whichever part it is about.            *)
LEMMA LoadEffect ==
    ASSUME TypeOK, AtInv, LoadStep
    PROVE  /\ phase = "load" /\ Loading[at] \in Parts
           /\ UNCHANGED <<config, rules, disk, fp, snap, staged, backup, sound, errs>>
           /\ \/ live' = live /\ late' = late
              \/ live' = Loaded(Loading[at]) /\ late' = late \ {Loading[at]}
              \/ TimesOut(Loading[at])
           /\ due' = due \/ due' = due \cup {"sets"}
           /\ \/ phase' = "restore" /\ at' = 0
              \/ phase' = "commit" /\ at' = 0
              \/ phase' = "load" /\ at' \in 1..9
  <1>1. PICK S \in {{"nft", "sets"}, {"firewall", "upstream"}, {"policy"},
                    {"zapret", "fragments", "mihomo"}, {"network"}} : Load(S)
    BY DEF LoadStep, LoadTable, LoadUCI, LoadPolicy, RestartServices, LoadNetwork
  <1>2. phase = "load" /\ Loading[at] \in Parts
    BY <1>1, Sequencing DEF Load, AtInv
  <1>3. due' = due \/ due' = due \cup {"sets"}
    BY <1>1 DEF Load
  <1>4. \/ phase' = "restore" /\ at' = 0
        \/ phase' = "commit" /\ at' = 0
        \/ phase' = "load" /\ at' \in 1..9
    BY <1>1, <1>2, Sequencing DEF Load, Rollback, AtInv
  <1>5. \/ live' = live /\ late' = late
        \/ live' = Loaded(Loading[at]) /\ late' = late \ {Loading[at]}
        \/ TimesOut(Loading[at])
    BY <1>1 DEF Load
  <1>6. UNCHANGED <<config, rules, disk, fp, snap, staged, backup, sound, errs>>
    BY <1>1 DEF Load, env
  <1>. QED BY <1>2, <1>3, <1>4, <1>5, <1>6

LEMMA LoadTypes ==
    ASSUME TypeOK, AtInv, LoadStep, UNCHANGED scenario
    PROVE  TypeOK' /\ AtInv'
  <1>1. live' \in [Parts -> Contents] /\ late' \subseteq Services
    BY LoadEffect, LoadedFacts, TimesOutFacts DEF TypeOK
  <1>2. due' \subseteq Parts
    <2>1. "sets" \in Parts
      BY DEF Parts, Files
    <2>. QED BY <2>1, LoadEffect DEF TypeOK
  <1>3. at' \in 0..Len(Loading)
    BY LoadEffect, Sequencing
  <1>. QED BY <1>1, <1>2, <1>3, LoadEffect DEF TypeOK, AtInv, Busy

(* What a step of the reloading does.                                      *)
LEMMA ReloadEffect ==
    ASSUME TypeOK, AtInv, Reload
    PROVE  /\ phase = "reload" /\ at \in 1..6
           /\ UNCHANGED <<config, rules, snap, staged, due, backup, sound>>
           /\ \/ errs' = TRUE /\ UNCHANGED <<live, late, disk, fp>>
              \/ /\ errs' = errs /\ late' = late \ {Reloading[at]}
                 /\ IF Reloading[at] = "mihomo" THEN MihomoStarts(live)
                    ELSE live' = Loaded(Reloading[at]) /\ UNCHANGED <<disk, fp>>
              \/ /\ errs' = errs
                 /\ IF Reloading[at] = "mihomo" THEN MihomoTimesOut
                    ELSE TimesOut(Reloading[at]) /\ UNCHANGED <<disk, fp>>
           /\ \/ at = 6 /\ phase' = "failed" /\ errs' = TRUE /\ at' = 0
              \/ at = 6 /\ phase' = "rolledback" /\ errs' = FALSE /\ at' = 0
              \/ at < 6 /\ at' = at + 1 /\ phase' = "reload"
  <1>1. phase = "reload" /\ at \in 1..6
    BY DEF Reload, AtInv
  <1>2. errs' \in BOOLEAN
    BY DEF Reload, TypeOK
  <1>3. \/ at = 6 /\ phase' = (IF errs' THEN "failed" ELSE "rolledback") /\ at' = 0
        \/ at < 6 /\ at' = at + 1 /\ phase' = "reload"
    BY <1>1, Sequencing DEF Reload
  <1>4. \/ at = 6 /\ phase' = "failed" /\ errs' = TRUE /\ at' = 0
        \/ at = 6 /\ phase' = "rolledback" /\ errs' = FALSE /\ at' = 0
        \/ at < 6 /\ at' = at + 1 /\ phase' = "reload"
    BY <1>2, <1>3
  <1>5. \/ errs' = TRUE /\ UNCHANGED <<live, late, disk, fp>>
        \/ /\ errs' = errs /\ late' = late \ {Reloading[at]}
           /\ IF Reloading[at] = "mihomo" THEN MihomoStarts(live)
              ELSE live' = Loaded(Reloading[at]) /\ UNCHANGED <<disk, fp>>
        \/ /\ errs' = errs
           /\ IF Reloading[at] = "mihomo" THEN MihomoTimesOut
              ELSE TimesOut(Reloading[at]) /\ UNCHANGED <<disk, fp>>
    BY Zenon DEF Reload
  <1>6. UNCHANGED <<config, rules, snap, staged, due, backup, sound>>
    BY DEF Reload, env
  <1>. QED BY <1>1, <1>4, <1>5, <1>6

LEMMA StartsFacts ==
    ASSUME TypeOK, MihomoStarts(live)
    PROVE  /\ live' \in [Parts -> Contents] /\ disk' \in [Files -> Contents]
           /\ fp' \in [Groups -> Contents]
           /\ disk'["mihomo"] # Absent
           /\ \A p \in Parts \ {"mihomo"} : live'[p] = live[p]
           /\ disk["mihomo"] # Absent =>
                UNCHANGED disk /\ live'["mihomo"] = disk["mihomo"]
  <1>1. rules \in 0..MaxRules /\ config \in [Groups -> 0..MaxVersion]
    <2>1. rules \in 1..MaxRules /\ config \in [Groups -> Versions]
      BY DEF TypeOK
    <2>. QED BY <2>1, Sorts
  <1>2. Inputs("mihomo", config, rules) \in Contents
    BY <1>1, Sorts, InputsFacts
  <1>3. CASE disk["mihomo"] = Absent
    <2>1. /\ disk' = Generated(config, rules, Dirty(config, rules), 6)
          /\ fp' = Fingerprint(config, rules)
          /\ live' = [live EXCEPT !["mihomo"] = Inputs("mihomo", config, rules)]
      BY <1>3, Sequencing DEF MihomoStarts, MihomoGenerates
    <2>2. disk' \in [Files -> Contents] /\ disk'["mihomo"] # Absent
      BY <1>1, <1>3, <2>1, GeneratedFacts DEF TypeOK
    <2>3. fp' \in [Groups -> Contents]
      BY <1>1, <2>1, FingerprintType
    <2>. QED BY <1>2, <1>3, <2>1, <2>2, <2>3, Sorts DEF TypeOK
  <1>4. CASE disk["mihomo"] # Absent
    BY <1>4, Sorts DEF MihomoStarts, MihomoGenerates, TypeOK
  <1>. QED BY <1>3, <1>4

LEMMA StallFacts ==
    ASSUME TypeOK, MihomoTimesOut
    PROVE  /\ disk' \in [Files -> Contents] /\ fp' \in [Groups -> Contents]
           /\ disk["mihomo"] = Absent => disk'["mihomo"] # Absent \/ disk' = disk
           /\ disk["mihomo"] # Absent => UNCHANGED <<disk, fp>>
           /\ TimesOut("mihomo")
  <1>1. /\ rules \in 1..MaxRules /\ config \in [Groups -> Versions]
        /\ rules \in 0..MaxRules /\ config \in [Groups -> 0..MaxVersion]
    BY Sorts DEF TypeOK
  <1>2. CASE disk["mihomo"] = Absent
    <2>1. PICK n \in 0..6 :
            /\ disk' = Generated(config, rules, Dirty(config, rules), n)
            /\ fp' \in {fp, Fingerprint(config, rules)}
      BY <1>2, Sequencing DEF MihomoTimesOut, MihomoGenerates
    <2>2. disk' \in [Files -> Contents] /\ (disk'["mihomo"] # Absent \/ disk' = disk)
      <3>1. disk \in [Files -> Contents]
        BY DEF TypeOK
      <3>2. disk' \in [Files -> Contents] /\ (n > 0 => disk'["mihomo"] # Absent)
            /\ (n = 0 => disk' = disk)
        BY <1>1, <1>2, <2>1, <3>1, GeneratedFacts
      <3>. QED BY <3>2
    <2>3. fp' \in [Groups -> Contents]
      BY <1>1, <2>1, FingerprintType DEF TypeOK
    <2>. QED BY <1>2, <2>2, <2>3 DEF MihomoTimesOut
  <1>3. CASE disk["mihomo"] # Absent
    BY <1>3 DEF MihomoTimesOut, MihomoGenerates, TypeOK
  <1>. QED BY <1>2, <1>3

LEMMA ReloadTypes ==
    ASSUME TypeOK, AtInv, Reload, UNCHANGED scenario
    PROVE  TypeOK' /\ AtInv'
  <1>1. /\ live' \in [Parts -> Contents] /\ disk' \in [Files -> Contents]
        /\ fp' \in [Groups -> Contents] /\ late' \subseteq Services
    <2>1. Reloading[at] \in Parts
      BY ReloadEffect, Sequencing, Sorts
    <2>2. CASE errs' = errs /\ IF Reloading[at] = "mihomo" THEN MihomoTimesOut
                               ELSE TimesOut(Reloading[at]) /\ UNCHANGED <<disk, fp>>
      <3>1. TimesOut(Reloading[at])
        BY <2>2, StallFacts
      <3>. QED BY <2>2, <3>1, StallFacts, TimesOutFacts DEF TypeOK
    <2>. QED BY <2>1, <2>2, ReloadEffect, StartsFacts, LoadedFacts DEF TypeOK
  <1>2. at' \in 0..Len(Loading) /\ (phase' = "reload" => at' \in 1..6)
    <2>1. at \in 1..6 /\ ((phase' # "reload" /\ at' = 0) \/ (at < 6 /\ at' = at + 1))
      BY ReloadEffect
    <2>. QED BY <2>1, Sequencing
  <1>3. /\ UNCHANGED <<config, rules, snap, staged, due, backup, sound>>
        /\ phase = "reload" /\ phase' \in {"failed", "rolledback", "reload"} /\ errs' \in BOOLEAN
    BY ReloadEffect DEF TypeOK
  <1>. QED BY <1>1, <1>2, <1>3 DEF TypeOK, AtInv, Busy, Outcomes

LEMMA AroundTypes ==
    ASSUME TypeOK, AtInv, UNCHANGED scenario,
           \/ Return \/ Kill \/ Reboot \/ Update \/ Generate \/ EditRules \/ Disable \/ Drift
           \/ \E g \in Editable : Edit(g)
           \/ \E p \in Services : LateStart(p)
    PROVE  TypeOK' /\ AtInv'
  <1>. USE Sequencing
  <1>1. CASE Return \/ Kill
    BY <1>1, SilenceTypes DEF Return, Kill, env, TypeOK
  <1>2. CASE Reboot
    <2>1. /\ disk' \in [Files -> Contents] /\ live' \in [Parts -> Contents]
          /\ fp' \in [Groups -> Contents] /\ late' \subseteq Services
      BY <1>2, Sorts DEF Reboot, TypeOK, Files
    <2>. QED BY <1>2, <2>1, SilenceTypes DEF Reboot, env, TypeOK
  <1>3. CASE Update \/ Generate
    <2>1. PICK r \in 1..MaxRules, n \in 0..6 :
            rules' = r /\ disk' = Generated(config, r, Dirty(config, r), n)
      <3>1. CASE Update
        BY <3>1 DEF Update
      <3>2. CASE Generate
        BY <3>2 DEF Generate, env, TypeOK
      <3>. QED BY <1>3, <3>1, <3>2
    <2>2. disk' \in [Files -> Contents]
      BY <2>1, GeneratedFacts DEF TypeOK
    <2>3. fp' \in [Groups -> Contents]
      <3>1. rules \in 0..MaxRules /\ config \in [Groups -> 0..MaxVersion]
        <4>1. rules \in 1..MaxRules /\ config \in [Groups -> Versions]
          BY DEF TypeOK
        <4>. QED BY <4>1, Sorts
      <3>. QED BY <1>3, <3>1, FingerprintType DEF Update, Generate, TypeOK
    <2>4. UNCHANGED <<config, live, late, opVars>>
      BY <1>3 DEF Update, Generate, env
    <2>. QED BY <2>1, <2>2, <2>3, <2>4 DEF opVars, TypeOK, AtInv
  <1>4. CASE EditRules
    <2>1. rules' \in 1..MaxRules
      BY <1>4, Bounds DEF EditRules, TypeOK
    <2>. QED BY <1>4, <2>1 DEF EditRules, opVars, TypeOK, AtInv
  <1>5. CASE Disable \/ Drift
    <2>1. /\ disk' \in [Files -> Contents] /\ live' \in [Parts -> Contents]
      BY <1>5, Sorts DEF Disable, Drift, TypeOK
    <2>. QED BY <1>5, <2>1 DEF Disable, Drift, env, opVars, TypeOK, AtInv
  <1>6. CASE \E g \in Editable : Edit(g)
    <2>1. config' \in [Groups -> Versions]
      BY <1>6 DEF Edit, TypeOK
    <2>. QED BY <1>6, <2>1 DEF Edit, opVars, TypeOK, AtInv
  <1>7. CASE \E p \in Services : LateStart(p)
    BY <1>7, LateStartFacts DEF TypeOK, AtInv
  <1>. QED BY <1>1, <1>2, <1>3, <1>4, <1>5, <1>6, <1>7

-----------------------------------------------------------------------------
(* The steps: what they preserve                                           *)

Kept == BaseInv /\ RejectedInv /\ RollbackInv

LEMMA PrepareKeeps ==
    ASSUME FileInv, NEW force, Prepare(force), UNCHANGED scenario
    PROVE  Kept'
  <1>. USE DEF FileInv
  <1>1. /\ phase = "idle" /\ phase' \in {"ok", "check"}
        /\ UNCHANGED <<disk, live, late, at, errs>>
        /\ due' = {p \in Parts : force \/ GroupOf(p) \in Dirty(config, rules)}
        /\ backup' = [f \in Files |-> IF f \in Backed THEN disk[f] ELSE Absent]
        /\ sound' = {f \in Backed : disk[f] # Absent /\ live[f] = disk[f]}
    BY DEF Prepare
  <1>2. BaseInv'
    <2>. SUFFICES ASSUME disk["mihomo"] = Absent
                  PROVE  /\ \A f \in Files : disk[f] = Absent /\ backup'[f] = Absent
                         /\ sound' = {} /\ "mihomo" \in due'
      BY <1>1 DEF BaseInv
    <2>1. \A f \in Files : disk[f] = Absent
      BY DEF BaseInv
    <2>2. "mihomo" \in Dirty(config, rules)
      BY Sorts DEF Dirty, Required
    <2>3. Backed \subseteq Files
      BY DEF Backed, Files
    <2>. QED BY <1>1, <2>1, <2>2, <2>3, Sorts
  <1>3. RejectedInv'
    <2>1. backup'["mihomo"] \in {disk["mihomo"], Absent}
      BY <1>1, Sorts
    <2>. QED BY <1>1, <2>1, SameScenario DEF RejectedInv
  <1>4. RollbackInv'
    <2>1. sound' \subseteq {"mihomo", "nft", "sets", "firewall"}
      BY <1>1 DEF Backed
    <2>2. \A f \in sound' : backup'[f] # Absent
      BY <1>1 DEF Backed, Files
    <2>. QED BY <1>1, <2>1, <2>2 DEF RollbackInv
  <1>. QED BY <1>2, <1>3, <1>4 DEF Kept

LEMMA ValidateKeeps ==
    ASSUME FileInv, Validate \/ Commit, UNCHANGED scenario
    PROVE  Kept'
  <1>. USE DEF FileInv
  <1>1. /\ UNCHANGED <<disk, live, snap, due, backup, sound, errs>>
        /\ \/ phase = "check" /\ phase' = "promote" /\ at' = 1
              /\ ("mihomo" \in due => snap["mihomo"] \notin Rejected)
           \/ phase \in {"check", "commit"} /\ phase' = "restore"
           \/ phase = "commit" /\ phase' = "ok"
    BY DEF Validate, Commit, Rollback
  <1>2. BaseInv'
    BY <1>1 DEF BaseInv, Busy
  <1>3. RejectedInv'
    BY <1>1, SameScenario DEF RejectedInv
  <1>4. RollbackInv'
    BY <1>1 DEF RollbackInv
  <1>. QED BY <1>2, <1>3, <1>4 DEF Kept

LEMMA PromoteKeeps ==
    ASSUME FileInv, Promote, UNCHANGED scenario
    PROVE  Kept'
  <1>. USE DEF FileInv
  <1>. DEFINE f == Promotion[at]
  <1>1. /\ phase = "promote" /\ at \in 1..6 /\ f \in Files
        /\ UNCHANGED <<live, snap, staged, due, backup, sound, errs>>
        /\ snap \in [Groups -> Versions]
    BY Sequencing DEF Promote, AtInv, Busy
  <1>2. \/ phase' = "restore" /\ disk' = disk
        \/ /\ phase' \in {"promote", "load"}
           /\ disk' = IF f \in due THEN [disk EXCEPT ![f] = Inputs(GroupOf(f), snap, staged)]
                                   ELSE disk
    BY DEF Promote, Rollback
  <1>3. f = "mihomo" /\ f \in due /\ phase' # "restore" =>
          disk'["mihomo"] = Inputs("mihomo", snap, staged)
    BY <1>1, <1>2, Sorts DEF TypeOK
  <1>4. f # "mihomo" \/ f \notin due \/ phase' = "restore" => disk'["mihomo"] = disk["mihomo"]
    BY <1>1, <1>2, Sorts DEF TypeOK
  <1>5. Inputs("mihomo", snap, staged) # Absent
        /\ Inputs("mihomo", snap, staged)[1] = snap["mihomo"]
    <2>1. staged \in 0..MaxRules /\ snap \in [Groups -> 0..MaxVersion]
      BY DEF TypeOK
    <2>. QED BY <1>1, <2>1, Sorts, NotAbsent, InputsFacts
  <1>6. BaseInv'
    <2>. SUFFICES ASSUME disk'["mihomo"] = Absent
                  PROVE  phase' = "restore" /\ disk["mihomo"] = Absent /\ disk' = disk
      BY <1>1 DEF BaseInv, Busy
    <2>1. disk["mihomo"] = Absent
      BY <1>3, <1>4, <1>5
    <2>2. at = 1 /\ "mihomo" \in due
      BY <1>1, <2>1 DEF BaseInv, Busy
    <2>. QED BY <1>2, <1>3, <1>5, <2>1, <2>2, Sequencing
  <1>7. RejectedInv'
    <2>1. disk'["mihomo"] = disk["mihomo"] \/
            ("mihomo" \in due /\ disk'["mihomo"] = Inputs("mihomo", snap, staged))
      BY <1>3, <1>4
    <2>2. ~Unvalidated => Passes(disk'["mihomo"]) /\ disk'["mihomo"] # Absent
      BY <1>1, <1>5, <2>1 DEF RejectedInv, Passes
    <2>. QED BY <1>1, <1>2, <2>2, SameScenario DEF RejectedInv
  <1>8. RollbackInv'
    BY <1>1, <1>2 DEF RollbackInv
  <1>. QED BY <1>6, <1>7, <1>8 DEF Kept

LEMMA LoadKeeps ==
    ASSUME FileInv, LoadStep, UNCHANGED scenario
    PROVE  Kept'
  <1>. USE DEF FileInv
  <1>. DEFINE p == Loading[at]
  <1>1. /\ phase = "load" /\ p \in Parts /\ phase' \in {"restore", "commit", "load"}
        /\ UNCHANGED <<disk, snap, backup, sound, errs>>
        /\ due' = due \/ due' = due \cup {"sets"}
    BY LoadEffect
  <1>2. disk["mihomo"] # Absent
    BY <1>1 DEF BaseInv
  <1>3. live'["mihomo"] \in {live["mihomo"], disk["mihomo"], Absent}
    <2>1. live' = live \/ live' = Loaded(p) \/ TimesOut(p)
      BY LoadEffect
    <2>2. Loaded(p)["mihomo"] = IF p = "mihomo" THEN disk["mihomo"] ELSE live["mihomo"]
      <3>1. CASE p = "mihomo"
        BY <1>1, <3>1, Sorts, LoadedFacts DEF Source
      <3>2. CASE p # "mihomo"
        BY <1>1, <3>2, Sorts, LoadedFacts
      <3>. QED BY <3>1, <3>2
    <2>3. TimesOut(p) => live'["mihomo"] \in {live["mihomo"], Absent}
      BY Sorts, TimesOutFacts
    <2>. QED BY <2>1, <2>2, <2>3
  <1>4. BaseInv'
    BY <1>1, <1>2 DEF BaseInv
  <1>5. RejectedInv'
    <2>1. "mihomo" \in due' => "mihomo" \in due
      BY <1>1
    <2>. QED BY <1>1, <1>3, <2>1, SameScenario DEF RejectedInv
  <1>6. RollbackInv'
    BY <1>1 DEF RollbackInv
  <1>. QED BY <1>4, <1>5, <1>6 DEF Kept

LEMMA RestoreKeeps ==
    ASSUME FileInv, Restore, UNCHANGED scenario
    PROVE  Kept'
  <1>. USE DEF FileInv
  <1>1. /\ phase = "restore" /\ phase' = "reload" /\ at' = 1
        /\ UNCHANGED <<live, snap, due, backup, sound>>
    BY DEF Restore
  <1>2. PICK done \in SUBSET {f \in Files : backup[f] # Absent} :
          /\ disk' = [f \in Files |-> IF f \in done THEN backup[f] ELSE disk[f]]
          /\ errs' = (done # {f \in Files : backup[f] # Absent})
    BY DEF Restore
  <1>3. disk["mihomo"] # Absent => disk'["mihomo"] # Absent
    BY <1>2, Sorts
  <1>4. BaseInv'
    <2>. SUFFICES ASSUME disk'["mihomo"] = Absent
                  PROVE  /\ \A f \in Files : disk'[f] = Absent /\ backup[f] = Absent
                         /\ sound = {}
      BY <1>1 DEF BaseInv
    <2>1. /\ \A f \in Files : disk[f] = Absent /\ backup[f] = Absent
          /\ sound = {}
      BY <1>1, <1>3 DEF BaseInv, Busy
    <2>. QED BY <1>2, <2>1
  <1>5. RejectedInv'
    <2>1. disk'["mihomo"] \in {disk["mihomo"], backup["mihomo"]}
      BY <1>2, Sorts
    <2>. QED BY <1>1, <1>3, <2>1, SameScenario DEF RejectedInv
  <1>6. RollbackInv'
    <2>1. ~errs' => \A f \in sound : disk'[f] = backup[f]
      <3>1. sound \subseteq Files /\ \A f \in sound : backup[f] # Absent
        BY DEF RollbackInv, TypeOK
      <3>. QED BY <1>2, <3>1
    <2>2. \A f : ~Reloaded(f)'
      BY <1>1 DEF Reloaded
    <2>. QED BY <1>1, <2>1, <2>2 DEF RollbackInv
  <1>. QED BY <1>4, <1>5, <1>6 DEF Kept

LEMMA ReloadKeeps ==
    ASSUME FileInv, Reload, UNCHANGED scenario
    PROVE  Kept'
  <1>. USE DEF FileInv
  <1>. DEFINE p == Reloading[at]
  <1>1. /\ phase = "reload" /\ at \in 1..6 /\ p \in Files /\ p \in Parts
        /\ UNCHANGED <<snap, due, backup, sound>>
        /\ \/ at = 6 /\ phase' = "failed" /\ errs' = TRUE /\ at' = 0
           \/ at = 6 /\ phase' = "rolledback" /\ errs' = FALSE /\ at' = 0
           \/ at < 6 /\ at' = at + 1 /\ phase' = "reload"
    BY ReloadEffect, Sequencing, Sorts
  <1>2. CASE UNCHANGED <<live, late, disk>> /\ errs' = TRUE
    <2>1. BaseInv'
      BY <1>1, <1>2 DEF BaseInv, Busy
    <2>2. RejectedInv'
      BY <1>1, <1>2, SameScenario DEF RejectedInv
    <2>3. RollbackInv'
      BY <1>1, <1>2 DEF RollbackInv
    <2>. QED BY <2>1, <2>2, <2>3 DEF Kept
  <1>3. CASE p # "mihomo" /\ live' = Loaded(p) /\ disk' = disk /\ errs' = errs
    <2>1. at < 6 /\ at' = at + 1 /\ phase' = "reload"
      BY <1>1, <1>3, Sequencing
    <2>2. /\ live'[p] = disk[p]
          /\ \A q \in Parts : q # p /\ (p # "nft" \/ q # "sets") => live'[q] = live[q]
      BY <1>1, <1>3, LoadedFacts DEF Source
    <2>3. BaseInv'
      BY <1>1, <1>3, <2>1 DEF BaseInv, Busy
    <2>4. RejectedInv'
      BY <1>1, <1>3, <2>1, <2>2, Sorts, SameScenario DEF RejectedInv
    <2>5. RollbackInv'
      <3>. SUFFICES ASSUME ~errs, NEW f \in sound
                    PROVE  disk'[f] = backup[f] /\ (Reloaded(f)' => live'[f] = backup[f])
        BY <1>1, <1>3, <2>1 DEF RollbackInv
      <3>1. disk[f] = backup[f] /\ (Reloaded(f) => live[f] = backup[f]) /\ f \in Parts
        BY <1>1, Sorts DEF RollbackInv, TypeOK
      <3>2. Reloaded(f)' => f = p \/ (Reloaded(f) /\ (p # "nft" \/ f # "sets"))
        <4>1. at = 1 \/ at = 2 \/ at = 3 \/ at = 4 \/ at = 5
          BY <1>1, <2>1
        <4>. QED BY <2>1, <4>1, Sequencing DEF Reloaded
      <3>. QED BY <1>3, <2>2, <3>1, <3>2
    <2>. QED BY <2>3, <2>4, <2>5 DEF Kept
  <1>4. CASE /\ p = "mihomo" /\ errs' = errs
             /\ \/ MihomoStarts(live) /\ late' = late \ {p}
                \/ MihomoTimesOut
    <2>1. at = 6
      <3>1. at = 1 \/ at = 2 \/ at = 3 \/ at = 4 \/ at = 5 \/ at = 6
        BY <1>1
      <3>. QED BY <1>4, <3>1, Sequencing
    <2>2. /\ disk'["mihomo"] # Absent \/ (disk' = disk /\ disk["mihomo"] = Absent)
          /\ \A q \in Parts \ {"mihomo"} : live'[q] = live[q]
          /\ disk["mihomo"] # Absent =>
               /\ disk' = disk /\ live'["mihomo"] \in {live["mihomo"], disk["mihomo"], Absent}
               /\ live'["mihomo"] = disk["mihomo"] \/ "mihomo" \in late'
      BY <1>4, StartsFacts, StallFacts, TimesOutFacts, Sorts
    <2>3. BaseInv'
      BY <1>1, <2>1, <2>2 DEF BaseInv, Busy
    <2>4. RejectedInv'
      BY <1>1, <2>1, <2>2, SameScenario DEF RejectedInv
    <2>5. RollbackInv'
      <3>. SUFFICES ASSUME ~errs, NEW f \in sound
                    PROVE  disk'[f] = backup[f] /\ (live'[f] = backup[f] \/ f \in late')
        BY <1>1, <1>4, <2>1 DEF RollbackInv
      <3>1. /\ disk[f] = backup[f] /\ (Reloaded(f) => live[f] = backup[f]) /\ f \in Parts
            /\ f \in {"mihomo", "nft", "sets", "firewall"}
        BY <1>1, Sorts DEF RollbackInv, TypeOK
      <3>2. disk["mihomo"] # Absent
        BY <1>1 DEF BaseInv, Busy
      <3>3. f # "mihomo" => Reloaded(f)
        BY <2>1, <3>1 DEF Reloaded
      <3>. QED BY <2>2, <3>1, <3>2, <3>3
    <2>. QED BY <2>3, <2>4, <2>5 DEF Kept
  <1>5. CASE p # "mihomo" /\ TimesOut(p) /\ disk' = disk /\ errs' = errs
    <2>1. at < 6 /\ at' = at + 1 /\ phase' = "reload" /\ at \notin 1..3
      <3>1. at = 1 \/ at = 2 \/ at = 3 \/ at = 4 \/ at = 5 \/ at = 6
        BY <1>1
      <3>2. p \in Services
        BY <1>5, TimesOutFacts
      <3>. QED BY <1>1, <1>5, <3>1, <3>2, Sequencing, ServicesApart
    <2>2. live'["mihomo"] = live["mihomo"] /\ \A q \in Parts : q # p => live'[q] = live[q]
      BY <1>5, TimesOutFacts, Sorts
    <2>3. BaseInv'
      BY <1>1, <1>5, <2>1 DEF BaseInv, Busy
    <2>4. RejectedInv'
      BY <1>1, <1>5, <2>1, <2>2, SameScenario DEF RejectedInv
    <2>5. RollbackInv'
      <3>. SUFFICES ASSUME ~errs, NEW f \in sound
                    PROVE  disk'[f] = backup[f] /\ (Reloaded(f)' => live'[f] = backup[f])
        BY <1>1, <1>5, <2>1 DEF RollbackInv
      <3>1. disk[f] = backup[f] /\ (Reloaded(f) => live[f] = backup[f]) /\ f \in Parts
        BY <1>1, Sorts DEF RollbackInv, TypeOK
      <3>2. Reloaded(f)' => Reloaded(f) /\ f # p
        BY <1>1, <1>5, <2>1, TimesOutFacts, ServicesApart DEF Reloaded
      <3>. QED BY <1>5, <2>2, <3>1, <3>2
    <2>. QED BY <2>3, <2>4, <2>5 DEF Kept
  <1>. QED BY <1>2, <1>3, <1>4, <1>5, ReloadEffect

LEMMA AroundKeeps ==
    ASSUME FileInv, UNCHANGED scenario,
           \/ Return \/ Kill \/ Reboot \/ Update \/ Generate \/ EditRules \/ Disable \/ Drift
           \/ \E g \in Editable : Edit(g)
           \/ \E p \in Services : LateStart(p)
    PROVE  Kept'
  <1>. USE DEF FileInv
  <1>1. CASE Return \/ Kill \/ Reboot
    <2>1. phase' = "idle" /\ backup' = NoFiles /\ sound' = {}
      BY <1>1 DEF Return, Kill, Reboot, Silence
    <2>2. /\ disk'["mihomo"] = disk["mihomo"]
          /\ live'["mihomo"] \in {live["mihomo"], disk["mihomo"]}
          /\ disk' = disk \/ disk["mihomo"] # Absent
      BY <1>1, Sorts DEF Return, Kill, Reboot, Volatile
    <2>3. BaseInv'
      BY <2>1, <2>2 DEF BaseInv, Busy
    <2>4. backup'["mihomo"] = Absent
      BY <2>1, Sorts DEF NoFiles
    <2>5. RejectedInv'
      BY <2>1, <2>2, <2>4, SameScenario DEF RejectedInv
    <2>6. RollbackInv'
      BY <2>1 DEF RollbackInv
    <2>. QED BY <2>3, <2>5, <2>6 DEF Kept
  <1>2. CASE Update \/ Generate
    <2>1. PICK r \in 1..MaxRules, n \in 0..6 : disk' = Generated(config, r, Dirty(config, r), n)
      BY <1>2, Sequencing DEF Update, Generate, env, TypeOK
    <2>2. phase = "idle" /\ UNCHANGED <<live, late, opVars>> /\ Unvalidated
      BY <1>2, SameScenario DEF Update, Generate
    <2>3. disk'["mihomo"] # Absent \/ (disk["mihomo"] = Absent /\ disk' = disk)
      BY <2>1, GeneratedFacts DEF TypeOK
    <2>4. BaseInv'
      BY <2>2, <2>3 DEF BaseInv, opVars
    <2>5. RejectedInv'
      BY <2>2, SameScenario DEF RejectedInv
    <2>6. RollbackInv'
      BY <2>2 DEF RollbackInv, opVars
    <2>. QED BY <2>4, <2>5, <2>6 DEF Kept
  <1>3. CASE EditRules \/ \E g \in Editable : Edit(g)
    <2>1. UNCHANGED <<disk, live, late, phase, at, snap, staged, due, backup, sound, errs>>
      BY <1>3 DEF EditRules, Edit, opVars
    <2>2. BaseInv'
      BY <2>1 DEF BaseInv
    <2>3. RejectedInv'
      BY <2>1, SameScenario DEF RejectedInv
    <2>4. RollbackInv'
      BY <2>1 DEF RollbackInv, Reloaded
    <2>. QED BY <2>2, <2>3, <2>4 DEF Kept
  <1>4. CASE Disable \/ Drift
    <2>1. /\ phase = "idle" /\ UNCHANGED <<phase, at, snap, staged, due, backup, sound, errs>>
          /\ \A f \in Files : disk'[f] = disk[f] \/ disk'[f] = Absent
          /\ disk'["mihomo"] = disk["mihomo"] /\ live'["mihomo"] = live["mihomo"]
      BY <1>4, Sorts DEF Disable, Drift, opVars
    <2>2. BaseInv'
      BY <2>1 DEF BaseInv, Busy
    <2>3. RejectedInv'
      BY <2>1, SameScenario DEF RejectedInv
    <2>4. RollbackInv'
      BY <2>1 DEF RollbackInv
    <2>. QED BY <2>2, <2>3, <2>4 DEF Kept
  <1>5. CASE \E p \in Services : LateStart(p)
    <2>1. PICK p \in Services : LateStart(p)
      BY <1>5
    <2>2. /\ p \in late /\ live'[p] = disk[p]
          /\ \A q \in Parts : q # p => live'[q] = live[q]
          /\ UNCHANGED <<disk, late, phase, at, snap, staged, due, backup, sound, errs>>
      BY <2>1, LateStartFacts
    <2>3. BaseInv'
      BY <2>2 DEF BaseInv
    <2>4. RejectedInv'
      <3>1. live'["mihomo"] \in {live["mihomo"], disk["mihomo"]}
        BY <2>2, Sorts
      <3>. QED BY <2>2, <3>1, SameScenario DEF RejectedInv
    <2>5. RollbackInv'
      <3>1. \A f \in sound : f \in Parts /\ (f \in late \/ live'[f] = live[f])
        BY <2>2, Sorts DEF TypeOK
      <3>2. \A f \in sound : Reloaded(f)' => Reloaded(f) /\ live'[f] = live[f]
        BY <2>1, <2>2, <3>1, ServicesApart DEF Reloaded
      <3>. QED BY <2>2, <3>1, <3>2 DEF RollbackInv
    <2>. QED BY <2>3, <2>4, <2>5 DEF Kept
  <1>. QED BY <1>1, <1>2, <1>3, <1>4, <1>5

LEMMA FileStep == FileInv /\ [Next]_vars => FileInv'
  <1>. SUFFICES ASSUME FileInv, [Next]_vars PROVE FileInv'
    OBVIOUS
  <1>1. CASE Next
    <2>1. UNCHANGED scenario /\ TypeOK /\ AtInv
      BY <1>1 DEF Next, FileInv
    <2>2. CASE \E force \in BOOLEAN : Prepare(force)
      BY <2>1, <2>2, PrepareTypes, PrepareKeeps DEF FileInv, Kept
    <2>3. CASE Validate \/ Commit
      BY <2>1, <2>3, ForwardTypes, ValidateKeeps DEF FileInv, Kept
    <2>4. CASE Promote
      BY <2>1, <2>4, ForwardTypes, PromoteKeeps DEF FileInv, Kept
    <2>5. CASE LoadStep
      BY <2>1, <2>5, LoadTypes, LoadKeeps DEF FileInv, Kept
    <2>6. CASE Restore
      BY <2>1, <2>6, ForwardTypes, RestoreKeeps DEF FileInv, Kept
    <2>7. CASE Reload
      BY <2>1, <2>7, ReloadTypes, ReloadKeeps DEF FileInv, Kept
    <2>8. CASE \/ Return \/ Kill \/ Reboot \/ Update \/ Generate \/ EditRules \/ Disable \/ Drift
               \/ \E g \in Editable : Edit(g)
               \/ \E p \in Services : LateStart(p)
      BY <2>1, <2>8, AroundTypes, AroundKeeps DEF FileInv, Kept
    <2>. QED BY <1>1, <2>2, <2>3, <2>4, <2>5, <2>6, <2>7, <2>8 DEF Next, Step, ApplyStep
  <1>2. CASE UNCHANGED vars
    <2>1. UNCHANGED <<scenario, config, rules, disk, live, late, fp, phase, at, snap, staged,
                      due, backup, sound, errs>>
      BY <1>2 DEF vars, opVars
    <2>2. TypeOK' /\ AtInv'
      BY <2>1 DEF FileInv, TypeOK, AtInv
    <2>3. BaseInv' /\ RollbackInv'
      BY <2>1 DEF FileInv, BaseInv, RollbackInv, Reloaded
    <2>4. RejectedInv'
      BY <2>1, SameScenario DEF FileInv, RejectedInv
    <2>. QED BY <2>2, <2>3, <2>4 DEF FileInv
  <1>. QED BY <1>1, <1>2

LEMMA FileInit == Init => FileInv
  <1>. SUFFICES ASSUME Init PROVE FileInv
    OBVIOUS
  <1>1. /\ scenario \in Scenarios /\ config = [g \in Groups |-> 1] /\ rules = 1
        /\ disk = [f \in Files |-> IF Fresh THEN Absent ELSE First(GroupOf(f))]
        /\ live = [p \in Parts |-> IF Fresh THEN Absent ELSE First(GroupOf(p))]
        /\ fp = [g \in Groups |-> IF Fresh THEN Absent ELSE First(g)] /\ late = {}
        /\ phase = "idle" /\ at = 0 /\ snap = NoConfig /\ staged = 0 /\ due = {}
        /\ backup = NoFiles /\ sound = {} /\ errs = FALSE
    BY DEF Init, Quiet
  <1>2. /\ \A g \in Groups : First(g) \in Contents
        /\ First("mihomo") # Absent /\ First("mihomo")[1] = 1
    BY Bounds DEF First, Contents, Absent
  <1>3. TypeOK
    <2>1. at \in 0..Len(Loading)
      BY <1>1, Sequencing
    <2>2. config \in [Groups -> Versions] /\ rules \in 1..MaxRules
      BY <1>1, Bounds DEF Versions
    <2>3. /\ disk \in [Files -> Contents] /\ live \in [Parts -> Contents]
          /\ fp \in [Groups -> Contents]
      BY <1>1, <1>2, Sorts
    <2>. QED BY <1>1, <2>1, <2>2, <2>3, Sorts DEF TypeOK
  <1>4. AtInv /\ BaseInv /\ RollbackInv
    <2>1. ~Fresh => disk["mihomo"] # Absent
      BY <1>1, <1>2, Sorts
    <2>2. Fresh => \A f \in Files : disk[f] = Absent
      BY <1>1
    <2>. QED BY <1>1, <2>1, <2>2 DEF AtInv, BaseInv, RollbackInv, Busy
  <1>5. RejectedInv
    <2>1. ~Fresh => /\ disk["mihomo"] = First("mihomo") /\ live["mihomo"] = First("mihomo")
                    /\ backup["mihomo"] = Absent
      BY <1>1, Sorts DEF NoFiles
    <2>2. 1 \notin Rejected /\ 0 \notin Rejected
      BY <1>1, RejectedAssumption DEF Rejected
    <2>. QED BY <1>1, <1>2, <2>1, <2>2, NotAbsent DEF RejectedInv, Unvalidated, Passes
  <1>. QED BY <1>3, <1>4, <1>5 DEF FileInv

LEMMA FileAlways == Spec => []FileInv
  BY FileInit, FileStep, PTL DEF Spec

-----------------------------------------------------------------------------
(* The theorems                                                            *)

(* An apply, its rollback and everything around them keep the generated    *)
(* files, the fingerprint and the live system well formed: what they hold  *)
(* was rendered from a version of the settings, or is absent.              *)
THEOREM ApplyTypes == Spec => []TypeOK
  <1>1. FileInv => TypeOK
    BY DEF FileInv
  <1>. QED BY <1>1, FileAlways, PTL

(* applyValidateStaged: while no update or generate rewrites the live file *)
(* and there was a first configuration, mihomo never runs on one that      *)
(* `mihomo -t` rejects, however applies fail, roll back, die and reboot.   *)
THEOREM RejectedStaysOut == Spec => []RejectedNeverRuns
  <1>1. FileInv => RejectedNeverRuns
    BY DEF FileInv, RejectedInv, RejectedNeverRuns, Unvalidated, Passes
  <1>. QED BY <1>1, FileAlways, PTL

(* restoreAndReload: a rollback that reports no error leaves every file    *)
(* that had a backup and was live when the apply began on disk and live    *)
(* again, whoever edits settings and rule files meanwhile; only mihomo may *)
(* not be, when its restart timed out, which the rollback does not report. *)
THEOREM CleanRollbackRestores == Spec => []RollbackRestores
  <1>1. FileInv => RollbackRestores
    BY DEF FileInv, RollbackInv, RollbackRestores
  <1>. QED BY <1>1, FileAlways, PTL

-----------------------------------------------------------------------------
(***************************************************************************)
(* An apply that succeeds leaves everything running on what it loaded: the *)
(* fingerprint as a statement about the files and the live system, carried *)
(* through failing applies, updates, edits, drift, kills and reboots.      *)
(***************************************************************************)

(* What a group is to run on: what the apply loaded, or what one would.    *)
Wanted(g) == IF phase = "idle" THEN Inputs(g, config, rules) ELSE Inputs(g, snap, staged)

(* The fingerprint says that it does.                                      *)
Trusted(g) == fp[g] = Wanted(g)

(* Versions only grow, so that a fingerprint once outdated stays outdated. *)
OrderInv ==
    /\ phase # "idle" =>
         snap \in [Groups -> Versions] /\ staged = rules /\ \A g \in Groups : snap[g] <= config[g]
    /\ \A g \in Groups : fp[g][1] <= Wanted(g)[1] /\ fp[g][2] <= Wanted(g)[2]

(* The files of a trusted group, and their backups, are what it runs on;   *)
(* those of the other groups are so when they have been promoted.          *)
DiskInv ==
    /\ disk["mihomo"] # Absent
    /\ \A f \in Files : Trusted(GroupOf(f)) =>
         /\ disk[f] = Wanted(GroupOf(f))
         /\ phase \in Busy => backup[f] \in {Absent, Wanted(GroupOf(f))}
    /\ phase = "promote" => \A i \in 1..6 : i < at =>
         disk[Promotion[i]] = Wanted(GroupOf(Promotion[i]))
    /\ phase \in {"load", "commit"} => \A f \in Files : disk[f] = Wanted(GroupOf(f))

Forward == {"check", "promote", "load", "commit"}

(* An apply skips only what it trusts, and succeeds when it trusts all.    *)
DueInv ==
    /\ phase \in Forward => /\ \A p \in Parts \ due : Trusted(GroupOf(p))
                            /\ "nft" \in due => "sets" \in due
    /\ phase = "ok" => \A p \in Parts : Trusted(GroupOf(p))

(* Or its last restart timed out, and nothing is known of it.              *)
Running(p) == p \in late \/ live[p] = Wanted(GroupOf(p))

(* The part was taken away by another program, and a probe will tell.      *)
Lost(p) == /\ "drift" \in Env /\ live[p] = Absent
           /\ p \in {"nft", "policy"} \/ (p = "sets" /\ live["nft"] = Absent)

Direct == {"upstream", "policy", "network"}   \* what a rollback does not reload

LiveInv ==
    /\ phase \in {"idle", "check", "promote"} \cup Outcomes =>
         \A p \in Parts : Trusted(GroupOf(p)) => Running(p) \/ Lost(p)
    /\ \A p \in Direct : Trusted(GroupOf(p)) => Running(p) \/ Lost(p)
    /\ phase = "load" => \A i \in 1..9 :
         /\ i < at => Running(Loading[i])
         /\ i >= at => \/ Loading[i] \in due \/ Running(Loading[i])
                       \/ Lost(Loading[i]) /\ (Loading[i] = "sets" => at = 1)
    /\ phase = "commit" => \A p \in Parts : Running(p)
    /\ phase = "ok" => due = {} \/ \A p \in Parts : Running(p)
    /\ phase = "reload" => \A i \in 1..6 : i < at =>
         (Trusted(GroupOf(Reloading[i])) => Running(Reloading[i]))

(* Where applies can be killed, they leave trusted groups alone.           *)
KillInv == "kill" \in Faults /\ phase \in Forward =>
    \A p \in Parts : Trusted(GroupOf(p)) => p \notin due /\ Running(p)

Trust == OrderInv /\ DiskInv /\ DueInv /\ LiveInv /\ KillInv
TrustInv == Misled \/ Trust

-----------------------------------------------------------------------------
(* What is wanted, and trusted                                             *)

LEMMA Tables ==
    /\ Loading[1] = "nft" /\ Loading[2] = "sets" /\ Loading[3] = "firewall"
    /\ Loading[4] = "upstream" /\ Loading[5] = "policy" /\ Loading[6] = "zapret"
    /\ Loading[7] = "fragments" /\ Loading[8] = "mihomo" /\ Loading[9] = "network"
    /\ \A p \in Parts : \E i \in 1..9 : p = Loading[i]
    /\ \A i \in 1..9, j \in 1..9 : Loading[i] = Loading[j] => i = j
    /\ \A f \in Files : \E i \in 1..6 : f = Promotion[i]
    /\ \A f \in Files : \E i \in 1..6 : f = Reloading[i]
    /\ \A i \in 1..6, j \in 1..6 : Reloading[i] = Reloading[j] => i = j
    /\ Parts = Files \cup Direct /\ Direct \cap Files = {}
    /\ GroupOf("nft") = "bundle" /\ GroupOf("sets") = "bundle"
  <1>1. /\ Loading[1] = "nft" /\ Loading[2] = "sets" /\ Loading[3] = "firewall"
        /\ Loading[4] = "upstream" /\ Loading[5] = "policy" /\ Loading[6] = "zapret"
        /\ Loading[7] = "fragments" /\ Loading[8] = "mihomo" /\ Loading[9] = "network"
    BY DEF Loading
  <1>2. /\ Promotion[1] = "mihomo" /\ Promotion[2] = "nft" /\ Promotion[3] = "sets"
        /\ Promotion[4] = "firewall" /\ Promotion[5] = "zapret" /\ Promotion[6] = "fragments"
    BY DEF Promotion
  <1>3. /\ 1 \in 1..9 /\ 2 \in 1..9 /\ 3 \in 1..9 /\ 4 \in 1..9 /\ 5 \in 1..9
        /\ 6 \in 1..9 /\ 7 \in 1..9 /\ 8 \in 1..9 /\ 9 \in 1..9
        /\ 1 \in 1..6 /\ 2 \in 1..6 /\ 3 \in 1..6 /\ 4 \in 1..6 /\ 5 \in 1..6 /\ 6 \in 1..6
    OBVIOUS
  <1>4. \A p \in Parts : \E i \in 1..9 : p = Loading[i]
    BY <1>1, <1>3 DEF Parts, Files
  <1>5. \A f \in Files : \E i \in 1..6 : f = Promotion[i]
    BY <1>2, <1>3 DEF Files
  <1>6. \A f \in Files : \E i \in 1..6 : f = Reloading[i]
    BY <1>3, Sequencing DEF Files
  <1>7. \A i \in 1..9 :
          i = 1 \/ i = 2 \/ i = 3 \/ i = 4 \/ i = 5 \/ i = 6 \/ i = 7 \/ i = 8 \/ i = 9
    OBVIOUS
  <1>8. \A i \in 1..9, j \in 1..9 : Loading[i] = Loading[j] => i = j
    BY <1>1, <1>7
  <1>9. \A i \in 1..6 : i = 1 \/ i = 2 \/ i = 3 \/ i = 4 \/ i = 5 \/ i = 6
    OBVIOUS
  <1>10. \A i \in 1..6, j \in 1..6 : Reloading[i] = Reloading[j] => i = j
    BY <1>9, Sequencing
  <1>11. /\ Parts = Files \cup Direct /\ Direct \cap Files = {}
         /\ GroupOf("nft") = "bundle" /\ GroupOf("sets") = "bundle"
    BY DEF Parts, Files, Direct, GroupOf
  <1>. QED BY <1>1, <1>4, <1>5, <1>6, <1>8, <1>10, <1>11

LEMMA NotMisled ==
    ASSUME TypeOK, UNCHANGED scenario
    PROVE  /\ Misled' <=> Misled
           /\ ~Misled => /\ "revert" \notin Env /\ "disable" \notin Env
                         /\ "generate" \notin Env /\ "rules" \notin Env
                         /\ ~Fresh /\ "undo" \notin Faults
                         /\ "kill" \in Faults => "force" \notin Env /\ "drift" \notin Env
  BY SameScenario DEF Misled, Unseen, Fresh

LEMMA Versioned ==
    ASSUME NEW c \in [Groups -> Versions], NEW r \in 1..MaxRules, NEW g \in Groups
    PROVE  /\ Inputs(g, c, r) \in Contents /\ Inputs(g, c, r) # Absent
           /\ Inputs(g, c, r)[1] \in Nat /\ Inputs(g, c, r)[2] \in Nat
  <1>1. c \in [Groups -> 0..MaxVersion] /\ r \in 0..MaxRules
    BY Sorts
  <1>2. Inputs(g, c, r) \in Contents /\ Inputs(g, c, r) # Absent
    BY <1>1, InputsFacts, NotAbsent
  <1>. QED BY <1>2 DEF Contents

LEMMA InputsGrow ==
    ASSUME NEW c \in [Groups -> Versions], NEW d \in [Groups -> Versions],
           NEW r \in 1..MaxRules, NEW s \in 1..MaxRules, NEW g \in Groups, c[g] <= d[g], r <= s
    PROVE  Inputs(g, c, r)[1] <= Inputs(g, d, s)[1] /\ Inputs(g, c, r)[2] <= Inputs(g, d, s)[2]
  BY DEF Inputs

LEMMA WantedFacts ==
    ASSUME TypeOK, OrderInv, NEW g \in Groups
    PROVE  /\ Wanted(g) \in Contents /\ Wanted(g) # Absent
           /\ Wanted(g)[1] \in Nat /\ Wanted(g)[2] \in Nat
           /\ fp[g] \in Contents /\ fp[g][1] \in Nat /\ fp[g][2] \in Nat
           /\ fp[g][1] <= Wanted(g)[1] /\ fp[g][2] <= Wanted(g)[2]
  <1>1. fp[g] \in Contents /\ fp[g][1] \in Nat /\ fp[g][2] \in Nat
    BY DEF TypeOK, Contents
  <1>2. CASE phase = "idle"
    <2>1. Wanted(g) = Inputs(g, config, rules)
      BY <1>2 DEF Wanted
    <2>. QED BY <1>1, <2>1, Versioned DEF TypeOK, OrderInv
  <1>3. CASE phase # "idle"
    <2>1. Wanted(g) = Inputs(g, snap, staged)
      BY <1>3 DEF Wanted
    <2>2. snap \in [Groups -> Versions] /\ staged \in 1..MaxRules
      BY <1>3 DEF OrderInv, TypeOK
    <2>. QED BY <1>1, <2>1, <2>2, Versioned DEF OrderInv
  <1>. QED BY <1>2, <1>3

(* Only an up-to-date fingerprint was up to date before.                   *)
LEMMA StillTrusted ==
    ASSUME TypeOK, OrderInv, NEW g \in Groups, NEW w \in Contents,
           Wanted(g)[1] <= w[1], Wanted(g)[2] <= w[2]
    PROVE  /\ fp[g][1] <= w[1] /\ fp[g][2] <= w[2]
           /\ fp[g] = w => Trusted(g) /\ w = Wanted(g)
  <1>1. /\ Wanted(g) \in Contents /\ fp[g] \in Contents
        /\ Wanted(g)[1] \in Nat /\ Wanted(g)[2] \in Nat
        /\ fp[g][1] \in Nat /\ fp[g][2] \in Nat
        /\ fp[g][1] <= Wanted(g)[1] /\ fp[g][2] <= Wanted(g)[2]
    BY WantedFacts
  <1>2. w[1] \in Nat /\ w[2] \in Nat
    BY DEF Contents
  <1>3. fp[g][1] <= w[1] /\ fp[g][2] <= w[2]
    BY <1>1, <1>2
  <1>4. fp[g] = w => Wanted(g)[1] = w[1] /\ Wanted(g)[2] = w[2]
    BY <1>1, <1>2
  <1>5. \A a \in Contents, b \in Contents : a[1] = b[1] /\ a[2] = b[2] => a = b
    BY DEF Contents
  <1>6. fp[g] = w => w = Wanted(g)
    BY <1>1, <1>4, <1>5
  <1>. QED BY <1>3, <1>6 DEF Trusted

(* Within a run nothing changes what is wanted; nor does the fingerprint   *)
(* before the commit.                                                      *)
LEMMA RunFrame ==
    ASSUME FileInv, OrderInv, phase # "idle", phase' # "idle",
           UNCHANGED <<scenario, config, rules, fp, snap, staged>>
    PROVE  /\ OrderInv'
           /\ \A g : Wanted(g)' = Wanted(g)
           /\ \A g : Trusted(g)' <=> Trusted(g)
           /\ \A p : live'[p] = live[p] /\ (p \in late' <=> p \in late) =>
                (Running(p)' <=> Running(p))
           /\ live' = live => \A p : Lost(p)' <=> Lost(p)
  <1>1. \A g : Wanted(g)' = Wanted(g)
    BY DEF Wanted, Inputs
  <1>2. \A p : GroupOf(p)' = GroupOf(p)
    BY DEF GroupOf
  <1>3. \A g : Trusted(g)' <=> Trusted(g)
    BY <1>1 DEF Trusted
  <1>4. \A p : live'[p] = live[p] /\ (p \in late' <=> p \in late) =>
          (Running(p)' <=> Running(p))
    BY <1>1, <1>2 DEF Running
  <1>5. live' = live => \A p : Lost(p)' <=> Lost(p)
    BY DEF Lost, Env
  <1>6. OrderInv'
    BY <1>1 DEF OrderInv
  <1>. QED BY <1>1, <1>3, <1>4, <1>5, <1>6

-----------------------------------------------------------------------------
(* The steps of an apply                                                   *)

LEMMA PrepareTrusts ==
    ASSUME FileInv, Trust, ~Misled, NEW force, Prepare(force), UNCHANGED scenario
    PROVE  Trust'
  <1>1. /\ phase = "idle" /\ phase' \in {"ok", "check"} /\ snap' = config /\ staged' = rules
        /\ UNCHANGED <<config, rules, disk, live, late, fp>>
        /\ due' = {p \in Parts : force \/ GroupOf(p) \in Dirty(config, rules)}
        /\ backup' = [f \in Files |-> IF f \in Backed THEN disk[f] ELSE Absent]
        /\ (phase' = "ok" => due' = {}) /\ (force => "force" \in Env)
    BY DEF Prepare, env
  <1>2. TypeOK /\ OrderInv /\ DiskInv /\ LiveInv
    BY DEF FileInv, Trust
  <1>3. /\ \A g : Wanted(g) = Inputs(g, config, rules) /\ Wanted(g)' = Wanted(g)
        /\ \A g : Trusted(g)' <=> Trusted(g)
    <2>1. \A g : Wanted(g) = Inputs(g, config, rules) /\ Wanted(g)' = Wanted(g)
      BY <1>1 DEF Wanted, Inputs
    <2>. QED BY <1>1, <2>1 DEF Trusted
  <1>4. OrderInv'
    <2>1. config \in [Groups -> Versions]
      BY <1>2 DEF TypeOK
    <2>2. \A g \in Groups : config[g] <= config[g]
      BY <2>1 DEF Versions
    <2>. QED BY <1>1, <1>2, <1>3, <2>1, <2>2 DEF OrderInv
  <1>5. \A p \in Parts \ due' : Trusted(GroupOf(p))
    BY <1>1, <1>3, Sorts DEF Dirty, Trusted
  <1>6. DiskInv'
    BY <1>1, <1>2, <1>3 DEF DiskInv, GroupOf
  <1>7. DueInv'
    BY <1>1, <1>3, <1>5, Tables DEF DueInv, GroupOf, Parts, Files
  <1>8. /\ \A p : Running(p)' <=> Running(p)
        /\ \A p : Lost(p)' <=> Lost(p)
        /\ \A p : GroupOf(p)' = GroupOf(p)
    BY <1>1, <1>3 DEF Running, Lost, Env, GroupOf
  <1>9. LiveInv'
    <2>1. \A p \in Parts : Trusted(GroupOf(p)) => Running(p) \/ Lost(p)
      BY <1>1, <1>2 DEF LiveInv
    <2>2. /\ \A p \in Parts : Trusted(GroupOf(p))' => Running(p)' \/ Lost(p)'
          /\ \A p \in Direct : p \in Parts
      BY <1>3, <1>8, <2>1, Tables
    <2>. QED BY <1>1, <2>2 DEF LiveInv
  <1>10. KillInv'
    <2>. SUFFICES ASSUME "kill" \in Faults, NEW p \in Parts, Trusted(GroupOf(p))
                  PROVE  p \notin due' /\ Running(p)
      BY <1>3, <1>8 DEF KillInv, Faults
    <2>1. "force" \notin Env /\ "drift" \notin Env
      BY <1>2, NotMisled
    <2>2. Running(p)
      BY <1>1, <1>2, <2>1 DEF LiveInv, Lost, Outcomes
    <2>3. \A f \in Files : GroupOf(f) = GroupOf(p) => disk[f] # Absent
      BY <1>2, WantedFacts, Sorts DEF DiskInv
    <2>4. GroupOf(p) \notin Dirty(config, rules)
      BY <1>3, <2>3 DEF Dirty, Trusted, Required
    <2>. QED BY <1>1, <2>1, <2>2, <2>4
  <1>. QED BY <1>4, <1>6, <1>7, <1>9, <1>10 DEF Trust

(* A step back from the way forward, with nothing else changed.            *)
LEMMA RollbackTrusts ==
    ASSUME FileInv, Trust,
           UNCHANGED <<scenario, config, rules, fp, snap, staged, disk, live, late, backup>>,
           phase \in Forward, phase' = "restore"
    PROVE  Trust'
  <1>1. TypeOK /\ OrderInv /\ DiskInv /\ LiveInv
    BY DEF FileInv, Trust
  <1>2. /\ OrderInv' /\ \A g : Wanted(g)' = Wanted(g) /\ (Trusted(g)' <=> Trusted(g))
        /\ \A p : (Running(p)' <=> Running(p)) /\ (Lost(p)' <=> Lost(p))
        /\ \A p : GroupOf(p)' = GroupOf(p)
    BY <1>1, RunFrame DEF Forward, GroupOf
  <1>3. DiskInv'
    <2>1. phase \in Busy
      BY DEF Forward, Busy
    <2>. QED BY <1>1, <1>2, <2>1 DEF DiskInv
  <1>4. LiveInv'
    BY <1>1, <1>2 DEF LiveInv, Outcomes
  <1>. QED BY <1>2, <1>3, <1>4 DEF Trust, DueInv, KillInv, Forward

LEMMA ValidateTrusts ==
    ASSUME FileInv, Trust, Validate, UNCHANGED scenario
    PROVE  Trust'
  <1>1. /\ phase = "check" /\ phase \in Forward
        /\ UNCHANGED <<config, rules, disk, live, late, fp, snap, staged, due, backup>>
        /\ phase' = "restore" \/ (phase' = "promote" /\ at' = 1)
    BY DEF Validate, Rollback, env, Forward
  <1>2. CASE phase' = "restore"
    BY <1>1, <1>2, RollbackTrusts
  <1>3. CASE phase' = "promote" /\ at' = 1
    <2>1. TypeOK /\ OrderInv /\ DiskInv /\ LiveInv /\ DueInv /\ KillInv
      BY DEF FileInv, Trust
    <2>2. /\ OrderInv' /\ \A g : Wanted(g)' = Wanted(g) /\ (Trusted(g)' <=> Trusted(g))
          /\ \A p : (Running(p)' <=> Running(p)) /\ (Lost(p)' <=> Lost(p))
          /\ \A p : GroupOf(p)' = GroupOf(p)
      BY <1>1, <1>3, <2>1, RunFrame DEF GroupOf
    <2>3. DiskInv'
      BY <1>1, <1>3, <2>1, <2>2 DEF DiskInv, Busy
    <2>4. LiveInv'
      BY <1>1, <1>3, <2>1, <2>2 DEF LiveInv, Outcomes
    <2>. QED BY <1>1, <1>3, <2>1, <2>2, <2>3, <2>4 DEF Trust, DueInv, KillInv, Forward, Faults
  <1>. QED BY <1>1, <1>2, <1>3

LEMMA PromoteTrusts ==
    ASSUME FileInv, Trust, Promote, UNCHANGED scenario
    PROVE  Trust'
  <1>. DEFINE f == Promotion[at]
  <1>1. /\ phase = "promote" /\ phase \in Forward /\ at \in 1..6 /\ f \in Files /\ f \in Parts
        /\ UNCHANGED <<config, rules, live, late, fp, snap, staged, due, backup>>
        /\ GroupOf(f) \in Groups
    BY Sequencing, Sorts DEF Promote, AtInv, FileInv, env, Forward
  <1>2. \/ phase' = "restore" /\ disk' = disk
        \/ /\ disk' = IF f \in due THEN [disk EXCEPT ![f] = Inputs(GroupOf(f), snap, staged)]
                                   ELSE disk
           /\ \/ at = 6 /\ phase' = "load" /\ at' = 1
              \/ at # 6 /\ phase' = "promote" /\ at' = at + 1
    BY Sequencing DEF Promote, Rollback
  <1>. HIDE DEF f
  <1>3. CASE phase' = "restore" /\ disk' = disk
    BY <1>1, <1>3, RollbackTrusts
  <1>4. CASE /\ disk' = IF f \in due THEN [disk EXCEPT ![f] = Inputs(GroupOf(f), snap, staged)]
                                     ELSE disk
             /\ \/ at = 6 /\ phase' = "load" /\ at' = 1
                \/ at # 6 /\ phase' = "promote" /\ at' = at + 1
    <2>1. TypeOK /\ OrderInv /\ DiskInv /\ LiveInv /\ DueInv /\ KillInv /\ TypeOK
      BY DEF FileInv, Trust
    <2>2. /\ OrderInv' /\ \A g : Wanted(g)' = Wanted(g) /\ (Trusted(g)' <=> Trusted(g))
          /\ \A p : (Running(p)' <=> Running(p)) /\ (Lost(p)' <=> Lost(p))
          /\ \A p : GroupOf(p)' = GroupOf(p)
          /\ \A g : Wanted(g) = Inputs(g, snap, staged)
      BY <1>1, <1>4, <2>1, RunFrame DEF GroupOf, Wanted
    <2>3. disk \in [Files -> Contents]
      BY <2>1 DEF TypeOK
    <2>4. \A h \in Files : disk'[h] = disk[h] \/ disk'[h] = Wanted(GroupOf(h))
      BY <1>1, <1>4, <2>2, <2>3
    <2>5. disk'[f] = Wanted(GroupOf(f))
      <3>1. CASE f \in due
        BY <1>1, <1>4, <2>2, <2>3, <3>1
      <3>2. CASE f \notin due
        BY <1>1, <1>4, <2>1, <3>2 DEF DueInv, DiskInv
      <3>. QED BY <3>1, <3>2
    <2>6. \A i \in 1..6 : i <= at => disk'[Promotion[i]] = Wanted(GroupOf(Promotion[i]))
      <3>. SUFFICES ASSUME NEW i \in 1..6, i <= at
                    PROVE  disk'[Promotion[i]] = Wanted(GroupOf(Promotion[i]))
        OBVIOUS
      <3>1. CASE i = at
        BY <2>5, <3>1 DEF f
      <3>2. CASE i # at
        <4>1. i < at /\ Promotion[i] \in Files
          BY <1>1, <3>2, Sequencing
        <4>2. disk[Promotion[i]] = Wanted(GroupOf(Promotion[i]))
          BY <1>1, <2>1, <4>1 DEF DiskInv
        <4>. QED BY <2>4, <4>1, <4>2
      <3>. QED BY <3>1, <3>2
    <2>7. at = 6 => \A h \in Files : disk'[h] = Wanted(GroupOf(h))
      <3>. SUFFICES ASSUME at = 6, NEW h \in Files PROVE disk'[h] = Wanted(GroupOf(h))
        OBVIOUS
      <3>1. PICK i \in 1..6 : h = Promotion[i]
        BY Tables
      <3>2. i <= at
        BY <3>1
      <3>. QED BY <2>6, <3>1, <3>2
    <2>8. disk'["mihomo"] # Absent
      BY <2>1, <2>4, WantedFacts, Sorts DEF DiskInv
    <2>9. DiskInv'
      <3>1. \A h \in Files : Trusted(GroupOf(h)) =>
              /\ disk'[h] = Wanted(GroupOf(h)) /\ backup[h] \in {Absent, Wanted(GroupOf(h))}
        BY <1>1, <2>1, <2>4 DEF DiskInv, Busy
      <3>2. phase' = "promote" => \A i \in 1..6 : i < at' =>
              disk'[Promotion[i]] = Wanted(GroupOf(Promotion[i]))
        <4>1. phase' = "promote" => at' = at + 1
          BY <1>4
        <4>2. \A i \in 1..6 : i < at + 1 => i <= at
          BY <1>1
        <4>. QED BY <2>6, <4>1, <4>2
      <3>3. phase' # "commit" /\ (phase' = "load" => at = 6)
        BY <1>4
      <3>. QED BY <1>1, <2>2, <2>7, <2>8, <3>1, <3>2, <3>3 DEF DiskInv
    <2>10. DueInv'
      BY <1>1, <1>4, <2>1, <2>2 DEF DueInv
    <2>11. LiveInv'
      <3>1. \A p \in Parts : Trusted(GroupOf(p)) => Running(p) \/ Lost(p)
        BY <1>1, <2>1 DEF LiveInv
      <3>2. \A p \in Parts : p \in due \/ Running(p) \/ Lost(p)
        BY <1>1, <2>1, <3>1 DEF DueInv
      <3>3. phase' = "load" => at' = 1
        BY <1>4
      <3>4. \A i \in 1..9 : Loading[i] \in Parts /\ ~(i < 1)
        BY Sequencing
      <3>5. phase' \in {"load", "promote"} /\ \A p \in Direct : p \in Parts
        BY <1>4, Tables
      <3>6. phase' = "load" => \A i \in 1..9 :
              /\ i < at' => Running(Loading[i])'
              /\ i >= at' => \/ Loading[i] \in due' \/ Running(Loading[i])'
                             \/ Lost(Loading[i])' /\ (Loading[i] = "sets" => at' = 1)
        BY <1>1, <2>2, <3>2, <3>3, <3>4
      <3>7. \A p \in Parts : Trusted(GroupOf(p))' => Running(p)' \/ Lost(p)'
        BY <2>2, <3>1
      <3>. QED BY <3>5, <3>6, <3>7 DEF LiveInv, Outcomes
    <2>12. KillInv'
      BY <1>1, <2>1, <2>2 DEF KillInv, Faults
    <2>. QED BY <2>2, <2>9, <2>10, <2>11, <2>12 DEF Trust
  <1>. QED BY <1>2, <1>3, <1>4

(* A part is loaded if it is due or missing.                               *)
Missing(p) == p \in Probed /\ live[p] = Absent
Taken(p) == p \in due \/ Missing(p)

LEMMA LoadDetail ==
    ASSUME TypeOK, AtInv, LoadStep
    PROVE  /\ phase = "load" /\ at \in 1..9 /\ Loading[at] \in Parts
           /\ UNCHANGED <<config, rules, disk, fp, snap, staged, backup>>
           /\ \/ phase' = "restore" /\ UNCHANGED <<live, late, due>>
              \/ /\ \/ /\ Taken(Loading[at]) /\ live' = Loaded(Loading[at])
                       /\ late' = late \ {Loading[at]}
                       /\ due' = due \cup IF Loading[at] = "nft" /\ Missing(Loading[at])
                                            THEN {"sets"} ELSE {}
                    \/ Taken(Loading[at]) /\ TimesOut(Loading[at]) /\ UNCHANGED due
                    \/ ~Taken(Loading[at]) /\ UNCHANGED <<live, late, due>>
                 /\ \/ at = 9 /\ phase' = "commit"
                    \/ at < 9 /\ phase' = "load" /\ at' = at + 1
  <1>1. PICK S \in {{"nft", "sets"}, {"firewall", "upstream"}, {"policy"},
                    {"zapret", "fragments", "mihomo"}, {"network"}} : Load(S)
    BY DEF LoadStep, LoadTable, LoadUCI, LoadPolicy, RestartServices, LoadNetwork
  <1>2. phase = "load" /\ at \in 1..9 /\ Loading[at] \in Parts
    BY <1>1, Sequencing DEF Load, AtInv
  <1>3. UNCHANGED <<config, rules, disk, fp, snap, staged, backup>>
    BY <1>1 DEF Load, env
  <1>4. Len(Loading) = 9
    BY Sequencing
  <1>. QED BY <1>1, <1>2, <1>3, <1>4 DEF Load, Rollback, Taken, Missing

LEMMA LoadTrusts ==
    ASSUME FileInv, Trust, LoadStep, UNCHANGED scenario
    PROVE  Trust'
  <1>. SUFFICES ASSUME NEW p \in Parts, p = Loading[at] PROVE Trust'
    BY LoadDetail DEF FileInv
  <1>1. /\ phase = "load" /\ phase \in Forward /\ at \in 1..9
        /\ UNCHANGED <<config, rules, disk, fp, snap, staged, backup>>
        /\ GroupOf(p) \in Groups /\ TypeOK
    BY LoadDetail, Sorts DEF FileInv, Forward
  <1>2. \/ phase' = "restore" /\ UNCHANGED <<live, late, due>>
        \/ /\ \/ /\ Taken(p) /\ live' = Loaded(p) /\ late' = late \ {p}
                 /\ due' = due \cup IF p = "nft" /\ Missing(p) THEN {"sets"} ELSE {}
              \/ Taken(p) /\ TimesOut(p) /\ UNCHANGED due
              \/ ~Taken(p) /\ UNCHANGED <<live, late, due>>
           /\ \/ at = 9 /\ phase' = "commit"
              \/ at < 9 /\ phase' = "load" /\ at' = at + 1
    BY LoadDetail DEF FileInv
  <1>3. /\ p = "nft" <=> at = 1
        /\ \A i \in 1..9 : i # at => Loading[i] # p
    <2>1. 1 \in 1..9
      OBVIOUS
    <2>. QED BY <1>1, <2>1, Tables
  <1>4. p \in {"policy", "nft"} => p \in Probed
    BY DEF Probed
  <1>5. CASE phase' = "restore" /\ UNCHANGED <<live, late, due>>
    BY <1>1, <1>5, RollbackTrusts
  <1>6. CASE /\ \/ /\ Taken(p) /\ live' = Loaded(p) /\ late' = late \ {p}
                   /\ due' = due \cup IF p = "nft" /\ Missing(p) THEN {"sets"} ELSE {}
                \/ Taken(p) /\ TimesOut(p) /\ UNCHANGED due
                \/ ~Taken(p) /\ UNCHANGED <<live, late, due>>
             /\ \/ at = 9 /\ phase' = "commit"
                \/ at < 9 /\ phase' = "load" /\ at' = at + 1
    <2>1. TypeOK /\ OrderInv /\ DiskInv /\ LiveInv /\ DueInv /\ KillInv
      BY DEF FileInv, Trust
    <2>2. /\ OrderInv' /\ \A g : Wanted(g)' = Wanted(g) /\ (Trusted(g)' <=> Trusted(g))
          /\ \A q : live'[q] = live[q] /\ q # p => (Running(q)' <=> Running(q))
          /\ UNCHANGED <<live, late>> => \A q : Running(q)' <=> Running(q)
          /\ \A q : GroupOf(q)' = GroupOf(q)
          /\ \A g : Wanted(g) = Inputs(g, snap, staged)
      <3>1. \A q : q # p => (q \in late' <=> q \in late)
        BY <1>6 DEF TimesOut
      <3>. QED BY <1>1, <1>6, <2>1, <3>1, RunFrame DEF GroupOf, Wanted
    <2>3. Source(p) = Wanted(GroupOf(p))
      BY <1>1, <2>1, <2>2 DEF Source, DiskInv
    <2>4. \/ p \in due \/ Running(p) \/ (Lost(p) /\ (p = "sets" => at = 1))
      BY <1>1, <2>1 DEF LiveInv
    <2>5. Running(p)'
      <3>1. CASE Taken(p)
        <4>1. live' = Loaded(p) \/ p \in late'
          BY <1>6, <3>1 DEF TimesOut
        <4>2. live'[p] = Wanted(GroupOf(p)) \/ p \in late'
          BY <1>1, <2>3, <4>1 DEF Loaded
        <4>. QED BY <2>2, <4>2 DEF Running
      <3>2. CASE ~Taken(p)
        <4>1. UNCHANGED <<live, late>>
          BY <1>6, <3>2
        <4>2. ~Lost(p) \/ ~(p = "sets" => at = 1)
          BY <1>3, <3>2 DEF Lost, Taken, Missing, Probed
        <4>. QED BY <2>2, <2>4, <3>2, <4>1, <4>2 DEF Taken
      <3>. QED BY <3>1, <3>2
    <2>6. ASSUME NEW q \in Parts, q # p
          PROVE  live'[q] = live[q] \/ (q = "sets" /\ p = "nft" /\ Taken(p))
      BY <1>1, <1>6, <2>6, TimesOutFacts DEF Loaded
    <2>7. /\ due \subseteq due' /\ \A q \in due' \ due : q = "sets" /\ p = "nft" /\ Missing(p)
          /\ p = "nft" /\ Taken(p) => "sets" \in due'
      BY <1>1, <1>6, <2>1, TimesOutFacts, ServicesApart DEF DueInv, Taken
    <2>8. DiskInv'
      BY <1>1, <1>6, <2>1, <2>2 DEF DiskInv, Busy
    <2>9. DueInv'
      BY <1>1, <1>6, <2>1, <2>2, <2>7 DEF DueInv
    <2>10. ASSUME NEW i \in 1..9, i < at PROVE Running(Loading[i])'
      <3>1. Running(Loading[i]) /\ Loading[i] \in Parts /\ Loading[i] # p /\ at # 1
        BY <1>1, <1>3, <2>1, <2>10, Sequencing DEF LiveInv
      <3>2. live'[Loading[i]] = live[Loading[i]]
        BY <1>3, <2>6, <3>1
      <3>. QED BY <2>2, <3>1, <3>2
    <2>11. ASSUME NEW q \in Parts, live'[q] = live[q], Lost(q), q # "sets"
           PROVE  Lost(q)'
      BY <2>11 DEF Lost, Env
    <2>12. ASSUME NEW i \in 1..9, i > at
           PROVE  Loading[i] \in due' \/ Running(Loading[i])'
                  \/ (Lost(Loading[i])' /\ Loading[i] # "sets")
      <3>. DEFINE q == Loading[i]
      <3>1. /\ q \in due \/ Running(q) \/ (Lost(q) /\ (q = "sets" => at = 1))
            /\ q \in Parts /\ q # p
        BY <1>1, <1>3, <2>1, <2>12, Sequencing DEF LiveInv
      <3>. HIDE DEF q
      <3>2. CASE live'[q] # live[q]
        BY <2>6, <2>7, <3>1, <3>2 DEF q
      <3>3. CASE live'[q] = live[q] /\ (q \in due \/ Running(q) \/ (Lost(q) /\ q # "sets"))
        BY <2>2, <2>7, <2>11, <3>1, <3>3 DEF q
      <3>4. CASE q = "sets" /\ Lost(q) /\ at = 1
        <4>1. p = "nft" /\ live[p] = Absent
          BY <1>3, <3>4 DEF Lost
        <4>2. Taken(p)
          BY <1>4, <4>1 DEF Taken, Missing, Probed
        <4>. QED BY <2>7, <3>4, <4>1, <4>2 DEF q
      <3>. QED BY <3>1, <3>2, <3>3, <3>4
    <2>13. ASSUME NEW q \in Direct, Trusted(GroupOf(q)) PROVE Running(q)' \/ Lost(q)'
      <3>1. (Running(q) \/ Lost(q)) /\ q \in Parts /\ q # "sets"
        BY <2>1, <2>13, Tables DEF LiveInv, Direct
      <3>2. CASE q = p
        BY <2>5, <3>2
      <3>3. CASE q # p
        <4>1. live'[q] = live[q]
          BY <2>6, <3>1, <3>3
        <4>. QED BY <2>2, <2>11, <3>1, <3>3, <4>1
      <3>. QED BY <3>2, <3>3
    <2>14. phase' = "commit" => \A q \in Parts : Running(q)'
      <3>. SUFFICES ASSUME phase' = "commit", NEW q \in Parts PROVE Running(q)'
        OBVIOUS
      <3>1. at = 9
        BY <1>6
      <3>2. PICK i \in 1..9 : q = Loading[i]
        BY Tables
      <3>3. i = at \/ i < at
        BY <3>1
      <3>. QED BY <2>5, <2>10, <3>2, <3>3
    <2>15. phase' = "load" => \A i \in 1..9 :
             /\ i < at' => Running(Loading[i])'
             /\ i >= at' => \/ Loading[i] \in due' \/ Running(Loading[i])'
                            \/ Lost(Loading[i])' /\ (Loading[i] = "sets" => at' = 1)
      <3>. SUFFICES ASSUME phase' = "load", NEW i \in 1..9
                    PROVE  /\ i < at' => Running(Loading[i])'
                           /\ i >= at' => \/ Loading[i] \in due' \/ Running(Loading[i])'
                                          \/ Lost(Loading[i])' /\ Loading[i] # "sets"
        OBVIOUS
      <3>1. at' = at + 1
        BY <1>6
      <3>2. (i < at' => i = at \/ i < at) /\ (i >= at' => i > at)
        BY <1>1, <3>1
      <3>. QED BY <2>5, <2>10, <2>12, <3>2
    <2>16. LiveInv'
      BY <1>6, <2>2, <2>13, <2>14, <2>15 DEF LiveInv, Outcomes
    <2>17. KillInv'
      <3>. SUFFICES ASSUME "kill" \in Faults, NEW q \in Parts, Trusted(GroupOf(q))
                    PROVE  q \notin due' /\ Running(q)'
        BY <2>2 DEF KillInv, Faults
      <3>1. q \notin due /\ Running(q)
        BY <1>1, <2>1 DEF KillInv
      <3>2. ~(q = "sets" /\ p = "nft" /\ Taken(p))
        <4>. SUFFICES ASSUME q = "sets", p = "nft" PROVE ~Taken(p)
          OBVIOUS
        <4>1. Trusted(GroupOf(p))
          BY Tables
        <4>2. p \notin due /\ Running(p)
          BY <1>1, <2>1, <4>1 DEF KillInv
        <4>3. live[p] # Absent
          BY <1>1, <2>1, <4>2, WantedFacts, ServicesApart DEF Running, TypeOK
        <4>. QED BY <4>2, <4>3 DEF Taken, Missing
      <3>3. q \notin due'
        BY <2>7, <3>1, <3>2 DEF Taken
      <3>4. CASE q = p
        BY <2>5, <3>3, <3>4
      <3>5. CASE q # p
        BY <2>2, <2>6, <3>1, <3>2, <3>3, <3>5
      <3>. QED BY <3>4, <3>5
    <2>. QED BY <2>2, <2>8, <2>9, <2>16, <2>17 DEF Trust
  <1>. QED BY <1>2, <1>5, <1>6

LEMMA CommitTrusts ==
    ASSUME FileInv, Trust, Commit, UNCHANGED scenario
    PROVE  Trust'
  <1>1. /\ phase = "commit" /\ phase \in Forward
        /\ UNCHANGED <<config, rules, disk, live, late, snap, staged, due, backup>>
        /\ \/ phase' = "restore" /\ fp' = fp
           \/ phase' = "ok" /\ fp' = Fingerprint(snap, rules)
    BY DEF Commit, Rollback, env, Forward
  <1>2. CASE phase' = "restore" /\ fp' = fp
    BY <1>1, <1>2, RollbackTrusts
  <1>3. CASE phase' = "ok" /\ fp' = Fingerprint(snap, rules)
    <2>1. TypeOK /\ OrderInv /\ DiskInv /\ LiveInv
      BY DEF FileInv, Trust
    <2>2. /\ \A g : Wanted(g)' = Wanted(g) /\ Wanted(g) = Inputs(g, snap, staged)
          /\ \A p : Running(p)' <=> Running(p)
          /\ \A p : GroupOf(p)' = GroupOf(p)
      <3>1. \A g : Wanted(g)' = Wanted(g) /\ Wanted(g) = Inputs(g, snap, staged)
        BY <1>1, <1>3 DEF Wanted, Inputs
      <3>. QED BY <1>1, <3>1 DEF Running, GroupOf
    <2>3. \A g \in Groups : fp'[g] = Wanted(g)
      BY <1>1, <1>3, <2>1, <2>2 DEF Fingerprint, OrderInv
    <2>4. OrderInv'
      <3>1. \A g \in Groups : fp'[g][1] <= Wanted(g)[1] /\ fp'[g][2] <= Wanted(g)[2]
        BY <2>1, <2>3, WantedFacts
      <3>. QED BY <1>1, <2>1, <2>2, <3>1 DEF OrderInv
    <2>5. DiskInv'
      BY <1>1, <1>3, <2>1, <2>2 DEF DiskInv, Busy
    <2>6. \A p \in Parts : Running(p)
      BY <1>1, <2>1 DEF LiveInv
    <2>7. LiveInv'
      BY <1>3, <2>2, <2>6, Tables DEF LiveInv, Outcomes
    <2>8. DueInv'
      BY <1>3, <2>2, <2>3, Sorts DEF DueInv, Forward, Trusted
    <2>. QED BY <1>3, <2>4, <2>5, <2>7, <2>8 DEF Trust, KillInv, Forward
  <1>. QED BY <1>1, <1>2, <1>3

LEMMA RestoreTrusts ==
    ASSUME FileInv, Trust, ~Misled, Restore, UNCHANGED scenario
    PROVE  Trust'
  <1>1. /\ phase = "restore" /\ phase' = "reload" /\ at' = 1
        /\ UNCHANGED <<config, rules, live, late, fp, snap, staged, due, backup>>
        /\ TypeOK /\ OrderInv /\ DiskInv /\ LiveInv
    BY DEF Restore, env, FileInv, Trust
  <1>2. "undo" \notin Faults
    BY <1>1, NotMisled
  <1>3. disk' = [f \in Files |-> IF backup[f] # Absent THEN backup[f] ELSE disk[f]]
    BY <1>2 DEF Restore
  <1>4. /\ OrderInv' /\ \A g : Wanted(g)' = Wanted(g) /\ (Trusted(g)' <=> Trusted(g))
        /\ \A p : (Running(p)' <=> Running(p)) /\ (Lost(p)' <=> Lost(p))
        /\ \A p : GroupOf(p)' = GroupOf(p)
    BY <1>1, RunFrame DEF GroupOf
  <1>5. DiskInv'
    <2>1. disk'["mihomo"] # Absent
      BY <1>1, <1>3, Sorts DEF DiskInv
    <2>2. ASSUME NEW f \in Files, Trusted(GroupOf(f))
          PROVE  disk'[f] = Wanted(GroupOf(f)) /\ backup[f] \in {Absent, Wanted(GroupOf(f))}
      BY <1>1, <1>3, <2>2 DEF DiskInv, Busy
    <2>. QED BY <1>1, <1>4, <2>1, <2>2 DEF DiskInv
  <1>6. LiveInv'
    <2>1. \A i \in 1..6 : ~(i < 1)
      OBVIOUS
    <2>. QED BY <1>1, <1>4, <2>1 DEF LiveInv, Outcomes
  <1>. QED BY <1>1, <1>4, <1>5, <1>6 DEF Trust, DueInv, KillInv, Forward

LEMMA ReloadDetail ==
    ASSUME FileInv, "undo" \notin Faults, disk["mihomo"] # Absent, Reload
    PROVE  /\ phase = "reload" /\ at \in 1..6
           /\ UNCHANGED <<config, rules, disk, fp, snap, staged, due, backup>>
           /\ \/ disk[Reloading[at]] = Absent /\ UNCHANGED <<live, late>>
              \/ /\ live'[Reloading[at]] = disk[Reloading[at]] \/ Reloading[at] \in late'
                 /\ \A q \in Parts \ {Reloading[at]} :
                      /\ live'[q] = live[q] \/ (q = "sets" /\ at = 1)
                      /\ q \in late' <=> q \in late
           /\ \/ at = 6 /\ phase' \in {"failed", "rolledback"}
              \/ at < 6 /\ at' = at + 1 /\ phase' = "reload"
  <1>1. /\ phase = "reload" /\ at \in 1..6 /\ TypeOK /\ AtInv
        /\ Reloading[at] \in Files /\ Reloading[at] \in Parts
        /\ UNCHANGED <<config, rules, snap, staged, due, backup>>
        /\ \/ at = 6 /\ phase' \in {"failed", "rolledback"}
           \/ at < 6 /\ at' = at + 1 /\ phase' = "reload"
    BY ReloadEffect, Sequencing, Sorts DEF FileInv
  <1>2. \/ disk[Reloading[at]] = Absent /\ UNCHANGED <<live, late, disk, fp>>
        \/ /\ Reloading[at] = "mihomo" /\ MihomoStarts(live)
           /\ late' = late \ {Reloading[at]}
        \/ /\ Reloading[at] # "mihomo" /\ live' = Loaded(Reloading[at])
           /\ UNCHANGED <<disk, fp>> /\ late' = late \ {Reloading[at]}
        \/ Reloading[at] = "mihomo" /\ MihomoTimesOut
        \/ Reloading[at] # "mihomo" /\ TimesOut(Reloading[at]) /\ UNCHANGED <<disk, fp>>
    BY DEF Reload
  <1>3. CASE /\ Reloading[at] = "mihomo" /\ MihomoStarts(live)
             /\ late' = late \ {Reloading[at]}
    <2>1. UNCHANGED <<disk, fp>>
      BY <1>3 DEF MihomoStarts, MihomoGenerates
    <2>2. /\ live'["mihomo"] = disk["mihomo"]
          /\ \A q \in Parts \ {"mihomo"} : live'[q] = live[q]
      BY <1>1, <1>3, StartsFacts
    <2>. QED BY <1>1, <1>3, <2>1, <2>2
  <1>4. CASE /\ Reloading[at] # "mihomo" /\ live' = Loaded(Reloading[at])
             /\ UNCHANGED <<disk, fp>> /\ late' = late \ {Reloading[at]}
    <2>1. 1 \in 1..6 /\ (Reloading[at] = "nft" => at = 1)
      BY <1>1, Tables, Sequencing
    <2>2. live'[Reloading[at]] = disk[Reloading[at]]
      BY <1>1, <1>4 DEF Loaded, Source
    <2>3. \A q \in Parts \ {Reloading[at]} : live'[q] = live[q] \/ (q = "sets" /\ at = 1)
      BY <1>4, <2>1 DEF Loaded
    <2>. QED BY <1>1, <1>4, <2>2, <2>3
  <1>5. CASE \/ Reloading[at] = "mihomo" /\ MihomoTimesOut
             \/ Reloading[at] # "mihomo" /\ TimesOut(Reloading[at]) /\ UNCHANGED <<disk, fp>>
    <2>1. TimesOut(Reloading[at]) /\ UNCHANGED <<disk, fp>>
      BY <1>1, <1>5, StallFacts
    <2>. QED BY <1>1, <2>1, TimesOutFacts
  <1>. QED BY <1>1, <1>2, <1>3, <1>4, <1>5

LEMMA ReloadTrusts ==
    ASSUME FileInv, Trust, ~Misled, Reload, UNCHANGED scenario
    PROVE  Trust'
  <1>1. TypeOK /\ OrderInv /\ DiskInv /\ LiveInv /\ "undo" \notin Faults
    BY NotMisled DEF FileInv, Trust
  <1>. SUFFICES ASSUME NEW p \in Files, p = Reloading[at] PROVE Trust'
    BY <1>1, ReloadDetail, Sequencing DEF DiskInv
  <1>2. /\ phase = "reload" /\ at \in 1..6 /\ p \in Parts
        /\ UNCHANGED <<config, rules, disk, fp, snap, staged, due, backup>>
        /\ \/ disk[p] = Absent /\ live' = live /\ late' = late
           \/ /\ live'[p] = disk[p] \/ p \in late'
              /\ \A q \in Parts : q # p =>
                    /\ live'[q] = live[q] \/ (q = "sets" /\ at = 1)
                    /\ q \in late' <=> q \in late
        /\ \/ at = 6 /\ phase' \in {"failed", "rolledback"}
           \/ at < 6 /\ at' = at + 1 /\ phase' = "reload"
    BY <1>1, ReloadDetail, Sorts DEF DiskInv
  <1>3. /\ OrderInv' /\ \A g : Wanted(g)' = Wanted(g) /\ (Trusted(g)' <=> Trusted(g))
        /\ \A q \in Parts : q # p /\ (q # "sets" \/ at # 1) =>
             live'[q] = live[q] /\ (Running(q)' <=> Running(q))
        /\ \A q : GroupOf(q)' = GroupOf(q)
    <2>1. \A q \in Parts : q # p /\ (q # "sets" \/ at # 1) =>
            live'[q] = live[q] /\ (q \in late' <=> q \in late)
      BY <1>2
    <2>. QED BY <1>1, <1>2, <2>1, RunFrame DEF GroupOf
  <1>4. DiskInv'
    BY <1>1, <1>2, <1>3 DEF DiskInv, Busy
  <1>5. Trusted(GroupOf(p)) => Running(p)'
    <2>. SUFFICES ASSUME Trusted(GroupOf(p))
                  PROVE  p \in late' \/ live'[p] = Wanted(GroupOf(p))
      BY <1>3 DEF Running
    <2>1. disk[p] = Wanted(GroupOf(p)) /\ disk[p] # Absent
      BY <1>1, <1>2, WantedFacts, Sorts DEF DiskInv
    <2>. QED BY <1>2, <2>1
  <1>6. ASSUME NEW i \in 1..6, i <= at, Trusted(GroupOf(Reloading[i]))
        PROVE  Running(Reloading[i])'
    <2>1. CASE i = at
      BY <1>5, <1>6, <2>1
    <2>2. CASE i # at
      <3>1. i < at /\ Reloading[i] # p /\ Reloading[i] \in Parts /\ at # 1
        BY <1>2, <1>6, <2>2, Tables, Sequencing, Sorts
      <3>2. Running(Reloading[i])
        BY <1>1, <1>2, <1>6, <3>1 DEF LiveInv
      <3>. QED BY <1>2, <1>3, <3>1, <3>2
    <2>. QED BY <2>1, <2>2
  <1>7. ASSUME NEW q \in Direct, Trusted(GroupOf(q)) PROVE Running(q)' \/ Lost(q)'
    <2>1. (Running(q) \/ Lost(q)) /\ q \in Parts /\ q # "sets" /\ q # p
      BY <1>1, <1>7, Tables DEF LiveInv, Direct
    <2>2. live'[q] = live[q]
      BY <1>3, <2>1
    <2>. QED BY <1>2, <1>3, <2>1, <2>2 DEF Lost, Env
  <1>8. phase' # "reload" => \A q \in Parts : Trusted(GroupOf(q)) => Running(q)' \/ Lost(q)'
    <2>. SUFFICES ASSUME phase' # "reload", NEW q \in Files, Trusted(GroupOf(q))
                  PROVE  Running(q)'
      BY <1>7, Tables
    <2>1. at = 6
      BY <1>2
    <2>2. PICK i \in 1..6 : q = Reloading[i]
      BY Tables
    <2>3. i <= at
      BY <2>1
    <2>. QED BY <1>6, <2>2, <2>3
  <1>9. phase' = "reload" => \A i \in 1..6 : i < at' =>
          (Trusted(GroupOf(Reloading[i])) => Running(Reloading[i])')
    <2>1. phase' = "reload" => at' = at + 1
      BY <1>2
    <2>2. \A i \in 1..6 : i < at + 1 => i <= at
      BY <1>2
    <2>. QED BY <1>6, <2>1, <2>2
  <1>10. LiveInv'
    <2>1. phase' \in {"failed", "rolledback", "reload"}
      BY <1>2
    <2>. QED BY <1>3, <1>7, <1>8, <1>9, <2>1 DEF LiveInv, Outcomes
  <1>. QED BY <1>2, <1>3, <1>4, <1>10 DEF Trust, DueInv, KillInv, Forward

-----------------------------------------------------------------------------
(* The steps around it                                                     *)

(* Nothing is under way after the step, and what was trusted and still is  *)
(* has been left alone.                                                    *)
LEMMA IdleTrusts ==
    ASSUME FileInv, Trust, phase' = "idle", UNCHANGED <<scenario, fp, live, late>>,
           \A g \in Groups : /\ Wanted(g)' \in Contents
                             /\ Wanted(g)[1] <= Wanted(g)'[1] /\ Wanted(g)[2] <= Wanted(g)'[2],
           disk'["mihomo"] # Absent,
           \A f \in Files : /\ Trusted(GroupOf(f)) /\ fp[GroupOf(f)] = Wanted(GroupOf(f))'
                            => disk'[f] = disk[f],
           \A p \in Parts : Trusted(GroupOf(p)) => Running(p) \/ Lost(p)
    PROVE  Trust'
  <1>1. TypeOK /\ OrderInv /\ DiskInv
    BY DEF FileInv, Trust
  <1>2. ASSUME NEW g \in Groups
        PROVE  /\ fp[g][1] <= Wanted(g)'[1] /\ fp[g][2] <= Wanted(g)'[2]
               /\ fp[g] = Wanted(g)' => Trusted(g) /\ Wanted(g)' = Wanted(g)
    BY <1>1, StillTrusted
  <1>3. OrderInv'
    BY <1>2 DEF OrderInv
  <1>4. \A g \in Groups : Trusted(g)' => Trusted(g) /\ Wanted(g)' = Wanted(g) /\ fp[g] = Wanted(g)'
    BY <1>2 DEF Trusted
  <1>5. /\ \A p \in Parts : GroupOf(p) \in Groups /\ GroupOf(p)' = GroupOf(p)
        /\ Files \subseteq Parts /\ Direct \subseteq Parts
    BY Sorts, Tables DEF GroupOf
  <1>6. DiskInv'
    <2>1. \A f \in Files : Trusted(GroupOf(f))' => disk'[f] = Wanted(GroupOf(f))'
      BY <1>1, <1>4, <1>5 DEF DiskInv
    <2>. QED BY <1>5, <2>1 DEF DiskInv, Busy
  <1>7. LiveInv'
    <2>1. ASSUME NEW p \in Parts, Trusted(GroupOf(p))' PROVE Running(p)' \/ Lost(p)'
      <3>1. Trusted(GroupOf(p)) /\ Wanted(GroupOf(p))' = Wanted(GroupOf(p))
        BY <1>4, <1>5, <2>1
      <3>2. Running(p) \/ Lost(p)
        BY <3>1
      <3>. QED BY <1>5, <3>1, <3>2 DEF Running, Lost, Env
    <2>. QED BY <1>5, <2>1 DEF LiveInv, Outcomes
  <1>. QED BY <1>3, <1>6, <1>7 DEF Trust, DueInv, KillInv, Forward

LEMMA EndTrusts ==
    ASSUME FileInv, Trust, Return \/ Kill, UNCHANGED scenario, ~Misled
    PROVE  Trust'
  <1>1. /\ phase # "idle" /\ phase' = "idle"
        /\ UNCHANGED <<config, rules, disk, live, late, fp>>
        /\ TypeOK /\ OrderInv /\ DiskInv /\ LiveInv /\ KillInv /\ "undo" \notin Faults
    BY NotMisled DEF Return, Kill, Silence, env, FileInv, Trust, Outcomes, Busy
  <1>2. ASSUME NEW g \in Groups
        PROVE  /\ Wanted(g)' \in Contents
               /\ Wanted(g)[1] <= Wanted(g)'[1] /\ Wanted(g)[2] <= Wanted(g)'[2]
    <2>1. /\ snap \in [Groups -> Versions] /\ config \in [Groups -> Versions]
          /\ staged = rules /\ rules \in 1..MaxRules /\ snap[g] <= config[g]
      BY <1>1 DEF OrderInv, TypeOK
    <2>2. Wanted(g)' = Inputs(g, config, rules) /\ Wanted(g) = Inputs(g, snap, staged)
      BY <1>1 DEF Wanted, Inputs
    <2>3. staged <= rules /\ staged \in 1..MaxRules
      BY <2>1
    <2>. QED BY <2>1, <2>2, <2>3, Versioned, InputsGrow
  <1>3. \A p \in Parts : Trusted(GroupOf(p)) => Running(p) \/ Lost(p)
    <2>1. CASE phase \in Outcomes
      BY <1>1, <2>1 DEF LiveInv
    <2>2. CASE phase \notin Outcomes
      <3>1. phase \in Forward /\ "kill" \in Faults
        BY <1>1, <2>2 DEF Return, Kill, Busy, Undoing, Forward
      <3>. QED BY <1>1, <3>1 DEF KillInv
    <2>. QED BY <2>1, <2>2
  <1>. QED BY <1>1, <1>2, <1>3, IdleTrusts DEF DiskInv

LEMMA RebootTrusts ==
    ASSUME FileInv, Reboot, UNCHANGED scenario
    PROVE  Trust'
  <1>1. /\ phase' = "idle" /\ UNCHANGED <<config, rules>> /\ TypeOK
        /\ disk'["mihomo"] # Absent /\ fp' = [g \in Groups |-> Absent]
    BY Sorts DEF Reboot, Silence, env, FileInv, Volatile
  <1>2. ASSUME NEW g \in Groups
        PROVE  /\ Wanted(g)' # Absent /\ fp'[g] = Absent
               /\ 0 <= Wanted(g)'[1] /\ 0 <= Wanted(g)'[2]
    <2>1. config \in [Groups -> Versions] /\ rules \in 1..MaxRules
      BY <1>1 DEF TypeOK
    <2>2. Wanted(g)' = Inputs(g, config, rules)
      BY <1>1 DEF Wanted, Inputs
    <2>. QED BY <1>1, <2>1, <2>2, Versioned
  <1>3. OrderInv'
    BY <1>1, <1>2 DEF OrderInv, Absent
  <1>4. /\ \A g \in Groups : ~Trusted(g)'
        /\ \A p \in Parts : GroupOf(p) \in Groups /\ GroupOf(p)' = GroupOf(p)
        /\ Files \subseteq Parts /\ Direct \subseteq Parts
    BY <1>2, Sorts, Tables DEF Trusted, GroupOf
  <1>5. DiskInv' /\ LiveInv'
    BY <1>1, <1>4 DEF DiskInv, LiveInv, Outcomes
  <1>. QED BY <1>1, <1>3, <1>5 DEF Trust, DueInv, KillInv, Forward

LEMMA UpdateTrusts ==
    ASSUME FileInv, Trust, Update, UNCHANGED scenario
    PROVE  Trust'
  <1>1. /\ phase = "idle" /\ phase' = "idle" /\ UNCHANGED <<config, live, late, fp>>
        /\ TypeOK /\ OrderInv /\ DiskInv /\ LiveInv
    BY DEF Update, opVars, FileInv, Trust
  <1>2. PICK r \in {rules, rules + 1} \cap 1..MaxRules, n \in 0..Len(Writing) :
          rules' = r /\ disk' = Generated(config, r, Dirty(config, r), n)
    BY DEF Update
  <1>3. /\ config \in [Groups -> Versions] /\ rules \in 1..MaxRules /\ r \in 1..MaxRules
        /\ rules <= r /\ n \in 0..6
    BY <1>1, <1>2, Sequencing DEF TypeOK
  <1>4. ASSUME NEW g \in Groups
        PROVE  /\ Wanted(g)' = Inputs(g, config, r) /\ Wanted(g)' \in Contents
               /\ Wanted(g)[1] <= Wanted(g)'[1] /\ Wanted(g)[2] <= Wanted(g)'[2]
    <2>1. Wanted(g)' = Inputs(g, config, r) /\ Wanted(g) = Inputs(g, config, rules)
      BY <1>1, <1>2 DEF Wanted, Inputs
    <2>2. config[g] <= config[g]
      BY <1>3 DEF Versions
    <2>. QED BY <1>3, <2>1, <2>2, Versioned, InputsGrow
  <1>5. disk'["mihomo"] # Absent
    BY <1>1, <1>2, <1>3, GeneratedFacts DEF TypeOK, DiskInv
  <1>6. ASSUME NEW f \in Files, Trusted(GroupOf(f)), fp[GroupOf(f)] = Wanted(GroupOf(f))'
        PROVE  disk'[f] = disk[f]
    <2>1. GroupOf(f) \in Groups
      BY Sorts
    <2>2. \A h \in Files : GroupOf(h) = GroupOf(f) => disk[h] # Absent
      BY <1>1, <1>6, <2>1, WantedFacts DEF DiskInv
    <2>3. GroupOf(f) \notin Dirty(config, r)
      BY <1>4, <1>6, <2>1, <2>2 DEF Dirty, Required
    <2>. QED BY <1>2, <2>3 DEF Generated
  <1>7. \A p \in Parts : Trusted(GroupOf(p)) => Running(p) \/ Lost(p)
    BY <1>1 DEF LiveInv
  <1>. QED BY <1>1, <1>4, <1>5, <1>6, <1>7, IdleTrusts

LEMMA EditTrusts ==
    ASSUME FileInv, Trust, ~Misled, NEW e \in Editable, Edit(e), UNCHANGED scenario
    PROVE  Trust'
  <1>1. /\ UNCHANGED <<rules, disk, live, late, fp, phase, at, snap, staged, due, backup>>
        /\ TypeOK /\ OrderInv /\ DiskInv /\ LiveInv /\ DueInv /\ KillInv
        /\ "revert" \notin Env
    BY NotMisled DEF Edit, opVars, FileInv, Trust
  <1>2. \E v \in Versions : v = config[e] + 1 /\ config' = [config EXCEPT ![e] = v]
    BY <1>1 DEF Edit
  <1>3. /\ config \in [Groups -> Versions] /\ config' \in [Groups -> Versions]
        /\ rules \in 1..MaxRules
    BY <1>1, <1>2 DEF TypeOK
  <1>4. \A g \in Groups : config[g] <= config'[g]
    BY <1>2, <1>3 DEF Versions
  <1>5. CASE phase = "idle"
    <2>1. ASSUME NEW g \in Groups
          PROVE  /\ Wanted(g)' \in Contents
                 /\ Wanted(g)[1] <= Wanted(g)'[1] /\ Wanted(g)[2] <= Wanted(g)'[2]
      <3>1. Wanted(g)' = Inputs(g, config', rules) /\ Wanted(g) = Inputs(g, config, rules)
        BY <1>1, <1>5 DEF Wanted, Inputs
      <3>2. rules <= rules
        BY <1>3
      <3>. QED BY <1>3, <1>4, <3>1, <3>2, Versioned, InputsGrow
    <2>2. \A p \in Parts : Trusted(GroupOf(p)) => Running(p) \/ Lost(p)
      BY <1>1, <1>5 DEF LiveInv
    <2>. QED BY <1>1, <1>5, <2>1, <2>2, IdleTrusts DEF DiskInv
  <1>6. CASE phase # "idle"
    <2>1. /\ \A g : Wanted(g)' = Wanted(g) /\ (Trusted(g)' <=> Trusted(g))
          /\ \A p : (Running(p)' <=> Running(p)) /\ (Lost(p)' <=> Lost(p))
          /\ \A p : GroupOf(p)' = GroupOf(p)
      <3>1. \A g : Wanted(g)' = Wanted(g)
        BY <1>1, <1>6 DEF Wanted, Inputs
      <3>. QED BY <1>1, <3>1 DEF Trusted, Running, Lost, Env, GroupOf
    <2>2. OrderInv'
      <3>1. \A g \in Groups : snap[g] <= config[g] /\ snap[g] \in Versions
        BY <1>1, <1>6 DEF OrderInv
      <3>2. \A g \in Groups : snap[g] <= config'[g]
        BY <1>3, <1>4, <3>1 DEF Versions
      <3>. QED BY <1>1, <1>6, <2>1, <3>2 DEF OrderInv
    <2>3. DiskInv'
      BY <1>1, <2>1 DEF DiskInv
    <2>4. LiveInv'
      BY <1>1, <2>1 DEF LiveInv
    <2>5. DueInv' /\ KillInv'
      BY <1>1, <2>1 DEF DueInv, KillInv, Faults
    <2>. QED BY <2>2, <2>3, <2>4, <2>5 DEF Trust
  <1>. QED BY <1>5, <1>6

LEMMA DriftTrusts ==
    ASSUME FileInv, Trust, Drift, UNCHANGED scenario
    PROVE  Trust'
  <1>1. /\ phase = "idle" /\ phase' = "idle" /\ "drift" \in Env
        /\ UNCHANGED <<config, rules, disk, late, fp, snap, staged, due, backup>>
        /\ TypeOK /\ OrderInv /\ DiskInv /\ LiveInv
    BY DEF Drift, env, opVars, FileInv, Trust
  <1>2. PICK lost \in {{"nft", "sets"}, {"policy"}} :
          live' = [p \in Parts |-> IF p \in lost THEN Absent ELSE live[p]]
    BY DEF Drift
  <1>3. /\ \A g : Wanted(g)' = Wanted(g) /\ (Trusted(g)' <=> Trusted(g))
        /\ \A p : GroupOf(p)' = GroupOf(p)
    <2>1. \A g : Wanted(g)' = Wanted(g)
      BY <1>1 DEF Wanted, Inputs
    <2>. QED BY <1>1, <2>1 DEF Trusted, GroupOf
  <1>4. OrderInv' /\ DiskInv'
    BY <1>1, <1>3 DEF OrderInv, DiskInv, Busy
  <1>5. ASSUME NEW p \in Parts, Trusted(GroupOf(p)) PROVE Running(p)' \/ Lost(p)'
    <2>1. Running(p) \/ Lost(p)
      BY <1>1, <1>5 DEF LiveInv
    <2>2. "nft" \in Parts /\ live'["nft"] \in {live["nft"], Absent}
      BY <1>2 DEF Parts, Files
    <2>3. CASE p \in lost
      BY <1>1, <1>2, <2>2, <2>3 DEF Lost, Env
    <2>4. CASE p \notin lost
      <3>1. live'[p] = live[p]
        BY <1>2, <2>4
      <3>. QED BY <1>1, <1>3, <2>1, <2>2, <3>1 DEF Running, Lost, Env
    <2>. QED BY <2>3, <2>4
  <1>6. LiveInv'
    BY <1>1, <1>3, <1>5, Tables DEF LiveInv, Outcomes
  <1>. QED BY <1>1, <1>4, <1>6 DEF Trust, DueInv, KillInv, Forward

(* A late start touches a service of which nothing is claimed.             *)
LEMMA LateTrusts ==
    ASSUME FileInv, Trust, NEW s \in Services, LateStart(s), UNCHANGED scenario
    PROVE  Trust'
  <1>1. /\ UNCHANGED <<config, rules, disk, late, fp, phase, at, snap, staged, due, backup>>
        /\ s \in late /\ \A q \in Parts : q # s => live'[q] = live[q]
        /\ OrderInv /\ DiskInv /\ LiveInv /\ DueInv /\ KillInv
    BY LateStartFacts DEF FileInv, Trust
  <1>2. \A g : Wanted(g)' = Wanted(g) /\ (Trusted(g)' <=> Trusted(g))
    <2>1. \A g : Wanted(g)' = Wanted(g)
      BY <1>1 DEF Wanted, Inputs
    <2>. QED BY <1>1, <2>1 DEF Trusted
  <1>3. \A p : GroupOf(p)' = GroupOf(p)
    BY DEF GroupOf
  <1>4. \A p \in Parts : Running(p) => Running(p)'
    BY <1>1, <1>2, <1>3 DEF Running
  <1>5. \A p \in Parts : Lost(p) => Lost(p)'
    <2>1. "nft" \in Parts
      BY DEF Parts, Files
    <2>. QED BY <1>1, <2>1, ServicesApart DEF Lost, Env
  <1>6. OrderInv' /\ DiskInv' /\ DueInv' /\ KillInv'
    <2>1. OrderInv' /\ DiskInv' /\ DueInv'
      BY <1>1, <1>2, <1>3 DEF OrderInv, DiskInv, DueInv
    <2>2. KillInv'
      BY <1>1, <1>2, <1>3, <1>4 DEF KillInv, Faults
    <2>. QED BY <2>1, <2>2
  <1>7. LiveInv'
    <2>1. /\ \A i \in 1..9 : Loading[i] \in Parts
          /\ \A i \in 1..6 : Reloading[i] \in Parts
          /\ \A p \in Direct : p \in Parts
      BY Sequencing, Sorts, Tables
    <2>. QED BY <1>1, <1>2, <1>3, <1>4, <1>5, <2>1 DEF LiveInv
  <1>. QED BY <1>6, <1>7 DEF Trust

-----------------------------------------------------------------------------
(* The theorems                                                            *)

LEMMA TrustStep == FileInv /\ TrustInv /\ [Next]_vars => TrustInv'
  <1>. SUFFICES ASSUME FileInv, TrustInv, [Next]_vars, ~Misled PROVE Trust'
    <2>. SUFFICES ASSUME FileInv, TrustInv, [Next]_vars PROVE Misled => TrustInv'
      BY DEF TrustInv
    <2>1. TypeOK /\ UNCHANGED scenario
      BY DEF FileInv, Next, vars
    <2>. QED BY <2>1, NotMisled DEF TrustInv
  <1>1. Trust /\ UNCHANGED scenario /\ TypeOK
    BY DEF TrustInv, FileInv, Next, vars
  <1>2. /\ "disable" \notin Env /\ "generate" \notin Env /\ "rules" \notin Env
    BY <1>1, NotMisled
  <1>3. CASE Next
    <2>1. CASE \E force \in BOOLEAN : Prepare(force)
      BY <1>1, <2>1, PrepareTrusts
    <2>2. CASE Validate
      BY <1>1, <2>2, ValidateTrusts
    <2>3. CASE Promote
      BY <1>1, <2>3, PromoteTrusts
    <2>4. CASE LoadStep
      BY <1>1, <2>4, LoadTrusts
    <2>5. CASE Commit
      BY <1>1, <2>5, CommitTrusts
    <2>6. CASE Restore
      BY <1>1, <2>6, RestoreTrusts
    <2>7. CASE Reload
      BY <1>1, <2>7, ReloadTrusts
    <2>8. CASE Return \/ Kill
      BY <1>1, <2>8, EndTrusts
    <2>9. CASE \E g \in Editable : Edit(g)
      BY <1>1, <2>9, EditTrusts
    <2>10. CASE Update
      BY <1>1, <2>10, UpdateTrusts
    <2>11. CASE Reboot
      BY <1>1, <2>11, RebootTrusts
    <2>12. CASE Drift
      BY <1>1, <2>12, DriftTrusts
    <2>13. CASE Generate \/ EditRules \/ Disable
      BY <1>2, <2>13 DEF Generate, EditRules, Disable
    <2>14. CASE \E s \in Services : LateStart(s)
      BY <1>1, <2>14, LateTrusts
    <2>. QED BY <1>3, <2>1, <2>2, <2>3, <2>4, <2>5, <2>6, <2>7, <2>8, <2>9, <2>10, <2>11,
                <2>12, <2>13, <2>14 DEF Next, Step, ApplyStep
  <1>4. CASE UNCHANGED vars
    <2>1. /\ UNCHANGED <<scenario, config, rules, disk, live, late, fp>>
          /\ UNCHANGED <<phase, at, snap, staged, due, backup>>
      BY <1>4 DEF vars, env, opVars
    <2>2. /\ \A g : Wanted(g)' = Wanted(g) /\ (Trusted(g)' <=> Trusted(g))
          /\ \A p : (Running(p)' <=> Running(p)) /\ (Lost(p)' <=> Lost(p))
          /\ \A p : GroupOf(p)' = GroupOf(p)
      <3>1. \A g : Wanted(g)' = Wanted(g)
        BY <2>1 DEF Wanted, Inputs
      <3>. QED BY <2>1, <3>1 DEF Trusted, Running, Lost, Env, GroupOf
    <2>. QED BY <1>1, <2>1, <2>2
         DEF Trust, OrderInv, DiskInv, DueInv, LiveInv, KillInv, Faults
  <1>. QED BY <1>3, <1>4

LEMMA TrustInit == Init => TrustInv
  <1>. SUFFICES ASSUME Init, ~Fresh PROVE Trust
    BY DEF TrustInv, Misled
  <1>1. /\ config = [g \in Groups |-> 1] /\ rules = 1 /\ phase = "idle"
        /\ disk = [f \in Files |-> First(GroupOf(f))]
        /\ live = [p \in Parts |-> First(GroupOf(p))]
        /\ fp = [g \in Groups |-> First(g)]
    BY DEF Init, Quiet
  <1>2. \A g \in Groups : /\ Wanted(g) = First(g) /\ First(g) # Absent
                          /\ First(g)[1] \in Nat /\ First(g)[2] \in Nat
    BY <1>1 DEF Wanted, Inputs, First, Absent
  <1>3. OrderInv
    BY <1>1, <1>2 DEF OrderInv
  <1>4. DiskInv
    BY <1>1, <1>2, Sorts DEF DiskInv, Busy
  <1>5. \A p \in Parts : Running(p)
    BY <1>1, <1>2, Sorts DEF Running
  <1>6. LiveInv
    BY <1>1, <1>5, Tables DEF LiveInv, Outcomes
  <1>. QED BY <1>1, <1>3, <1>4, <1>6 DEF Trust, DueInv, KillInv, Forward

LEMMA TrustAlways == Spec => []TrustInv
  BY FileAlways, TrustInit, TrustStep, PTL DEF Spec

(* A success trusts all groups, and so their files.                        *)
LEMMA RunningIsCurrent ==
    ASSUME phase = "ok", \A p \in Parts : Running(p), DueInv, DiskInv, TypeOK
    PROVE  \A p \in Parts : Current(p)
  <1>1. \A p \in Parts : Wanted(GroupOf(p)) = Loads(p) /\ Trusted(GroupOf(p))
    BY DEF Wanted, Loads, DueInv
  <1>2. \A f \in Files : f \in Parts /\ disk[f] = Loads(f)
    BY <1>1, Tables DEF DiskInv
  <1>3. late \subseteq Files
    BY ServicesApart DEF TypeOK
  <1>. QED BY <1>1, <1>2, <1>3 DEF Running, Current

(* applyWithRunnerPaths skips the groups whose fingerprint matches, and    *)
(* yet an apply that exits 0 leaves every part running on what it loaded,  *)
(* whatever failed, was rolled back, updated or edited before, as long as  *)
(* nobody takes rules away and the history is none that misleads it.  A    *)
(* service whose last restart timed out, which runServiceRestart counts as *)
(* restarted, has at least the right file to start on.                     *)
THEOREM SuccessMeansLoaded == Spec => []AppliedMeansLoaded
  <1>1. FileInv /\ TrustInv => AppliedMeansLoaded
    <2>. SUFFICES ASSUME FileInv, TrustInv, phase = "ok", ~Misled, ~Unseen({"drift"})
                  PROVE  \A p \in Parts : Current(p)
      BY DEF AppliedMeansLoaded
    <2>1. "drift" \notin Env
      BY DEF Unseen
    <2>2. \A p \in Parts : Running(p)
      BY <2>1 DEF TrustInv, Trust, DueInv, LiveInv, Lost, Outcomes
    <2>. QED BY <2>2, RunningIsCurrent DEF TrustInv, Trust, FileInv
  <1>. QED BY <1>1, FileAlways, TrustAlways, PTL

(* The probes of applyNFT and applyPolicyRules: an apply that has          *)
(* something to do also reloads what another program took out of the       *)
(* kernel, so that its success means that everything runs, or is to start  *)
(* late, on what it loaded.                                                *)
THEOREM WorkRepairsDrift == Spec => []ReloadMeansLoaded
  <1>1. FileInv /\ TrustInv => ReloadMeansLoaded
    <2>. SUFFICES ASSUME FileInv, TrustInv, phase = "ok", due # {}, ~Misled
                  PROVE  \A p \in Parts : Current(p)
      BY DEF ReloadMeansLoaded
    <2>1. \A p \in Parts : Running(p)
      BY DEF TrustInv, Trust, LiveInv
    <2>. QED BY <2>1, RunningIsCurrent DEF TrustInv, Trust, FileInv
  <1>. QED BY <1>1, FileAlways, TrustAlways, PTL
=============================================================================
