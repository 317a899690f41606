------------------------------ MODULE ProxyGuard ------------------------------
(***************************************************************************)
(* The guard that takes throttled and unstable proxies out of mihomo's     *)
(* groups (internal/manager/proxy_guard.go, internal/proxyguard,           *)
(* internal/generator/mihomo_guard.go): `proxy-guard run` from cron and    *)
(* LuCI, `proxy-guard reset`, and what an apply and a reboot do to it.     *)
(*                                                                         *)
(* A run measures latencies, downloads through a few members, decides who  *)
(* is quarantined and who stays as a last resort, rewrites and reloads     *)
(* mihomo's configuration if the decision changed, and saves its state.    *)
(* It holds the operation lock (OperationLock), so it is alone with that   *)
(* state.  A run that is killed, or cannot save, after its reload leaves   *)
(* routing and state apart until the configuration is written again.       *)
(*                                                                         *)
(* Time passes in ticks of the guard's cron entry; a run is shorter than a *)
(* tick.  Ages stop counting when they are past every interval; a member   *)
(* that was never probed is that old.                                      *)
(***************************************************************************)
EXTENDS Naturals, FiniteSets

CONSTANTS
    Node,        \* the members, numbered in the order of their names
    Group,       \* the managed groups
    Pool,        \* the members each group's providers and filters admit
    MinMembers,  \* proxy_guard_min_members
    MaxProbes,   \* proxyGuardMaxProbes
    Active,      \* proxy_guard_active_probe_interval, in ticks
    TTL,         \* proxyGuardProbeTTL, in ticks
    Fleet,       \* proxy_guard_fleet_probe_interval, in ticks
    Cooldown,    \* proxy_guard_quarantine_seconds, in ticks
    Windows,     \* the latency windows that occur: "short" (less than five
                 \* samples), "stable", "unstable"
    Throttled,   \* members whose every download is slow
    Steady,      \* members whose every download is good
    Volatile,    \* members that come and go
    Env,         \* which of "apply", "reset", "upgrade" and "reboot" happen
    Faults       \* what fails: "sweep", "reload", and "cut" for a run that is
                 \* killed or cannot write the state

ASSUME GuardAssumption ==
    /\ Node \subseteq Nat /\ IsFiniteSet(Node)
    /\ Pool \in [Group -> SUBSET Node]
    /\ MinMembers \in Nat \ {0} /\ MaxProbes \in Nat \ {0}
    /\ Active \in Nat \ {0} /\ Fleet \in Nat \ {0}
    /\ Cooldown \in Nat \ {0} /\ TTL \in Nat
    /\ Windows \subseteq {"short", "stable", "unstable"} /\ Windows # {}
    /\ Volatile \subseteq Node /\ Throttled \subseteq Node /\ Steady \subseteq Node \ Throttled

VARIABLES
    present,  \* the members mihomo's providers list
    live,     \* the members mihomo's configuration excludes from each group
    torn,     \* observation: it was written for a state that was not saved
    known,    \* the state read from proxy-guard.json
    file,     \* "missing", "present" or "invalid" (of another version)
    pc,       \* the phase of the run
    cur,      \* the state the run works on
    window,   \* each member's latency window
    probed,   \* the members it downloaded through
    probes,   \* how many downloads it made
    todo,     \* the members its present loop has not reached
    tried     \* the alternatives tried for the suspect at hand

routing == <<live, torn>>
disk == <<known, file>>
run == <<pc, cur, window, probed, probes, todo, tried>>
vars == <<present, routing, disk, run>>

Larger(a, b) == IF a < b THEN b ELSE a
Oldest == Larger(Larger(Active, Fleet), TTL + 1)

(* A node's entry in the state.  Its age is that of its last download;     *)
(* neither age nor speed is read while it is quarantined.                  *)
NodeState == [st : {"healthy", "suspect", "quarantined"}, bad : 0..2,
              rec : 0..1, wait : 0..Cooldown, age : 0..Oldest, speed : {"slow", "good"}]
State == [node : [Node -> NodeState],
          mems : [Group -> SUBSET Node], keep : [Group -> SUBSET Node]]

TypeOK ==
    /\ present \subseteq Node
    /\ live \in [Group -> SUBSET Node] /\ torn \in BOOLEAN
    /\ known \in State /\ cur \in State
    /\ file \in {"missing", "present", "invalid"}
    /\ pc \in {"idle", "recover", "active", "confirm", "fleet", "route",
               "save", "reset"}
    /\ window \in [Node -> {"short", "stable", "unstable"}]
    /\ probed \subseteq Node /\ probes \in 0..MaxProbes
    /\ todo \subseteq Node /\ tried \subseteq Node

New == [st |-> "healthy", bad |-> 0, rec |-> 0, wait |-> 0, age |-> Oldest,
        speed |-> "slow"]
Nobody == [g \in Group |-> {}]
NewState == [node |-> [n \in Node |-> New], mems |-> Nobody, keep |-> Nobody]

Idle == /\ pc = "idle" /\ cur = NewState /\ window = [n \in Node |-> "short"]
        /\ probed = {} /\ probes = 0 /\ todo = {} /\ tried = {}
Ended == /\ pc' = "idle" /\ cur' = NewState /\ window' = [n \in Node |-> "short"]
         /\ probed' = {} /\ probes' = 0 /\ todo' = {} /\ tried' = {}

Init == /\ present = Node /\ live = Nobody /\ torn = FALSE
        /\ known = NewState /\ file = "missing" /\ Idle

-----------------------------------------------------------------------------
(* The state                                                               *)

Out(s) == {n \in Node : s.node[n].st = "quarantined"}
Members(s) == UNION {s.mems[g] : g \in Group}

(* applyProxyGuardOverlay: the quarantined members but the last resorts.   *)
Excluded(s) == [g \in Group |-> (s.mems[g] \cap Out(s)) \ s.keep[g]]

(* A decision that forgets who is kept.                                    *)
OutOnly(s) == Out(s)

(* RoutingSignature.                                                       *)
Signature(s) == <<Out(s), s.keep>>

(* What a run starts from: a missing or unreadable state is a new one.     *)
Forced == file # "present"

(* Members of a group the two share.                                       *)
Companions(n) == (UNION {cur.mems[g] : g \in {h \in Group : n \in cur.mems[h]}}) \ {n}

More(bad) == IF bad < 2 THEN bad + 1 ELSE bad   \* only "two or more" matters

-----------------------------------------------------------------------------
(* A run                                                                   *)

(* updateGuardLatency.                                                     *)
Swept(r, w) ==
    IF r.st = "quarantined" THEN r
    ELSE IF w = "unstable" THEN [r EXCEPT !.st = "suspect", !.bad = More(r.bad)]
    ELSE IF w = "stable" /\ r.age >= 1 THEN [r EXCEPT !.st = "healthy", !.bad = 0]
    ELSE r

(* updateGuardGroups: the members mihomo lists for each managed group.     *)
Listed == [g \in Group |-> Pool[g] \cap present]

(* The state is loaded, members mihomo no longer lists are forgotten, and  *)
(* the latency sweep is evaluated unless it fails as a whole.              *)
Start ==
    /\ pc = "idle" /\ pc' = "recover"
    /\ \E w \in [Node -> Windows], sweep \in BOOLEAN :
         /\ sweep \/ "sweep" \in Faults
         /\ LET all == UNION {Listed[g] : g \in Group}
                node(n) == IF n \notin all THEN New
                           ELSE IF sweep THEN Swept(known.node[n], w[n])
                           ELSE known.node[n]
            IN /\ cur' = [node |-> [n \in Node |-> node(n)],
                          mems |-> Listed, keep |-> known.keep]
               /\ window' = [n \in Node |-> IF n \in all THEN w[n] ELSE "short"]
    /\ UNCHANGED <<present, routing, disk, probed, probes, todo, tried>>

(* rollingProbeCandidates.                                                 *)
Rolling == {n \in Members(cur) \ (Out(cur) \cup probed) : cur.node[n].age >= Fleet}

(* Urgent probes that take every slot.                                     *)
AnySlot == probes < MaxProbes

(* urgentProbe leaves a slot to the fleet while one of it is due.          *)
UrgentSlot == probes < IF Rolling # {} THEN MaxProbes - 1 ELSE MaxProbes

(* ThroughputProbe: a transfer can break off and still have been fast.     *)
Results(n) == IF n \in Throttled THEN {"slow"}
              ELSE IF n \in Steady THEN {"clean"} ELSE {"clean", "slow", "broken"}

Probe(n, r) ==
    /\ cur' = [cur EXCEPT !.node[n] = r]
    /\ probed' = probed \cup {n} /\ probes' = probes + 1

(* applySpeedResult.                                                       *)
Measured(n, result) ==
    LET speed == IF result = "slow" THEN "slow" ELSE "good"
        r == [cur.node[n] EXCEPT !.age = 0, !.speed = speed] IN
      IF result # "clean" THEN [r EXCEPT !.st = "suspect", !.bad = More(r.bad)]
      ELSE IF window[n] # "unstable" THEN [r EXCEPT !.st = "healthy", !.bad = 0]
      ELSE r

(* A retest whose second success forgets to clear the streak.              *)
StreakKept(n, result) ==
    LET r == cur.node[n] IN
      IF result # "clean" THEN [r EXCEPT !.rec = 0, !.wait = Cooldown]
      ELSE IF r.rec = 1 THEN [r EXCEPT !.rec = 2, !.st = "healthy", !.age = 0, !.speed = "good"]
      ELSE [r EXCEPT !.rec = 1, !.wait = Cooldown]

(* A recovery probe.                                                       *)
Retested(n, result) ==
    LET r == cur.node[n] IN
      IF result # "clean" \/ window[n] = "unstable" THEN [r EXCEPT !.rec = 0, !.wait = Cooldown]
      ELSE IF r.rec = 1 THEN [New EXCEPT !.age = 0, !.speed = "good"]
      ELSE [r EXCEPT !.rec = 1, !.wait = Cooldown]

First(S) == CHOOSE n \in S : \A m \in S : n <= m

Due == {n \in Out(cur) : cur.node[n].wait = 0}

(* guardActiveNodes: traffic and the groups' selections decide who is used.*)
InUse == SUBSET Members(cur)

(* One quarantined member whose cooldown is over is probed.  Then the loop *)
(* over the members in use takes those that are suspect or due.            *)
Recover ==
    /\ pc = "recover" /\ pc' = "active"
    /\ IF Due # {} /\ UrgentSlot
         THEN LET n == First(Due) IN \E x \in Results(n) : Probe(n, Retested(n, x))
         ELSE UNCHANGED <<cur, probed, probes>>
    /\ \E used \in InUse :
         todo' = {n \in used \ (Out(cur)' \cup probed') :
                     cur.node[n].bad # 0 \/ cur.node[n].age >= Active}
    /\ UNCHANGED <<present, routing, disk, window, tried>>

ProbeActive ==
    /\ pc = "active" /\ todo # {} /\ UrgentSlot
    /\ LET n == First(todo) IN
         /\ \E x \in Results(n) : Probe(n, Measured(n, x))
         /\ todo' = todo \ {n}
    /\ UNCHANGED <<present, routing, disk, pc, window, tried>>

ActiveDone ==
    /\ pc = "active" /\ (todo = {} \/ ~UrgentSlot)
    /\ pc' = "confirm" /\ todo' = Members(cur)
    /\ UNCHANGED <<present, routing, disk, cur, window, probed, probes, tried>>

(* Alternatives whose measurements are taken however old they are.         *)
EverPassed(n) == {m \in Companions(n) \ Out(cur) : cur.node[m].speed = "good"}

(* passingAlternative.                                                     *)
Fast(r) == r.age <= TTL /\ r.speed = "good"
Passing(n) == {m \in Companions(n) \ Out(cur) : Fast(cur.node[m])}

(* The suspect the confirmation loop has reached: it passes over the       *)
(* members before it.                                                      *)
Suspects == {n \in todo \ Out(cur) : cur.node[n].bad = 2}
Suspect == First(Suspects)
Passed(n) == todo' = {m \in todo : m > n} /\ tried' = {}

Condemned == [st |-> "quarantined", bad |-> 2, rec |-> 0, wait |-> Cooldown,
              age |-> Oldest, speed |-> "slow"]

Condemn ==
    /\ pc = "confirm" /\ Suspects # {} /\ tried = {} /\ Passing(Suspect) # {}
    /\ cur' = [cur EXCEPT !.node[Suspect] = Condemned] /\ Passed(Suspect)
    /\ UNCHANGED <<present, routing, disk, pc, window, probed, probes>>

Alternatives == Companions(Suspect) \ (Out(cur) \cup tried)

(* The alternative m answers x: a pass quarantines the suspect.            *)
Answer(m, x) ==
    LET node == [cur.node EXCEPT ![m] = Measured(m, x)] IN
      /\ probed' = probed \cup {m}
      /\ IF x = "clean"
           THEN /\ cur' = [cur EXCEPT !.node = [node EXCEPT ![Suspect] = Condemned]]
                /\ Passed(Suspect)
           ELSE /\ cur' = [cur EXCEPT !.node = node]
                /\ tried' = tried \cup {m}
                /\ todo' = {k \in todo : k >= Suspect}

(* probeAlternative: the candidates in the order of their latencies, until *)
(* one passes.                                                             *)
ProbeAlternative ==
    /\ pc = "confirm" /\ Suspects # {}
    /\ tried # {} \/ Passing(Suspect) = {}
    /\ Alternatives # {} /\ UrgentSlot
    /\ \E m \in Alternatives : \E x \in Results(m) : Answer(m, x)
    /\ probes' = probes + 1
    /\ UNCHANGED <<present, routing, disk, pc, window>>

(* Without an alternative the suspect stays.                               *)
Spare ==
    /\ pc = "confirm" /\ Suspects # {}
    /\ tried # {} \/ Passing(Suspect) = {}
    /\ Alternatives = {} \/ ~UrgentSlot
    /\ Passed(Suspect)
    /\ UNCHANGED <<present, routing, disk, pc, cur, window, probed, probes>>

AllConfirmed == pc = "fleet" \/ (pc = "confirm" /\ Suspects = {})

(* The remaining slots go to the fleet, the oldest first.                  *)
ProbeFleet ==
    /\ AllConfirmed /\ probes < MaxProbes /\ pc' = "fleet"
    /\ \E n \in Rolling : \E x \in Results(n) : Probe(n, Measured(n, x))
    /\ todo' = {}
    /\ UNCHANGED <<present, routing, disk, window, tried>>

Smaller(a, b) == IF a < b THEN a ELSE b
Floor(s, g) == Smaller(MinMembers, Cardinality(s.mems[g]))

(* Last resorts counted against every member of the group.                 *)
NoResorts(s, g) ==
    LET out == s.mems[g] \cap Out(s)
        all == Cardinality(s.mems[g])
        needed == IF Floor(s, g) > all THEN Floor(s, g) - all ELSE 0
    IN {K \in SUBSET out : Cardinality(K) = needed}

(* recomputeLastResorts: as many quarantined members as the floor lacks,   *)
(* the best by their measurements.                                         *)
Resorts(s, g) ==
    LET out == s.mems[g] \cap Out(s)
        left == Cardinality(s.mems[g] \ out)
        needed == IF Floor(s, g) > left THEN Floor(s, g) - left ELSE 0
    IN {K \in SUBSET out : Cardinality(K) = needed}

Decide ==
    /\ AllConfirmed /\ (probes = MaxProbes \/ Rolling = {})
    /\ pc' = "route" /\ todo' = {}
    /\ \E keep \in [Group -> SUBSET Node] :
         /\ \A g \in Group : keep[g] \in Resorts(cur, g)
         /\ cur' = [cur EXCEPT !.keep = keep]
    /\ UNCHANGED <<present, routing, disk, window, probed, probes, tried>>

(* applyProxyGuardConfig: render, validate, write, reload.                 *)
Route ==
    /\ pc = "route" /\ pc' = "save"
    /\ IF Forced \/ Signature(cur) # Signature(known)
         THEN live' = Excluded(cur) /\ torn' = FALSE
         ELSE UNCHANGED routing
    /\ UNCHANGED <<present, disk, cur, window, probed, probes, todo, tried>>

(* A refused configuration or a failed reload ends the run with the        *)
(* previous configuration in place and nothing saved.                      *)
RouteFails ==
    /\ "reload" \in Faults /\ pc = "route"
    /\ Forced \/ Signature(cur) # Signature(known)
    /\ Ended /\ UNCHANGED <<present, routing, disk>>

Save ==
    /\ pc = "save" /\ Ended
    /\ known' = cur /\ file' = "present"
    /\ UNCHANGED <<present, routing>>

-----------------------------------------------------------------------------
(* Around it                                                               *)

(* ProxyGuardReset: first the routing, then the state file.                *)
ResetRouting ==
    /\ "reset" \in Env /\ pc = "idle" /\ pc' = "reset"
    /\ live' = Nobody /\ torn' = FALSE
    /\ UNCHANGED <<present, disk, cur, window, probed, probes, todo, tried>>

ResetState ==
    /\ pc = "reset" /\ Ended
    /\ known' = NewState /\ file' = "missing"
    /\ UNCHANGED <<present, routing>>

(* A run or a reset is killed, or cannot write or remove the state: what   *)
(* it did to the routing stays.                                            *)
CutShort ==
    /\ "cut" \in Faults /\ pc # "idle" /\ Ended
    /\ torn' = (torn \/ (pc \in {"save", "reset"} /\ live # Excluded(known)))
    /\ UNCHANGED <<present, live, disk>>

Tick ==
    /\ pc = "idle"
    /\ known' = [known EXCEPT !.node = [n \in Node |->
           LET r == known.node[n] IN
             [r EXCEPT !.age = IF @ < Oldest THEN @ + 1 ELSE @,
                       !.wait = IF @ > 0 THEN @ - 1 ELSE 0]]]
    /\ known' # known
    /\ UNCHANGED <<present, routing, file, run>>

(* mihomo refreshes its providers.                                         *)
Refresh ==
    /\ pc = "idle"
    /\ \E n \in Volatile : present' = IF n \in present THEN present \ {n} ELSE present \cup {n}
    /\ UNCHANGED <<routing, disk, run>>

(* An apply renders mihomo's configuration with the state it finds.        *)
Apply ==
    /\ "apply" \in Env /\ pc = "idle"
    /\ live' = Excluded(known) /\ torn' = FALSE
    /\ UNCHANGED <<present, disk, run>>

(* A package upgrade whose state has another version: nothing can be read. *)
Upgrade ==
    /\ "upgrade" \in Env /\ pc = "idle" /\ file = "present"
    /\ known' = NewState /\ file' = "invalid"
    /\ UNCHANGED <<present, routing, run>>

(* The state is on tmpfs; boot applies.                                    *)
Reboot ==
    /\ "reboot" \in Env /\ Ended
    /\ known' = NewState /\ file' = "missing" /\ live' = Nobody /\ torn' = FALSE
    /\ UNCHANGED present

Guarding == \/ Start \/ Recover \/ ProbeActive \/ ActiveDone \/ Condemn
            \/ ProbeAlternative \/ Spare \/ ProbeFleet \/ Decide
            \/ Route \/ RouteFails \/ Save
Next == Guarding \/ ResetRouting \/ ResetState \/ CutShort \/ Tick \/ Refresh
        \/ Apply \/ Upgrade \/ Reboot

Spec == Init /\ [][Next]_vars

LiveSpec == Spec /\ WF_vars(Guarding) /\ SF_vars(Tick)

-----------------------------------------------------------------------------
(* Properties                                                              *)

(* After a run no group has fewer routable members than the configured     *)
(* minimum, or than it has at all: recomputeLastResorts counts members     *)
(* while the overlay subtracts them group by group, and the run writes the *)
(* routing only when it believes the decision changed.  (Not while the     *)
(* routing is that of a run cut short before its save.)                    *)
FloorKept ==
    pc = "idle" /\ file = "present" /\ ~torn =>
        \A g \in Group : Cardinality(known.mems[g] \ live[g]) >= Floor(known, g)

(* Between runs mihomo excludes exactly the members the readable state     *)
(* says, although a run rewrites the configuration only when the signature *)
(* of its state changed, and applies, resets and reboots rewrite it too.   *)
(* Only a run or a reset cut short between its reload and its save parts   *)
(* the two, until the configuration is written again.                      *)
RoutingFollowsState ==
    pc = "idle" /\ file # "invalid" => torn \/ live = Excluded(known)

(* However many urgent downloads a run has, it measures a member of the    *)
(* fleet that was due when it began, unless the run itself quarantined     *)
(* every one of them: urgentProbe's reservation, and its release.          *)
FleetSlotIsUsed ==
    pc = "route" =>
        LET due == {n \in Members(cur) \ Out(known) : known.node[n].age >= Fleet} IN
          due = {} \/ due \cap probed # {} \/ due \subseteq Out(cur)

(* With a fleet interval within the TTL a member's measurement can be good *)
(* enough to vouch for a suspect and old enough to be taken again.         *)
Retaken(m) == m \in probed /\ known.node[m].age >= Fleet /\ Fast(known.node[m])

(* A run that quarantines somebody ends with a member in use that was fast *)
(* within the TTL: trouble of the whole endpoint quarantines nobody.  The  *)
(* member that vouched for a suspect can itself be quarantined later in    *)
(* the same run, but then another one vouched for it; and the fleet may    *)
(* have measured the one that vouched once more.                           *)
QuarantineHasWitness ==
    pc = "route" /\ ~(Out(cur) \subseteq Out(known)) =>
        \E m \in Members(cur) \ Out(cur) : Fast(cur.node[m]) \/ Retaken(m)

(* A member all of whose downloads are slow is eventually quarantined when *)
(* another member passes: what the settings page says of the minimum rate  *)
(* ("below this rate on two confirmed checks").  The code does not do it   *)
(* while the member's latency is stable.                                   *)
ThrottledIsQuarantined ==
    \A n \in Throttled : <>(n \in Out(known))
=============================================================================
