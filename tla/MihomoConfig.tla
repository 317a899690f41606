------------------------------ MODULE MihomoConfig ------------------------------
(***************************************************************************)
(* mihomo's configuration (internal/generator/mihomo.go, mesh.go,          *)
(* mihomo_mixin.go, mihomo_guard.go): the rendered listeners, outbounds,   *)
(* providers, groups and rules, the user's mixin merged into them, the     *)
(* proxy guard's overlay on the result.  What is modelled is the names and *)
(* who refers to whom; mihomo refuses a file in which a name is missing or *)
(* double.  Options that hold no name (DNS, ports, health checks, filters  *)
(* that are not exclusions) are left out, and so is the order of groups    *)
(* and rules, of which the generator writes the catch-all last.            *)
(***************************************************************************)
EXTENDS Integers, Sequences

CONSTANTS
    Routers,      \* configurations, their fields are listed at Valid
    Mixins,       \* what the user may save as a mixin
    GuardStates,  \* [members, resorts : groups -> SUBSET names, bad : SUBSET names]
    NodesOf       \* the nodes of each provider

VARIABLES router, mixin, guard, doc, stage
mihomoVars == <<router, mixin, guard, doc, stage>>

-----------------------------------------------------------------------------
(* The configuration                                                       *)

NoMixin == [sound |-> TRUE, over |-> <<>>, front |-> <<>>, scalars |-> {}]
Local(g) == g \o "_local"
VpnOutbound(v) == "vpn_" \o v
Candidate(g) == "PureWRTGuardCandidate_" \o g
Variant(p, w) == "PureWRTWAN_" \o p \o "_" \o w
Reserved == {"GLOBAL", "DIRECT", "REJECT", "REJECT-DROP", "PASS", "COMPATIBLE", "DNSProxy",
             "NetCheckProbe", "MeshExit", "Friends"}

(* Enabled sections with action proxy; every other one leaves no trace.    *)
ProxySections(r) ==
    {i \in DOMAIN r.sections : r.sections[i].enabled /\ r.sections[i].action = "proxy"}
GroupsOf(r) == {r.sections[i].group : i \in ProxySections(r)}

(* validateConfigHardening, as far as names go: [sections, providers,      *)
(* vpns, dnsVpns, peers, mesh, wans, guardOn, mixinOn].                    *)
Valid(r) ==
    /\ \A i, j \in ProxySections(r) : i # j => r.sections[i].group # r.sections[j].group
    /\ GroupsOf(r) \cap Reserved = {}
    /\ \A p \in r.providers : p.name # "default"

(* validateProxyWANGeneration.                                             *)
WANsResolved(r) == r.wans.on => r.wans.selected # {} /\ r.wans.selected \subseteq r.wans.resolved

Usable(r, names) == {n \in names : \E v \in r.vpns : v.name = n /\ v.up}
EveryVPN(r, names) == {VpnOutbound(n) : n \in names}       \* variant: takes those that are off
VPNMembers(r, names) == {VpnOutbound(n) : n \in Usable(r, names)}
ReferencedVPNs(r) ==
    LET on == {i \in DOMAIN r.sections : r.sections[i].enabled}
    IN {VpnOutbound(n) : n \in Usable(r, r.dnsVpns \cup UNION {r.sections[i].vpns : i \in on})}

(* Every provider once per WAN, when its nodes are to leave by each WAN.   *)
ProviderNames(r) ==
    LET on == {p.name : p \in {q \in r.providers : q.enabled}}
    IN IF r.wans.on THEN {Variant(p, w) : p \in on, w \in r.wans.resolved} ELSE on

MeshActive(r) == r.mesh.on /\ r.mesh.joined
Friends(r) ==
    IF MeshActive(r) THEN {p.id : p \in {q \in r.peers : q.enabled /\ q.offers /\ q.sound}} ELSE {}
Outbounds(r) == ReferencedVPNs(r) \cup Friends(r)
MeshExitViable(r) ==
    /\ MeshActive(r) /\ r.mesh.exit
    /\ ProviderNames(r) # {} \/ ReferencedVPNs(r) # {}

-----------------------------------------------------------------------------
(* The rendered document                                                   *)

(* A group says which section it is for, or 0; the mixin's are numbered in *)
(* their order up to -1.  Two with one name stay two.                      *)
GroupTypes == {"url-test", "fallback", "select", "load-balance"}
Group(of, name, type, use, members, skip) ==
    [of |-> of, name |-> name, type |-> type, use |-> use, members |-> members, skip |-> skip]
(* writeProxyGroup: a pool of providers and VPNs, or the empty `main`.     *)
Pool(r, of, name, vpns, skip) ==
    Group(of, name, "url-test",
          IF ProviderNames(r) = {} /\ vpns = {} THEN {"main"} ELSE ProviderNames(r), vpns, skip)

SectionGroups(r, i) ==
    LET s == r.sections[i]
    IN IF Friends(r) = {} THEN {Pool(r, i, s.group, VPNMembers(r, s.vpns), s.skip)}
       ELSE {Pool(r, i, Local(s.group), VPNMembers(r, s.vpns), s.skip),
             Group(i, s.group, "fallback", {}, {Local(s.group), "Friends"}, {})}
OnlyIf(cond, S) == IF cond THEN S ELSE {}
MeshExitGroup(r) == Pool(r, 0, "MeshExit", ReferencedVPNs(r), r.mesh.skip)
ProbeGroup(r) ==
    Group(0, "NetCheckProbe", "select", ProviderNames(r),
          {"DIRECT"} \cup GroupsOf(r) \cup ReferencedVPNs(r) \cup Friends(r), {})
BaseGroups(r) ==
    {Pool(r, 0, "DNSProxy", VPNMembers(r, r.dnsVpns), {})}
    \cup (UNION {SectionGroups(r, i) : i \in ProxySections(r)})
    \cup OnlyIf(Friends(r) # {}, {Group(0, "Friends", "load-balance", {}, Friends(r), {})})
    \cup OnlyIf(MeshExitViable(r), {MeshExitGroup(r)})
    \cup OnlyIf(ProxySections(r) # {}, {ProbeGroup(r)})

Tproxy(s) == "tproxy-" \o s.name
Listeners(r) ==
    {Tproxy(r.sections[i]) : i \in ProxySections(r)}
    \cup OnlyIf(ProxySections(r) # {}, {"netcheck-probe"})
    \cup OnlyIf(MeshExitViable(r), {"mesh-in"})
RuleFor(x, target) == [from |-> x, to |-> target]
CatchAll(r) == IF "Common" \in GroupsOf(r) THEN "Common" ELSE "DIRECT"
Rules(r) ==
    {RuleFor("dns", "DNSProxy"), RuleFor("any", CatchAll(r))}
    \cup {RuleFor(Tproxy(r.sections[i]), r.sections[i].group) : i \in ProxySections(r)}
    \cup OnlyIf(ProxySections(r) # {}, {RuleFor("netcheck-probe", "NetCheckProbe")})
    \cup OnlyIf(MeshExitViable(r), {RuleFor("mesh-in", "MeshExit")})
Base(r) ==
    [listeners |-> Listeners(r), outbounds |-> Outbounds(r),
     providers |-> IF ProviderNames(r) = {} THEN {"main"} ELSE ProviderNames(r),
     groups |-> BaseGroups(r), rules |-> Rules(r), odd |-> {}]

-----------------------------------------------------------------------------
(* The mixin: a list replaces a list, under `purewrt-` it goes before it.  *)

InFront(m, k) == IF k \in DOMAIN m.front THEN m.front[k] ELSE {}
MergedList(m, k, generated) ==
    InFront(m, k) \cup (IF k \in DOMAIN m.over THEN m.over[k] ELSE generated)
MergeMixin(d, m) ==
    [d EXCEPT !.groups = MergedList(m, "groups", @), !.rules = MergedList(m, "rules", @),
              !.odd = m.scalars]     \* keys whose value is not a list any more

-----------------------------------------------------------------------------
(* The overlay of the proxy guard                                          *)

ManagedGroups(r) ==
    {"DNSProxy"} \cup {IF Friends(r) = {} THEN g ELSE Local(g) : g \in GroupsOf(r)}
    \cup (IF Friends(r) = {} THEN {} ELSE {"Friends"})
    \cup (IF MeshExitViable(r) THEN {"MeshExit"} ELSE {})
Quarantined(st, name) ==
    IF name \in DOMAIN st.members THEN (st.members[name] \cap st.bad) \ st.resorts[name] ELSE {}
WithoutBad(st, g) ==
    LET out == Quarantined(st, g.name)
    IN [g EXCEPT !.members = @ \ out, !.skip = @ \cup out]
(* A select group with all the members, by which the guard tests them.     *)
Shadow(g) == [g EXCEPT !.name = Candidate(g.name), !.type = "select"]
(* Of two groups with one name it finds the one that is written later.     *)
Overlay(r, d, st) ==
    LET managed == {g \in d.groups :
                      /\ g.name \in ManagedGroups(r)
                      /\ \A h \in d.groups : h.name = g.name => h = g \/ h.of < g.of}
    IN [d EXCEPT !.groups = (@ \ managed) \cup {WithoutBad(st, g) : g \in managed}
                                          \cup {Shadow(g) : g \in managed}]

-----------------------------------------------------------------------------
(* What a configuration and a mixin may be called                          *)

NamesOf(groups) == {g.name : g \in groups}
AllNamed(groups) == \A g, h \in groups : g.name = h.name => g = h
Locals(r) == IF Friends(r) = {} THEN {} ELSE {Local(g) : g \in GroupsOf(r)}
Shadows(r) == {Candidate(n) : n \in ManagedGroups(r)}

(* What the names are made of keeps them apart: a suffix that no reserved  *)
(* name has, outbounds and shadows with prefixes of their own (mesh.go:59, *)
(* mihomo.go:337, mihomo_guard.go:16), of which groups may not begin with  *)
(* the latter's (manager.go:1204); a shadow's is followed by a hash, of    *)
(* which no two of a configuration's are equal.                            *)
NamesAssumption ==
    \A r \in Routers : Valid(r) =>
      /\ \A g, h \in GroupsOf(r) : Local(g) = Local(h) => g = h
      /\ Locals(r) \cap Reserved = {} /\ Outbounds(r) \cap Reserved = {}
      /\ ReferencedVPNs(r) \cap Friends(r) = {}
      /\ Shadows(r) \cap (GroupsOf(r) \cup Locals(r) \cup Reserved \cup Outbounds(r)) = {}
      /\ \A m, n \in ManagedGroups(r) : Candidate(m) = Candidate(n) => m = n
ASSUME NamesAssumption

(* A group may still be called like another one's _local, where there are  *)
(* friends, or like an outbound: manager.go:1197-1213 refuses neither.     *)
NamesApart(r) ==
    /\ Locals(r) \cap GroupsOf(r) = {}
    /\ Outbounds(r) \cap (GroupsOf(r) \cup Locals(r)) = {}

(* Nothing is asked of what a mixin holds.  Its own names, too, may be     *)
(* apart from each other and from those beside them, and what it adds may  *)
(* refer to what is there.                                                 *)
IsGroup(g) == g = Group(g.of, g.name, g.type, g.use, g.members, g.skip) /\ g.type \in GroupTypes
MixinAssumption ==
    \A m \in Mixins : /\ DOMAIN m = DOMAIN NoMixin
                      /\ \A g \in MergedList(m, "groups", {}) : IsGroup(g)
ASSUME MixinAssumption

MixinApart(m, r) ==
    LET own == MergedList(m, "groups", {})
        beside == Outbounds(r) \cup {"DIRECT"} \cup NamesOf(BaseGroups(r))
    IN /\ AllNamed(own) /\ NamesOf(own) \cap Shadows(r) = {}
       /\ "groups" \notin DOMAIN m.over => NamesOf(own) \cap beside = {}
MixinRefers(m, r) ==
    LET there == Outbounds(r) \cup {"DIRECT"} \cup NamesOf(BaseGroups(r))
        added == InFront(m, "groups")
    IN /\ \A g \in added : g.use \subseteq Base(r).providers /\ g.members \subseteq there
       /\ \A rule \in InFront(m, "rules") : rule.to \in there \cup NamesOf(added)

-----------------------------------------------------------------------------
(* From the configuration to the file                                      *)

EmptyDoc == [listeners |-> {}, outbounds |-> {}, providers |-> {}, groups |-> {}, rules |-> {},
             odd |-> {}]

MihomoTypeOK ==
    /\ stage \in {"config", "base", "merged", "final", "refused"}
    /\ doc = EmptyDoc <=> stage \in {"config", "refused"}
    /\ \A g \in doc.groups : g.type \in GroupTypes

MihomoInit ==
    /\ router \in Routers /\ guard \in GuardStates
    /\ mixin = NoMixin /\ doc = EmptyDoc /\ stage = "config"

(* MihomoMixinWrite: what is not YAML is refused, nothing deletes the file.*)
SaveMixin(m) ==
    /\ stage = "config" /\ mixin = NoMixin /\ m.sound /\ mixin' = m
    /\ UNCHANGED <<router, guard, doc, stage>>

(* The file is edited by hand: not YAML any more.                          *)
SpoilMixin ==
    /\ stage = "config" /\ mixin.sound /\ mixin' = [mixin EXCEPT !.sound = FALSE]
    /\ UNCHANGED <<router, guard, doc, stage>>

Render ==
    /\ stage = "config"
    /\ IF Valid(router) /\ WANsResolved(router)
       THEN stage' = "base" /\ doc' = Base(router)
       ELSE stage' = "refused" /\ UNCHANGED doc
    /\ UNCHANGED <<router, mixin, guard>>

(* applyMihomoMixin; what cannot be read leaves the document as it was.    *)
Mix ==
    /\ stage = "base" /\ stage' = "merged"
    /\ doc' = IF router.mixinOn /\ mixin.sound THEN MergeMixin(doc, mixin) ELSE doc
    /\ UNCHANGED <<router, mixin, guard>>

(* applyProxyGuardOverlay; groups that are not a list stay as they are.    *)
Guard ==
    /\ stage = "merged" /\ stage' = "final"
    /\ doc' = IF router.guardOn /\ "groups" \notin doc.odd THEN Overlay(router, doc, guard) ELSE doc
    /\ UNCHANGED <<router, mixin, guard>>

MihomoNext == (\E m \in Mixins : SaveMixin(m)) \/ SpoilMixin \/ Render \/ Mix \/ Guard

MihomoSpec == MihomoInit /\ [][MihomoNext]_mihomoVars

-----------------------------------------------------------------------------
(* Properties                                                              *)

GroupNames == NamesOf(doc.groups)
GroupNamed(n) == CHOOSE g \in doc.groups : g.name = n
(* The mixin that counts, if any, only adds to lists; and names differ.    *)
OwnLists ==
    stage = "final" /\ (mixin.sound => /\ DOMAIN mixin.over = {} /\ mixin.scalars = {}
                                       /\ MixinRefers(mixin, router))
Distinct == NamesApart(router) /\ (mixin.sound => MixinApart(mixin, router))

Offered == UNION {g.members : g \in doc.groups}
(* Groups of which each leads to another of them.                          *)
Circular(names) == names # {} /\ \A n \in names : GroupNamed(n).members \cap names # {}
(* What a group leads to, through other groups, is all in a set.           *)
LeadsInto(n, S) ==
    \E T \in SUBSET S : /\ GroupNamed(n).members \subseteq T
                        /\ \A m \in T \cap GroupNames : GroupNamed(m).members \subseteq T

(* Whatever is switched on and off, every name the file uses is there: the *)
(* groups' members and providers, what rules lead to, and every listener   *)
(* has its rule beside the catch-all (mihomo.go:434, "so the group is      *)
(* still valid").                                                          *)
NamesExist ==
    OwnLists =>
      /\ \A g \in doc.groups :
           /\ g.use \subseteq doc.providers
           /\ g.members \subseteq GroupNames \cup doc.outbounds \cup {"DIRECT"}
      /\ \A rule \in doc.rules : rule.to \in GroupNames \cup doc.outbounds \cup {"DIRECT"}
      /\ \A x \in doc.listeners : \E rule \in doc.rules : rule.from = x

(* If the user's names differ each stands for one group or one outbound,   *)
(* the shadows' among them, and no group leads back to itself.             *)
NamesResolve ==
    OwnLists /\ Distinct =>
      /\ AllNamed(doc.groups)
      /\ GroupNames \cap doc.outbounds = {}
      /\ \A names \in SUBSET (GroupNames \cap Offered) : ~Circular(names)

(* A friend's traffic leaves by this router's own proxies: never by the    *)
(* home address, never by another friend (mesh.go:102, INVARIANT).         *)
ExitsAreOwn ==
    OwnLists /\ Distinct /\ MeshExitViable(router) =>
      LeadsInto("MeshExit", Offered \ ({"DIRECT"} \cup Friends(router) \cup GroupsOf(router)))

(* A quarantined member of a managed group is chosen by no one but as a    *)
(* last resort, whatever the mixin says; and the group's shadow keeps all  *)
(* the members the group had, or such a member could never be tested again *)
(* (mihomo_guard.go:75).                                                   *)
Egresses(g) ==
    g.members \cup ((UNION {NodesOf[p] : p \in g.use \cap DOMAIN NodesOf}) \ g.skip)
Unguarded == IF router.mixinOn /\ mixin.sound THEN MergeMixin(Base(router), mixin) ELSE Base(router)
QuarantineHolds ==
    stage = "final" /\ Distinct /\ router.guardOn /\ "groups" \notin doc.odd =>
      \A g \in Unguarded.groups : g.name \in ManagedGroups(router) =>
        /\ Egresses(GroupNamed(g.name)) = Egresses(g) \ Quarantined(guard, g.name)
        /\ Candidate(g.name) \in GroupNames
        /\ Egresses(GroupNamed(Candidate(g.name))) = Egresses(g)

(* The file mihomo gets routes as the configuration says (mihomo.go).      *)
RoutesAreSound == NamesExist /\ NamesResolve /\ ExitsAreOwn /\ QuarantineHolds

(* A configuration is refused if two sections have one group, for "mihomo  *)
(* group names must be unique" (manager.go:1210).  They need not be: with  *)
(* friends, sections of groups Media and Media_local are rendered to two   *)
(* groups Media_local, and mihomo takes the whole file for broken.         *)
GroupNamesUnique == stage = "base" => AllNamed(doc.groups)

(* mihomo also refuses a group with neither providers nor members.  This   *)
(* does not hold: the guard's state may be of an earlier configuration,    *)
(* and the last resort it spares no longer in the group.                   *)
GroupsKeepAnEgress ==
    OwnLists => \A g \in doc.groups : g.use # {} \/ g.members # {}
=============================================================================
