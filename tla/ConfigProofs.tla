------------------------------ MODULE ConfigProofs ------------------------------
(***************************************************************************)
(* mihomo's configuration is sound for any configuration of the router,    *)
(* any mixin and any state of the guard; where names are told apart, as    *)
(* far as the user's differ.                                               *)
(* The entries subscriptions become are sound, and keep what the user      *)
(* decided, for any panels and any history of commands and edits.  The     *)
(* router's file is read back as it was written, whatever it held and      *)
(* however LuCI and the commands took turns.                               *)
(***************************************************************************)
EXTENDS MihomoConfig, ProviderImport, ConfigStore, FiniteSetTheorems, WellFoundedInduction, TLAPS

-----------------------------------------------------------------------------
(* The groups of the rendered document                                     *)

(* A section has one group, or two if there are friends; the others belong *)
(* to no section and are told apart by their names.                        *)
OwnPool(r, i, name) ==
    Pool(r, i, name, VPNMembers(r, r.sections[i].vpns), r.sections[i].skip)
Preferred(r, i) ==
    Group(i, r.sections[i].group, "fallback", {}, {Local(r.sections[i].group), "Friends"}, {})
DNSPool(r) == Pool(r, 0, "DNSProxy", VPNMembers(r, r.dnsVpns), {})
FriendsGroup(r) == Group(0, "Friends", "load-balance", {}, Friends(r), {})
IsSectionGroup(r, g) ==
    \E i \in ProxySections(r) :
      \/ Friends(r) = {} /\ g = OwnPool(r, i, r.sections[i].group)
      \/ Friends(r) # {} /\ g = OwnPool(r, i, Local(r.sections[i].group))
      \/ Friends(r) # {} /\ g = Preferred(r, i)
IsSharedGroup(r, g) ==
    \/ g = DNSPool(r)
    \/ Friends(r) # {} /\ g = FriendsGroup(r)
    \/ MeshExitViable(r) /\ g = MeshExitGroup(r)
    \/ ProxySections(r) # {} /\ g = ProbeGroup(r)

LEMMA GroupKinds ==
    ASSUME NEW r, NEW g
    PROVE  g \in BaseGroups(r) <=> IsSectionGroup(r, g) \/ IsSharedGroup(r, g)
<1> DEFINE Own == UNION {SectionGroups(r, i) : i \in ProxySections(r)}
<1>1. g \in Own <=> IsSectionGroup(r, g)
  <2>1. ASSUME NEW i
        PROVE  g \in SectionGroups(r, i) <=>
                 \/ Friends(r) = {} /\ g = OwnPool(r, i, r.sections[i].group)
                 \/ Friends(r) # {} /\ g = OwnPool(r, i, Local(r.sections[i].group))
                 \/ Friends(r) # {} /\ g = Preferred(r, i)
    BY DEF SectionGroups, OwnPool, Preferred
  <2> QED BY <2>1 DEF IsSectionGroup
<1> HIDE DEF Own
<1> QED BY <1>1 DEF BaseGroups, Own, IsSharedGroup, DNSPool, FriendsGroup, OnlyIf

LEMMA GroupShape ==
    ASSUME NEW of, NEW name, NEW type, NEW use, NEW members, NEW skip
    PROVE  LET g == Group(of, name, type, use, members, skip)
           IN /\ g.of = of /\ g.name = name /\ g.type = type /\ g.use = use
              /\ g.members = members /\ g.skip = skip
              /\ type \in GroupTypes => IsGroup(g)
BY DEF Group, IsGroup

(* What a group is called, and what it refers to.                          *)
LEMMA SectionGroupIs ==
    ASSUME NEW r, NEW g, IsSectionGroup(r, g)
    PROVE  \E i \in ProxySections(r) :
             /\ g.of = i /\ IsGroup(g)
             /\ \/ /\ Friends(r) = {} /\ g.name = r.sections[i].group
                   /\ g = OwnPool(r, i, r.sections[i].group)
                   /\ g.members = VPNMembers(r, r.sections[i].vpns)
                \/ /\ Friends(r) # {} /\ g.name = Local(r.sections[i].group)
                   /\ g = OwnPool(r, i, Local(r.sections[i].group))
                   /\ g.members = VPNMembers(r, r.sections[i].vpns)
                \/ /\ Friends(r) # {} /\ g.name = r.sections[i].group
                   /\ g = Preferred(r, i)
                   /\ g.members = {Local(r.sections[i].group), "Friends"}
<1>1. PICK i \in ProxySections(r) :
        \/ Friends(r) = {} /\ g = OwnPool(r, i, r.sections[i].group)
        \/ Friends(r) # {} /\ g = OwnPool(r, i, Local(r.sections[i].group))
        \/ Friends(r) # {} /\ g = Preferred(r, i)
  BY DEF IsSectionGroup
<1>2. ASSUME NEW name, g = OwnPool(r, i, name)
      PROVE  /\ g.of = i /\ IsGroup(g) /\ g.name = name
             /\ g.members = VPNMembers(r, r.sections[i].vpns)
  BY <1>2, GroupShape DEF OwnPool, Pool, GroupTypes
<1>3. ASSUME g = Preferred(r, i)
      PROVE  /\ g.of = i /\ IsGroup(g) /\ g.name = r.sections[i].group
             /\ g.members = {Local(r.sections[i].group), "Friends"}
  BY <1>3, GroupShape DEF Preferred, GroupTypes
<1> QED BY <1>1, <1>2, <1>3

LEMMA SharedGroupIs ==
    ASSUME NEW r, NEW g, IsSharedGroup(r, g)
    PROVE  /\ g.of = 0 /\ IsGroup(g)
           /\ \/ /\ g.name = "DNSProxy" /\ g = DNSPool(r)
                 /\ g.members = VPNMembers(r, r.dnsVpns)
              \/ /\ g.name = "Friends" /\ g = FriendsGroup(r) /\ Friends(r) # {}
                 /\ g.members = Friends(r)
              \/ /\ g.name = "MeshExit" /\ g = MeshExitGroup(r) /\ MeshExitViable(r)
                 /\ g.members = ReferencedVPNs(r)
              \/ /\ g.name = "NetCheckProbe" /\ g = ProbeGroup(r) /\ ProxySections(r) # {}
                 /\ g.members = {"DIRECT"} \cup GroupsOf(r) \cup ReferencedVPNs(r) \cup Friends(r)
BY GroupShape DEF IsSharedGroup, DNSPool, FriendsGroup, MeshExitGroup, ProbeGroup, Pool, GroupTypes

LEMMA VPNsAreReferenced ==
    ASSUME NEW r
    PROVE  /\ VPNMembers(r, r.dnsVpns) \subseteq ReferencedVPNs(r)
           /\ \A i \in ProxySections(r) :
                VPNMembers(r, r.sections[i].vpns) \subseteq ReferencedVPNs(r)
BY DEF VPNMembers, ReferencedVPNs, ProxySections, Usable

(* What one router's names are made of, and what if the user's differ.     *)
LEMMA NamesDiffer ==
    ASSUME NEW r \in Routers, Valid(r)
    PROVE  /\ \A i, j \in ProxySections(r) : r.sections[i].group = r.sections[j].group => i = j
           /\ \A i \in ProxySections(r) :
                /\ r.sections[i].group \in GroupsOf(r)
                /\ r.sections[i].group \notin Reserved \cup Shadows(r)
           /\ Friends(r) # {} => \A i, j \in ProxySections(r) :
                /\ Local(r.sections[i].group) \notin Reserved \cup Shadows(r)
                /\ Local(r.sections[i].group) = Local(r.sections[j].group) => i = j
           /\ Reserved \cap (Outbounds(r) \cup Shadows(r) \cup GroupsOf(r)) = {}
           /\ Shadows(r) \cap Outbounds(r) = {} /\ ReferencedVPNs(r) \cap Friends(r) = {}
           /\ \A m, n \in ManagedGroups(r) : Candidate(m) = Candidate(n) => m = n
<1>1. /\ \A g, h \in GroupsOf(r) : Local(g) = Local(h) => g = h
      /\ Locals(r) \cap Reserved = {} /\ Outbounds(r) \cap Reserved = {}
      /\ ReferencedVPNs(r) \cap Friends(r) = {}
      /\ Shadows(r) \cap (GroupsOf(r) \cup Locals(r) \cup Reserved \cup Outbounds(r)) = {}
      /\ \A m, n \in ManagedGroups(r) : Candidate(m) = Candidate(n) => m = n
  BY NamesAssumption DEF NamesAssumption
<1>2. \A i \in ProxySections(r) :
        /\ r.sections[i].group \in GroupsOf(r)
        /\ Friends(r) # {} => Local(r.sections[i].group) \in Locals(r)
  BY DEF GroupsOf, Locals
<1>3. /\ \A i, j \in ProxySections(r) : i # j => r.sections[i].group # r.sections[j].group
      /\ GroupsOf(r) \cap Reserved = {}
  BY DEF Valid
<1> QED BY <1>1, <1>2, <1>3

LEMMA UsersNamesDiffer ==
    ASSUME NEW r, NamesApart(r)
    PROVE  /\ Outbounds(r) \cap GroupsOf(r) = {}
           /\ \A i \in ProxySections(r) : r.sections[i].group \notin Outbounds(r)
           /\ Friends(r) # {} => \A i, j \in ProxySections(r) :
                /\ Local(r.sections[i].group) \notin Outbounds(r)
                /\ Local(r.sections[i].group) # r.sections[j].group
<1>1. \A i \in ProxySections(r) :
        /\ r.sections[i].group \in GroupsOf(r)
        /\ Friends(r) # {} => Local(r.sections[i].group) \in Locals(r)
  BY DEF GroupsOf, Locals
<1> QED BY <1>1 DEF NamesApart

LEMMA Reservations ==
    /\ {"DNSProxy", "NetCheckProbe", "MeshExit", "Friends", "DIRECT"} \subseteq Reserved
    /\ "DNSProxy" # "NetCheckProbe" /\ "DNSProxy" # "MeshExit" /\ "DNSProxy" # "Friends"
    /\ "NetCheckProbe" # "MeshExit" /\ "NetCheckProbe" # "Friends" /\ "MeshExit" # "Friends"
    /\ \A n \in {"DNSProxy", "NetCheckProbe", "MeshExit", "Friends"} : n # "DIRECT"
BY DEF Reserved

(* Each name stands for one group of the rendered document, and for        *)
(* nothing else.                                                           *)
LEMMA BaseNamesOnce ==
    ASSUME NEW r \in Routers, Valid(r), NamesApart(r)
    PROVE  AllNamed(BaseGroups(r))
<1> SUFFICES ASSUME NEW g \in BaseGroups(r), NEW h \in BaseGroups(r), g.name = h.name
             PROVE  g = h
  BY DEF AllNamed
<1>1. CASE IsSectionGroup(r, g) /\ IsSectionGroup(r, h)
  <2>1. PICK i \in ProxySections(r) :
          \/ /\ Friends(r) = {} /\ g.name = r.sections[i].group
             /\ g = OwnPool(r, i, r.sections[i].group)
          \/ /\ Friends(r) # {} /\ g.name = Local(r.sections[i].group)
             /\ g = OwnPool(r, i, Local(r.sections[i].group))
          \/ Friends(r) # {} /\ g.name = r.sections[i].group /\ g = Preferred(r, i)
    BY <1>1, SectionGroupIs
  <2>2. PICK j \in ProxySections(r) :
          \/ /\ Friends(r) = {} /\ h.name = r.sections[j].group
             /\ h = OwnPool(r, j, r.sections[j].group)
          \/ /\ Friends(r) # {} /\ h.name = Local(r.sections[j].group)
             /\ h = OwnPool(r, j, Local(r.sections[j].group))
          \/ Friends(r) # {} /\ h.name = r.sections[j].group /\ h = Preferred(r, j)
    BY <1>1, SectionGroupIs
  <2> QED BY <2>1, <2>2, NamesDiffer, UsersNamesDiffer
<1>2. CASE IsSharedGroup(r, g) /\ IsSharedGroup(r, h)
  BY <1>2, SharedGroupIs, Reservations
<1>3. ASSUME NEW x, NEW y, IsSectionGroup(r, x), IsSharedGroup(r, y)
      PROVE  x.name # y.name
  <2>1. y.name \in Reserved BY <1>3, SharedGroupIs, Reservations
  <2>2. x.name \notin Reserved BY <1>3, SectionGroupIs, NamesDiffer
  <2> QED BY <2>1, <2>2
<1> QED BY <1>1, <1>2, <1>3, GroupKinds

LEMMA BaseNamesFresh ==
    ASSUME NEW r \in Routers, Valid(r), NEW g \in BaseGroups(r)
    PROVE  /\ g.name \notin Shadows(r) \cup {"DIRECT"} /\ IsGroup(g)
           /\ NamesApart(r) => g.name \notin Outbounds(r)
<1>1. CASE IsSectionGroup(r, g)
  BY <1>1, SectionGroupIs, NamesDiffer, UsersNamesDiffer, Reservations
<1>2. CASE IsSharedGroup(r, g) BY <1>2, SharedGroupIs, NamesDiffer, Reservations
<1> QED BY <1>1, <1>2, GroupKinds

(* What a group of the rendered document refers to is there; whoever a     *)
(* group has as a member leads to outbounds after at most one more group.  *)
LEMMA BaseUse ==
    ASSUME NEW r, NEW g \in BaseGroups(r)
    PROVE  g.use \subseteq Base(r).providers
<1>1. Base(r).providers = IF ProviderNames(r) = {} THEN {"main"} ELSE ProviderNames(r)
  BY DEF Base
<1>2. ASSUME NEW of, NEW name, NEW vpns, NEW skip
      PROVE  Pool(r, of, name, vpns, skip).use \subseteq Base(r).providers
  <2>1. Pool(r, of, name, vpns, skip).use =
          IF ProviderNames(r) = {} /\ vpns = {} THEN {"main"} ELSE ProviderNames(r)
    BY GroupShape DEF Pool
  <2> QED BY <2>1, <1>1
<1>3. CASE IsSectionGroup(r, g)
  <2>1. ASSUME NEW i PROVE Preferred(r, i).use = {} BY GroupShape DEF Preferred
  <2> QED BY <1>2, <1>3, <2>1 DEF IsSectionGroup, OwnPool
<1>4. CASE IsSharedGroup(r, g)
  <2>1. FriendsGroup(r).use = {} /\ ProbeGroup(r).use = ProviderNames(r)
    BY GroupShape DEF FriendsGroup, ProbeGroup
  <2> QED BY <1>1, <1>2, <1>4, <2>1 DEF IsSharedGroup, DNSPool, MeshExitGroup
<1> QED BY <1>3, <1>4, GroupKinds

Leaf(r, n) ==
    \E h \in BaseGroups(r) : h.name = n /\ h.members \subseteq Outbounds(r)

LEMMA GroupsThere ==
    ASSUME NEW r
    PROVE  /\ GroupsOf(r) \cup {"DNSProxy"} \subseteq NamesOf(BaseGroups(r))
           /\ MeshExitViable(r) => "MeshExit" \in NamesOf(BaseGroups(r))
           /\ ProxySections(r) # {} => "NetCheckProbe" \in NamesOf(BaseGroups(r))
<1>1. GroupsOf(r) \subseteq NamesOf(BaseGroups(r))
  <2> SUFFICES ASSUME NEW i \in ProxySections(r)
               PROVE  r.sections[i].group \in NamesOf(BaseGroups(r))
    BY DEF GroupsOf
  <2>1. IsSectionGroup(r, IF Friends(r) = {} THEN OwnPool(r, i, r.sections[i].group)
                          ELSE Preferred(r, i))
    BY DEF IsSectionGroup
  <2>2. /\ OwnPool(r, i, r.sections[i].group).name = r.sections[i].group
        /\ Preferred(r, i).name = r.sections[i].group
    BY GroupShape DEF OwnPool, Pool, Preferred
  <2> QED BY <2>1, <2>2, GroupKinds DEF NamesOf
<1>2. /\ DNSPool(r).name = "DNSProxy" /\ MeshExitGroup(r).name = "MeshExit"
      /\ ProbeGroup(r).name = "NetCheckProbe"
  BY GroupShape DEF DNSPool, MeshExitGroup, ProbeGroup, Pool
<1>3. /\ DNSPool(r) \in BaseGroups(r)
      /\ MeshExitViable(r) => MeshExitGroup(r) \in BaseGroups(r)
      /\ ProxySections(r) # {} => ProbeGroup(r) \in BaseGroups(r)
  BY GroupKinds DEF IsSharedGroup
<1> QED BY <1>1, <1>2, <1>3 DEF NamesOf

LEMMA BaseMembers ==
    ASSUME NEW r \in Routers, Valid(r), NEW g \in BaseGroups(r)
    PROVE  \/ g.members \subseteq Outbounds(r)
           \/ \A n \in g.members : Leaf(r, n)
           \/ /\ g.name = "NetCheckProbe"
              /\ g.members \subseteq NamesOf(BaseGroups(r)) \cup Outbounds(r) \cup {"DIRECT"}
<1> USE DEF Outbounds
<1>1. CASE IsSectionGroup(r, g)
  <2>1. PICK i \in ProxySections(r) :
          \/ g.members = VPNMembers(r, r.sections[i].vpns)
          \/ Friends(r) # {} /\ g.members = {Local(r.sections[i].group), "Friends"}
    BY <1>1, SectionGroupIs
  <2>2. CASE g.members = VPNMembers(r, r.sections[i].vpns)
    BY <2>2, VPNsAreReferenced
  <2>3. CASE Friends(r) # {} /\ g.members = {Local(r.sections[i].group), "Friends"}
    <3> DEFINE own == OwnPool(r, i, Local(r.sections[i].group))
    <3>1. IsSectionGroup(r, own) /\ IsSharedGroup(r, FriendsGroup(r))
      BY <2>3 DEF IsSectionGroup, IsSharedGroup
    <3>2. own.name = Local(r.sections[i].group) /\ own.members \subseteq ReferencedVPNs(r)
      BY GroupShape, VPNsAreReferenced DEF OwnPool, Pool
    <3>3. FriendsGroup(r).name = "Friends" /\ FriendsGroup(r).members = Friends(r)
      BY GroupShape DEF FriendsGroup
    <3> HIDE DEF own
    <3>4. Leaf(r, Local(r.sections[i].group)) /\ Leaf(r, "Friends")
      BY <3>1, <3>2, <3>3, GroupKinds DEF Leaf
    <3> QED BY <2>3, <3>4
  <2> QED BY <2>1, <2>2, <2>3
<1>2. CASE IsSharedGroup(r, g)
  <2>1. g.name # "NetCheckProbe" => g.members \subseteq Outbounds(r)
    BY <1>2, SharedGroupIs, VPNsAreReferenced
  <2>2. g.name = "NetCheckProbe" =>
          g.members \subseteq NamesOf(BaseGroups(r)) \cup Outbounds(r) \cup {"DIRECT"}
    BY <1>2, GroupsThere, SharedGroupIs, Reservations
  <2> QED BY <2>1, <2>2
<1> QED BY <1>1, <1>2, GroupKinds

(* Every rule leads to a group or past the proxies, and every listener has *)
(* one.                                                                    *)
LEMMA BaseRules ==
    ASSUME NEW r
    PROVE  /\ \A rule \in Rules(r) : rule.to \in NamesOf(BaseGroups(r)) \cup {"DIRECT"}
           /\ \A x \in Listeners(r) : \E rule \in Rules(r) : rule.from = x
<1>1. \A x, t : RuleFor(x, t).from = x /\ RuleFor(x, t).to = t BY DEF RuleFor
<1>2. ASSUME NEW rule \in Rules(r) PROVE rule.to \in NamesOf(BaseGroups(r)) \cup {"DIRECT"}
  <2>1. CatchAll(r) \in GroupsOf(r) \cup {"DIRECT"} BY DEF CatchAll
  <2>2. CASE rule \in {RuleFor("dns", "DNSProxy"), RuleFor("any", CatchAll(r))}
    BY <1>1, <2>1, <2>2, GroupsThere
  <2>3. CASE \E i \in ProxySections(r) :
               rule = RuleFor(Tproxy(r.sections[i]), r.sections[i].group)
    BY <1>1, <2>3, GroupsThere DEF GroupsOf
  <2>4. CASE ProxySections(r) # {} /\ rule = RuleFor("netcheck-probe", "NetCheckProbe")
    BY <1>1, <2>4, GroupsThere
  <2>5. CASE MeshExitViable(r) /\ rule = RuleFor("mesh-in", "MeshExit")
    BY <1>1, <2>5, GroupsThere
  <2> QED BY <1>2, <2>2, <2>3, <2>4, <2>5 DEF Rules, OnlyIf
<1>3. ASSUME NEW x \in Listeners(r) PROVE \E rule \in Rules(r) : rule.from = x
  <2>1. CASE \E i \in ProxySections(r) : x = Tproxy(r.sections[i])
    <3>1. PICK i \in ProxySections(r) : x = Tproxy(r.sections[i]) BY <2>1
    <3>2. RuleFor(x, r.sections[i].group) \in Rules(r) BY <3>1 DEF Rules
    <3> QED BY <1>1, <3>2
  <2>2. CASE ProxySections(r) # {} /\ x = "netcheck-probe"
    <3>1. RuleFor(x, "NetCheckProbe") \in Rules(r) BY <2>2 DEF Rules, OnlyIf
    <3> QED BY <1>1, <3>1
  <2>3. CASE MeshExitViable(r) /\ x = "mesh-in"
    <3>1. RuleFor(x, "MeshExit") \in Rules(r) BY <2>3 DEF Rules, OnlyIf
    <3> QED BY <1>1, <3>1
  <2> QED BY <1>3, <2>1, <2>2, <2>3 DEF Listeners, OnlyIf
<1> QED BY <1>2, <1>3

-----------------------------------------------------------------------------
(* The mixin and the overlay                                               *)

Mixed(r, m) == IF r.mixinOn /\ m.sound THEN MergeMixin(Base(r), m) ELSE Base(r)

LEMMA MixedParts ==
    ASSUME NEW r, NEW m
    PROVE  /\ Mixed(r, m).outbounds = Outbounds(r) /\ Mixed(r, m).listeners = Listeners(r)
           /\ Mixed(r, m).providers = Base(r).providers
           /\ Mixed(r, m).groups = IF r.mixinOn /\ m.sound
                                   THEN MergedList(m, "groups", BaseGroups(r)) ELSE BaseGroups(r)
           /\ Mixed(r, m).rules = IF r.mixinOn /\ m.sound
                                  THEN MergedList(m, "rules", Rules(r)) ELSE Rules(r)
           /\ Mixed(r, m) # EmptyDoc
<1>1. Base(r).providers # {} BY DEF Base
<1>2. EmptyDoc.providers = {} BY DEF EmptyDoc
<1>3. Mixed(r, m).providers = Base(r).providers BY DEF Mixed, MergeMixin, Base
<1>4. Mixed(r, m) # EmptyDoc BY <1>1, <1>2, <1>3
<1> QED BY <1>3, <1>4 DEF Mixed, MergeMixin, Base

(* A mixin that can be read is one that could be saved, or none.           *)
Readable(m) == m.sound => m \in Mixins \cup {NoMixin}

LEMMA NothingMixed ==
    /\ \A k, l : MergedList(NoMixin, k, l) = l
    /\ InFront(NoMixin, "groups") = {} /\ InFront(NoMixin, "rules") = {}
<1>1. DOMAIN NoMixin.front = {} /\ DOMAIN NoMixin.over = {} BY DEF NoMixin
<1> QED BY <1>1 DEF MergedList, InFront

LEMMA MixedShape ==
    ASSUME NEW r \in Routers, Valid(r), NEW m, Readable(m)
    PROVE  \A g \in Mixed(r, m).groups : IsGroup(g)
<1>1. \A g \in BaseGroups(r) : IsGroup(g) BY BaseNamesFresh
<1>2. ASSUME m \in Mixins PROVE \A g \in MergedList(m, "groups", BaseGroups(r)) : IsGroup(g)
  <2>1. \A g \in MergedList(m, "groups", {}) : IsGroup(g)
    BY <1>2, MixinAssumption DEF MixinAssumption
  <2>2. MergedList(m, "groups", BaseGroups(r)) \subseteq
          MergedList(m, "groups", {}) \cup BaseGroups(r)
    BY DEF MergedList
  <2> QED BY <1>1, <2>1, <2>2
<1>3. m.sound /\ m \notin Mixins => MergedList(m, "groups", BaseGroups(r)) = BaseGroups(r)
  BY NothingMixed DEF Readable
<1> QED BY <1>1, <1>2, <1>3, MixedParts

(* The groups the overlay finds have names of their own.                   *)
WellNamed(r, all) ==
    AllNamed(all) /\ \A g \in all : IsGroup(g) /\ g.name \notin Shadows(r)
ApartHere(r, m) == NamesApart(r) /\ (m.sound => MixinApart(m, r))

LEMMA MixedWellNamed ==
    ASSUME NEW r \in Routers, Valid(r), NEW m, Readable(m), ApartHere(r, m)
    PROVE  WellNamed(r, Mixed(r, m).groups)
<1>1. WellNamed(r, BaseGroups(r))
  BY BaseNamesOnce, BaseNamesFresh DEF WellNamed, ApartHere
<1>2. ASSUME m \in Mixins, m.sound PROVE WellNamed(r, MergedList(m, "groups", BaseGroups(r)))
  <2> DEFINE own == MergedList(m, "groups", {})
  <2>1. /\ \A g \in own : IsGroup(g)
        /\ AllNamed(own) /\ NamesOf(own) \cap Shadows(r) = {}
        /\ "groups" \notin DOMAIN m.over => NamesOf(own) \cap NamesOf(BaseGroups(r)) = {}
    BY <1>2, MixinAssumption DEF MixinAssumption, ApartHere, MixinApart
  <2>2. CASE "groups" \in DOMAIN m.over
    <3>1. MergedList(m, "groups", BaseGroups(r)) = own BY <2>2 DEF MergedList
    <3> HIDE DEF own
    <3> QED BY <2>1, <3>1 DEF WellNamed, NamesOf
  <2>3. CASE "groups" \notin DOMAIN m.over
    <3>1. MergedList(m, "groups", BaseGroups(r)) = own \cup BaseGroups(r)
      BY <2>3 DEF MergedList
    <3>2. \A g \in own, h \in BaseGroups(r) : g.name # h.name
      BY <2>1, <2>3 DEF NamesOf
    <3> HIDE DEF own
    <3> QED BY <1>1, <2>1, <3>1, <3>2 DEF WellNamed, AllNamed, NamesOf
  <2> QED BY <2>2, <2>3
<1>3. m.sound /\ m \notin Mixins => MergedList(m, "groups", BaseGroups(r)) = BaseGroups(r)
  BY NothingMixed DEF Readable
<1> QED BY <1>1, <1>2, <1>3, MixedParts

LEMMA GuardedGroupIs ==
    ASSUME NEW st, NEW g, IsGroup(g)
    PROVE  /\ LET w == WithoutBad(st, g)
                  out == Quarantined(st, g.name)
              IN /\ w.name = g.name /\ w.use = g.use /\ w.members = g.members \ out
                 /\ w.skip = g.skip \cup out /\ w.type = g.type
           /\ LET s == Shadow(g)
              IN /\ s.name = Candidate(g.name) /\ s.use = g.use /\ s.members = g.members
                 /\ s.skip = g.skip /\ s.type = "select"
<1>1. g = [of |-> g.of, name |-> g.name, type |-> g.type, use |-> g.use, members |-> g.members,
           skip |-> g.skip]
  BY DEF IsGroup, Group
<1> QED BY <1>1 DEF WithoutBad, Shadow

(* A managed group is replaced by itself without what is quarantined, and  *)
(* by a shadow; other groups stay.                                         *)
Managed(r, all) ==
    {g \in all : /\ g.name \in ManagedGroups(r)
                 /\ \A h \in all : h.name = g.name => h = g \/ h.of < g.of}

LEMMA OverlayGroups ==
    ASSUME NEW r, NEW d, NEW st, "groups" \in DOMAIN d, \A g \in d.groups : IsGroup(g)
    PROVE  LET o == Overlay(r, d, st)
               managed == Managed(r, d.groups)
           IN /\ o.groups = (d.groups \ managed) \cup {WithoutBad(st, g) : g \in managed}
                                                \cup {Shadow(g) : g \in managed}
              /\ \A g \in managed :
                   /\ g \in d.groups /\ g.name \in ManagedGroups(r)
                   /\ WithoutBad(st, g).name = g.name /\ Shadow(g).name = Candidate(g.name)
                   /\ Candidate(g.name) \in Shadows(r)
              /\ NamesOf(d.groups) \subseteq NamesOf(o.groups)
              /\ \A h \in o.groups : \E g \in d.groups :
                   /\ h.use = g.use /\ h.members \subseteq g.members /\ h.type \in GroupTypes
                   /\ h.name = g.name \/ h.name \in Shadows(r)
<1> DEFINE managed == Managed(r, d.groups)
           o == Overlay(r, d, st)
           rest == d.groups \ managed
<1>1. o.groups = rest \cup {WithoutBad(st, g) : g \in managed} \cup {Shadow(g) : g \in managed}
  BY DEF Overlay, Managed
<1>2. \A g \in d.groups : IsGroup(g) /\ g.type \in GroupTypes
  BY DEF IsGroup
<1>3. \A g \in managed :
        /\ g \in d.groups /\ g.name \in ManagedGroups(r)
        /\ WithoutBad(st, g).name = g.name /\ Shadow(g).name = Candidate(g.name)
        /\ Candidate(g.name) \in Shadows(r)
        /\ WithoutBad(st, g).use = g.use /\ Shadow(g).use = g.use
        /\ WithoutBad(st, g).members \subseteq g.members /\ Shadow(g).members \subseteq g.members
        /\ WithoutBad(st, g).type \in GroupTypes /\ Shadow(g).type \in GroupTypes
  BY <1>2, GuardedGroupIs DEF Shadows, GroupTypes, Managed
<1>6. rest \subseteq d.groups /\ \A g \in d.groups : g \in rest \/ g \in managed
  OBVIOUS
<1> HIDE DEF managed, o, rest
<1>9. NamesOf(d.groups) \subseteq NamesOf(o.groups)
  <2> SUFFICES ASSUME NEW g \in d.groups PROVE g.name \in NamesOf(o.groups)
    BY DEF NamesOf
  <2>1. \E h \in o.groups : h.name = g.name BY <1>1, <1>3, <1>6
  <2> QED BY <2>1 DEF NamesOf
<1>10. \A h \in o.groups : \E g \in d.groups :
         /\ h.use = g.use /\ h.members \subseteq g.members /\ h.type \in GroupTypes
         /\ h.name = g.name \/ h.name \in Shadows(r)
  <2> TAKE h \in o.groups
  <2>1. CASE h \in rest BY <1>2, <1>6, <2>1
  <2>2. CASE h \notin rest BY <1>1, <1>3, <2>2
  <2> QED BY <2>1, <2>2
<1> QED BY <1>1, <1>3, <1>9, <1>10 DEF o, managed, rest

(* No two are called alike, if none were before.                           *)
LEMMA OverlayNamed ==
    ASSUME NEW r \in Routers, Valid(r), NEW d, WellNamed(r, d.groups),
           NEW st, "groups" \in DOMAIN d
    PROVE  LET o == Overlay(r, d, st)
           IN /\ AllNamed(o.groups)
              /\ \A g \in d.groups : g.name \in ManagedGroups(r) =>
                   WithoutBad(st, g) \in o.groups /\ Shadow(g) \in o.groups
<1> DEFINE managed == Managed(r, d.groups)
           o == Overlay(r, d, st)
           rest == d.groups \ managed
<1>1. /\ o.groups = rest \cup {WithoutBad(st, g) : g \in managed} \cup {Shadow(g) : g \in managed}
      /\ \A g \in managed :
           /\ g \in d.groups /\ g.name \in ManagedGroups(r)
           /\ WithoutBad(st, g).name = g.name /\ Shadow(g).name = Candidate(g.name)
           /\ Candidate(g.name) \in Shadows(r)
  <2>1. \A g \in d.groups : IsGroup(g) BY DEF WellNamed
  <2> QED BY <2>1, OverlayGroups
<1>2. \A g \in d.groups : g.name \notin Shadows(r)
  BY DEF WellNamed
<1>3. \A g, h \in d.groups : g.name = h.name => g = h BY DEF WellNamed, AllNamed
<1>4. \A g \in d.groups : g \in managed <=> g.name \in ManagedGroups(r)
  BY <1>3 DEF Managed
<1>5. \A g, h \in managed : Candidate(g.name) = Candidate(h.name) => g = h
  BY <1>1, <1>3, NamesDiffer
<1>6. rest \subseteq d.groups /\ \A g \in rest, h \in managed : g.name # h.name
  BY <1>1, <1>3
<1> HIDE DEF managed, o, rest
<1>7. AllNamed(o.groups)
  <2> SUFFICES ASSUME NEW x \in o.groups, NEW y \in o.groups, x.name = y.name PROVE x = y
    BY DEF AllNamed
  <2>1. CASE x \in rest
    BY <1>1, <1>2, <1>3, <1>6, <2>1
  <2>2. CASE y \in rest
    BY <1>1, <1>2, <1>3, <1>6, <2>2
  <2>3. CASE x \notin rest /\ y \notin rest
    BY <1>1, <1>2, <1>3, <1>5, <2>3
  <2> QED BY <2>1, <2>2, <2>3
<1>8. \A g \in d.groups : g.name \in ManagedGroups(r) =>
        WithoutBad(st, g) \in o.groups /\ Shadow(g) \in o.groups
  BY <1>1, <1>4
<1> QED BY <1>7, <1>8 DEF o

-----------------------------------------------------------------------------
(* The invariant: what the file holds at each stage                        *)

Finished(r, m, st) ==
    IF r.guardOn /\ "groups" \notin Mixed(r, m).odd THEN Overlay(r, Mixed(r, m), st)
    ELSE Mixed(r, m)
FileInv ==
    /\ router \in Routers /\ Readable(mixin) /\ "sound" \in DOMAIN mixin
    /\ stage \in {"config", "base", "merged", "final", "refused"}
    /\ stage \in {"config", "refused"} => doc = EmptyDoc
    /\ stage \in {"base", "merged", "final"} => Valid(router)
    /\ stage = "base" => doc = Base(router)
    /\ stage = "merged" => doc = Mixed(router, mixin)
    /\ stage = "final" => doc = Finished(router, mixin, guard)

LEMMA FileStart == MihomoInit => FileInv
BY DEF MihomoInit, FileInv, Readable, NoMixin

LEMMA FileStep == FileInv /\ [MihomoNext]_mihomoVars => FileInv'
<1> SUFFICES ASSUME FileInv, [MihomoNext]_mihomoVars PROVE FileInv'
  OBVIOUS
<1> USE DEF FileInv
<1>1. ASSUME NEW m \in Mixins, SaveMixin(m) PROVE FileInv'
  <2>1. "sound" \in DOMAIN m BY MixinAssumption DEF MixinAssumption, NoMixin
  <2> QED BY <1>1, <2>1 DEF SaveMixin, Readable
<1>2. CASE SpoilMixin
  <2>1. mixin' = [mixin EXCEPT !.sound = FALSE] /\ stage = "config"
    BY <1>2 DEF SpoilMixin
  <2>2. mixin'.sound = FALSE /\ "sound" \in DOMAIN mixin'
    BY <2>1
  <2> QED BY <1>2, <2>1, <2>2 DEF SpoilMixin, Readable
<1>3. CASE Render BY <1>3 DEF Render
<1>4. CASE Mix BY <1>4 DEF Mix, Mixed
<1>5. CASE Guard BY <1>5 DEF Guard, Finished
<1>6. CASE UNCHANGED mihomoVars BY <1>6 DEF mihomoVars
<1> QED BY <1>1, <1>2, <1>3, <1>4, <1>5, <1>6 DEF MihomoNext

LEMMA FileAlways == MihomoSpec => []FileInv
BY FileStart, FileStep, PTL DEF MihomoSpec

LEMMA FinishedParts ==
    ASSUME NEW r, NEW m, NEW st
    PROVE  LET d == Finished(r, m, st)
               u == Mixed(r, m)
           IN /\ "groups" \in DOMAIN u
              /\ d.outbounds = u.outbounds /\ d.listeners = u.listeners
              /\ d.providers = u.providers /\ d.rules = u.rules /\ d.odd = u.odd
              /\ d.groups = IF r.guardOn /\ "groups" \notin u.odd
                            THEN Overlay(r, u, st).groups ELSE u.groups
<1>1. Mixed(r, m) = [listeners |-> Mixed(r, m).listeners, outbounds |-> Mixed(r, m).outbounds,
                     providers |-> Mixed(r, m).providers, groups |-> Mixed(r, m).groups,
                     rules |-> Mixed(r, m).rules, odd |-> Mixed(r, m).odd]
  BY DEF Mixed, MergeMixin, Base
<1> QED BY <1>1 DEF Finished, Overlay

(* MihomoTypeOK: only known types of groups, and an empty file exactly     *)
(* when nothing was rendered (mihomo.go).                                  *)
THEOREM MihomoTypes == MihomoSpec => []MihomoTypeOK
<1>1. ASSUME FileInv PROVE MihomoTypeOK
  <2> USE <1>1 DEF FileInv
  <2>1. CASE stage \in {"config", "refused"}
    BY <2>1 DEF MihomoTypeOK, EmptyDoc
  <2>2. CASE stage \in {"base", "merged"}
    <3>1. \E m : Readable(m) /\ doc = Mixed(router, m)
      <4>1. CASE stage = "merged" BY <4>1
      <4>2. CASE stage = "base"
        <5>1. Base(router) = Mixed(router, NoMixin)
          BY NothingMixed DEF Mixed, MergeMixin, NoMixin, Base
        <5> QED BY <4>2, <5>1 DEF Readable
      <4> QED BY <2>2, <4>1, <4>2
    <3> QED BY <2>2, <3>1, MixedParts, MixedShape DEF MihomoTypeOK, IsGroup
  <2>3. CASE stage = "final"
    <3> DEFINE u == Mixed(router, mixin)
    <3>1. (\A g \in u.groups : IsGroup(g)) /\ u.providers # {} /\ "groups" \in DOMAIN u
      BY <2>3, MixedParts, MixedShape, FinishedParts DEF Base
    <3>2. \A g \in Overlay(router, u, guard).groups : g.type \in GroupTypes
      BY <2>3, <3>1, OverlayGroups
    <3>3. \A g \in doc.groups : g.type \in GroupTypes
      BY <2>3, <3>1, <3>2, FinishedParts DEF IsGroup
    <3>4. doc # EmptyDoc
      BY <2>3, <3>1, FinishedParts DEF EmptyDoc
    <3> QED BY <2>3, <3>3, <3>4 DEF MihomoTypeOK
  <2> QED BY <2>1, <2>2, <2>3
<1> QED BY <1>1, FileAlways, PTL

-----------------------------------------------------------------------------
(* The file when the user's mixin only adds to it                          *)

(* A group refers to what is there.  If names differ, each that others may *)
(* name is a rendered one with no more members; the mixin's and the        *)
(* shadows are nobody's members.                                           *)
Refers(r, all) ==
    \A g \in all :
      /\ g.use \subseteq Base(r).providers
      /\ g.members \subseteq NamesOf(BaseGroups(r)) \cup Outbounds(r) \cup {"DIRECT"}
Rendered(r, all) ==
    \A g \in all :
      /\ g.name \notin Outbounds(r) \cup {"DIRECT"}
      /\ g.name \in NamesOf(BaseGroups(r)) =>
           \E h \in BaseGroups(r) : h.name = g.name /\ g.members \subseteq h.members

LEMMA LeavesAreThere ==
    ASSUME NEW r, NEW n, Leaf(r, n)
    PROVE  n \in NamesOf(BaseGroups(r))
BY DEF Leaf, NamesOf

LEMMA MixedRendered ==
    ASSUME NEW r \in Routers, Valid(r), NEW m, Readable(m),
           m.sound => DOMAIN m.over = {} /\ MixinRefers(m, r)
    PROVE  LET d == Mixed(r, m)
           IN /\ Refers(r, d.groups) /\ NamesOf(BaseGroups(r)) \subseteq NamesOf(d.groups)
              /\ \A rule \in d.rules : rule.to \in NamesOf(d.groups) \cup Outbounds(r) \cup {"DIRECT"}
              /\ Rules(r) \subseteq d.rules
              /\ ApartHere(r, m) => Rendered(r, d.groups)
<1> DEFINE d == Mixed(r, m)
           base == BaseGroups(r)
<1>1. \A g \in base :
        /\ g.use \subseteq Base(r).providers /\ g.name \in NamesOf(base)
        /\ g.members \subseteq NamesOf(base) \cup Outbounds(r) \cup {"DIRECT"}
        /\ g.name # "DIRECT" /\ (NamesApart(r) => g.name \notin Outbounds(r))
  BY BaseUse, BaseMembers, LeavesAreThere, BaseNamesFresh DEF NamesOf
<1>2. Refers(r, base) /\ (NamesApart(r) => Rendered(r, base))
  BY <1>1 DEF Refers, Rendered
<1>3. CASE m \in Mixins /\ m.sound /\ r.mixinOn
  <2> DEFINE added == InFront(m, "groups")
  <2>1. /\ \A g \in added :
             /\ g.use \subseteq Base(r).providers
             /\ g.members \subseteq NamesOf(base) \cup Outbounds(r) \cup {"DIRECT"}
        /\ \A rule \in InFront(m, "rules") :
             rule.to \in NamesOf(base) \cup Outbounds(r) \cup NamesOf(added) \cup {"DIRECT"}
    BY <1>3 DEF MixinRefers
  <2>2. d.groups = added \cup base /\ d.rules = InFront(m, "rules") \cup Rules(r)
    BY <1>3, MixedParts DEF MergedList
  <2>3. \A g \in added : g.name \in NamesOf(added) BY DEF NamesOf
  <2>4. NamesOf(d.groups) = NamesOf(added) \cup NamesOf(base) BY <2>2 DEF NamesOf
  <2>7. ApartHere(r, m) =>
          NamesOf(added) \cap (NamesOf(base) \cup Outbounds(r) \cup {"DIRECT"}) = {}
    <3>1. MergedList(m, "groups", {}) = added BY <1>3 DEF MergedList
    <3> QED BY <1>3, <3>1 DEF ApartHere, MixinApart
  <2> HIDE DEF d, base, added
  <2>5. Refers(r, d.groups) BY <1>2, <2>1, <2>2 DEF Refers, base
  <2>8. ApartHere(r, m) => Rendered(r, d.groups)
    BY <1>2, <2>2, <2>3, <2>7 DEF Rendered, base, ApartHere
  <2>6. \A rule \in d.rules : rule.to \in NamesOf(d.groups) \cup Outbounds(r) \cup {"DIRECT"}
    BY <2>1, <2>2, <2>4, BaseRules DEF base
  <2> QED BY <2>2, <2>4, <2>5, <2>6, <2>8 DEF d, base
<1>4. CASE ~(m \in Mixins /\ m.sound /\ r.mixinOn)
  <2>1. d.groups = base /\ d.rules = Rules(r)
    BY <1>4, MixedParts, NothingMixed DEF Readable
  <2> HIDE DEF d, base
  <2> QED BY <1>2, <2>1, BaseRules DEF d, base, ApartHere
<1> QED BY <1>3, <1>4

(* Nothing leads back to itself.                                           *)
LEMMA NoCircle ==
    ASSUME NEW r \in Routers, Valid(r), NamesApart(r), FileInv, r = router,
           Refers(r, doc.groups), Rendered(r, doc.groups), AllNamed(doc.groups), NEW names \in SUBSET (GroupNames \cap Offered), Circular(names)
    PROVE  FALSE
<1>1. \A g \in doc.groups : GroupNamed(g.name) = g BY DEF AllNamed, GroupNamed
<1>2. ASSUME NEW n \in names
      PROVE  \E g \in doc.groups, h \in BaseGroups(r) :
               /\ h.name = n /\ g.members \subseteq h.members /\ g.members \cap names # {}
  <2>1. PICK g \in doc.groups : g.name = n BY DEF GroupNames, NamesOf
  <2>2. n \in NamesOf(BaseGroups(r))
    BY <2>1 DEF Rendered, Refers, Offered
  <2>3. g.members \cap names # {} BY <1>1, <2>1 DEF Circular
  <2> QED BY <2>1, <2>2, <2>3 DEF Rendered
<1>3. names \cap Outbounds(r) = {} BY DEF Rendered, GroupNames, NamesOf
<1>4. \A n \in names : ~Leaf(r, n)
  <2> SUFFICES ASSUME NEW n \in names, Leaf(r, n) PROVE FALSE
    OBVIOUS
  <2>1. PICK h \in BaseGroups(r) : h.name = n /\ h.members \subseteq Outbounds(r) BY DEF Leaf
  <2>2. \A x \in BaseGroups(r) : x.name = n => x = h BY <2>1, BaseNamesOnce DEF AllNamed
  <2>3. PICK g \in doc.groups, x \in BaseGroups(r) :
          x.name = n /\ g.members \subseteq x.members /\ g.members \cap names # {}
    BY <1>2
  <2>4. x = h BY <2>2, <2>3
  <2> QED BY <1>3, <2>1, <2>3, <2>4
<1>5. names \subseteq {"NetCheckProbe"}
  <2> SUFFICES ASSUME NEW n \in names, n # "NetCheckProbe" PROVE FALSE
    OBVIOUS
  <2>1. PICK g \in doc.groups, h \in BaseGroups(r) :
          h.name = n /\ g.members \subseteq h.members /\ g.members \cap names # {}
    BY <1>2
  <2> QED BY <1>3, <1>4, <2>1, BaseMembers
<1>6. "NetCheckProbe" \in names BY <1>5 DEF Circular
<1>7. PICK g \in doc.groups, h \in BaseGroups(r) :
        /\ h.name = "NetCheckProbe" /\ g.members \subseteq h.members
        /\ g.members \cap names # {}
  BY <1>2, <1>6
<1>8. h.members = {"DIRECT"} \cup GroupsOf(r) \cup Outbounds(r)
  <2>1. ~IsSectionGroup(r, h) BY <1>7, SectionGroupIs, NamesDiffer, Reservations
  <2> QED BY <1>7, <2>1, GroupKinds, SharedGroupIs, Reservations DEF Outbounds
<1>9. "NetCheckProbe" \notin {"DIRECT"} \cup GroupsOf(r) \cup Outbounds(r)
  BY NamesDiffer, Reservations
<1>10. "NetCheckProbe" \in g.members BY <1>5, <1>7
<1> QED BY <1>7, <1>8, <1>9, <1>10

LEMMA FinalFile ==
    ASSUME FileInv, OwnLists
    PROVE  /\ Refers(router, doc.groups)
           /\ NamesOf(BaseGroups(router)) \subseteq GroupNames
           /\ doc.outbounds = Outbounds(router) /\ doc.providers = Base(router).providers
           /\ doc.listeners = Listeners(router) /\ Rules(router) \subseteq doc.rules
           /\ \A rule \in doc.rules : rule.to \in GroupNames \cup doc.outbounds \cup {"DIRECT"}
           /\ Distinct => AllNamed(doc.groups) /\ Rendered(router, doc.groups)
<1> DEFINE u == Mixed(router, mixin)
           o == Overlay(router, u, guard)
<1>1. /\ router \in Routers /\ Valid(router) /\ Readable(mixin)
      /\ doc = Finished(router, mixin, guard)
      /\ mixin.sound => DOMAIN mixin.over = {} /\ MixinRefers(mixin, router)
      /\ Distinct <=> ApartHere(router, mixin)
  BY DEF FileInv, OwnLists, Distinct, ApartHere
<1>2. /\ Refers(router, u.groups) /\ NamesOf(BaseGroups(router)) \subseteq NamesOf(u.groups)
      /\ \A rule \in u.rules :
           rule.to \in NamesOf(u.groups) \cup Outbounds(router) \cup {"DIRECT"}
      /\ Rules(router) \subseteq u.rules
      /\ Distinct => Rendered(router, u.groups)
  BY <1>1, MixedRendered
<1>3. /\ \A g \in u.groups : IsGroup(g)
      /\ Distinct => WellNamed(router, u.groups)
  BY <1>1, MixedShape, MixedWellNamed
<1>4. /\ "groups" \in DOMAIN u /\ doc.groups \in {u.groups, o.groups}
      /\ doc.outbounds = Outbounds(router) /\ doc.providers = Base(router).providers
      /\ doc.listeners = Listeners(router) /\ doc.rules = u.rules
  BY <1>1, FinishedParts, MixedParts
<1>5. /\ NamesOf(u.groups) \subseteq NamesOf(o.groups)
      /\ \A h \in o.groups : \E g \in u.groups :
           /\ h.use = g.use /\ h.members \subseteq g.members
           /\ h.name = g.name \/ h.name \in Shadows(router)
      /\ Distinct => AllNamed(o.groups)
  BY <1>1, <1>3, <1>4, OverlayGroups, OverlayNamed
<1> HIDE DEF u, o
<1>6. Refers(router, o.groups)
  BY <1>2, <1>5 DEF Refers
<1>7. ASSUME Distinct PROVE Rendered(router, o.groups)
  <2> SUFFICES ASSUME NEW h \in o.groups
               PROVE  /\ h.name \notin Outbounds(router) \cup {"DIRECT"}
                      /\ h.name \in NamesOf(BaseGroups(router)) =>
                           \E x \in BaseGroups(router) :
                             x.name = h.name /\ h.members \subseteq x.members
    BY DEF Rendered
  <2>1. PICK g \in u.groups : /\ h.use = g.use /\ h.members \subseteq g.members
                              /\ h.name = g.name \/ h.name \in Shadows(router)
    BY <1>5
  <2>2. Shadows(router) \cap (Outbounds(router) \cup {"DIRECT"}) = {}
    BY <1>1, NamesDiffer, Reservations
  <2>3. Shadows(router) \cap NamesOf(BaseGroups(router)) = {}
    BY <1>1, BaseNamesFresh DEF NamesOf
  <2> QED BY <1>2, <1>7, <2>1, <2>2, <2>3 DEF Rendered
<1>8. Distinct => AllNamed(u.groups) BY <1>3 DEF WellNamed
<1> QED BY <1>2, <1>4, <1>5, <1>6, <1>7, <1>8 DEF GroupNames

LEMMA NamesAreThere == ASSUME FileInv PROVE NamesExist
<1> SUFFICES ASSUME OwnLists
             PROVE  /\ \A g \in doc.groups :
                         /\ g.use \subseteq doc.providers
                         /\ g.members \subseteq GroupNames \cup doc.outbounds \cup {"DIRECT"}
                    /\ \A rule \in doc.rules :
                         rule.to \in GroupNames \cup doc.outbounds \cup {"DIRECT"}
                    /\ \A x \in doc.listeners : \E rule \in doc.rules : rule.from = x
  BY DEF NamesExist
<1>1. \A g \in doc.groups :
        /\ g.use \subseteq doc.providers
        /\ g.members \subseteq GroupNames \cup doc.outbounds \cup {"DIRECT"}
  BY FinalFile DEF Refers
<1>2. \A x \in doc.listeners : \E rule \in doc.rules : rule.from = x
  BY FinalFile, BaseRules
<1> QED BY <1>1, <1>2, FinalFile

LEMMA NamesAreResolved == ASSUME FileInv PROVE NamesResolve
<1> SUFFICES ASSUME OwnLists, Distinct
             PROVE  /\ AllNamed(doc.groups) /\ GroupNames \cap doc.outbounds = {}
                    /\ \A names \in SUBSET (GroupNames \cap Offered) : ~Circular(names)
  BY DEF NamesResolve
<1>1. router \in Routers /\ Valid(router) /\ NamesApart(router)
  BY DEF FileInv, OwnLists, Distinct
<1>2. GroupNames \cap doc.outbounds = {}
  BY FinalFile DEF Rendered, GroupNames, NamesOf
<1>3. \A names \in SUBSET (GroupNames \cap Offered) : ~Circular(names)
  BY <1>1, FinalFile, NoCircle
<1> QED BY <1>2, <1>3, FinalFile

(* MeshExit has VPNs only, besides providers' nodes.                       *)
LEMMA ExitsStay == ASSUME FileInv PROVE ExitsAreOwn
<1> SUFFICES ASSUME OwnLists, Distinct, MeshExitViable(router)
             PROVE  LeadsInto("MeshExit",
                              Offered \ ({"DIRECT"} \cup Friends(router) \cup GroupsOf(router)))
  BY DEF ExitsAreOwn
<1>1. router \in Routers /\ Valid(router) /\ NamesApart(router)
  BY DEF FileInv, OwnLists, Distinct
<1>2. "MeshExit" \in NamesOf(BaseGroups(router)) BY GroupsThere
<1>3. PICK g \in doc.groups : g.name = "MeshExit"
  BY <1>2, FinalFile DEF GroupNames, NamesOf
<1>4. GroupNamed("MeshExit") = g BY <1>3, FinalFile DEF AllNamed, GroupNamed
<1>5. g.members \subseteq ReferencedVPNs(router)
  <2>1. PICK h \in BaseGroups(router) : h.name = "MeshExit" /\ g.members \subseteq h.members
    BY <1>2, <1>3, FinalFile DEF Rendered
  <2>2. ~IsSectionGroup(router, h)
    BY <1>1, <2>1, SectionGroupIs, NamesDiffer, Reservations
  <2> QED BY <2>1, <2>2, GroupKinds, SharedGroupIs, Reservations
<1>6. g.members \cap ({"DIRECT"} \cup Friends(router) \cup GroupsOf(router)) = {}
  BY <1>1, <1>5, NamesDiffer, UsersNamesDiffer, Reservations DEF Outbounds
<1>7. g.members \cap GroupNames = {}
  BY <1>5, FinalFile DEF Rendered, GroupNames, NamesOf, Outbounds
<1>8. g.members \subseteq Offered BY DEF Offered
<1> QED BY <1>4, <1>6, <1>7, <1>8 DEF LeadsInto

(* What is quarantined is left out of its group, and its shadow has it.    *)
LEMMA QuarantineIsKept == ASSUME FileInv PROVE QuarantineHolds
<1> SUFFICES ASSUME stage = "final", Distinct, router.guardOn, "groups" \notin doc.odd,
                    NEW g \in Unguarded.groups, g.name \in ManagedGroups(router)
             PROVE  /\ Egresses(GroupNamed(g.name)) = Egresses(g) \ Quarantined(guard, g.name)
                    /\ Candidate(g.name) \in GroupNames
                    /\ Egresses(GroupNamed(Candidate(g.name))) = Egresses(g)
  BY DEF QuarantineHolds
<1> DEFINE u == Mixed(router, mixin)
           w == WithoutBad(guard, g)
           s == Shadow(g)
<1>1. /\ router \in Routers /\ Valid(router) /\ Readable(mixin)
      /\ doc = Finished(router, mixin, guard) /\ Unguarded = u /\ ApartHere(router, mixin)
  BY DEF FileInv, Unguarded, Mixed, Distinct, ApartHere
<1>2. WellNamed(router, u.groups) /\ "groups" \in DOMAIN u /\ IsGroup(g)
  BY <1>1, MixedWellNamed, FinishedParts DEF WellNamed
<1>3. doc.groups = Overlay(router, u, guard).groups
  BY <1>1, FinishedParts
<1>4. AllNamed(doc.groups) /\ w \in doc.groups /\ s \in doc.groups
  BY <1>1, <1>2, <1>3, OverlayNamed
<1>5. /\ w.name = g.name /\ w.use = g.use /\ w.members = g.members \ Quarantined(guard, g.name)
      /\ w.skip = g.skip \cup Quarantined(guard, g.name)
      /\ s.name = Candidate(g.name) /\ s.use = g.use /\ s.members = g.members
      /\ s.skip = g.skip
  BY <1>2, GuardedGroupIs
<1> HIDE DEF u, w, s
<1>6. GroupNamed(g.name) = w /\ GroupNamed(Candidate(g.name)) = s
  BY <1>4, <1>5 DEF AllNamed, GroupNamed
<1>7. Egresses(w) = Egresses(g) \ Quarantined(guard, g.name) /\ Egresses(s) = Egresses(g)
  BY <1>5 DEF Egresses
<1> QED BY <1>4, <1>5, <1>6, <1>7 DEF GroupNames, NamesOf

(* RoutesAreSound: every name in the file is there, and if the user's      *)
(* differ stands for one thing, friends' traffic leaves by own exits, and  *)
(* the guard's decisions hold, whatever is switched on and off and         *)
(* whatever the mixin adds (mihomo.go, mesh.go, mihomo_mixin.go,           *)
(* mihomo_guard.go).                                                       *)
THEOREM RoutesSound == MihomoSpec => []RoutesAreSound
<1>1. FileInv => RoutesAreSound
  BY NamesAreThere, NamesAreResolved, ExitsStay, QuarantineIsKept DEF RoutesAreSound
<1> QED BY <1>1, FileAlways, PTL

-----------------------------------------------------------------------------
(* Numbers and sequences                                                   *)

LEMMA LeastNatural ==
    ASSUME NEW S, S \subseteq Nat, S # {}
    PROVE  \E n \in S : \A m \in S : n <= m
<1> DEFINE R == OpToRel(<, Nat)
<1>1. IsWellFoundedOn(R, Nat) BY NatLessThanWellFounded
<1>2. \A x \in Nat : \A y \in Nat : x < y => <<x, y>> \in R BY DEF OpToRel
<1> HIDE DEF R
<1>3. PICK n \in S : \A m \in S : <<m, n>> \notin R BY <1>1, WFMin
<1>4. ASSUME NEW m \in S PROVE n <= m
  <2>1. m \in Nat /\ n \in Nat /\ ~(m < n) BY <1>2, <1>3
  <2> QED BY <2>1
<1> QED BY <1>4

(* What holds at first and is kept by each step holds after all of them.   *)
LEMMA EachStep ==
    ASSUME NEW n \in Nat, NEW good \in SUBSET (0..n), 0 \in good,
           \A k \in 0..n : k \in good /\ k # n => k + 1 \in good
    PROVE  good = 0..n
<1> DEFINE bad == (0..n) \ good
<1>0. bad \subseteq Nat OBVIOUS
<1>1. ASSUME bad # {} PROVE FALSE
  <2> HIDE DEF bad
  <2>1. PICK m \in bad : \A k \in bad : m <= k BY <1>0, <1>1, LeastNatural
  <2> USE DEF bad
  <2>2. m \in Nat /\ m # 0 /\ m <= n OBVIOUS
  <2>3. m - 1 \in 0..n /\ m - 1 # n /\ (m - 1) + 1 = m BY <2>2
  <2>4. m - 1 \in good BY <2>1, <2>3
  <2> QED BY <2>3, <2>4
<1> QED BY <1>1

LEMMA AppendIs ==
    ASSUME NEW S, NEW s \in Seq(S), NEW x \in S
    PROVE  /\ Append(s, x) \in Seq(S) /\ Len(Append(s, x)) = Len(s) + 1
           /\ Len(s) \in Nat /\ DOMAIN s = 1..Len(s) /\ DOMAIN Append(s, x) = 1..(Len(s) + 1)
           /\ \A i \in DOMAIN s : i \in DOMAIN Append(s, x) /\ Append(s, x)[i] = s[i]
           /\ Len(s) + 1 \in DOMAIN Append(s, x) /\ Append(s, x)[Len(s) + 1] = x
OBVIOUS

LEMMA IsASeq ==
    ASSUME NEW S, NEW n \in Nat, NEW f \in [1..n -> S]
    PROVE  f \in Seq(S)
OBVIOUS

LEMMA ReplaceIs ==
    ASSUME NEW S, NEW s \in Seq(S), NEW i \in DOMAIN s, NEW x \in S
    PROVE  /\ [s EXCEPT ![i] = x] \in Seq(S) /\ DOMAIN [s EXCEPT ![i] = x] = DOMAIN s
           /\ Len([s EXCEPT ![i] = x]) = Len(s) /\ [s EXCEPT ![i] = x][i] = x
           /\ \A j \in DOMAIN s : j # i => [s EXCEPT ![i] = x][j] = s[j]
OBVIOUS

-----------------------------------------------------------------------------
(* Types                                                                   *)

Subscription == [name : PanelUrls, url : PanelUrls, only : {"all", "nodes", "rules"},
                 lowRules : BOOLEAN, tuned : BOOLEAN]
(* A provider's name tells whether it is read from a profile's file.       *)
FromProfile == [name : {<<<<u, "nodes">>, 1>> : u \in PanelUrls}, url : {NoUrl}, on : BOOLEAN]
FromAddress == [name : {<<<<"main", "">>, k>> : k \in Nat}, url : PanelUrls, on : BOOLEAN]
Proxy == FromProfile \cup FromAddress
(* The words of this module are strings; the provers do not know it.       *)
Words == STRING \cup {"", "rules", "native", "common", "media", "ai", "direct", "phone",
                      "imported", "dev", NoLabel, Exclude} \cup SectionTypes
List == [name : (Words \X Words) \X Nat, url : Words, section : Words,
         enabled : BOOLEAN, ownSection : BOOLEAN]
Served == [name : Words, url : Words, class : Words, target : Words]

LEMMA WordsAre ==
    /\ STRING \subseteq Words /\ PanelUrls \subseteq Words /\ NativeLists \subseteq Words
    /\ {"", "rules", "native", "common", "media", "ai", "direct"} \subseteq Words
BY ImportAssumption DEF Words, ImportAssumption

LEMMA ServedIs ==
    ASSUME NEW answer \in PanelAnswers
    PROVE  /\ Len(answer.lists) \in Nat /\ DOMAIN answer.lists = 1..Len(answer.lists)
           /\ \A i \in DOMAIN answer.lists : answer.lists[i] \in Served
           /\ answer.lists # <<>> => 1 \in DOMAIN answer.lists
<1> DEFINE Entries == [name : STRING, url : STRING, class : STRING, target : STRING]
<1>1. answer.lists \in Seq(Entries) BY ImportAssumption DEF ImportAssumption
<1>2. Entries \subseteq Served
  <2>1. STRING \subseteq Words BY WordsAre
  <2> QED BY <2>1 DEF Served
<1> HIDE DEF Entries
<1>3. \A i \in DOMAIN answer.lists : answer.lists[i] \in Entries BY <1>1
<1> QED BY <1>1, <1>2, <1>3

LEMMA ProxyKinds ==
    ASSUME NEW p \in FromProfile, NEW q \in FromAddress
    PROVE  p.name # q.name /\ p.url = NoUrl /\ q.url \in PanelUrls /\ q.url # NoUrl
<1>1. PICK u \in PanelUrls : p.name = <<<<u, "nodes">>, 1>> BY DEF FromProfile
<1>2. PICK k \in Nat : q.name = <<<<"main", "">>, k>> BY DEF FromAddress
<1>3. p.name # q.name
  <2>1. <<u, "nodes">> # <<"main", "">> OBVIOUS
  <2> DEFINE a == <<u, "nodes">>
             b == <<"main", "">>
  <2>2. a # b BY <2>1
  <2> HIDE DEF a, b
  <2>3. <<a, 1>> # <<b, k>> BY <2>2
  <2> QED BY <1>1, <1>2, <2>3 DEF a, b
<1>4. p.url = NoUrl /\ q.url \in PanelUrls BY DEF FromProfile, FromAddress
<1>5. q.url # NoUrl BY <1>4, ImportAssumption DEF ImportAssumption
<1> QED BY <1>3, <1>4, <1>5

-----------------------------------------------------------------------------
(* Merging one entry                                                       *)

LEMMA FirstHitIs ==
    ASSUME NEW S, NEW list \in Seq(S), NEW new, Hits(list, new) # {}
    PROVE  FirstHit(list, new) \in DOMAIN list /\ SameEntry(list[FirstHit(list, new)], new)
<1>1. DOMAIN list \subseteq Nat OBVIOUS
<1>2. \E i \in Hits(list, new) : \A j \in Hits(list, new) : i <= j
  BY <1>1, LeastNatural DEF Hits
<1>3. FirstHit(list, new) \in Hits(list, new) BY <1>2 DEF FirstHit
<1> QED BY <1>3 DEF Hits

(* The list with the entry put at its end, or in the place of one.         *)
Appended(list, new, out) ==
    /\ Hits(list, new) = {} /\ DOMAIN out = DOMAIN list \cup {Len(list) + 1}
    /\ out[Len(list) + 1] = new /\ \A i \in DOMAIN list : out[i] = list[i]
ReplacedAt(h, list, new, out) ==
    /\ SameEntry(list[h], new) /\ DOMAIN out = DOMAIN list
    /\ out[h] = new /\ \A i \in DOMAIN list : i # h => out[i] = list[i]

LEMMA UpsertIs ==
    ASSUME NEW S, NEW list \in Seq(S), NEW new \in S, NEW out, out = UpsertEntry(list, new)
    PROVE  /\ out \in Seq(S) /\ DOMAIN list \subseteq DOMAIN out
           /\ Appended(list, new, out) \/ \E h \in DOMAIN list : ReplacedAt(h, list, new, out)
<1>1. CASE Hits(list, new) = {}
  <2>1. out = Append(list, new) BY <1>1 DEF UpsertEntry
  <2> QED BY <1>1, <2>1, AppendIs DEF Appended
<1>2. CASE Hits(list, new) # {}
  <2>1. out = [list EXCEPT ![FirstHit(list, new)] = new]
    BY <1>2 DEF UpsertEntry
  <2>2. FirstHit(list, new) \in DOMAIN list /\ SameEntry(list[FirstHit(list, new)], new)
    BY <1>2, FirstHitIs
  <2> QED BY <2>1, <2>2, ReplaceIs DEF ReplacedAt
<1> QED BY <1>1, <1>2

DistinctNames(list) == \A i, j \in DOMAIN list : list[i].name = list[j].name => i = j
FreshIn(list, name) == \A i \in DOMAIN list : list[i].name # name

LEMMA UpsertProxy ==
    ASSUME NEW list \in Seq(Proxy), DistinctNames(list), NEW new \in Proxy,
           new \in FromProfile \/ FreshIn(list, new.name),
           NEW out, out = UpsertEntry(list, new)
    PROVE  /\ out \in Seq(Proxy) /\ DistinctNames(out)
           /\ \A i \in DOMAIN list : list[i].url # NoUrl =>
                \E j \in DOMAIN out : out[j].url = list[i].url
           /\ \A j \in DOMAIN out : out[j] = new \/ \E i \in DOMAIN list : out[j] = list[i]
<1>1. /\ Len(list) \in Nat /\ DOMAIN list = 1..Len(list)
      /\ \A i \in DOMAIN list : list[i] \in Proxy
  OBVIOUS
<1>2. out \in Seq(Proxy) BY UpsertIs
<1>3. CASE Appended(list, new, out)
  <2>1. \A i \in DOMAIN list : list[i].name # new.name
    BY <1>3 DEF Appended, Hits, SameEntry
  <2>2. DistinctNames(out) BY <1>3, <2>1 DEF Appended, DistinctNames
  <2> QED BY <1>2, <1>3, <2>2 DEF Appended
<1>4. ASSUME NEW h \in DOMAIN list, ReplacedAt(h, list, new, out)
      PROVE  /\ DistinctNames(out)
             /\ \A i \in DOMAIN list : list[i].url # NoUrl =>
                  \E j \in DOMAIN out : out[j].url = list[i].url
             /\ \A j \in DOMAIN out : out[j] = new \/ \E i \in DOMAIN list : out[j] = list[i]
  <2> USE <1>4 DEF ReplacedAt
  <2>1. CASE new \in FromProfile
    <3>1. new.url = NoUrl BY <2>1 DEF FromProfile
    <3>2. list[h].name = new.name BY <3>1 DEF SameEntry
    <3>3. list[h].url = NoUrl
      <4>1. list[h] \notin FromAddress BY <2>1, <3>2, ProxyKinds
      <4>2. list[h] \in FromProfile BY <1>1, <4>1 DEF Proxy
      <4> QED BY <4>2 DEF FromProfile
    <3>4. DistinctNames(out) BY <3>2 DEF DistinctNames
    <3> QED BY <3>3, <3>4
  <2>2. CASE FreshIn(list, new.name)
    <3>1. list[h].url = new.url BY <2>2 DEF SameEntry, FreshIn
    <3>2. DistinctNames(out) BY <2>2 DEF DistinctNames, FreshIn
    <3> QED BY <3>1, <3>2
  <2> QED BY <2>1, <2>2
<1> QED BY <1>2, <1>3, <1>4, UpsertIs

(* A rule list keeps what the user decided, wherever an entry is merged.   *)
ListsKept(old, new) ==
    \A i \in DOMAIN old :
      /\ i \in DOMAIN new /\ (~old[i].enabled => ~new[i].enabled)
      /\ old[i].ownSection => new[i].ownSection /\ new[i].section = old[i].section

LEMMA MergedListIs ==
    ASSUME NEW old \in List, NEW new \in List
    PROVE  /\ MergeRuleList(old, new) \in List
           /\ MergeRuleList(old, new).name = new.name /\ MergeRuleList(old, new).url = new.url
           /\ MergeRuleList(old, new).enabled = old.enabled
           /\ MergeRuleList(old, new).ownSection = old.ownSection
           /\ old.ownSection => MergeRuleList(old, new).section = old.section
BY DEF MergeRuleList, List

LEMMA UpsertList ==
    ASSUME NEW list \in Seq(List), NEW new \in List
    PROVE  LET out == UpsertRuleList(list, new)
           IN /\ out \in Seq(List) /\ ListsKept(list, out)
              /\ \A j \in DOMAIN out : \/ out[j].name = new.name /\ out[j].url = new.url
                                       \/ \E i \in DOMAIN list : out[j] = list[i]
<1>1. /\ Len(list) \in Nat /\ DOMAIN list = 1..Len(list)
      /\ \A i \in DOMAIN list : list[i] \in List
  OBVIOUS
<1>2. CASE Hits(list, new) = {}
  <2>1. UpsertRuleList(list, new) = Append(list, new) BY <1>2 DEF UpsertRuleList
  <2>2. \A j \in DOMAIN Append(list, new) :
          Append(list, new)[j] = new \/ \E i \in DOMAIN list : Append(list, new)[j] = list[i]
    BY AppendIs
  <2> QED BY <2>1, <2>2, AppendIs DEF ListsKept
<1>3. CASE Hits(list, new) # {}
  <2> DEFINE h == FirstHit(list, new)
             merged == MergeRuleList(list[h], new)
  <2>1. UpsertRuleList(list, new) = [list EXCEPT ![h] = merged] BY <1>3 DEF UpsertRuleList
  <2>2. h \in DOMAIN list BY <1>3, FirstHitIs
  <2>3. /\ merged \in List /\ merged.name = new.name /\ merged.url = new.url
        /\ merged.enabled = list[h].enabled /\ merged.ownSection = list[h].ownSection
        /\ list[h].ownSection => merged.section = list[h].section
    BY <1>1, <2>2, MergedListIs
  <2> HIDE DEF h, merged
  <2> QED BY <2>1, <2>2, <2>3, ReplaceIs DEF ListsKept
<1> QED BY <1>2, <1>3

-----------------------------------------------------------------------------
(* Merging a plan's rule lists, one after the other                        *)

ListsBy(list, planned, n, f) ==
    f = [k \in 0..n |-> IF k = 0 THEN list ELSE UpsertRuleList(f[k - 1], planned[k])]

LEMMA ListsExist ==
    ASSUME NEW list, NEW planned, NEW n \in Nat
    PROVE  \E f : ListsBy(list, planned, n, f)
<1> DEFINE good == {k \in 0..n : \E f : ListsBy(list, planned, k, f)}
<1>1. 0 \in good
  <2>1. ListsBy(list, planned, 0, [k \in 0..0 |-> list]) BY DEF ListsBy
  <2> QED BY <2>1
<1>2. ASSUME NEW k \in 0..n, k \in good, k # n PROVE k + 1 \in good
  <2>1. PICK f : ListsBy(list, planned, k, f) BY <1>2
  <2> DEFINE Step(j, g) == IF j = 0 THEN list ELSE UpsertRuleList(g[j - 1], planned[j])
             h == [j \in 0..(k + 1) |-> IF j = k + 1 THEN Step(j, f) ELSE f[j]]
  <2>2. \A j \in 0..(k + 1) : Step(j, h) = Step(j, f)
    <3> SUFFICES ASSUME NEW j \in 0..(k + 1), j # 0 PROVE Step(j, h) = Step(j, f) OBVIOUS
    <3>1. j - 1 \in 0..(k + 1) /\ j - 1 # k + 1 OBVIOUS
    <3>2. h[j - 1] = f[j - 1] BY <3>1
    <3> QED BY <3>2
  <2>3. f = [j \in 0..k |-> Step(j, f)] BY <2>1 DEF ListsBy
  <2>4. \A j \in 0..k : f[j] = Step(j, f)
    <3> HIDE DEF Step
    <3> QED BY <2>3
  <2>5. h = [j \in 0..(k + 1) |-> Step(j, h)]
    <3> HIDE DEF Step
    <3>1. \A j \in 0..(k + 1) : j # k + 1 => j \in 0..k OBVIOUS
    <3>2. \A j \in 0..(k + 1) : h[j] = Step(j, h) BY <2>2, <2>4, <3>1
    <3> QED BY <3>2
  <2>6. ListsBy(list, planned, k + 1, h) BY <2>5 DEF ListsBy
  <2> HIDE DEF h
  <2>7. k + 1 \in 0..n BY <1>2
  <2> QED BY <2>6, <2>7
<1>3. good = 0..n
  <2> HIDE DEF good
  <2>1. good \in SUBSET (0..n) BY DEF good
  <2> QED BY <1>1, <1>2, <2>1, EachStep
<1> QED BY <1>3

(* The files of the lists that no URL can bring back are there.            *)
ListsOnDisk(list, files) ==
    \A i \in DOMAIN list : list[i].url = NoUrl => <<"rulesets", list[i].name>> \in files

LEMMA UpsertLists ==
    ASSUME NEW list \in Seq(List), NEW planned \in Seq(List), NEW files,
           ListsOnDisk(list, files), ListsOnDisk(planned, files)
    PROVE  /\ UpsertRuleLists(list, planned) \in Seq(List)
           /\ ListsKept(list, UpsertRuleLists(list, planned))
           /\ ListsOnDisk(UpsertRuleLists(list, planned), files)
<1> DEFINE n == Len(planned)
           Right(l) == l \in Seq(List) /\ ListsKept(list, l) /\ ListsOnDisk(l, files)
<1>1. n \in Nat /\ DOMAIN planned = 1..n /\ \A k \in 1..n : planned[k] \in List OBVIOUS
<1> HIDE DEF n
<1>2. PICK f : ListsBy(list, planned, n, f) /\ UpsertRuleLists(list, planned) = f[n]
  <2>1. \E f : ListsBy(list, planned, n, f) BY <1>1, ListsExist
  <2> QED BY <2>1 DEF ListsBy, UpsertRuleLists, n
<1>3. f[0] = list /\ \A k \in 1..n : f[k] = UpsertRuleList(f[k - 1], planned[k])
  BY <1>1, <1>2 DEF ListsBy
<1> DEFINE good == {k \in 0..n : Right(f[k])}
<1>4. 0 \in good BY <1>1, <1>3 DEF ListsKept
<1>5. ASSUME NEW k \in 0..n, k \in good, k # n PROVE k + 1 \in good
  <2>1. k + 1 \in 1..n /\ (k + 1) - 1 = k BY <1>1, <1>5
  <2>2. f[k + 1] = UpsertRuleList(f[k], planned[k + 1]) BY <1>3, <2>1
  <2>3. Right(f[k]) /\ planned[k + 1] \in List /\ k + 1 \in DOMAIN planned
    BY <1>1, <1>5, <2>1
  <2> DEFINE l == f[k]
             new == planned[k + 1]
             out == UpsertRuleList(l, new)
  <2>4. new.url = NoUrl => <<"rulesets", new.name>> \in files
    BY <2>3 DEF ListsOnDisk
  <2>5. /\ out \in Seq(List) /\ ListsKept(l, out)
        /\ \A j \in DOMAIN out : \/ out[j].name = new.name /\ out[j].url = new.url
                                 \/ \E i \in DOMAIN l : out[j] = l[i]
    BY <2>3, UpsertList
  <2> HIDE DEF l, new, out
  <2>6. ListsKept(list, l) /\ ListsOnDisk(l, files) BY <2>3 DEF l
  <2>7. ListsKept(list, out) BY <2>5, <2>6 DEF ListsKept
  <2>8. ListsOnDisk(out, files) BY <2>4, <2>5, <2>6 DEF ListsOnDisk
  <2>9. Right(f[k + 1]) BY <2>2, <2>5, <2>7, <2>8 DEF l, new, out
  <2> QED BY <2>1, <2>9
<1>6. good = 0..n
  <2> HIDE DEF good
  <2>1. good \in SUBSET (0..n) BY DEF good
  <2> QED BY <1>1, <1>4, <1>5, <2>1, EachStep
<1>7. n \in good BY <1>1, <1>6
<1> QED BY <1>2, <1>7

-----------------------------------------------------------------------------
(* Plans                                                                   *)

(* A list with n entries leaves one of n + 1 names free.                   *)
LEMMA FreshNameIs ==
    ASSUME NEW S, NEW list \in Seq(S), NEW base
    PROVE  /\ \E k \in Nat : FreshName(base, list) = <<base, k>>
           /\ FreshIn(list, FreshName(base, list))
<1> DEFINE n == Len(list)
           free == {k \in 1..(n + 1) : \A i \in DOMAIN list : list[i].name # <<base, k>>}
           least == CHOOSE k \in free : \A j \in free : k <= j
<1>1. n \in Nat /\ DOMAIN list = 1..n OBVIOUS
<1> HIDE DEF n
<1>2. ASSUME free = {} PROVE FALSE
  <2> DEFINE holder == [k \in 1..(n + 1) |-> CHOOSE i \in 1..n : list[i].name = <<base, k>>]
  <2>1. \A k \in 1..(n + 1) : \E i \in 1..n : list[i].name = <<base, k>> BY <1>1, <1>2
  <2>2. \A k \in 1..(n + 1) : holder[k] \in 1..n /\ list[holder[k]].name = <<base, k>>
    BY <2>1
  <2>3. holder \in [1..(n + 1) -> 1..n] BY <2>2
  <2>4. /\ IsFiniteSet(1..(n + 1)) /\ IsFiniteSet(1..n)
        /\ Cardinality(1..n) < Cardinality(1..(n + 1))
    <3>1. ASSUME NEW m \in Nat PROVE IsFiniteSet(1..m) /\ Cardinality(1..m) = m
      <4>1. IsFiniteSet(1..m) /\ Cardinality(1..m) = IF 1 > m THEN 0 ELSE m - 1 + 1
        BY FS_Interval
      <4> QED BY <4>1
    <3>2. n + 1 \in Nat /\ n < n + 1 BY <1>1
    <3> QED BY <1>1, <3>1, <3>2
  <2> HIDE DEF holder
  <2>5. PICK x, y \in 1..(n + 1) : x # y /\ holder[x] = holder[y]
    BY <2>3, <2>4, FS_PigeonHole
  <2>6. <<base, x>> = <<base, y>> BY <2>2, <2>5
  <2> QED BY <2>5, <2>6
<1>3. free \subseteq Nat OBVIOUS
<1>4. least \in free
  <2> HIDE DEF free
  <2>1. \E k \in free : \A j \in free : k <= j BY <1>2, <1>3, LeastNatural
  <2> QED BY <2>1
<1>5. FreshName(base, list) = <<base, least>> BY DEF FreshName, n
<1> HIDE DEF least
<1> QED BY <1>3, <1>4, <1>5 DEF FreshIn

(* A plan that can be merged into c: its entries are typed, its proxy      *)
(* provider takes no other's name, and its files are written with it.      *)
ProxyFits(c, p, files) ==
    /\ p \in Proxy
    /\ p \in FromProfile \/ FreshIn(c.pps, p.name)
    /\ p.url = NoUrl => <<"providers", p.name>> \in files
PlanFits(c, plan) ==
    /\ plan.pps = <<>> \/ ProxyFits(c, plan.pps[1], plan.files)
    /\ plan.rps \in Seq(List) /\ ListsOnDisk(plan.rps, plan.files)

LEMMA SectionIs ==
    ASSUME NEW answer, NEW l \in Served
    PROVE  SectionOfList(answer, l) \in Words
<1>1. l.class \in Words /\ l.target \in Words BY DEF Served
<1>2. "common" \in Words /\ "media" \in Words /\ "direct" \in Words BY WordsAre
<1>3. SectionOfGroup(l.target) \in Words BY <1>1, <1>2 DEF SectionOfGroup, SectionOfWords
<1> DEFINE told == \E g \in ToSet(answer.groups) : g.name = l.target
<1>4. SectionOfList(answer, l) = CASE l.target = NoTarget -> l.class
                                   [] l.target = "DIRECT" -> "direct"
                                   [] told -> SectionOfGroup(l.target)
                                   [] OTHER -> SectionOfWords(l.target)
  BY DEF SectionOfList
<1>5. SectionOfWords(l.target) \in Words BY <1>2 DEF SectionOfWords
<1> HIDE DEF told
<1> QED BY <1>1, <1>2, <1>3, <1>4, <1>5

LEMMA ListIs ==
    ASSUME NEW name \in (Words \X Words) \X Nat, NEW url \in Words, NEW section \in Words
    PROVE  RuleList(name, url, section) \in List
BY DEF RuleList, List

LEMMA ProfileFits ==
    ASSUME NEW c, NEW sub \in Subscription, NEW part, NEW answer \in PanelAnswers
    PROVE  PlanFits(c, DecomposeYAMLProfile(sub, part, answer))
<1> DEFINE plan == DecomposeYAMLProfile(sub, part, answer)
<1> DEFINE n == Len(answer.lists)
<1>1. sub.name \in PanelUrls BY DEF Subscription
<1>2. /\ n \in Nat /\ DOMAIN answer.lists = 1..n
      /\ \A i \in 1..n : answer.lists[i] \in Served
  BY ServedIs
<1>3. /\ plan.files = PlanFiles(sub, answer)
      /\ plan.pps = IF answer.nodes /\ part # "rules"
                    THEN <<[name |-> <<<<sub.name, "nodes">>, 1>>, url |-> NoUrl, on |-> TRUE]>>
                    ELSE <<>>
      /\ plan.rps = IF part # "nodes"
                    THEN [i \in DOMAIN answer.lists |->
                            RuleList(<<<<answer.lists[i].name, "">>, 1>>, answer.lists[i].url,
                                     SectionOfList(answer, answer.lists[i]))]
                    ELSE <<>>
  BY DEF DecomposeYAMLProfile
<1> HIDE DEF plan, n
<1>4. plan.pps = <<>> \/ ProxyFits(c, plan.pps[1], plan.files)
  <2> SUFFICES ASSUME plan.pps # <<>> PROVE ProxyFits(c, plan.pps[1], plan.files) OBVIOUS
  <2> DEFINE p == [name |-> <<<<sub.name, "nodes">>, 1>>, url |-> NoUrl, on |-> TRUE]
  <2>1. answer.nodes /\ plan.pps = <<p>> BY <1>3
  <2>2. p \in FromProfile BY <1>1 DEF FromProfile
  <2>3. <<"providers", p.name>> \in plan.files BY <1>3, <2>1 DEF PlanFiles
  <2> HIDE DEF p
  <2> QED BY <2>1, <2>2, <2>3 DEF ProxyFits, Proxy
<1>5. plan.rps \in Seq(List) /\ ListsOnDisk(plan.rps, plan.files)
  <2>1. CASE part = "nodes" BY <1>3, <2>1 DEF ListsOnDisk
  <2>2. CASE part # "nodes"
    <3> DEFINE entry(i) == RuleList(<<<<answer.lists[i].name, "">>, 1>>, answer.lists[i].url,
                                    SectionOfList(answer, answer.lists[i]))
    <3>1. plan.rps = [i \in 1..n |-> entry(i)] BY <1>2, <1>3, <2>2
    <3>2. ASSUME NEW i \in 1..n
          PROVE  /\ entry(i) \in List
                 /\ entry(i).url = NoUrl => <<"rulesets", entry(i).name>> \in plan.files
      <4>1. answer.lists[i] \in Served /\ i \in DOMAIN answer.lists BY <1>2
      <4>2. entry(i) \in List
        <5>1. /\ SectionOfList(answer, answer.lists[i]) \in Words /\ "" \in Words
              /\ answer.lists[i].name \in Words /\ answer.lists[i].url \in Words
          BY <4>1, SectionIs, WordsAre DEF Served
        <5>2. <<<<answer.lists[i].name, "">>, 1>> \in (Words \X Words) \X Nat BY <5>1
        <5> QED BY <5>1, <5>2, ListIs
      <4>3. /\ entry(i).url = answer.lists[i].url
            /\ entry(i).name = <<<<answer.lists[i].name, "">>, 1>>
        BY DEF RuleList
      <4>4. answer.lists[i] \in ToSet(answer.lists) BY <4>1 DEF ToSet
      <4>5. entry(i).url = NoUrl => <<"rulesets", entry(i).name>> \in plan.files
        BY <1>3, <4>3, <4>4 DEF PlanFiles
      <4> QED BY <4>2, <4>5
    <3> HIDE DEF entry
    <3>3. plan.rps \in Seq(List)
      <4>1. plan.rps \in [1..n -> List] BY <3>1, <3>2
      <4> QED BY <1>2, <4>1, IsASeq
    <3>4. ListsOnDisk(plan.rps, plan.files) BY <3>1, <3>2 DEF ListsOnDisk
    <3> QED BY <3>3, <3>4
  <2> QED BY <2>1, <2>2
<1> QED BY <1>4, <1>5 DEF PlanFits, plan

LEMMA PlainFits ==
    ASSUME NEW c, c.pps \in Seq(Proxy), c.rps \in Seq(List), NEW sub \in Subscription,
           NEW part, NEW answer \in PanelAnswers
    PROVE  PlanFits(c, PlanPlain(c, sub, part, answer))
<1> DEFINE plan == PlanPlain(c, sub, part, answer)
<1>1. /\ sub.name \in Words /\ "rules" \in Words /\ sub.url \in PanelUrls
      /\ sub.url \in Words /\ sub.url # NoUrl
  BY WordsAre, ImportAssumption DEF ImportAssumption, Subscription
<1> DEFINE p == [name |-> FreshName(<<"main", "">>, c.pps), url |-> sub.url, on |-> TRUE]
           l == RuleList(FreshName(<<sub.name, "rules">>, c.rps), sub.url, answer.lists[1].class)
<1>2. /\ plan.pps = <<>> \/ plan.pps = <<p>>
      /\ plan.rps = <<>> \/ (plan.rps = <<l>> /\ answer.lists # <<>>)
  BY DEF PlanPlain, Nothing
<1>3. ProxyFits(c, p, plan.files)
  <2>1. /\ \E k \in Nat : p.name = <<<<"main", "">>, k>>
        /\ FreshIn(c.pps, p.name)
    BY FreshNameIs
  <2>2. p \in FromAddress BY <1>1, <2>1 DEF FromAddress
  <2>3. p.url # NoUrl BY <1>1
  <2> HIDE DEF p
  <2> QED BY <2>1, <2>2, <2>3 DEF ProxyFits, Proxy
<1>4. ASSUME answer.lists # <<>> PROVE l \in List /\ l.url # NoUrl
  <2>1. answer.lists[1].class \in Words
    <3>1. answer.lists[1] \in Served BY <1>4, ServedIs
    <3> QED BY <3>1 DEF Served
  <2>2. PICK k \in Nat : FreshName(<<sub.name, "rules">>, c.rps) = <<<<sub.name, "rules">>, k>>
    BY FreshNameIs
  <2>3. <<<<sub.name, "rules">>, k>> \in (Words \X Words) \X Nat BY <1>1
  <2>4. l.url = sub.url BY DEF RuleList
  <2> QED BY <1>1, <2>1, <2>2, <2>3, <2>4, ListIs
<1> HIDE DEF p, l, plan
<1>5. plan.pps = <<>> \/ ProxyFits(c, plan.pps[1], plan.files) BY <1>2, <1>3
<1>6. plan.rps \in Seq(List) /\ ListsOnDisk(plan.rps, plan.files)
  <2>1. CASE plan.rps = <<>> BY <2>1 DEF ListsOnDisk
  <2>2. CASE plan.rps = <<l>> /\ answer.lists # <<>> BY <1>4, <2>2 DEF ListsOnDisk
  <2> QED BY <1>2, <2>1, <2>2
<1> QED BY <1>5, <1>6 DEF PlanFits, plan

LEMMA ImportFits ==
    ASSUME NEW c, c.pps \in Seq(Proxy), c.rps \in Seq(List), NEW sub \in Subscription,
           NEW answer \in PanelAnswers
    PROVE  PlanFits(c, PlanImport(c, sub, answer))
BY ProfileFits, PlainFits DEF PlanImport

-----------------------------------------------------------------------------
(* Merging a plan, and a refresh                                           *)

ProxiesOnDisk(list, files) ==
    \A i \in DOMAIN list : list[i].url = NoUrl => <<"providers", list[i].name>> \in files

(* A configuration every entry of which can be loaded, given the files.    *)
Good(c, files) ==
    /\ c = [subs |-> c.subs, pps |-> c.pps, rps |-> c.rps, secs |-> c.secs, low |-> c.low]
    /\ c.subs \in Seq(Subscription) /\ c.pps \in Seq(Proxy) /\ c.rps \in Seq(List)
    /\ DistinctNames(c.pps)
    /\ ProxiesOnDisk(c.pps, files) /\ ListsOnDisk(c.rps, files)

(* What the user decided in c is still so in d.                            *)
UrlsKept(old, new) ==
    \A i \in DOMAIN old : old[i].url # NoUrl => \E j \in DOMAIN new : new[j].url = old[i].url
OwnKept(old, new) ==
    \A s \in DOMAIN old : s \in DOMAIN new /\ (old[s].own => new[s] = old[s])
Kept(c, d) ==
    /\ DOMAIN c.subs \subseteq DOMAIN d.subs
    /\ UrlsKept(c.pps, d.pps) /\ ListsKept(c.rps, d.rps) /\ OwnKept(c.secs, d.secs)

LEMMA KeptIsTransitive ==
    ASSUME NEW c, NEW d, NEW e, Kept(c, d), Kept(d, e)
    PROVE  Kept(c, e)
<1>1. UrlsKept(c.pps, e.pps)
  <2> SUFFICES ASSUME NEW i \in DOMAIN c.pps, c.pps[i].url # NoUrl
               PROVE  \E j \in DOMAIN e.pps : e.pps[j].url = c.pps[i].url
    BY DEF UrlsKept
  <2>1. PICK k \in DOMAIN d.pps : d.pps[k].url = c.pps[i].url BY DEF Kept, UrlsKept
  <2>2. \E j \in DOMAIN e.pps : e.pps[j].url = d.pps[k].url BY <2>1 DEF Kept, UrlsKept
  <2> QED BY <2>1, <2>2
<1>2. ListsKept(c.rps, e.rps) BY DEF Kept, ListsKept
<1>3. OwnKept(c.secs, e.secs) BY DEF Kept, OwnKept
<1> QED BY <1>1, <1>2, <1>3 DEF Kept

LEMMA KeptIsReflexive ==
    ASSUME NEW c PROVE Kept(c, c)
BY DEF Kept, UrlsKept, ListsKept, OwnKept

LEMMA GroupsKept ==
    ASSUME NEW secs, NEW hinted
    PROVE  /\ OwnKept(secs, UpsertGroups(secs, hinted)) /\ OwnKept(secs, EnsureDefaults(secs))
           /\ DefaultSections \subseteq DOMAIN EnsureDefaults(secs)
BY DEF OwnKept, UpsertGroups, EnsureDefaults

LEMMA MergedIs ==
    ASSUME NEW c, NEW subs, NEW pps, NEW rps, NEW secs,
           c = [subs |-> c.subs, pps |-> c.pps, rps |-> c.rps, secs |-> c.secs, low |-> c.low]
    PROVE  [c EXCEPT !.subs = subs, !.pps = pps, !.rps = rps, !.secs = secs]
             = [subs |-> subs, pps |-> pps, rps |-> rps, secs |-> secs, low |-> c.low]
<1> DEFINE c1 == [c EXCEPT !.subs = subs]
           c2 == [c1 EXCEPT !.pps = pps]
           c3 == [c2 EXCEPT !.rps = rps]
           c4 == [c3 EXCEPT !.secs = secs]
<1>1. c1 = [subs |-> subs, pps |-> c.pps, rps |-> c.rps, secs |-> c.secs, low |-> c.low]
  OBVIOUS
<1> HIDE DEF c1
<1>2. c2 = [subs |-> subs, pps |-> pps, rps |-> c.rps, secs |-> c.secs, low |-> c.low]
  BY <1>1
<1> HIDE DEF c2
<1>3. c3 = [subs |-> subs, pps |-> pps, rps |-> rps, secs |-> c.secs, low |-> c.low]
  BY <1>2
<1> HIDE DEF c3
<1>4. c4 = [subs |-> subs, pps |-> pps, rps |-> rps, secs |-> secs, low |-> c.low]
  BY <1>3
<1> USE DEF c1, c2, c3
<1> QED BY <1>4

LEMMA ApplyPlanKeeps ==
    ASSUME NEW c, NEW files, Good(c, files), NEW sub \in Subscription,
           NEW plan, PlanFits(c, plan)
    PROVE  /\ Good(ApplyPlan(c, sub, plan), files \cup plan.files)
           /\ Kept(c, ApplyPlan(c, sub, plan))
<1> DEFINE d == ApplyPlan(c, sub, plan)
           subs == UpsertEntry(c.subs, Resubscribed(sub))
           pps == IF plan.pps = <<>> THEN c.pps ELSE UpsertEntry(c.pps, plan.pps[1])
           rps == UpsertRuleLists(c.rps, plan.rps)
           secs == UpsertGroups(c.secs, plan.hinted)
           all == files \cup plan.files
<1>1. c = [subs |-> c.subs, pps |-> c.pps, rps |-> c.rps, secs |-> c.secs, low |-> c.low]
  BY DEF Good
<1>2. d = [subs |-> subs, pps |-> pps, rps |-> rps, secs |-> secs, low |-> c.low]
  <2>1. d = [c EXCEPT !.subs = subs, !.pps = pps, !.rps = rps, !.secs = secs]
    BY DEF ApplyPlan
  <2> HIDE DEF subs, pps, rps, secs, d
  <2> QED BY <1>1, <2>1, MergedIs
<1>3. subs \in Seq(Subscription) /\ DOMAIN c.subs \subseteq DOMAIN subs
  <2>1. Resubscribed(sub) \in Subscription BY DEF Resubscribed, Subscription
  <2>2. c.subs \in Seq(Subscription) BY DEF Good
  <2> DEFINE new == Resubscribed(sub)
             list == c.subs
  <2>3. new \in Subscription /\ list \in Seq(Subscription) /\ subs = UpsertEntry(list, new)
    BY <2>1, <2>2
  <2> HIDE DEF new, list, subs
  <2>4. subs \in Seq(Subscription) /\ DOMAIN list \subseteq DOMAIN subs BY <2>3, UpsertIs
  <2> QED BY <2>4 DEF list
<1>4. /\ pps \in Seq(Proxy) /\ DistinctNames(pps) /\ ProxiesOnDisk(pps, all)
      /\ UrlsKept(c.pps, pps)
  <2>1. c.pps \in Seq(Proxy) /\ DistinctNames(c.pps) /\ ProxiesOnDisk(c.pps, all)
    BY DEF Good, ProxiesOnDisk
  <2>2. CASE plan.pps = <<>> BY <2>1, <2>2 DEF UrlsKept
  <2>3. CASE plan.pps # <<>>
    <3> DEFINE new == plan.pps[1]
    <3>1. /\ new \in Proxy /\ (new \in FromProfile \/ FreshIn(c.pps, new.name))
          /\ new.url = NoUrl => <<"providers", new.name>> \in all
      BY <2>3 DEF PlanFits, ProxyFits
    <3>2. pps = UpsertEntry(c.pps, new) BY <2>3
    <3> DEFINE list == c.pps
    <3> HIDE DEF new, pps, all, list
    <3>3. /\ list \in Seq(Proxy) /\ DistinctNames(list) /\ pps = UpsertEntry(list, new)
          /\ new \in FromProfile \/ FreshIn(list, new.name)
      BY <2>1, <3>1, <3>2 DEF list
    <3>4. /\ pps \in Seq(Proxy) /\ DistinctNames(pps)
          /\ \A i \in DOMAIN list : list[i].url # NoUrl =>
               \E j \in DOMAIN pps : pps[j].url = list[i].url
          /\ \A j \in DOMAIN pps : pps[j] = new \/ \E i \in DOMAIN list : pps[j] = list[i]
      BY <3>1, <3>3, UpsertProxy
    <3>5. ProxiesOnDisk(list, all) BY <2>1 DEF list
    <3>6. ProxiesOnDisk(pps, all) BY <3>1, <3>4, <3>5 DEF ProxiesOnDisk
    <3>7. UrlsKept(list, pps) BY <3>4 DEF UrlsKept
    <3> QED BY <3>4, <3>6, <3>7 DEF list
  <2> QED BY <2>2, <2>3
<1>5. rps \in Seq(List) /\ ListsKept(c.rps, rps) /\ ListsOnDisk(rps, all)
  <2>1. /\ c.rps \in Seq(List) /\ ListsOnDisk(c.rps, all)
        /\ plan.rps \in Seq(List) /\ ListsOnDisk(plan.rps, all)
    BY DEF Good, PlanFits, ListsOnDisk
  <2> QED BY <2>1, UpsertLists
<1>6. OwnKept(c.secs, secs) BY GroupsKept
<1> HIDE DEF subs, pps, rps, secs, all, d
<1>7. /\ d.subs = subs /\ d.pps = pps /\ d.rps = rps /\ d.secs = secs
      /\ d = [subs |-> d.subs, pps |-> d.pps, rps |-> d.rps, secs |-> d.secs, low |-> d.low]
  BY <1>2
<1>8. Good(d, all) BY <1>3, <1>4, <1>5, <1>7 DEF Good
<1>9. Kept(c, d) BY <1>3, <1>4, <1>5, <1>6, <1>7 DEF Kept
<1> QED BY <1>8, <1>9 DEF d, all

RefreshedBy(c, heard, n, f) ==
    f = [k \in 0..n |-> IF k = 0 THEN [c |-> c, files |-> {}] ELSE RefreshOne(f[k - 1], k, heard)]

LEMMA RefreshExists ==
    ASSUME NEW c, NEW heard, NEW n \in Nat
    PROVE  \E f : RefreshedBy(c, heard, n, f)
<1> DEFINE good == {k \in 0..n : \E f : RefreshedBy(c, heard, k, f)}
           first == [c |-> c, files |-> {}]
<1>1. 0 \in good
  <2>1. RefreshedBy(c, heard, 0, [k \in 0..0 |-> first]) BY DEF RefreshedBy
  <2> QED BY <2>1
<1>2. ASSUME NEW k \in 0..n, k \in good, k # n PROVE k + 1 \in good
  <2>1. PICK f : RefreshedBy(c, heard, k, f) BY <1>2
  <2> DEFINE Step(j, g) == IF j = 0 THEN first ELSE RefreshOne(g[j - 1], j, heard)
             h == [j \in 0..(k + 1) |-> IF j = k + 1 THEN Step(j, f) ELSE f[j]]
  <2>2. \A j \in 0..(k + 1) : Step(j, h) = Step(j, f)
    <3> SUFFICES ASSUME NEW j \in 0..(k + 1), j # 0 PROVE Step(j, h) = Step(j, f) OBVIOUS
    <3>1. j - 1 \in 0..(k + 1) /\ j - 1 # k + 1 OBVIOUS
    <3>2. h[j - 1] = f[j - 1] BY <3>1
    <3> QED BY <3>2
  <2>3. f = [j \in 0..k |-> Step(j, f)] BY <2>1 DEF RefreshedBy
  <2>4. \A j \in 0..k : f[j] = Step(j, f)
    <3> HIDE DEF Step
    <3> QED BY <2>3
  <2>5. h = [j \in 0..(k + 1) |-> Step(j, h)]
    <3> HIDE DEF Step
    <3>1. \A j \in 0..(k + 1) : j # k + 1 => j \in 0..k OBVIOUS
    <3>2. \A j \in 0..(k + 1) : h[j] = Step(j, h) BY <2>2, <2>4, <3>1
    <3> QED BY <3>2
  <2>6. RefreshedBy(c, heard, k + 1, h) BY <2>5 DEF RefreshedBy
  <2> HIDE DEF h
  <2>7. k + 1 \in 0..n BY <1>2
  <2> QED BY <2>6, <2>7
<1>3. good = 0..n
  <2> HIDE DEF good
  <2>1. good \in SUBSET (0..n) BY DEF good
  <2> QED BY <1>1, <1>2, <2>1, EachStep
<1> QED BY <1>3

LEMMA RefreshKeeps ==
    ASSUME NEW c, NEW heard, Good(c, stored), panel \in [PanelUrls -> PanelAnswers]
    PROVE  /\ Good(RefreshFold(c, heard).c, stored \cup RefreshFold(c, heard).files)
           /\ Kept(c, RefreshFold(c, heard).c)
<1> DEFINE n == Len(c.subs)
           Right(acc) == Good(acc.c, stored \cup acc.files) /\ Kept(c, acc.c)
<1>1. n \in Nat /\ DOMAIN c.subs = 1..n
  <2>1. c.subs \in Seq(Subscription) BY DEF Good
  <2> QED BY <2>1
<1> HIDE DEF n
<1>2. PICK f : RefreshedBy(c, heard, n, f) /\ RefreshFold(c, heard) = f[n]
  <2>1. \E f : RefreshedBy(c, heard, n, f) BY <1>1, RefreshExists
  <2> QED BY <2>1 DEF RefreshedBy, RefreshFold, n
<1>3. f[0] = [c |-> c, files |-> {}] /\ \A k \in 1..n : f[k] = RefreshOne(f[k - 1], k, heard)
  <2>1. 0 \in 0..n /\ \A k \in 1..n : k \in 0..n /\ k # 0 BY <1>1
  <2> QED BY <1>2, <2>1 DEF RefreshedBy
<1> DEFINE good == {k \in 0..n : Right(f[k])}
<1>4. 0 \in good
  <2>1. f[0].c = c /\ stored \cup f[0].files = stored BY <1>3
  <2>2. Right(f[0]) BY <2>1, KeptIsReflexive
  <2> QED BY <1>1, <2>2
<1>5. ASSUME NEW k \in 0..n, k \in good, k # n PROVE k + 1 \in good
  <2>1. k + 1 \in 1..n /\ k + 1 \in 0..n /\ (k + 1) - 1 = k BY <1>1, <1>5
  <2>2. f[k + 1] = RefreshOne(f[k], k + 1, heard) BY <1>3, <2>1
  <2> DEFINE acc == f[k]
             sub == acc.c.subs[k + 1]
             plan == PlanImport(acc.c, sub, panel[sub.url])
  <2>3. Good(acc.c, stored \cup acc.files) /\ Kept(c, acc.c) BY <1>5
  <2> HIDE DEF acc
  <2>4. sub \in Subscription
    <3>1. k + 1 \in DOMAIN acc.c.subs BY <1>1, <2>1, <2>3 DEF Kept
    <3>2. acc.c.subs \in Seq(Subscription) BY <2>3 DEF Good
    <3> QED BY <3>1, <3>2
  <2>5. panel[sub.url] \in PanelAnswers
    <3> HIDE DEF sub
    <3> QED BY <2>4 DEF Subscription
  <2>6. PlanFits(acc.c, plan)
    <3> HIDE DEF sub
    <3>1. acc.c.pps \in Seq(Proxy) /\ acc.c.rps \in Seq(List) BY <2>3 DEF Good
    <3> QED BY <2>4, <2>5, <3>1, ImportFits
  <2>7. f[k + 1] = IF k + 1 \notin heard THEN acc
                   ELSE [c |-> ApplyPlan(acc.c, sub, plan), files |-> acc.files \cup plan.files]
    BY <2>2 DEF RefreshOne, acc
  <2> HIDE DEF sub, plan
  <2>8. CASE k + 1 \notin heard
    <3>1. Right(f[k + 1]) BY <2>3, <2>7, <2>8
    <3> QED BY <2>1, <3>1
  <2>9. CASE k + 1 \in heard
    <3>1. /\ Good(ApplyPlan(acc.c, sub, plan), (stored \cup acc.files) \cup plan.files)
          /\ Kept(acc.c, ApplyPlan(acc.c, sub, plan))
      BY <2>3, <2>4, <2>6, ApplyPlanKeeps
    <3>2. Kept(c, ApplyPlan(acc.c, sub, plan)) BY <2>3, <3>1, KeptIsTransitive
    <3>3. (stored \cup acc.files) \cup plan.files = stored \cup (acc.files \cup plan.files)
      OBVIOUS
    <3>4. /\ f[k + 1].c = ApplyPlan(acc.c, sub, plan)
          /\ f[k + 1].files = acc.files \cup plan.files
      BY <2>7, <2>9
    <3>5. Right(f[k + 1]) BY <3>1, <3>2, <3>3, <3>4
    <3> QED BY <2>1, <3>5
  <2> QED BY <2>8, <2>9
<1>6. good = 0..n
  <2> HIDE DEF good
  <2>1. good \in SUBSET (0..n) BY DEF good
  <2> QED BY <1>1, <1>4, <1>5, <2>1, EachStep
<1>7. n \in 0..n BY <1>1
<1>8. Right(f[n]) BY <1>6, <1>7
<1> QED BY <1>2, <1>8

-----------------------------------------------------------------------------
(* The invariant                                                           *)

EntriesOK ==
    /\ subscriptions \in Seq(Subscription) /\ proxies \in Seq(Proxy) /\ ruleLists \in Seq(List)
    /\ DistinctNames(proxies)
    /\ ProxiesOnDisk(proxies, stored) /\ ListsOnDisk(ruleLists, stored)
RestOK ==
    /\ panel \in [PanelUrls -> PanelAnswers]
    /\ DefaultSections \subseteq DOMAIN groups /\ edits \in 0..MaxEdits
ImportInv == EntriesOK /\ RestOK

(* What a merge leaves of the user's decisions.                            *)
Decided ==
    UrlsKept(proxies, proxies') /\ ListsKept(ruleLists, ruleLists') /\ OwnKept(groups, groups')

LEMMA ConfigurationIs ==
    /\ configuration.subs = subscriptions /\ configuration.pps = proxies
    /\ configuration.rps = ruleLists /\ configuration.secs = groups
    /\ configuration = [subs |-> configuration.subs, pps |-> configuration.pps,
                        rps |-> configuration.rps, secs |-> configuration.secs,
                        low |-> configuration.low]
BY DEF configuration

LEMMA NowGood ==
    ASSUME EntriesOK PROVE Good(configuration, stored)
<1> HIDE DEF configuration
<1> QED BY ConfigurationIs DEF EntriesOK, Good

LEMMA Completed ==
    ASSUME NEW c, NEW files, Good(c, files),
           NEW d, d = [c EXCEPT !.secs = EnsureDefaults(@)]
    PROVE  Good(d, files) /\ Kept(c, d) /\ DefaultSections \subseteq DOMAIN d.secs
<1> DEFINE secs == EnsureDefaults(c.secs)
<1>1. OwnKept(c.secs, secs) /\ DefaultSections \subseteq DOMAIN secs BY GroupsKept
<1>2. c = [subs |-> c.subs, pps |-> c.pps, rps |-> c.rps, secs |-> c.secs, low |-> c.low]
  BY DEF Good
<1>3. d = [c EXCEPT !.secs = secs] OBVIOUS
<1> HIDE DEF secs
<1>4. d = [subs |-> c.subs, pps |-> c.pps, rps |-> c.rps, secs |-> secs, low |-> c.low]
  BY <1>2, <1>3
<1>5. /\ d.subs = c.subs /\ d.pps = c.pps /\ d.rps = c.rps /\ d.secs = secs
      /\ d = [subs |-> d.subs, pps |-> d.pps, rps |-> d.rps, secs |-> d.secs, low |-> d.low]
  <2>1. d.subs = c.subs /\ d.pps = c.pps /\ d.rps = c.rps BY <1>4
  <2>2. d.secs = secs /\ d.low = c.low BY <1>4
  <2> QED BY <1>4, <2>1, <2>2
<1>6. Good(d, files) BY <1>5 DEF Good
<1>7. Kept(c, d) BY <1>1, <1>5, KeptIsReflexive DEF Kept
<1> QED BY <1>1, <1>5, <1>6, <1>7

LEMMA Becoming ==
    ASSUME NEW c, Become(c), Good(c, stored'), Kept(configuration, c)
    PROVE  EntriesOK' /\ Decided
<1>1. EntriesOK' BY DEF Become, Good, EntriesOK
<1>2. UrlsKept(proxies, c.pps) /\ ListsKept(ruleLists, c.rps) /\ OwnKept(groups, c.secs)
  <2> HIDE DEF configuration
  <2> QED BY ConfigurationIs DEF Kept
<1>3. Decided BY <1>2 DEF Become, Decided
<1> QED BY <1>1, <1>3

LEMMA Unmerged ==
    ASSUME EntriesOK, UNCHANGED <<subscriptions, proxies, ruleLists, groups>>,
           stored \subseteq stored'
    PROVE  EntriesOK' /\ Decided
BY DEF EntriesOK, ProxiesOnDisk, ListsOnDisk, Decided, UrlsKept, ListsKept, OwnKept

LEMMA RefreshStep ==
    ASSUME ImportInv, Refresh PROVE ImportInv' /\ Decided
<1>1. PICK heard \in SUBSET DOMAIN subscriptions :
        LET r == RefreshFold(configuration, heard)
        IN /\ IF heard = {} THEN UNCHANGED <<subscriptions, proxies, ruleLists, groups>>
              ELSE Become([r.c EXCEPT !.secs = EnsureDefaults(@)])
           /\ stored' = stored \cup r.files
  BY DEF Refresh
<1> DEFINE r == RefreshFold(configuration, heard)
           c == [r.c EXCEPT !.secs = EnsureDefaults(@)]
<1>2. /\ IF heard = {} THEN UNCHANGED <<subscriptions, proxies, ruleLists, groups>> ELSE Become(c)
      /\ stored' = stored \cup r.files
  BY <1>1
<1>3. UNCHANGED <<panel, lowResource, edits>> BY DEF Refresh
<1>4. Good(configuration, stored) /\ panel \in [PanelUrls -> PanelAnswers]
  BY NowGood DEF ImportInv, RestOK
<1>5. Good(r.c, stored \cup r.files) /\ Kept(configuration, r.c) BY <1>4, RefreshKeeps
<1> HIDE DEF r
<1>6. Good(c, stored \cup r.files) /\ Kept(r.c, c) /\ DefaultSections \subseteq DOMAIN c.secs
  BY <1>5, Completed
<1> HIDE DEF c, configuration
<1>7. CASE heard = {}
  <2>1. /\ EntriesOK /\ UNCHANGED <<subscriptions, proxies, ruleLists, groups>>
        /\ stored \subseteq stored'
    BY <1>2, <1>7 DEF ImportInv
  <2>2. EntriesOK' /\ Decided BY <2>1, Unmerged
  <2> QED BY <1>3, <2>1, <2>2 DEF ImportInv, RestOK
<1>8. CASE heard # {}
  <2>1. Become(c) /\ Good(c, stored') /\ Kept(configuration, c)
    BY <1>2, <1>5, <1>6, <1>8, KeptIsTransitive
  <2>2. EntriesOK' /\ Decided BY <2>1, Becoming
  <2>3. groups' = c.secs BY <2>1 DEF Become
  <2> QED BY <1>3, <1>6, <2>2, <2>3 DEF ImportInv, RestOK
<1> QED BY <1>7, <1>8

LEMMA ImportStep ==
    ASSUME ImportInv, NEW u \in PanelUrls, NEW only \in {"all", "nodes", "rules"},
           ImportUrl(u, only)
    PROVE  ImportInv' /\ Decided
<1> DEFINE sub == [name |-> u, url |-> u, only |-> only, lowRules |-> FALSE, tuned |-> FALSE]
           c == [configuration EXCEPT !.secs = EnsureDefaults(@)]
           plan == PlanImport(c, sub, panel[u])
           d == ApplyPlan(c, sub, plan)
<1>1. /\ Become(d) /\ stored' = stored \cup plan.files
      /\ edits < MaxEdits /\ edits' = edits + 1 /\ UNCHANGED <<panel, lowResource>>
  BY DEF ImportUrl
<1>2. sub \in Subscription BY DEF Subscription
<1>3. panel[u] \in PanelAnswers BY DEF ImportInv, RestOK
<1>4. Good(configuration, stored) BY NowGood DEF ImportInv
<1> HIDE DEF sub, configuration
<1>5. Good(c, stored) /\ Kept(configuration, c) /\ DefaultSections \subseteq DOMAIN c.secs
  BY <1>4, Completed
<1> HIDE DEF c
<1>6. PlanFits(c, plan)
  <2>1. c.pps \in Seq(Proxy) /\ c.rps \in Seq(List) BY <1>5 DEF Good
  <2> QED BY <1>2, <1>3, <2>1, ImportFits
<1> HIDE DEF plan
<1>7. Good(d, stored \cup plan.files) /\ Kept(c, d) BY <1>2, <1>5, <1>6, ApplyPlanKeeps
<1> HIDE DEF d
<1>8. Kept(configuration, d) BY <1>5, <1>7, KeptIsTransitive
<1>9. EntriesOK' /\ Decided BY <1>1, <1>7, <1>8, Becoming
<1>10. RestOK'
  <2>1. groups' = d.secs BY <1>1 DEF Become
  <2>2. DefaultSections \subseteq DOMAIN d.secs BY <1>5, <1>7 DEF Kept, OwnKept
  <2>3. edits' \in 0..MaxEdits BY <1>1, ImportAssumption DEF ImportInv, RestOK, ImportAssumption
  <2> QED BY <1>1, <2>1, <2>2, <2>3 DEF ImportInv, RestOK
<1> QED BY <1>9, <1>10 DEF ImportInv

LEMMA LostStep ==
    ASSUME ImportInv, RefreshLost PROVE ImportInv' /\ Decided
<1>1. /\ UNCHANGED <<subscriptions, proxies, ruleLists, groups>> /\ UNCHANGED <<panel, edits>>
      /\ stored \subseteq stored'
  BY DEF RefreshLost
<1>2. EntriesOK' /\ Decided BY <1>1, Unmerged DEF ImportInv
<1> QED BY <1>1, <1>2 DEF ImportInv, RestOK

LEMMA PruneStep ==
    ASSUME ImportInv, PruneOrphans PROVE ImportInv' /\ Decided
<1>1. /\ UNCHANGED <<subscriptions, proxies, ruleLists, groups, panel, edits>>
      /\ stored' = stored \cap ExpectedFiles(configuration)
  BY DEF PruneOrphans
<1>2. \A i \in DOMAIN proxies : <<"providers", proxies[i].name>> \in ExpectedFiles(configuration)
  BY DEF ExpectedFiles, configuration, ToSet
<1>3. \A i \in DOMAIN ruleLists :
        <<"rulesets", ruleLists[i].name>> \in ExpectedFiles(configuration)
  BY DEF ExpectedFiles, configuration, ToSet
<1>4. ProxiesOnDisk(proxies', stored') /\ ListsOnDisk(ruleLists', stored')
  BY <1>1, <1>2, <1>3 DEF ImportInv, EntriesOK, ProxiesOnDisk, ListsOnDisk
<1>5. EntriesOK' BY <1>1, <1>4 DEF ImportInv, EntriesOK
<1>6. Decided BY <1>1 DEF Decided, UrlsKept, ListsKept, OwnKept
<1> QED BY <1>1, <1>5, <1>6 DEF ImportInv, RestOK

LEMMA CommandStep ==
    ASSUME ImportInv, ImportCommands PROVE ImportInv' /\ Decided
<1>1. CASE Refresh BY <1>1, RefreshStep
<1>2. CASE RefreshLost BY <1>2, LostStep
<1>3. CASE PruneOrphans BY <1>3, PruneStep
<1>4. CASE \E u \in PanelUrls, only \in {"all", "nodes", "rules"} : ImportUrl(u, only)
  BY <1>4, ImportStep
<1> QED BY <1>1, <1>2, <1>3, <1>4 DEF ImportCommands

-----------------------------------------------------------------------------
(* The user's edits                                                        *)

LEMMA EditedIs ==
    ASSUME ImportInv, Edited PROVE edits' \in 0..MaxEdits /\ stored' = stored
BY ImportAssumption DEF ImportInv, RestOK, Edited, ImportAssumption

LEMMA SubscriptionEdit ==
    ASSUME ImportInv, NEW i \in DOMAIN subscriptions, TuneSubscription(i) \/ OptIn(i)
    PROVE  ImportInv'
<1>1. Edited /\ UNCHANGED <<proxies, ruleLists, groups, panel>> BY DEF TuneSubscription, OptIn
<1>2. edits' \in 0..MaxEdits /\ stored' = stored BY <1>1, EditedIs
<1>3. subscriptions' \in Seq(Subscription)
  <2>1. subscriptions \in Seq(Subscription) /\ subscriptions[i] \in Subscription
    BY DEF ImportInv, EntriesOK
  <2> DEFINE a == [subscriptions[i] EXCEPT !.tuned = TRUE]
             b == [subscriptions[i] EXCEPT !.lowRules = TRUE]
  <2>2. a \in Subscription /\ b \in Subscription BY <2>1 DEF Subscription
  <2>3. subscriptions' = [subscriptions EXCEPT ![i] = a]
        \/ subscriptions' = [subscriptions EXCEPT ![i] = b]
    BY DEF TuneSubscription, OptIn
  <2> HIDE DEF a, b
  <2> QED BY <2>1, <2>2, <2>3, ReplaceIs
<1> QED BY <1>1, <1>2, <1>3 DEF ImportInv, EntriesOK, RestOK

LEMMA ListEdit ==
    ASSUME ImportInv, Edited, UNCHANGED <<subscriptions, proxies, panel>>,
           DefaultSections \subseteq DOMAIN groups', ruleLists' \in Seq(List),
           \A i \in DOMAIN ruleLists' : ruleLists'[i].url = NoUrl =>
             \E j \in DOMAIN ruleLists : /\ ruleLists[j].url = NoUrl
                                        /\ ruleLists[j].name = ruleLists'[i].name
    PROVE  ImportInv'
<1>1. edits' \in 0..MaxEdits /\ stored' = stored BY EditedIs
<1>2. ListsOnDisk(ruleLists', stored') BY <1>1 DEF ImportInv, EntriesOK, ListsOnDisk
<1> QED BY <1>1, <1>2 DEF ImportInv, EntriesOK, RestOK

LEMMA ToggleStep ==
    ASSUME ImportInv, NEW i \in DOMAIN ruleLists, ToggleRuleList(i) PROVE ImportInv'
<1>1. /\ Edited /\ UNCHANGED <<subscriptions, proxies, groups, panel>>
      /\ ruleLists' = [ruleLists EXCEPT ![i].enabled = ~@]
  BY DEF ToggleRuleList
<1> DEFINE a == [ruleLists[i] EXCEPT !.enabled = ~@]
<1>2. ruleLists \in Seq(List) /\ ruleLists[i] \in List BY DEF ImportInv, EntriesOK
<1>3. a \in List /\ a.url = ruleLists[i].url /\ a.name = ruleLists[i].name BY <1>2 DEF List
<1>4. ruleLists' = [ruleLists EXCEPT ![i] = a] BY <1>1
<1> HIDE DEF a
<1>5. /\ ruleLists' \in Seq(List) /\ DOMAIN ruleLists' = DOMAIN ruleLists
      /\ ruleLists'[i] = a /\ \A j \in DOMAIN ruleLists : j # i => ruleLists'[j] = ruleLists[j]
  BY <1>2, <1>3, <1>4, ReplaceIs
<1>6. DefaultSections \subseteq DOMAIN groups' BY <1>1 DEF ImportInv, RestOK
<1> QED BY <1>1, <1>3, <1>5, <1>6, ListEdit

LEMMA OverrideStep ==
    ASSUME ImportInv, NEW name, OverrideRuleProvider(name, "media") PROVE ImportInv'
<1> DEFINE moved(i) == [ruleLists[i] EXCEPT !.section = "media", !.ownSection = TRUE]
           entry(i) == IF ruleLists[i].name # name THEN ruleLists[i] ELSE moved(i)
           n == Len(ruleLists)
<1>1. Edited /\ UNCHANGED <<subscriptions, proxies, groups, panel>>
  BY DEF OverrideRuleProvider
<1>2. n \in Nat /\ DOMAIN ruleLists = 1..n /\ \A i \in 1..n : ruleLists[i] \in List
  <2>1. ruleLists \in Seq(List) BY DEF ImportInv, EntriesOK
  <2> QED BY <2>1
<1> HIDE DEF n
<1>3. ASSUME NEW i \in 1..n
      PROVE  /\ entry(i) \in List /\ entry(i).url = ruleLists[i].url
             /\ entry(i).name = ruleLists[i].name
  <2>1. ruleLists[i] \in List /\ "media" \in Words BY <1>2, WordsAre
  <2>2. /\ moved(i) \in List /\ moved(i).url = ruleLists[i].url
        /\ moved(i).name = ruleLists[i].name
    BY <2>1 DEF List
  <2> HIDE DEF moved
  <2> QED BY <2>1, <2>2
<1>4. ruleLists' = [i \in 1..n |-> entry(i)] BY <1>2 DEF OverrideRuleProvider
<1> HIDE DEF entry
<1>5. ruleLists' \in [1..n -> List] BY <1>3, <1>4
<1>6. ruleLists' \in Seq(List) BY <1>2, <1>5, IsASeq
<1>7. DefaultSections \subseteq DOMAIN groups' BY <1>1 DEF ImportInv, RestOK
<1>8. \A i \in DOMAIN ruleLists' : ruleLists'[i].url = NoUrl =>
        \E j \in DOMAIN ruleLists : /\ ruleLists[j].url = NoUrl
                                   /\ ruleLists[j].name = ruleLists'[i].name
  BY <1>2, <1>3, <1>4
<1> QED BY <1>1, <1>6, <1>7, <1>8, ListEdit

LEMMA NativeStep ==
    ASSUME ImportInv, NEW l \in NativeLists, NEW s \in {"common", "direct"}, AddNativeList(l, s)
    PROVE  ImportInv'
<1> DEFINE new == RuleList(<<<<l, "native">>, 1>>, l, s)
           same == {i \in DOMAIN ruleLists : ruleLists[i].name = new.name}
           first == CHOOSE i \in same : \A j \in same : i <= j
<1>1. /\ Edited /\ UNCHANGED <<subscriptions, proxies, panel>>
      /\ ruleLists' = IF same = {} THEN Append(ruleLists, new)
                      ELSE [ruleLists EXCEPT ![first] = new]
      /\ DOMAIN groups \subseteq DOMAIN groups'
  BY DEF AddNativeList, ensureNativeSection
<1>2. new \in List /\ new.url # NoUrl
  <2>1. /\ l \in Words /\ "native" \in Words /\ s \in Words /\ l # NoUrl
    BY WordsAre, ImportAssumption DEF ImportAssumption
  <2>2. <<<<l, "native">>, 1>> \in (Words \X Words) \X Nat BY <2>1
  <2>3. new.url = l BY DEF RuleList
  <2> QED BY <2>1, <2>2, <2>3, ListIs
<1>3. ruleLists \in Seq(List) BY DEF ImportInv, EntriesOK
<1> HIDE DEF new
<1>4. ASSUME same # {} PROVE first \in DOMAIN ruleLists
  <2>1. same \subseteq Nat BY <1>3
  <2> HIDE DEF same
  <2>2. \E i \in same : \A j \in same : i <= j BY <1>4, <2>1, LeastNatural
  <2>3. first \in same BY <2>2
  <2> QED BY <2>3 DEF same
<1> HIDE DEF same, first
<1>5. /\ ruleLists' \in Seq(List)
      /\ \A i \in DOMAIN ruleLists' :
           ruleLists'[i] = new \/ \E j \in DOMAIN ruleLists : ruleLists'[i] = ruleLists[j]
  <2>1. CASE same = {}
    <3>1. ruleLists' = Append(ruleLists, new) BY <1>1, <2>1
    <3> QED BY <1>2, <1>3, <3>1, AppendIs
  <2>2. CASE same # {}
    <3>1. ruleLists' = [ruleLists EXCEPT ![first] = new] BY <1>1, <2>2
    <3> QED BY <1>2, <1>3, <1>4, <2>2, <3>1, ReplaceIs
  <2> QED BY <2>1, <2>2
<1>6. DefaultSections \subseteq DOMAIN groups' BY <1>1 DEF ImportInv, RestOK
<1> QED BY <1>1, <1>2, <1>5, <1>6, ListEdit

LEMMA EditStep ==
    ASSUME ImportInv, UserEdits PROVE ImportInv'
<1>1. CASE \E l \in NativeLists, s \in {"common", "direct"} : AddNativeList(l, s)
  BY <1>1, NativeStep
<1>2. CASE \E i \in DOMAIN subscriptions : TuneSubscription(i) \/ OptIn(i)
  BY <1>2, SubscriptionEdit
<1>3. CASE \E i \in DOMAIN ruleLists : OverrideRuleProvider(ruleLists[i].name, "media")
  BY <1>3, OverrideStep
<1>4. CASE \E i \in DOMAIN ruleLists : ToggleRuleList(i) BY <1>4, ToggleStep
<1>5. CASE \E s \in DOMAIN groups : OwnGroup(s)
  <2>1. /\ Edited /\ UNCHANGED <<subscriptions, proxies, ruleLists, panel>>
        /\ DOMAIN groups' = DOMAIN groups
    BY <1>5 DEF OwnGroup
  <2>2. edits' \in 0..MaxEdits /\ stored' = stored BY <2>1, EditedIs
  <2> QED BY <2>1, <2>2 DEF ImportInv, EntriesOK, RestOK
<1>6. CASE \E u \in PanelUrls, a \in PanelAnswers : PanelChanges(u, a)
  <2>1. /\ Edited /\ UNCHANGED <<subscriptions, proxies, ruleLists, groups>>
        /\ panel' \in [PanelUrls -> PanelAnswers]
    BY <1>6 DEF PanelChanges, ImportInv, RestOK
  <2>2. edits' \in 0..MaxEdits /\ stored' = stored BY <2>1, EditedIs
  <2> QED BY <2>1, <2>2 DEF ImportInv, EntriesOK, RestOK
<1> QED BY <1>1, <1>2, <1>3, <1>4, <1>5, <1>6 DEF UserEdits

-----------------------------------------------------------------------------
(* Imports, refreshes, prunes and edits                                    *)

LEMMA ImportStarts == ImportInit => ImportInv
<1> SUFFICES ASSUME ImportInit PROVE ImportInv OBVIOUS
<1>1. EntriesOK
  BY DEF ImportInit, EntriesOK, DistinctNames, ProxiesOnDisk, ListsOnDisk
<1>2. RestOK
  <2>1. DefaultSections \subseteq DOMAIN groups BY GroupsKept DEF ImportInit
  <2>2. edits \in 0..MaxEdits BY ImportAssumption DEF ImportInit, ImportAssumption
  <2> QED BY <2>1, <2>2 DEF ImportInit, RestOK
<1> QED BY <1>1, <1>2 DEF ImportInv

LEMMA ImportKeeps == ImportInv /\ [ImportNext]_importVars => ImportInv'
<1> SUFFICES ASSUME ImportInv, [ImportNext]_importVars PROVE ImportInv' OBVIOUS
<1>1. CASE ImportCommands BY <1>1, CommandStep
<1>2. CASE UserEdits BY <1>2, EditStep
<1>3. CASE UNCHANGED importVars BY <1>3 DEF importVars, ImportInv, EntriesOK, RestOK
<1> QED BY <1>1, <1>2, <1>3 DEF ImportNext

LEMMA ImportTyped == ImportInv => ImportTypeOK
<1> SUFFICES ASSUME ImportInv PROVE ImportTypeOK OBVIOUS
<1>1. ProxyNamesDistinct /\ NothingUnfetchable
  BY DEF ImportInv, EntriesOK, ProxyNamesDistinct, NothingUnfetchable, DistinctNames,
         ProxiesOnDisk, ListsOnDisk
<1>2. \A i \in DOMAIN subscriptions : subscriptions[i] \in Subscription
  BY DEF ImportInv, EntriesOK
<1>3. \A i \in DOMAIN proxies : proxies[i] \in Proxy BY DEF ImportInv, EntriesOK
<1>4. \A i \in DOMAIN ruleLists : ruleLists[i] \in List BY DEF ImportInv, EntriesOK
<1>5. \A i \in DOMAIN subscriptions :
        subscriptions[i].url \in PanelUrls /\ subscriptions[i].tuned \in BOOLEAN
  BY <1>2 DEF Subscription
<1>6. \A i \in DOMAIN proxies :
        proxies[i].url \in PanelUrls \cup {NoUrl} /\ proxies[i].on \in BOOLEAN
  BY <1>3 DEF Proxy, FromProfile, FromAddress
<1>7. \A i \in DOMAIN ruleLists : ruleLists[i].enabled \in BOOLEAN BY <1>4 DEF List
<1> QED BY <1>1, <1>5, <1>6, <1>7 DEF ImportTypeOK, ImportInv, RestOK

(* However imports, refreshes, prunes, edits and changes at the panels     *)
(* follow each other, refused saves included: no two proxy providers have  *)
(* one name (validateConfigSafety), no entry without a URL is without its  *)
(* file (PruneOrphanRuleFiles), and the entries are of their types.        *)
THEOREM ImportTypes == ImportSpec => []ImportTypeOK
<1>1. ImportInit => ImportInv BY ImportStarts
<1>2. ImportInv /\ [ImportNext]_importVars => ImportInv' BY ImportKeeps
<1>3. ImportInv => ImportTypeOK BY ImportTyped
<1> QED BY <1>1, <1>2, <1>3, PTL DEF ImportSpec

(* No command that merges a panel's answer undoes what the user decided    *)
(* (UpsertRuleProvider, UpsertSectionGroupFields), nor does it take one    *)
(* subscription's address from the providers for another's.                *)
THEOREM DecisionsKept == ImportSpec => DecisionsSurvive
<1> DEFINE Survive == ImportCommands =>
             /\ \A i \in DOMAIN proxies : proxies[i].url # NoUrl =>
                  \E j \in DOMAIN proxies' : proxies'[j].url = proxies[i].url
             /\ \A i \in DOMAIN ruleLists :
                  /\ ~ruleLists[i].enabled => ~ruleLists'[i].enabled
                  /\ ruleLists[i].ownSection =>
                       ruleLists'[i].ownSection /\ ruleLists'[i].section = ruleLists[i].section
             /\ \A s \in DOMAIN groups : groups[s].own => groups'[s] = groups[s]
<1>1. ImportInit => ImportInv BY ImportStarts
<1>2. ImportInv /\ [ImportNext]_importVars => ImportInv' BY ImportKeeps
<1>3. ImportInv => Survive
  BY CommandStep DEF Decided, UrlsKept, ListsKept, OwnKept
<1>4. [][Survive]_importVars => DecisionsSurvive BY DEF DecisionsSurvive
<1>5. ImportInv /\ [ImportNext]_importVars => [Survive]_importVars BY <1>3
<1> HIDE DEF Survive
<1> QED BY <1>1, <1>2, <1>4, <1>5, PTL DEF ImportSpec

-----------------------------------------------------------------------------
(* The file and what is read from it                                       *)

Body(t) ==
    CASE t = "zapret_strategy" -> [on : BOOLEAN, uses : Words]
      [] t = "device" -> [mac : Macs, section : Words, exclude : BOOLEAN]
      [] t = "section" -> [zapret : BOOLEAN, apps : SUBSET Words]
      [] t = "rule_provider" -> Words
ObjectNames == Words \ {NoLabel}
Object(t) == [name : ObjectNames, body : Body(t)]
Section(t) == [id : {Anonymous} \cup (Words \X (ObjectNames \cup Macs)), label : Words,
               body : Body(t)]

(* A section can be named, and one called dev_<mac> is that device's.      *)
Named(t, s) ==
    /\ (t = "device" /\ s.label # NoLabel) \/ s.id = Anonymous \/ s.id[2] \in ObjectNames
    /\ \A m : s.id = <<"dev", m>> => t = "device" /\ s.body.mac = m
NamedOK(named) ==
    /\ DOMAIN named = SectionTypes
    /\ \A t \in SectionTypes :
         named[t] \in Seq(Section(t)) /\ \A i \in DOMAIN named[t] : Named(t, named[t][i])
    /\ IdsUnique(named)
(* Only what can be blank in the file is.                                  *)
OptionsOK(options) ==
    /\ options \in [OptionKinds -> Stored]
    /\ \A k \in OptionKinds : options[k] = "Blank" => k \in {"scalar", "dnslist"}
FileOK(f) ==
    /\ f = [named |-> f.named, options |-> f.options, meshOn |-> f.meshOn]
    /\ NamedOK(f.named) /\ OptionsOK(f.options) /\ f.meshOn \in BOOLEAN

DistinctMacs(devices) ==
    \A i, j \in DOMAIN devices : devices[i].body.mac = devices[j].body.mac => i = j
ConfigOK(c) ==
    /\ c = [apps |-> c.apps, secs |-> c.secs, rules |-> c.rules, devices |-> c.devices,
            options |-> c.options, meshOn |-> c.meshOn]
    /\ c.apps \in Seq(Object("zapret_strategy")) /\ c.rules \in Seq(Object("rule_provider"))
    /\ c.secs \in Seq(Object("section")) /\ c.secs # <<>>
    /\ c.devices \in Seq(Object("device")) /\ DistinctMacs(c.devices)
    /\ c.options \in [OptionKinds -> Values] /\ c.meshOn \in BOOLEAN
    /\ \A k \in OptionKinds : c.options[k] = "Empty" => k \in {"scalar", "dnslist"}

LEMMA TypesAre ==
    /\ "zapret_strategy" \in SectionTypes /\ "device" \in SectionTypes
    /\ "section" \in SectionTypes /\ "rule_provider" \in SectionTypes
BY DEF SectionTypes

(* What Load makes of a text is a text, of an id that id; and of the marks *)
(* in the options nothing else.                                            *)
LEMMA NamelessIs == NoName \in ObjectNames /\ NoName \in Words /\ NoName # NoLabel
BY DEF NoName, ObjectNames, Words, NoLabel

LEMMA ParsedIs ==
    ASSUME FileAssumption
    PROVE  /\ \A v \in Words : Parsed(v) \in Words
           /\ \A v : Parsed(v) = NoLabel <=> v = NoLabel
           /\ \A v : Parsed(v) = NoName <=> v = NoName
           /\ \A v \in IdNames \cup Strategies \cup Marks : Parsed(v) = v
           /\ \A v \in Texts : Parsed(v) \in Texts \ Marks /\ v \notin Marks
           /\ \A v : v \notin DOMAIN Misread => Parsed(v) = v
<1>1. /\ DOMAIN Misread \subseteq STRING \ ({NoName, NoLabel} \cup Marks \cup IdNames \cup Strategies)
      /\ \A v \in DOMAIN Misread : Misread[v] \in STRING \ ({NoName, NoLabel} \cup Marks)
  BY DEF FileAssumption, TextAssumption
<1>2. STRING \subseteq Words BY Zenon DEF Words
<1>3. \A v \in DOMAIN Misread : Misread[v] \in Range(Misread) BY DEF Range
<1>4. \A v \in Range(Misread) : \E u \in DOMAIN Misread : v = Misread[u] BY DEF Range
<1>5. "Custom" \notin Marks BY DEF Marks
<1>6. \A v \in DOMAIN Misread : v \notin Marks /\ Misread[v] \notin Marks BY <1>1
<1>7. \A v \in Texts : v \notin Marks BY <1>4, <1>5, <1>6 DEF Texts
<1>8. \A v \in Texts : Parsed(v) \in Texts BY <1>3 DEF Parsed, Texts
<1> QED BY <1>1, <1>2, <1>7, <1>8 DEF Parsed

LEMMA ParsedBodyIs ==
    ASSUME FileAssumption, NEW t \in SectionTypes, NEW b \in Body(t)
    PROVE  /\ ParsedBody(t, b) \in Body(t)
           /\ t = "device" => ParsedBody(t, b).mac = b.mac
<1>1. \A v \in Words : Parsed(v) \in Words BY ParsedIs
<1>2. CASE t = "zapret_strategy"
  <2>1. b \in [on : BOOLEAN, uses : Words] BY <1>2 DEF Body
  <2>2. ParsedBody(t, b) = [b EXCEPT !.uses = Parsed(@)] BY <1>2 DEF ParsedBody
  <2>3. ParsedBody(t, b) \in [on : BOOLEAN, uses : Words] BY <1>1, <2>1, <2>2
  <2> QED BY <1>2, <2>3 DEF Body
<1>3. CASE t = "device"
  <2>1. b \in [mac : Macs, section : Words, exclude : BOOLEAN] BY <1>3 DEF Body
  <2>2. ParsedBody(t, b) = [b EXCEPT !.section = Parsed(@)] BY <1>3 DEF ParsedBody
  <2>3. /\ ParsedBody(t, b) \in [mac : Macs, section : Words, exclude : BOOLEAN]
        /\ ParsedBody(t, b).mac = b.mac
    BY <1>1, <2>1, <2>2
  <2> QED BY <1>3, <2>3 DEF Body
<1>4. CASE t = "section"
  <2>1. b \in [zapret : BOOLEAN, apps : SUBSET Words] BY <1>4 DEF Body
  <2>2. ParsedBody(t, b) = [b EXCEPT !.apps = {Parsed(a) : a \in @}] BY <1>4 DEF ParsedBody
  <2> DEFINE apps == {Parsed(a) : a \in b.apps}
  <2>3. ParsedBody(t, b) = [b EXCEPT !.apps = apps] BY <2>2
  <2>4. apps \in SUBSET Words BY <1>1, <2>1
  <2> HIDE DEF apps
  <2>5. ParsedBody(t, b) \in [zapret : BOOLEAN, apps : SUBSET Words] BY <2>1, <2>3, <2>4
  <2> QED BY <1>4, <2>5 DEF Body
<1>5. CASE t = "rule_provider" BY <1>1, <1>5 DEF Body, ParsedBody
<1> QED BY <1>2, <1>3, <1>4, <1>5 DEF SectionTypes

LEMMA ObjectsAre ==
    ASSUME FileAssumption, NEW f, NamedOK(f.named), NEW t \in SectionTypes
    PROVE  /\ Objects(f, t) \in Seq(Object(t)) /\ DOMAIN Objects(f, t) = DOMAIN f.named[t]
           /\ f.named[t] # <<>> => Objects(f, t) # <<>>
<1> DEFINE list == f.named[t]
           n == Len(list)
<1>1. /\ list \in Seq(Section(t)) /\ n \in Nat /\ DOMAIN list = 1..n
      /\ \A i \in 1..n : list[i] \in Section(t) /\ Named(t, list[i])
  BY DEF NamedOK
<1> HIDE DEF list, n
<1> DEFINE Read(s) == [name |-> IdName(t, s), body |-> ParsedBody(t, s.body)]
<1>2. ASSUME NEW i \in 1..n
      PROVE  Read(list[i]) \in Object(t)
  <2> DEFINE s == list[i]
  <2>1. s \in Section(t) /\ Named(t, s) BY <1>1
  <2> HIDE DEF s
  <2>2. s.label \in Words /\ s.body \in Body(t) BY <2>1 DEF Section
  <2>3. s.label = NoLabel \/ (s.label = NoName /\ t # "device")
          => s.id = Anonymous \/ s.id[2] \in ObjectNames
    BY <2>1 DEF Named
  <2>4. NoName \in ObjectNames BY NamelessIs
  <2>5. s.label # NoLabel => Parsed(s.label) \in ObjectNames BY <2>2, ParsedIs DEF ObjectNames
  <2>6. IdName(t, s) \in ObjectNames BY <2>3, <2>4, <2>5 DEF IdName
  <2>7. ParsedBody(t, s.body) \in Body(t) BY <2>2, ParsedBodyIs
  <2>8. Read(s) \in Object(t) BY <2>6, <2>7 DEF Object
  <2> QED BY <2>8 DEF s
<1>3. Objects(f, t) = [i \in 1..n |-> Read(list[i])]
  BY <1>1 DEF Objects, list
<1> HIDE DEF Read
<1>4. Objects(f, t) \in [1..n -> Object(t)] BY <1>2, <1>3
<1>5. Objects(f, t) \in Seq(Object(t)) BY <1>1, <1>4, IsASeq
<1>6. DOMAIN Objects(f, t) = DOMAIN f.named[t] BY <1>1, <1>3 DEF list
<1>7. f.named[t] # <<>> => Objects(f, t) # <<>>
  <2> SUFFICES ASSUME list # <<>> PROVE Objects(f, t) # <<>> BY DEF list
  <2>1. n # 0 BY <1>1 DEF n
  <2>2. 1 \in DOMAIN Objects(f, t) BY <1>1, <1>3, <2>1
  <2>3. DOMAIN <<>> = {} OBVIOUS
  <2> QED BY <2>2, <2>3
<1> QED BY <1>5, <1>6, <1>7

-----------------------------------------------------------------------------
(* Devices, one per MAC                                                    *)

DevicesBy(found, n, f) ==
    f = [k \in 0..n |-> IF k = 0 THEN <<>> ELSE MergeDevice(f[k - 1], found[k])]

LEMMA DevicesExist ==
    ASSUME NEW found, NEW n \in Nat
    PROVE  \E f : DevicesBy(found, n, f)
<1> DEFINE good == {k \in 0..n : \E f : DevicesBy(found, k, f)}
<1>1. 0 \in good
  <2>1. DevicesBy(found, 0, [k \in 0..0 |-> <<>>]) BY DEF DevicesBy
  <2> QED BY <2>1
<1>2. ASSUME NEW k \in 0..n, k \in good, k # n PROVE k + 1 \in good
  <2>1. PICK f : DevicesBy(found, k, f) BY <1>2
  <2> DEFINE Step(j, g) == IF j = 0 THEN <<>> ELSE MergeDevice(g[j - 1], found[j])
             h == [j \in 0..(k + 1) |-> IF j = k + 1 THEN Step(j, f) ELSE f[j]]
  <2>2. \A j \in 0..(k + 1) : Step(j, h) = Step(j, f)
    <3> SUFFICES ASSUME NEW j \in 0..(k + 1), j # 0 PROVE Step(j, h) = Step(j, f) OBVIOUS
    <3>1. j - 1 \in 0..(k + 1) /\ j - 1 # k + 1 OBVIOUS
    <3>2. h[j - 1] = f[j - 1] BY <3>1
    <3> QED BY <3>2
  <2>3. f = [j \in 0..k |-> Step(j, f)] BY <2>1 DEF DevicesBy
  <2>4. \A j \in 0..k : f[j] = Step(j, f)
    <3> HIDE DEF Step
    <3> QED BY <2>3
  <2>5. h = [j \in 0..(k + 1) |-> Step(j, h)]
    <3> HIDE DEF Step
    <3>1. \A j \in 0..(k + 1) : j # k + 1 => j \in 0..k OBVIOUS
    <3>2. \A j \in 0..(k + 1) : h[j] = Step(j, h) BY <2>2, <2>4, <3>1
    <3> QED BY <3>2
  <2>6. DevicesBy(found, k + 1, h) BY <2>5 DEF DevicesBy
  <2> HIDE DEF h
  <2>7. k + 1 \in 0..n BY <1>2
  <2> QED BY <2>6, <2>7
<1>3. good = 0..n
  <2> HIDE DEF good
  <2>1. good \in SUBSET (0..n) BY DEF good
  <2> QED BY <1>1, <1>2, <2>1, EachStep
<1> QED BY <1>3

LEMMA DevicesAreSteps ==
    ASSUME NEW found, NEW n \in Nat, n = Len(found)
    PROVE  \E f : /\ MergeDevices(found) = f[n] /\ f[0] = <<>>
                 /\ \A k \in 0..n : k # n => f[k + 1] = MergeDevice(f[k], found[k + 1])
<1>1. PICK f : DevicesBy(found, n, f) /\ MergeDevices(found) = f[n]
  <2>1. \E f : DevicesBy(found, n, f) BY DevicesExist
  <2> QED BY <2>1 DEF DevicesBy, MergeDevices
<1>2. 0 \in 0..n /\ \A k \in 0..n : k # n => k + 1 \in 0..n /\ k + 1 # 0 /\ (k + 1) - 1 = k
  OBVIOUS
<1>3. f[0] = <<>> BY <1>1, <1>2 DEF DevicesBy
<1>4. \A k \in 0..n : k # n => f[k + 1] = MergeDevice(f[k], found[k + 1])
  BY <1>1, <1>2 DEF DevicesBy
<1> QED BY <1>1, <1>3, <1>4

LEMMA MergeDeviceIs ==
    ASSUME NEW devices \in Seq(Object("device")), DistinctMacs(devices),
           NEW d \in Object("device")
    PROVE  /\ MergeDevice(devices, d) \in Seq(Object("device"))
           /\ DistinctMacs(MergeDevice(devices, d))
<1> DEFINE same == {i \in DOMAIN devices : devices[i].body.mac = d.body.mac}
           h == CHOOSE i \in same : TRUE
           out == MergeDevice(devices, d)
<1>1. out = IF same = {} THEN Append(devices, d) ELSE [devices EXCEPT ![h] = d]
  BY DEF MergeDevice
<1>2. same # {} => h \in DOMAIN devices /\ devices[h].body.mac = d.body.mac OBVIOUS
<1>3. same = {} => \A i \in DOMAIN devices : devices[i].body.mac # d.body.mac OBVIOUS
<1> HIDE DEF same, h, out
<1>4. CASE same = {}
  <2>1. /\ out \in Seq(Object("device")) /\ Len(devices) \in Nat /\ DOMAIN devices = 1..Len(devices)
        /\ DOMAIN out = 1..(Len(devices) + 1) /\ out[Len(devices) + 1] = d
        /\ \A i \in DOMAIN devices : out[i] = devices[i]
    BY <1>1, <1>4, AppendIs
  <2>2. \A i \in DOMAIN out : i = Len(devices) + 1 \/ i \in DOMAIN devices BY <2>1
  <2>3. DistinctMacs(out) BY <1>3, <1>4, <2>1, <2>2 DEF DistinctMacs
  <2> QED BY <2>1, <2>3 DEF out
<1>5. CASE same # {}
  <2>1. /\ out \in Seq(Object("device")) /\ DOMAIN out = DOMAIN devices /\ out[h] = d
        /\ \A i \in DOMAIN devices : i # h => out[i] = devices[i]
    BY <1>1, <1>2, <1>5, ReplaceIs
  <2>2. DistinctMacs(out) BY <1>2, <1>5, <2>1 DEF DistinctMacs
  <2> QED BY <2>1, <2>2 DEF out
<1> QED BY <1>4, <1>5

LEMMA DevicesAre ==
    ASSUME NEW found \in Seq(Object("device"))
    PROVE  /\ MergeDevices(found) \in Seq(Object("device"))
           /\ DistinctMacs(MergeDevices(found))
<1> DEFINE n == Len(found)
           Right(l) == l \in Seq(Object("device")) /\ DistinctMacs(l)
<1>1. n \in Nat /\ DOMAIN found = 1..n /\ \A k \in 1..n : found[k] \in Object("device") OBVIOUS
<1>2. PICK f : /\ MergeDevices(found) = f[n] /\ f[0] = <<>>
               /\ \A k \in 0..n : k # n => f[k + 1] = MergeDevice(f[k], found[k + 1])
  BY <1>1, DevicesAreSteps
<1> HIDE DEF n
<1> DEFINE good == {k \in 0..n : Right(f[k])}
<1>3. 0 \in good
  <2>1. 0 \in 0..n BY <1>1
  <2>2. <<>> \in Seq(Object("device")) /\ DOMAIN <<>> = {} OBVIOUS
  <2>3. Right(<<>>) BY <2>2 DEF DistinctMacs
  <2>4. Right(f[0]) BY <1>2, <2>3
  <2> HIDE DEF Right
  <2> QED BY <2>1, <2>4
<1>4. ASSUME NEW k \in 0..n, k \in good, k # n PROVE k + 1 \in good
  <2>1. k + 1 \in 1..n /\ k + 1 \in 0..n BY <1>1, <1>4
  <2>2. Right(f[k]) /\ found[k + 1] \in Object("device") BY <1>1, <1>4, <2>1
  <2>3. Right(MergeDevice(f[k], found[k + 1])) BY <2>2, MergeDeviceIs
  <2>4. Right(f[k + 1]) BY <1>2, <1>4, <2>3
  <2> QED BY <2>1, <2>4
<1>5. good = 0..n
  <2> HIDE DEF good
  <2>1. good \in SUBSET (0..n) BY DEF good
  <2> QED BY <1>1, <1>3, <1>4, <2>1, EachStep
<1>6. n \in good BY <1>1, <1>5
<1> QED BY <1>2, <1>6

(* Devices that differ already are left as they are.                       *)
LEMMA DistinctStay ==
    ASSUME NEW found \in Seq(Object("device")), DistinctMacs(found)
    PROVE  MergeDevices(found) = found
<1> DEFINE n == Len(found)
           Upto(k) == [i \in 1..k |-> found[i]]
<1>1. /\ n \in Nat /\ DOMAIN found = 1..n /\ \A k \in 1..n : found[k] \in Object("device")
      /\ found = [i \in 1..n |-> found[i]]
  OBVIOUS
<1>2. PICK f : /\ MergeDevices(found) = f[n] /\ f[0] = <<>>
               /\ \A k \in 0..n : k # n => f[k + 1] = MergeDevice(f[k], found[k + 1])
  BY <1>1, DevicesAreSteps
<1> HIDE DEF n
<1> DEFINE good == {k \in 0..n : f[k] = Upto(k)}
<1>3. 0 \in good
  <2>1. <<>> = Upto(0) OBVIOUS
  <2> QED BY <1>1, <1>2, <2>1
<1>4. ASSUME NEW k \in 0..n, k \in good, k # n PROVE k + 1 \in good
  <2>1. k \in Nat /\ k + 1 \in 1..n /\ k + 1 \in 0..n BY <1>1, <1>4
  <2> DEFINE l == Upto(k)
             d == found[k + 1]
  <2>2. l \in [1..k -> Object("device")] BY <1>1, <2>1
  <2>3. l \in Seq(Object("device")) BY <2>1, <2>2, IsASeq
  <2>4. \A i \in DOMAIN l : l[i].body.mac # d.body.mac
    <3>1. \A i \in 1..k : i \in 1..n /\ i # k + 1 BY <1>1, <2>1
    <3> QED BY <1>1, <2>1, <3>1 DEF DistinctMacs
  <2> HIDE DEF d
  <2>5. MergeDevice(l, d) = Append(l, d)
    <3> HIDE DEF l
    <3> QED BY <2>4 DEF MergeDevice
  <2>6. d \in Object("device") BY <1>1, <2>1 DEF d
  <2>7. Len(l) = k /\ DOMAIN l = 1..k BY <2>1, <2>3
  <2>8. Append(l, d) = Upto(k + 1)
    <3>1. /\ Append(l, d) \in Seq(Object("device")) /\ DOMAIN Append(l, d) = 1..(k + 1)
          /\ Append(l, d)[k + 1] = d /\ \A i \in 1..k : Append(l, d)[i] = found[i]
      <4> HIDE DEF l
      <4>1. \A i \in 1..k : l[i] = found[i] BY DEF l
      <4> QED BY <2>3, <2>6, <2>7, <4>1, AppendIs
    <3> DEFINE out == Append(l, d)
    <3> HIDE DEF out
    <3>2. \A i \in 1..(k + 1) : i = k + 1 \/ i \in 1..k BY <2>1
    <3>3. \A i \in 1..(k + 1) : out[i] = found[i] BY <3>1, <3>2 DEF d, out
    <3>4. out = [i \in 1..(k + 1) |-> out[i]]
      <4>1. out \in Seq(Object("device")) /\ DOMAIN out = 1..(k + 1) BY <3>1 DEF out
      <4> QED BY <4>1
    <3>5. out = Upto(k + 1) BY <3>3, <3>4
    <3> QED BY <3>5 DEF out
  <2>9. f[k + 1] = Upto(k + 1) BY <1>2, <1>4, <2>5, <2>8 DEF d
  <2> QED BY <2>1, <2>9
<1>5. good = 0..n
  <2> HIDE DEF good
  <2>1. good \in SUBSET (0..n) BY DEF good
  <2> QED BY <1>1, <1>3, <1>4, <2>1, EachStep
<1>6. n \in good BY <1>1, <1>5
<1> QED BY <1>1, <1>2, <1>6

-----------------------------------------------------------------------------
(* Loading a file                                                          *)

LEMMA FactoryIs ==
    /\ FactorySections \in Seq(Object("section")) /\ FactorySections # <<>>
<1>1. "common" \in ObjectNames BY DEF ObjectNames, Words, NoLabel
<1>2. [zapret |-> FALSE, apps |-> {}] \in Body("section") BY DEF Body
<1>3. [name |-> "common", body |-> [zapret |-> FALSE, apps |-> {}]] \in Object("section")
  BY <1>1, <1>2 DEF Object
<1> DEFINE o == [name |-> "common", body |-> [zapret |-> FALSE, apps |-> {}]]
<1> HIDE DEF o
<1>4. o \in Object("section") BY <1>3 DEF o
<1>5. FactorySections = <<o>> BY DEF FactorySections, o
<1> QED BY <1>4, <1>5

LEMMA LoadedOptions ==
    ASSUME FileAssumption, NEW options, OptionsOK(options), NEW loaded,
           loaded = [k \in OptionKinds |-> LoadOption(k, options[k])]
    PROVE  /\ loaded \in [OptionKinds -> Values]
           /\ \A k \in OptionKinds : loaded[k] = "Empty" => k \in {"scalar", "dnslist"}
<1>1. ASSUME NEW k \in OptionKinds
      PROVE  loaded[k] \in Values /\ (loaded[k] = "Empty" => k \in {"scalar", "dnslist"})
  <2>1. options[k] \in Stored /\ (options[k] = "Blank" => k \in {"scalar", "dnslist"})
    BY DEF OptionsOK
  <2>2. loaded[k] = LoadOption(k, options[k]) OBVIOUS
  <2>3. options[k] \in {"Absent", "Blank", "Default"} \/ options[k] \in Texts BY <2>1 DEF Stored
  <2>4. Parsed("Default") = "Default" BY ParsedIs DEF Marks
  <2>5. CASE options[k] \in Texts
    <3>1. Parsed(options[k]) \in Texts \ Marks /\ options[k] \notin Marks BY <2>5, ParsedIs
    <3>2. loaded[k] = Parsed(options[k]) BY <2>2, <3>1 DEF LoadOption, Marks
    <3> QED BY <3>1, <3>2 DEF Values, Marks
  <2>6. CASE options[k] \in {"Absent", "Blank", "Default"}
    BY <2>1, <2>2, <2>4, <2>6 DEF LoadOption, Values
  <2> QED BY <2>3, <2>5, <2>6
<1>2. loaded \in [OptionKinds -> Values] BY <1>1
<1> QED BY <1>1, <1>2

LEMMA LoadIs ==
    ASSUME FileAssumption, NEW f, FileOK(f)
    PROVE  ConfigOK(Load(f))
<1> DEFINE c == Load(f)
<1>1. NamedOK(f.named) /\ OptionsOK(f.options) /\ f.meshOn \in BOOLEAN BY DEF FileOK
<1>2. c = [apps |-> c.apps, secs |-> c.secs, rules |-> c.rules, devices |-> c.devices,
           options |-> c.options, meshOn |-> c.meshOn]
  BY DEF Load
<1>3. /\ c.apps = Objects(f, "zapret_strategy") /\ c.rules = Objects(f, "rule_provider")
      /\ c.secs = IF f.named["section"] = <<>> THEN FactorySections ELSE Objects(f, "section")
      /\ c.devices = MergeDevices(Objects(f, "device"))
      /\ c.options = [k \in OptionKinds |-> LoadOption(k, f.options[k])] /\ c.meshOn = f.meshOn
  BY DEF Load, LoadOptions
<1> HIDE DEF c
<1>4. /\ c.apps \in Seq(Object("zapret_strategy")) /\ c.rules \in Seq(Object("rule_provider"))
  BY <1>1, <1>3, TypesAre, ObjectsAre
<1>5. c.secs \in Seq(Object("section")) /\ c.secs # <<>>
  BY <1>1, <1>3, TypesAre, ObjectsAre, FactoryIs
<1>6. c.devices \in Seq(Object("device")) /\ DistinctMacs(c.devices)
  BY <1>1, <1>3, TypesAre, ObjectsAre, DevicesAre
<1>7. /\ c.options \in [OptionKinds -> Values]
      /\ \A k \in OptionKinds : c.options[k] = "Empty" => k \in {"scalar", "dnslist"}
  BY <1>1, <1>3, LoadedOptions
<1>8. c.meshOn \in BOOLEAN BY <1>1, <1>3
<1>9. ConfigOK(c) BY <1>2, <1>4, <1>5, <1>6, <1>7, <1>8 DEF ConfigOK
<1> QED BY <1>9 DEF c

-----------------------------------------------------------------------------
(* Writing a Config, and reading it back                                   *)

(* A header says the object's name, and its id nobody before has.          *)
LEMMA HeaderIs ==
    ASSUME FileAssumption, NEW t \in SectionTypes, t # "device", NEW o \in Object(t), NEW seen
    PROVE  LET h == SectionHeader(t, o, seen)
           IN /\ h \in Section(t) /\ Named(t, h) /\ h.body = o.body
              /\ IdName(t, h) = Parsed(o.name)
              /\ h.id # Anonymous => h.id = <<t, o.name>> /\ o.name \notin seen
<1> DEFINE h == SectionHeader(t, o, seen)
<1>1. o.name \in ObjectNames /\ o.body \in Body(t) BY DEF Object
<1>2. t \in Words /\ t # "dev" BY DEF Words, SectionTypes
<1>3. NoLabel \in Words /\ ObjectNames \subseteq Words /\ NoLabel \notin ObjectNames
  BY DEF Words, ObjectNames
<1>4. CASE o.name \in IdNames \ seen
  <2>1. h = [id |-> <<t, o.name>>, label |-> NoLabel, body |-> o.body] BY <1>4 DEF SectionHeader
  <2>2. /\ h.id = <<t, o.name>> /\ h.label = NoLabel /\ h.body = o.body /\ h.id # Anonymous
        /\ h.id[2] = o.name /\ h.id[1] = t
    BY <2>1 DEF Anonymous
  <2>3. h \in Section(t) BY <1>1, <1>2, <1>3, <2>1 DEF Section
  <2>4. Named(t, h) BY <1>1, <1>2, <2>2 DEF Named
  <2>5. IdName(t, h) = o.name BY <2>2 DEF IdName
  <2>6. Parsed(o.name) = o.name BY <1>4, ParsedIs
  <2> QED BY <1>4, <2>2, <2>3, <2>4, <2>5, <2>6
<1>5. CASE o.name \notin IdNames \ seen
  <2>1. h = [id |-> Anonymous, label |-> o.name, body |-> o.body] BY <1>5 DEF SectionHeader
  <2>2. h.id = Anonymous /\ h.label = o.name /\ h.body = o.body BY <2>1
  <2>3. h \in Section(t) BY <1>1, <1>3, <2>1 DEF Section
  <2>4. Named(t, h) BY <1>1, <1>3, <2>2 DEF Named, Anonymous
  <2>5. IdName(t, h) = Parsed(o.name)
    <3>1. o.name # NoLabel /\ Parsed(NoName) = NoName BY <1>1, <1>3, ParsedIs
    <3> QED BY <2>2, <3>1 DEF IdName
  <2> QED BY <2>2, <2>3, <2>4, <2>5
<1> QED BY <1>4, <1>5

LEMMA WrittenNamed ==
    ASSUME FileAssumption, NEW t \in SectionTypes, t # "device", NEW objects \in Seq(Object(t))
    PROVE  LET out == WriteNamed(t, objects)
           IN /\ out \in Seq(Section(t)) /\ DOMAIN out = DOMAIN objects
              /\ \A i \in DOMAIN out : /\ Named(t, out[i]) /\ out[i].body = objects[i].body
                                       /\ IdName(t, out[i]) = Parsed(objects[i].name)
                                       /\ out[i].id # Anonymous =>
                                            out[i].id = <<t, objects[i].name>>
              /\ \A i, j \in DOMAIN out : out[i].id # Anonymous /\ out[i].id = out[j].id => i = j
<1> DEFINE n == Len(objects)
           Before(i) == {objects[j].name : j \in 1..(i - 1)}
           out == WriteNamed(t, objects)
<1>1. n \in Nat /\ DOMAIN objects = 1..n /\ \A i \in 1..n : objects[i] \in Object(t) OBVIOUS
<1>2. /\ DOMAIN out = 1..n /\ out = [i \in 1..n |-> out[i]]
      /\ \A i \in 1..n : out[i] = SectionHeader(t, objects[i], Before(i))
  BY <1>1 DEF WriteNamed
<1> HIDE DEF n, out
<1>3. ASSUME NEW i \in 1..n
      PROVE  /\ out[i] \in Section(t) /\ Named(t, out[i])
             /\ out[i].body = objects[i].body /\ IdName(t, out[i]) = Parsed(objects[i].name)
             /\ out[i].id # Anonymous => /\ out[i].id = <<t, objects[i].name>>
                                        /\ objects[i].name \notin Before(i)
  <2> HIDE DEF Before
  <2> DEFINE o == objects[i]
             seen == Before(i)
  <2>1. o \in Object(t) BY <1>1
  <2> HIDE DEF o, seen
  <2>2. LET h == SectionHeader(t, o, seen)
        IN /\ h \in Section(t) /\ Named(t, h) /\ h.body = o.body
           /\ IdName(t, h) = Parsed(o.name)
           /\ h.id # Anonymous => h.id = <<t, o.name>> /\ o.name \notin seen
    BY <2>1, HeaderIs
  <2>3. out[i] = SectionHeader(t, o, seen) BY <1>2 DEF o, seen
  <2> DEFINE h == SectionHeader(t, o, seen)
  <2> HIDE DEF h
  <2>4. /\ h \in Section(t) /\ Named(t, h) /\ h.body = o.body
        /\ IdName(t, h) = Parsed(o.name)
        /\ h.id # Anonymous => h.id = <<t, o.name>> /\ o.name \notin seen
    BY <2>2 DEF h
  <2>5. out[i] = h BY <2>3 DEF h
  <2> QED BY <2>4, <2>5 DEF o, seen
<1>4. out \in [1..n -> Section(t)]
  <2>1. \A i \in 1..n : out[i] \in Section(t) BY <1>3
  <2> QED BY <1>2, <2>1
<1>5. out \in Seq(Section(t)) BY <1>1, <1>4, IsASeq
<1>6. ASSUME NEW i \in 1..n, NEW j \in 1..n, out[i].id # Anonymous, out[i].id = out[j].id
      PROVE  i = j
  <2>1. out[j].id # Anonymous BY <1>6
  <2>2. /\ out[i].id = <<t, objects[i].name>> /\ objects[i].name \notin Before(i)
        /\ out[j].id = <<t, objects[j].name>> /\ objects[j].name \notin Before(j)
    BY <1>3, <1>6, <2>1
  <2>3. out[i].id[2] = objects[i].name /\ out[j].id[2] = objects[j].name BY <2>2
  <2>4. objects[i].name = objects[j].name BY <1>6, <2>3
  <2>5. ~(j < i)
    <3> SUFFICES ASSUME j < i PROVE FALSE OBVIOUS
    <3>1. j \in 1..(i - 1) BY <1>1
    <3>2. objects[j].name \in Before(i) BY <3>1
    <3> QED BY <2>2, <2>4, <3>2
  <2>6. ~(i < j)
    <3> SUFFICES ASSUME i < j PROVE FALSE OBVIOUS
    <3>1. i \in 1..(j - 1) BY <1>1
    <3>2. objects[i].name \in Before(j) BY <3>1
    <3> QED BY <2>2, <2>4, <3>2
  <2> QED BY <1>1, <2>5, <2>6
<1>7. \A i \in DOMAIN out :
        /\ Named(t, out[i]) /\ out[i].body = objects[i].body
        /\ IdName(t, out[i]) = Parsed(objects[i].name)
        /\ out[i].id # Anonymous => out[i].id = <<t, objects[i].name>>
  BY <1>2, <1>3
<1> QED BY <1>1, <1>2, <1>5, <1>6, <1>7 DEF out

LEMMA OptionIs ==
    ASSUME FileAssumption, NEW k \in OptionKinds, NEW value \in Values, NEW meshOn \in BOOLEAN,
           value = "Empty" => k \in {"scalar", "dnslist"}
    PROVE  LET written == WriteOption(k, value, meshOn)
           IN /\ written \in Stored /\ (written = "Blank" => k \in {"scalar", "dnslist"})
              /\ k # "mesh" \/ meshOn => LoadOption(k, written) = Parsed(value)
              /\ k = "mesh" /\ ~meshOn => LoadOption(k, written) = "Default"
<1> DEFINE written == WriteOption(k, value, meshOn)
<1>1. Parsed("Default") = "Default" /\ Parsed("Empty") = "Empty" BY ParsedIs DEF Marks
<1>2. CASE value \in {"Default", "Empty"}
  BY <1>1, <1>2 DEF WriteOption, WriteEmpty, WriteMesh, LoadOption, Stored, OptionKinds
<1>3. CASE value \in Texts
  <2>1. value \notin Marks BY <1>3, ParsedIs
  <2>2. value # "Absent" /\ value # "Blank" /\ value # "Default" /\ value # "Empty"
    BY <2>1 DEF Marks
  <2>3. written = IF k = "mesh" /\ ~meshOn THEN "Absent" ELSE value
    BY <2>2 DEF WriteOption, WriteMesh
  <2>4. LoadOption(k, value) = Parsed(value) /\ LoadOption(k, "Absent") = "Default"
    BY <2>2 DEF LoadOption
  <2>5. value \in Stored /\ "Absent" \in Stored BY <1>3 DEF Stored
  <2> HIDE DEF written
  <2>6. /\ written \in Stored /\ written # "Blank"
        /\ k # "mesh" \/ meshOn => LoadOption(k, written) = Parsed(value)
        /\ k = "mesh" /\ ~meshOn => LoadOption(k, written) = "Default"
    BY <2>2, <2>3, <2>4, <2>5
  <2> QED BY <2>6 DEF written
<1> QED BY <1>2, <1>3 DEF Values

(* A device as the next Load reads it.                                     *)
DeviceAgain(d) == [name |-> Parsed(d.name), body |-> ParsedBody("device", d.body)]

LEMMA DeviceIs ==
    ASSUME FileAssumption, NEW d \in Object("device")
    PROVE  LET s == WriteDevice(d)
               read == [name |-> IdName("device", s), body |-> ParsedBody("device", s.body)]
           IN /\ s \in Section("device") /\ Named("device", s) /\ s.id = <<"dev", d.body.mac>>
              /\ s.id # Anonymous /\ read.body.mac = d.body.mac
              /\ read \in Object("device") /\ WriteDevice(read) = WriteDevice(DeviceAgain(d))
<1> DEFINE none == NoName
           Leave(b) == [b EXCEPT !.section = IF b.exclude THEN none ELSE @]
           b == d.body
           left == IF b.exclude THEN none ELSE b.section
           body == [mac |-> b.mac, section |-> left, exclude |-> b.exclude]
           s == WriteDevice(d)
           readBody == ParsedBody("device", body)
           read == [name |-> IdName("device", s), body |-> ParsedBody("device", s.body)]
<1>1. /\ d.name \in ObjectNames /\ d.name \in Words /\ d.name # NoLabel
      /\ b \in [mac : Macs, section : Words, exclude : BOOLEAN]
  BY DEF Object, Body, ObjectNames
<1>2. none \in Words /\ "dev" \in Words /\ Parsed(none) = none
  <2>1. "dev" \in Words BY DEF Words
  <2> QED BY <2>1, NamelessIs, ParsedIs
<1>3. \A o : WriteDevice(o) = [id |-> <<"dev", o.body.mac>>, label |-> o.name,
                               body |-> Leave(o.body)]
  BY DEF WriteDevice
<1> HIDE DEF none, b
<1>4. Leave(b) = body BY <1>1
<1>5. left \in Words /\ b.mac \in Macs /\ b.exclude \in BOOLEAN BY <1>1, <1>2
<1>6. body \in Body("device") BY <1>5 DEF Body
<1>7. ParsedBody("device", b) = [mac |-> b.mac, section |-> Parsed(b.section), exclude |-> b.exclude]
  BY <1>1 DEF ParsedBody
<1>8. readBody = [mac |-> b.mac, section |-> Parsed(left), exclude |-> b.exclude]
  BY DEF ParsedBody
<1>9. Leave(readBody) = Leave(ParsedBody("device", b)) /\ readBody.mac = b.mac
      /\ ParsedBody("device", b).mac = b.mac
  BY <1>2, <1>7, <1>8
<1>10. readBody \in Body("device") BY <1>6, ParsedBodyIs, TypesAre
<1> HIDE DEF Leave, body, readBody
<1>11. s = [id |-> <<"dev", b.mac>>, label |-> d.name, body |-> body]
  BY <1>3, <1>4 DEF b
<1> HIDE DEF s
<1>12. s \in Section("device") BY <1>1, <1>2, <1>5, <1>6, <1>11 DEF Section
<1>13. /\ s.id = <<"dev", b.mac>> /\ s.id # Anonymous /\ s.label = d.name /\ s.body = body
       /\ body.mac = b.mac
  BY <1>11 DEF Anonymous, body
<1>14. IdName("device", s) = Parsed(d.name) BY <1>1, <1>13 DEF IdName
<1>15. Named("device", s)
  <2>1. ASSUME NEW m, s.id = <<"dev", m>> PROVE m = b.mac
    <3>1. s.id[2] = m /\ s.id[2] = b.mac BY <1>13, <2>1
    <3> QED BY <3>1
  <2> QED BY <1>1, <1>13, <2>1 DEF Named
<1>16. read = [name |-> Parsed(d.name), body |-> readBody] BY <1>13, <1>14 DEF readBody
<1>17. Parsed(d.name) \in ObjectNames BY <1>1, ParsedIs DEF ObjectNames
<1>18. read \in Object("device") BY <1>10, <1>16, <1>17 DEF Object
<1>19. read.name = Parsed(d.name) /\ read.body = readBody BY <1>16
<1> HIDE DEF read
<1>20. WriteDevice(read) = WriteDevice(DeviceAgain(d))
  <2> DEFINE again == DeviceAgain(d)
  <2>1. again.name = Parsed(d.name) /\ again.body = ParsedBody("device", b)
    BY DEF DeviceAgain, b
  <2> HIDE DEF again
  <2>2. WriteDevice(again) = WriteDevice(read) BY <1>3, <1>9, <1>19, <2>1
  <2> QED BY <2>2 DEF again
<1> QED BY <1>9, <1>12, <1>13, <1>15, <1>18, <1>19, <1>20 DEF s, read, b

LEMMA WrittenDevices ==
    ASSUME FileAssumption, NEW devices \in Seq(Object("device")), DistinctMacs(devices)
    PROVE  LET out == [i \in DOMAIN devices |-> WriteDevice(devices[i])]
           IN /\ out \in Seq(Section("device")) /\ DOMAIN out = DOMAIN devices
              /\ \A i \in DOMAIN out : Named("device", out[i]) /\ out[i].id[1] = "dev"
              /\ \A i, j \in DOMAIN out : out[i].id = out[j].id => i = j
<1> DEFINE n == Len(devices)
           out == [i \in DOMAIN devices |-> WriteDevice(devices[i])]
<1>1. /\ n \in Nat /\ DOMAIN devices = 1..n /\ \A i \in 1..n : devices[i] \in Object("device")
      /\ out = [i \in 1..n |-> out[i]] /\ DOMAIN out = 1..n
      /\ \A i \in 1..n : out[i] = WriteDevice(devices[i])
  OBVIOUS
<1> HIDE DEF n, out
<1>2. ASSUME NEW i \in 1..n
      PROVE  /\ out[i] \in Section("device") /\ Named("device", out[i])
             /\ out[i].id = <<"dev", devices[i].body.mac>>
  <2> DEFINE d == devices[i]
  <2>1. d \in Object("device") /\ out[i] = WriteDevice(d) BY <1>1
  <2> HIDE DEF d
  <2>2. WriteDevice(d) \in Section("device") /\ Named("device", WriteDevice(d))
        /\ WriteDevice(d).id = <<"dev", d.body.mac>>
    BY Zenon, <2>1, DeviceIs
  <2> QED BY <2>1, <2>2 DEF d
<1>3. out \in [1..n -> Section("device")] BY <1>1, <1>2
<1>4. out \in Seq(Section("device")) BY <1>1, <1>3, IsASeq
<1>5. ASSUME NEW i \in 1..n, NEW j \in 1..n, out[i].id = out[j].id PROVE i = j
  <2>1. out[i].id[2] = devices[i].body.mac /\ out[j].id[2] = devices[j].body.mac BY <1>2
  <2>2. devices[i].body.mac = devices[j].body.mac BY <1>5, <2>1
  <2> QED BY <1>1, <2>2 DEF DistinctMacs
<1>6. \A i \in 1..n : out[i].id[1] = "dev" BY <1>2
<1> QED BY <1>1, <1>2, <1>4, <1>5, <1>6 DEF out

(* What a command writes is a file.                                        *)
LEMMA WrittenIs ==
    ASSUME FileAssumption, NEW c, ConfigOK(c)
    PROVE  FileOK(Serialize(c))
<1> DEFINE f == Serialize(c)
           list(t) == f.named[t]
           Right(t) == /\ list(t) \in Seq(Section(t))
                       /\ \A i \in DOMAIN list(t) : Named(t, list(t)[i])
                       /\ \A i, j \in DOMAIN list(t) :
                            list(t)[i].id # Anonymous /\ list(t)[i].id = list(t)[j].id => i = j
           prefix(t) == IF t = "device" THEN "dev" ELSE t
<1>1. /\ f = [named |-> f.named, options |-> f.options, meshOn |-> f.meshOn]
      /\ DOMAIN f.named = SectionTypes
      /\ list("zapret_strategy") = WriteNamed("zapret_strategy", c.apps)
      /\ list("section") = WriteNamed("section", c.secs)
      /\ list("rule_provider") = WriteNamed("rule_provider", c.rules)
      /\ list("device") = [i \in DOMAIN c.devices |-> WriteDevice(c.devices[i])]
      /\ f.options = [k \in OptionKinds |-> WriteOption(k, c.options[k], c.meshOn)]
      /\ f.meshOn = c.meshOn
  BY DEF Serialize, SectionTypes
<1> HIDE DEF f
<1>2. /\ c.apps \in Seq(Object("zapret_strategy")) /\ c.rules \in Seq(Object("rule_provider"))
      /\ c.secs \in Seq(Object("section")) /\ c.devices \in Seq(Object("device"))
      /\ DistinctMacs(c.devices)
  BY DEF ConfigOK
<1>3. \A t \in SectionTypes : t # "device" =>
        t \in {"zapret_strategy", "section", "rule_provider"}
  BY DEF SectionTypes
<1>4. ASSUME NEW t \in SectionTypes
      PROVE  /\ Right(t)
             /\ \A i \in DOMAIN list(t) : list(t)[i].id # Anonymous => list(t)[i].id[1] = prefix(t)
  <2>1. CASE t = "device" BY <1>1, <1>2, <2>1, WrittenDevices
  <2>2. ASSUME t # "device", NEW objects \in Seq(Object(t)), list(t) = WriteNamed(t, objects)
        PROVE  /\ Right(t)
               /\ \A i \in DOMAIN list(t) :
                    list(t)[i].id # Anonymous => list(t)[i].id[1] = prefix(t)
    <3> DEFINE out == WriteNamed(t, objects)
    <3>1. /\ out \in Seq(Section(t)) /\ \A i \in DOMAIN out : Named(t, out[i])
          /\ \A i \in DOMAIN out : out[i].id # Anonymous => out[i].id = <<t, objects[i].name>>
          /\ \A i, j \in DOMAIN out : out[i].id # Anonymous /\ out[i].id = out[j].id => i = j
      BY <2>2, WrittenNamed
    <3> HIDE DEF out
    <3>2. \A i \in DOMAIN out : out[i].id # Anonymous => out[i].id[1] = t BY <3>1
    <3>3. list(t) = out BY <2>2 DEF out
    <3> QED BY <2>2, <3>1, <3>2, <3>3
  <2> HIDE DEF list
  <2>3. CASE t = "zapret_strategy" BY <1>1, <1>2, <2>2, <2>3
  <2>4. CASE t = "section" BY <1>1, <1>2, <2>2, <2>4
  <2>5. CASE t = "rule_provider" BY <1>1, <1>2, <2>2, <2>5
  <2> QED BY <1>3, <2>1, <2>3, <2>4, <2>5
<1>5. \A t, u \in SectionTypes : prefix(t) = prefix(u) => t = u BY DEF SectionTypes
<1> HIDE DEF prefix
<1>6. IdsUnique(f.named)
  <2> SUFFICES ASSUME NEW t \in SectionTypes, NEW u \in SectionTypes,
                      NEW i \in DOMAIN list(t), NEW j \in DOMAIN list(u),
                      list(t)[i].id # Anonymous, list(t)[i].id = list(u)[j].id
               PROVE  t = u /\ i = j
    BY DEF IdsUnique
  <2>1. list(u)[j].id # Anonymous OBVIOUS
  <2>2. list(t)[i].id[1] = prefix(t) BY <1>4
  <2>3. list(u)[j].id[1] = prefix(u) BY <1>4, <2>1
  <2>4. t = u BY <1>5, <2>2, <2>3
  <2>5. i = j BY <1>4, <2>4
  <2> QED BY <2>4, <2>5
<1>7. NamedOK(f.named) BY <1>1, <1>4, <1>6 DEF NamedOK
<1>8. OptionsOK(f.options)
  <2>1. ASSUME NEW k \in OptionKinds
        PROVE  f.options[k] \in Stored /\ (f.options[k] = "Blank" => k \in {"scalar", "dnslist"})
    <3>1. /\ c.options[k] \in Values /\ c.meshOn \in BOOLEAN
          /\ c.options[k] = "Empty" => k \in {"scalar", "dnslist"}
      BY DEF ConfigOK
    <3>2. f.options[k] = WriteOption(k, c.options[k], c.meshOn) BY <1>1
    <3> QED BY <3>1, <3>2, OptionIs
  <2>2. f.options \in [OptionKinds -> Stored] BY <1>1, <2>1
  <2> QED BY <2>1, <2>2 DEF OptionsOK
<1>9. FileOK(f) BY <1>1, <1>7, <1>8 DEF FileOK, ConfigOK
<1> QED BY <1>9 DEF f

LEMMA NamesReadBack ==
    ASSUME FileAssumption, NEW t \in SectionTypes, t # "device", NEW objects \in Seq(Object(t)),
           NEW f, f.named[t] = WriteNamed(t, objects)
    PROVE  /\ Objects(f, t) = Again(t, objects) /\ (f.named[t] = <<>> <=> objects = <<>>)
<1> DEFINE n == Len(objects)
           out == f.named[t]
<1>1. n \in Nat /\ DOMAIN objects = 1..n OBVIOUS
<1>2. /\ out \in Seq(Section(t)) /\ DOMAIN out = DOMAIN objects
      /\ \A i \in DOMAIN out : /\ out[i].body = objects[i].body
                               /\ IdName(t, out[i]) = Parsed(objects[i].name)
  BY WrittenNamed
<1> HIDE DEF n, out
<1>3. Objects(f, t)
        = [i \in 1..n |-> [name |-> IdName(t, out[i]), body |-> ParsedBody(t, out[i].body)]]
  BY <1>1, <1>2 DEF Objects, out
<1>4. Again(t, objects)
        = [i \in 1..n |-> [name |-> Parsed(objects[i].name), body |-> ParsedBody(t, objects[i].body)]]
  BY <1>1 DEF Again
<1>5. Objects(f, t) = Again(t, objects) BY <1>1, <1>2, <1>3, <1>4
<1>6. out = <<>> <=> objects = <<>>
  <2>1. Len(out) = n BY <1>1, <1>2
  <2> QED BY <1>1, <1>2, <2>1 DEF n
<1> QED BY <1>5, <1>6 DEF out

LEMMA DevicesReadBack ==
    ASSUME FileAssumption, NEW devices \in Seq(Object("device")), DistinctMacs(devices), NEW f,
           f.named["device"] = [i \in DOMAIN devices |-> WriteDevice(devices[i])]
    PROVE  LET found == MergeDevices(Objects(f, "device"))
           IN /\ DOMAIN found = DOMAIN devices
              /\ \A i \in DOMAIN devices :
                   WriteDevice(found[i]) = WriteDevice(DeviceAgain(devices[i]))
<1> DEFINE n == Len(devices)
           found == Objects(f, "device")
           Read(d) == [name |-> IdName("device", WriteDevice(d)),
                       body |-> ParsedBody("device", WriteDevice(d).body)]
<1>1. /\ n \in Nat /\ DOMAIN devices = 1..n /\ \A i \in 1..n : devices[i] \in Object("device")
  OBVIOUS
<1>2. \A i \in 1..n : /\ Read(devices[i]) \in Object("device")
                       /\ WriteDevice(Read(devices[i])) = WriteDevice(DeviceAgain(devices[i]))
                       /\ Read(devices[i]).body.mac = devices[i].body.mac
  <2> SUFFICES ASSUME NEW i \in 1..n
               PROVE  /\ Read(devices[i]) \in Object("device")
                      /\ WriteDevice(Read(devices[i])) = WriteDevice(DeviceAgain(devices[i]))
                      /\ Read(devices[i]).body.mac = devices[i].body.mac
    OBVIOUS
  <2>1. devices[i] \in Object("device") BY <1>1
  <2> QED BY <2>1, DeviceIs
<1> HIDE DEF n
<1>3. DOMAIN found = 1..n /\ \A i \in 1..n : found[i] = Read(devices[i])
  BY <1>1 DEF Objects
<1>4. found = [i \in 1..n |-> found[i]] BY <1>1 DEF Objects
<1> HIDE DEF found, Read
<1>5. found \in [1..n -> Object("device")]
  <2>1. \A i \in 1..n : found[i] \in Object("device") BY <1>2, <1>3
  <2> QED BY <1>4, <2>1
<1>6. found \in Seq(Object("device")) BY <1>1, <1>5, IsASeq
<1>7. DistinctMacs(found)
  <2>1. \A i \in 1..n : found[i].body.mac = devices[i].body.mac BY <1>2, <1>3
  <2> QED BY <1>1, <1>3, <2>1 DEF DistinctMacs
<1>8. MergeDevices(found) = found BY <1>6, <1>7, DistinctStay
<1>9. \A i \in 1..n : WriteDevice(found[i]) = WriteDevice(DeviceAgain(devices[i])) BY <1>2, <1>3
<1> QED BY <1>1, <1>3, <1>8, <1>9 DEF found

(* The parts of a meaning.                                                 *)
DevicesMean(devices) == [i \in DOMAIN devices |-> WriteDevice(devices[i])]
InForce(options, on) == [options EXCEPT !["mesh"] = IF on THEN @ ELSE "Default"]

LEMMA MeaningIs ==
    ASSUME NEW c, NEW apps, NEW secs, NEW rules, NEW devices, NEW options, NEW on,
           c = [apps |-> apps, secs |-> secs, rules |-> rules, devices |-> devices,
                options |-> options, meshOn |-> on]
    PROVE  Meaning(c) = [apps |-> apps, secs |-> secs, rules |-> rules,
                         devices |-> DevicesMean(devices), options |-> InForce(options, on),
                         meshOn |-> on]
<1>1. Meaning(c) = [c EXCEPT !.devices = DevicesMean(@), !.options = InForce(@, c.meshOn)]
  BY DEF Meaning, DevicesMean, InForce
<1>2. [c EXCEPT !.devices = DevicesMean(@), !.options = InForce(@, c.meshOn)]
        = [c EXCEPT !.devices = DevicesMean(devices), !.options = InForce(options, on)]
  OBVIOUS
<1> QED BY <1>1, <1>2

(* What was written is read as it was, each text as Load reads it: the     *)
(* objects, their names and their order, the devices as they mean, and the *)
(* options that were in force.                                             *)
LEMMA ReadBack ==
    ASSUME FileAssumption, NEW c, ConfigOK(c)
    PROVE  /\ Load(Serialize(c)).apps = Again("zapret_strategy", c.apps)
           /\ Load(Serialize(c)).secs = Again("section", c.secs)
           /\ Meaning(Load(Serialize(c))) = Meaning(AsRead(c))
<1> DEFINE f == Serialize(c)
           l == Load(f)
           r == AsRead(c)
<1>1. /\ f.named["zapret_strategy"] = WriteNamed("zapret_strategy", c.apps)
      /\ f.named["section"] = WriteNamed("section", c.secs)
      /\ f.named["rule_provider"] = WriteNamed("rule_provider", c.rules)
      /\ f.named["device"] = [i \in DOMAIN c.devices |-> WriteDevice(c.devices[i])]
      /\ f.options = [k \in OptionKinds |-> WriteOption(k, c.options[k], c.meshOn)]
      /\ f.meshOn = c.meshOn
  BY DEF Serialize, SectionTypes
<1> HIDE DEF f
<1>2. l = [apps |-> l.apps, secs |-> l.secs, rules |-> l.rules, devices |-> l.devices,
           options |-> l.options, meshOn |-> l.meshOn]
  BY DEF Load
<1>3. /\ l.apps = Objects(f, "zapret_strategy") /\ l.rules = Objects(f, "rule_provider")
      /\ l.secs = IF f.named["section"] = <<>> THEN FactorySections ELSE Objects(f, "section")
      /\ l.devices = MergeDevices(Objects(f, "device"))
      /\ l.options = [k \in OptionKinds |-> LoadOption(k, f.options[k])] /\ l.meshOn = f.meshOn
  BY DEF Load, LoadOptions
<1> HIDE DEF l
<1>4. /\ c.apps \in Seq(Object("zapret_strategy")) /\ c.rules \in Seq(Object("rule_provider"))
      /\ c.secs \in Seq(Object("section")) /\ c.secs # <<>>
      /\ c.devices \in Seq(Object("device")) /\ DistinctMacs(c.devices)
      /\ c.options \in [OptionKinds -> Values] /\ c.meshOn \in BOOLEAN
      /\ \A k \in OptionKinds : c.options[k] = "Empty" => k \in {"scalar", "dnslist"}
  BY DEF ConfigOK
<1>5. "zapret_strategy" # "device" /\ "section" # "device" /\ "rule_provider" # "device" OBVIOUS
<1>6. l.apps = Again("zapret_strategy", c.apps)
  <2>1. f.named["zapret_strategy"] = WriteNamed("zapret_strategy", c.apps) BY <1>1
  <2>2. c.apps \in Seq(Object("zapret_strategy")) BY <1>4
  <2>3. Objects(f, "zapret_strategy") = Again("zapret_strategy", c.apps)
    BY <1>5, <2>1, <2>2, TypesAre, NamesReadBack
  <2> QED BY <1>3, <2>3
<1>7. l.rules = Again("rule_provider", c.rules)
  <2>1. f.named["rule_provider"] = WriteNamed("rule_provider", c.rules) BY <1>1
  <2>2. c.rules \in Seq(Object("rule_provider")) BY <1>4
  <2>3. Objects(f, "rule_provider") = Again("rule_provider", c.rules)
    BY <1>5, <2>1, <2>2, TypesAre, NamesReadBack
  <2> QED BY <1>3, <2>3
<1>8. l.secs = Again("section", c.secs)
  <2>1. Objects(f, "section") = Again("section", c.secs) /\ f.named["section"] # <<>>
    <3>1. f.named["section"] = WriteNamed("section", c.secs) BY <1>1
    <3>2. c.secs \in Seq(Object("section")) /\ c.secs # <<>> BY <1>4
    <3> QED BY <1>5, <3>1, <3>2, TypesAre, NamesReadBack
  <2> QED BY <1>3, <2>1
<1>9. /\ r.devices = Again("device", c.devices) /\ r.options = [k \in OptionKinds |-> Parsed(c.options[k])]
      /\ r = [apps |-> Again("zapret_strategy", c.apps), secs |-> Again("section", c.secs),
             rules |-> Again("rule_provider", c.rules), devices |-> r.devices,
             options |-> r.options, meshOn |-> c.meshOn]
  BY DEF AsRead
<1> HIDE DEF r
<1>10. DevicesMean(l.devices) = DevicesMean(r.devices)
  <2>1. /\ DOMAIN l.devices = DOMAIN c.devices
        /\ \A i \in DOMAIN c.devices :
             WriteDevice(l.devices[i]) = WriteDevice(DeviceAgain(c.devices[i]))
    <3> DEFINE found == MergeDevices(Objects(f, "device"))
    <3>1. /\ DOMAIN found = DOMAIN c.devices
          /\ \A i \in DOMAIN c.devices :
               WriteDevice(found[i]) = WriteDevice(DeviceAgain(c.devices[i]))
      <4>1. f.named["device"] = [i \in DOMAIN c.devices |-> WriteDevice(c.devices[i])] BY <1>1
      <4>2. c.devices \in Seq(Object("device")) /\ DistinctMacs(c.devices) BY <1>4
      <4> QED BY Zenon, <4>1, <4>2, DevicesReadBack
    <3> HIDE DEF found
    <3>2. l.devices = found BY <1>3 DEF found
    <3> QED BY <3>1, <3>2
  <2>2. /\ DOMAIN r.devices = DOMAIN c.devices
        /\ \A i \in DOMAIN c.devices : r.devices[i] = DeviceAgain(c.devices[i])
    BY <1>9 DEF Again, DeviceAgain
  <2> QED BY <2>1, <2>2 DEF DevicesMean
<1>11. l.meshOn = c.meshOn BY <1>1, <1>3
<1>12. ASSUME NEW k \in OptionKinds
       PROVE  /\ k # "mesh" \/ c.meshOn => l.options[k] = r.options[k]
              /\ k = "mesh" /\ ~c.meshOn => l.options[k] = "Default"
  <2>1. l.options[k] = LoadOption(k, WriteOption(k, c.options[k], c.meshOn)) BY <1>1, <1>3
  <2>2. c.options[k] \in Values /\ (c.options[k] = "Empty" => k \in {"scalar", "dnslist"}) BY <1>4
  <2>3. r.options[k] = Parsed(c.options[k]) BY <1>9
  <2> QED BY <1>4, <2>1, <2>2, <2>3, OptionIs
<1>13. InForce(l.options, l.meshOn) = InForce(r.options, c.meshOn)
  <2>1. DOMAIN l.options = OptionKinds /\ l.options = [k \in OptionKinds |-> l.options[k]]
    BY <1>3
  <2>2. DOMAIN r.options = OptionKinds BY <1>9
  <2>3. "mesh" \in OptionKinds BY DEF OptionKinds
  <2>4. \A k \in OptionKinds : InForce(l.options, l.meshOn)[k] = InForce(r.options, c.meshOn)[k]
    <3> SUFFICES ASSUME NEW k \in OptionKinds
                 PROVE  InForce(l.options, l.meshOn)[k] = InForce(r.options, c.meshOn)[k]
      OBVIOUS
    <3>1. CASE k = "mesh" BY <1>11, <1>12, <2>1, <2>2, <3>1 DEF InForce
    <3>2. CASE k # "mesh" BY <1>12, <2>1, <2>2, <3>2 DEF InForce
    <3> QED BY <3>1, <3>2
  <2>5. /\ InForce(l.options, l.meshOn) = [k \in OptionKinds |-> InForce(l.options, l.meshOn)[k]]
        /\ InForce(r.options, c.meshOn) = [k \in OptionKinds |-> InForce(r.options, c.meshOn)[k]]
    BY <2>1, <2>2 DEF InForce
  <2> QED BY <2>4, <2>5
<1>14. Meaning(l) = [apps |-> l.apps, secs |-> l.secs, rules |-> l.rules,
                     devices |-> DevicesMean(l.devices),
                     options |-> InForce(l.options, l.meshOn), meshOn |-> l.meshOn]
  BY <1>2, MeaningIs
<1>15. Meaning(r) = [apps |-> Again("zapret_strategy", c.apps), secs |-> Again("section", c.secs),
                     rules |-> Again("rule_provider", c.rules),
                     devices |-> DevicesMean(r.devices),
                     options |-> InForce(r.options, c.meshOn), meshOn |-> c.meshOn]
  <2> DEFINE apps == Again("zapret_strategy", c.apps)
             secs == Again("section", c.secs)
             rules == Again("rule_provider", c.rules)
  <2>1. r = [apps |-> apps, secs |-> secs, rules |-> rules, devices |-> r.devices,
             options |-> r.options, meshOn |-> c.meshOn]
    BY <1>9
  <2> HIDE DEF apps, secs, rules
  <2>2. Meaning(r) = [apps |-> apps, secs |-> secs, rules |-> rules,
                      devices |-> DevicesMean(r.devices),
                      options |-> InForce(r.options, c.meshOn), meshOn |-> c.meshOn]
    BY <2>1, MeaningIs
  <2> QED BY <2>2 DEF apps, secs, rules
<1>16. Meaning(l) = Meaning(r)
  BY <1>6, <1>7, <1>8, <1>10, <1>11, <1>13, <1>14, <1>15
<1> QED BY <1>6, <1>8, <1>16 DEF l, f, r

-----------------------------------------------------------------------------
(* Pages that change one list of sections                                  *)

(* Sections of one type that are in order by themselves.                   *)
ListOK(t, list) ==
    /\ list \in Seq(Section(t)) /\ \A i \in DOMAIN list : Named(t, list[i])
    /\ \A i, j \in DOMAIN list : list[i].id # Anonymous /\ list[i].id = list[j].id => i = j

LEMMA ListsAreOK ==
    ASSUME NEW f, FileOK(f), NEW t \in SectionTypes
    PROVE  ListOK(t, f.named[t]) /\ t \in DOMAIN f.named
BY DEF FileOK, NamedOK, IdsUnique, ListOK

(* A list replaces another of its type if its ids are not those of other   *)
(* types.                                                                  *)
LEMMA ListReplaced ==
    ASSUME NEW f, FileOK(f), NEW t \in SectionTypes, NEW list, ListOK(t, list),
           \A u \in SectionTypes : u # t =>
             \A i \in DOMAIN list, j \in DOMAIN f.named[u] :
               list[i].id # Anonymous => list[i].id # f.named[u][j].id
    PROVE  FileOK([f EXCEPT !.named[t] = list])
<1> DEFINE old == f.named
           new == [old EXCEPT ![t] = list]
           g == [f EXCEPT !.named[t] = list]
<1>1. /\ f = [named |-> old, options |-> f.options, meshOn |-> f.meshOn]
      /\ NamedOK(old) /\ OptionsOK(f.options) /\ f.meshOn \in BOOLEAN
  BY DEF FileOK
<1>2. g = [f EXCEPT !.named = new] OBVIOUS
<1> HIDE DEF g, old
<1>3. DOMAIN old = SectionTypes BY <1>1 DEF NamedOK
<1>4. DOMAIN new = SectionTypes /\ new[t] = list /\ \A u \in SectionTypes : u # t => new[u] = old[u]
  BY <1>3
<1> HIDE DEF new
<1>5. \A u \in SectionTypes : ListOK(u, new[u])
  <2>1. \A u \in SectionTypes : ListOK(u, old[u]) BY ListsAreOK DEF old
  <2> QED BY <1>4, <2>1
<1>6. IdsUnique(new)
  <2> SUFFICES ASSUME NEW u \in SectionTypes, NEW v \in SectionTypes,
                      NEW i \in DOMAIN new[u], NEW j \in DOMAIN new[v],
                      new[u][i].id # Anonymous, new[u][i].id = new[v][j].id
               PROVE  u = v /\ i = j
    BY DEF IdsUnique
  <2>1. u = v => i = j BY <1>5 DEF ListOK
  <2>2. CASE u # t /\ v # t
    <3>1. i \in DOMAIN old[u] /\ j \in DOMAIN old[v] /\ old[u][i].id = old[v][j].id
          /\ old[u][i].id # Anonymous
      BY <1>4, <2>2
    <3> QED BY <1>1, <3>1 DEF NamedOK, IdsUnique
  <2>3. CASE u = t /\ v # t
    <3>1. list[i].id # Anonymous /\ i \in DOMAIN list /\ j \in DOMAIN old[v]
          /\ list[i].id = old[v][j].id
      BY <1>4, <2>3
    <3> QED BY <2>3, <3>1 DEF old
  <2>4. CASE u # t /\ v = t
    <3>1. list[j].id # Anonymous /\ j \in DOMAIN list /\ i \in DOMAIN old[u]
          /\ list[j].id = old[u][i].id
      BY <1>4, <2>4
    <3> QED BY <2>4, <3>1 DEF old
  <2> QED BY <2>1, <2>2, <2>3, <2>4
<1>7. NamedOK(new) BY <1>4, <1>5, <1>6 DEF NamedOK, ListOK
<1>8. g = [named |-> new, options |-> f.options, meshOn |-> f.meshOn] BY <1>1, <1>2
<1>9. FileOK(g) BY <1>1, <1>7, <1>8 DEF FileOK
<1> QED BY <1>9 DEF g

(* Sections whose ids the list had before.                                 *)
LEMMA ListDrawn ==
    ASSUME NEW f, FileOK(f), NEW t \in SectionTypes, NEW list, ListOK(t, list),
           \A i \in DOMAIN list : \E j \in DOMAIN f.named[t] : list[i].id = f.named[t][j].id
    PROVE  FileOK([f EXCEPT !.named[t] = list])
<1>1. ASSUME NEW u \in SectionTypes, u # t, NEW i \in DOMAIN list, NEW j \in DOMAIN f.named[u],
             list[i].id # Anonymous
      PROVE  list[i].id # f.named[u][j].id
  <2>1. PICK k \in DOMAIN f.named[t] : list[i].id = f.named[t][k].id OBVIOUS
  <2>2. IdsUnique(f.named) BY DEF FileOK, NamedOK
  <2> QED BY <1>1, <2>1, <2>2 DEF IdsUnique
<1> QED BY <1>1, ListReplaced

LEMMA SectionAdded ==
    ASSUME NEW f, FileOK(f), NEW t \in SectionTypes, NEW s \in Section(t), Named(t, s),
           \A u \in SectionTypes : \A i \in DOMAIN f.named[u] : f.named[u][i].id # s.id
    PROVE  FileOK([f EXCEPT !.named[t] = Append(@, s)])
<1> DEFINE list == f.named[t]
           out == Append(list, s)
<1>1. ListOK(t, list) BY ListsAreOK
<1> HIDE DEF list
<1>2. list \in Seq(Section(t)) BY <1>1 DEF ListOK
<1>3. /\ out \in Seq(Section(t)) /\ Len(list) \in Nat /\ DOMAIN list = 1..Len(list)
      /\ DOMAIN out = 1..(Len(list) + 1) /\ out[Len(list) + 1] = s
      /\ \A i \in DOMAIN list : out[i] = list[i]
  BY <1>2, AppendIs
<1> HIDE DEF out
<1>4. \A i \in DOMAIN out : i = Len(list) + 1 \/ i \in DOMAIN list BY <1>3
<1>5. \A i \in DOMAIN list : list[i].id # s.id BY DEF list
<1>6. ListOK(t, out)
  <2>1. \A i \in DOMAIN out : Named(t, out[i]) BY <1>1, <1>3, <1>4 DEF ListOK
  <2>2. ASSUME NEW i \in DOMAIN out, NEW j \in DOMAIN out,
               out[i].id # Anonymous, out[i].id = out[j].id
        PROVE  i = j
    <3>1. CASE i \in DOMAIN list /\ j \in DOMAIN list BY <1>1, <1>3, <2>2, <3>1 DEF ListOK
    <3>2. CASE ~(i \in DOMAIN list /\ j \in DOMAIN list) BY <1>3, <1>4, <1>5, <2>2, <3>2
    <3> QED BY <3>1, <3>2
  <2> QED BY <1>3, <2>1, <2>2 DEF ListOK
<1>7. \A u \in SectionTypes : u # t => \A i \in DOMAIN out, j \in DOMAIN f.named[u] :
        out[i].id # Anonymous => out[i].id # f.named[u][j].id
  <2> SUFFICES ASSUME NEW u \in SectionTypes, u # t, NEW i \in DOMAIN out,
                      NEW j \in DOMAIN f.named[u], out[i].id # Anonymous
               PROVE  out[i].id # f.named[u][j].id
    OBVIOUS
  <2>1. CASE i \in DOMAIN list
    <3>1. out[i] = f.named[t][i] /\ i \in DOMAIN f.named[t] BY <1>3, <2>1 DEF list
    <3>2. IdsUnique(f.named) BY DEF FileOK, NamedOK
    <3> QED BY <3>1, <3>2 DEF IdsUnique
  <2>2. CASE i = Len(list) + 1 BY <1>3, <2>2
  <2> QED BY <1>4, <2>1, <2>2
<1>8. FileOK([f EXCEPT !.named[t] = out]) BY <1>6, <1>7, ListReplaced
<1> QED BY <1>8 DEF out, list

LEMMA JoinedIs ==
    ASSUME NEW S, NEW a \in Seq(S), NEW b \in Seq(S)
    PROVE  /\ a \o b \in Seq(S) /\ DOMAIN (a \o b) = 1..(Len(a) + Len(b))
           /\ \A k \in 1..Len(a) : (a \o b)[k] = a[k]
           /\ \A k \in 1..Len(b) : (a \o b)[Len(a) + k] = b[k]
OBVIOUS

LEMMA SectionRemoved ==
    ASSUME NEW f, FileOK(f), NEW t \in SectionTypes, NEW i \in DOMAIN f.named[t]
    PROVE  FileOK([f EXCEPT !.named[t] = RemoveAt(@, i)])
<1> DEFINE list == f.named[t]
           n == Len(list)
           out == RemoveAt(list, i)
           Old(a) == IF a < i THEN a ELSE a + 1
<1>1. ListOK(t, list) BY ListsAreOK
<1> HIDE DEF list
<1>2. list \in Seq(Section(t)) BY <1>1 DEF ListOK
<1>3. n \in Nat /\ DOMAIN list = 1..n /\ i \in 1..n BY <1>2 DEF list
<1> DEFINE left == SubSeq(list, 1, i - 1)
           right == SubSeq(list, i + 1, n)
<1>4. out = left \o right BY DEF RemoveAt
<1> HIDE DEF n, out
<1>5. /\ left \in Seq(Section(t)) /\ Len(left) = i - 1
      /\ \A a \in 1..(i - 1) : left[a] = list[a]
  BY <1>2, <1>3
<1>6. /\ right \in Seq(Section(t)) /\ Len(right) = n - i
      /\ \A a \in 1..(n - i) : right[a] = list[a + i]
  BY <1>2, <1>3 DEF n
<1> HIDE DEF left, right
<1>7. out \in Seq(Section(t)) /\ DOMAIN out = 1..(n - 1)
  <2>1. out \in Seq(Section(t)) /\ DOMAIN out = 1..((i - 1) + (n - i))
    BY <1>4, <1>5, <1>6, JoinedIs
  <2>2. (i - 1) + (n - i) = n - 1 BY <1>3
  <2> QED BY <2>1, <2>2
<1>8. ASSUME NEW a \in 1..(n - 1) PROVE Old(a) \in 1..n /\ out[a] = list[Old(a)]
  <2>1. CASE a < i
    <3>1. a \in 1..(i - 1) /\ a \in 1..n BY <1>3, <2>1
    <3>2. out[a] = left[a] BY <1>4, <1>5, <1>6, <3>1, JoinedIs
    <3> QED BY <1>5, <2>1, <3>1, <3>2
  <2>2. CASE ~(a < i)
    <3>1. a - (i - 1) \in 1..(n - i) /\ a + 1 \in 1..n /\ (a - (i - 1)) + i = a + 1 BY <1>3, <2>2
    <3>2. out[(i - 1) + (a - (i - 1))] = right[a - (i - 1)] BY <1>4, <1>5, <1>6, <3>1, JoinedIs
    <3>3. (i - 1) + (a - (i - 1)) = a BY <1>3
    <3> QED BY <1>6, <2>2, <3>1, <3>2, <3>3
  <2> QED BY <2>1, <2>2
<1>9. ListOK(t, out)
  <2>1. \A a \in DOMAIN out : Named(t, out[a]) BY <1>1, <1>3, <1>7, <1>8 DEF ListOK
  <2>2. ASSUME NEW a \in 1..(n - 1), NEW b \in 1..(n - 1),
               out[a].id # Anonymous, out[a].id = out[b].id
        PROVE  a = b
    <3>1. Old(a) = Old(b)
      <4>1. /\ Old(a) \in 1..n /\ Old(b) \in 1..n /\ out[a] = list[Old(a)] /\ out[b] = list[Old(b)]
        BY <1>8
      <4> HIDE DEF Old
      <4> QED BY <1>1, <1>3, <2>2, <4>1 DEF ListOK
    <3> QED BY <1>3, <3>1
  <2> QED BY <1>7, <2>1, <2>2 DEF ListOK
<1>10. \A a \in DOMAIN out : \E j \in DOMAIN f.named[t] : out[a].id = f.named[t][j].id
  BY <1>3, <1>7, <1>8 DEF list
<1>11. FileOK([f EXCEPT !.named[t] = out]) BY <1>9, <1>10, ListDrawn
<1> QED BY <1>11 DEF out, list

LEMMA DeviceRetargeted ==
    ASSUME NEW f, FileOK(f), NEW i \in DOMAIN f.named["device"],
           NEW b \in Body("device"), b.mac = f.named["device"][i].body.mac
    PROVE  FileOK([f EXCEPT !.named["device"][i].body = b])
<1> DEFINE list == f.named["device"]
           s == [list[i] EXCEPT !.body = b]
           out == [list EXCEPT ![i] = s]
<1>1. ListOK("device", list) /\ i \in DOMAIN list BY ListsAreOK, TypesAre
<1>2. b.mac = list[i].body.mac OBVIOUS
<1>3. [f EXCEPT !.named["device"][i].body = b] = [f EXCEPT !.named["device"] = out] OBVIOUS
<1> HIDE DEF list
<1>4. list \in Seq(Section("device")) /\ list[i] \in Section("device") BY <1>1 DEF ListOK
<1>5. s \in Section("device") /\ s.id = list[i].id /\ s.label = list[i].label /\ s.body = b
  BY <1>4 DEF Section
<1>6. Named("device", list[i]) BY <1>1 DEF ListOK
<1> HIDE DEF s
<1>7. Named("device", s) BY <1>2, <1>5, <1>6 DEF Named
<1>8. /\ out \in Seq(Section("device")) /\ DOMAIN out = DOMAIN list /\ out[i] = s
      /\ \A j \in DOMAIN list : j # i => out[j] = list[j]
  BY <1>1, <1>4, <1>5, ReplaceIs
<1> HIDE DEF out
<1>9. \A j \in DOMAIN list : out[j].id = list[j].id /\ Named("device", out[j])
  BY <1>1, <1>5, <1>7, <1>8 DEF ListOK
<1>10. ListOK("device", out) BY <1>1, <1>8, <1>9 DEF ListOK
<1>11. \A j \in DOMAIN out : \E k \in DOMAIN f.named["device"] : out[j].id = f.named["device"][k].id
  BY <1>8, <1>9 DEF list
<1>12. FileOK([f EXCEPT !.named["device"] = out]) BY <1>10, <1>11, ListDrawn, TypesAre
<1> QED BY <1>3, <1>12 DEF out, s

LEMMA FormSaved ==
    ASSUME NEW f, FileOK(f), NEW options, OptionsOK(options)
    PROVE  FileOK([f EXCEPT !.options = options])
<1>1. f = [named |-> f.named, options |-> f.options, meshOn |-> f.meshOn] BY DEF FileOK
<1>2. [f EXCEPT !.options = options] = [named |-> f.named, options |-> options, meshOn |-> f.meshOn]
  BY <1>1
<1> QED BY <1>2 DEF FileOK

(* Removing a device.                                                      *)

KeptBy(sections, m, n, f) ==
    f = [k \in 0..n |->
           IF k = 0 THEN <<>>
           ELSE IF OfMac(sections[k], m) THEN f[k - 1] ELSE Append(f[k - 1], sections[k])]

LEMMA KeptExist ==
    ASSUME NEW sections, NEW m, NEW n \in Nat
    PROVE  \E f : KeptBy(sections, m, n, f)
<1> DEFINE good == {k \in 0..n : \E f : KeptBy(sections, m, k, f)}
           Step(j, g) == IF j = 0 THEN <<>>
                         ELSE IF OfMac(sections[j], m) THEN g[j - 1]
                         ELSE Append(g[j - 1], sections[j])
<1>1. 0 \in good
  <2>1. KeptBy(sections, m, 0, [k \in 0..0 |-> <<>>]) BY DEF KeptBy
  <2> QED BY <2>1
<1>2. ASSUME NEW k \in 0..n, k \in good, k # n PROVE k + 1 \in good
  <2>1. PICK f : KeptBy(sections, m, k, f) BY <1>2
  <2> DEFINE h == [j \in 0..(k + 1) |-> IF j = k + 1 THEN Step(j, f) ELSE f[j]]
  <2>2. \A j \in 0..(k + 1) : Step(j, h) = Step(j, f)
    <3> SUFFICES ASSUME NEW j \in 0..(k + 1), j # 0 PROVE Step(j, h) = Step(j, f) OBVIOUS
    <3>1. j - 1 \in 0..(k + 1) /\ j - 1 # k + 1 OBVIOUS
    <3>2. h[j - 1] = f[j - 1] BY <3>1
    <3> QED BY <3>2
  <2>3. f = [j \in 0..k |-> Step(j, f)] BY <2>1 DEF KeptBy
  <2>4. \A j \in 0..k : f[j] = Step(j, f)
    <3> HIDE DEF Step
    <3> QED BY <2>3
  <2>5. h = [j \in 0..(k + 1) |-> Step(j, h)]
    <3> HIDE DEF Step
    <3>1. \A j \in 0..(k + 1) : j # k + 1 => j \in 0..k OBVIOUS
    <3>2. \A j \in 0..(k + 1) : h[j] = Step(j, h) BY <2>2, <2>4, <3>1
    <3> QED BY <3>2
  <2>6. KeptBy(sections, m, k + 1, h) BY <2>5 DEF KeptBy
  <2> HIDE DEF h
  <2>7. k + 1 \in 0..n BY <1>2
  <2> QED BY <2>6, <2>7
<1>3. good = 0..n
  <2> HIDE DEF good
  <2>1. good \in SUBSET (0..n) BY DEF good
  <2> QED BY <1>1, <1>2, <2>1, EachStep
<1> QED BY <1>3

LEMMA KeptIs ==
    ASSUME NEW t \in SectionTypes, NEW sections, ListOK(t, sections), NEW m
    PROVE  LET out == WithoutMac(sections, m)
           IN /\ ListOK(t, out)
              /\ \A i \in DOMAIN out : \E j \in DOMAIN sections : out[i] = sections[j]
<1> DEFINE n == Len(sections)
           Drawn(list, k) == \A i \in DOMAIN list : \E j \in 1..k : list[i] = sections[j]
           Right(list, k) == ListOK(t, list) /\ Drawn(list, k)
<1>1. /\ sections \in Seq(Section(t)) /\ n \in Nat /\ DOMAIN sections = 1..n
      /\ \A i \in 1..n : sections[i] \in Section(t) /\ Named(t, sections[i])
      /\ \A i, j \in 1..n : sections[i].id # Anonymous /\ sections[i].id = sections[j].id => i = j
  <2>1. sections \in Seq(Section(t)) BY DEF ListOK
  <2>2. n \in Nat /\ DOMAIN sections = 1..n /\ \A i \in 1..n : sections[i] \in Section(t) BY <2>1
  <2> HIDE DEF n
  <2> QED BY <2>1, <2>2 DEF ListOK
<1>2. PICK f : KeptBy(sections, m, n, f) /\ WithoutMac(sections, m) = f[n]
  <2>1. \E f : KeptBy(sections, m, n, f) BY <1>1, KeptExist
  <2> QED BY <2>1 DEF KeptBy, WithoutMac
<1>3. 0 \in 0..n /\ n \in 0..n
      /\ \A k \in 0..n : k # n => k + 1 \in 0..n /\ k + 1 \in 1..n /\ k + 1 # 0 /\ (k + 1) - 1 = k
  <2>1. n \in Nat BY <1>1
  <2> HIDE DEF n
  <2> QED BY <2>1
<1> HIDE DEF n
<1>4. f[0] = <<>> BY <1>2, <1>3 DEF KeptBy
<1>5. ASSUME NEW k \in 0..n, k # n
      PROVE  f[k + 1] = IF OfMac(sections[k + 1], m) THEN f[k] ELSE Append(f[k], sections[k + 1])
  BY <1>2, <1>3, <1>5 DEF KeptBy
<1> DEFINE good == {k \in 0..n : Right(f[k], k)}
<1>6. 0 \in good
  <2>1. <<>> \in Seq(Section(t)) /\ DOMAIN <<>> = {} OBVIOUS
  <2>2. Right(<<>>, 0) BY <2>1 DEF ListOK
  <2>3. Right(f[0], 0) BY <1>4, <2>2
  <2> HIDE DEF Right
  <2> QED BY <1>3, <2>3
<1>7. ASSUME NEW k \in 0..n, k \in good, k # n PROVE k + 1 \in good
  <2> DEFINE list == f[k]
             s == sections[k + 1]
             out == Append(list, s)
  <2>1. /\ ListOK(t, list) /\ Drawn(list, k) /\ k \in Nat /\ k + 1 \in 1..n /\ k + 1 \in 0..n
        /\ s \in Section(t) /\ Named(t, s)
    BY <1>1, <1>3, <1>7
  <2> HIDE DEF list, s
  <2>2. Drawn(list, k + 1)
    <3>1. \A j \in 1..k : j \in 1..(k + 1) BY <2>1
    <3> QED BY <2>1, <3>1
  <2>3. /\ out \in Seq(Section(t)) /\ Len(list) \in Nat /\ DOMAIN list = 1..Len(list)
        /\ DOMAIN out = 1..(Len(list) + 1) /\ out[Len(list) + 1] = s
        /\ \A i \in DOMAIN list : out[i] = list[i]
    <3>1. list \in Seq(Section(t)) BY <2>1 DEF ListOK
    <3> QED BY <2>1, <3>1, AppendIs
  <2> HIDE DEF out
  <2>4. \A i \in DOMAIN out : i = Len(list) + 1 \/ i \in DOMAIN list BY <2>3
  <2>5. Drawn(out, k + 1)
    <3> SUFFICES ASSUME NEW i \in DOMAIN out
                 PROVE  \E j \in 1..(k + 1) : out[i] = sections[j]
      OBVIOUS
    <3>1. CASE i \in DOMAIN list BY <2>2, <2>3, <3>1
    <3>2. CASE i = Len(list) + 1
      <4>1. k + 1 \in 1..(k + 1) BY <2>1
      <4>2. out[i] = sections[k + 1] BY <2>3, <3>2 DEF s
      <4> QED BY <4>1, <4>2
    <3> QED BY <2>4, <3>1, <3>2
  <2>6. \A i \in DOMAIN list : list[i].id # Anonymous => list[i].id # s.id
    <3> SUFFICES ASSUME NEW i \in DOMAIN list, list[i].id # Anonymous
                 PROVE  list[i].id # s.id
      OBVIOUS
    <3>1. PICK j \in 1..k : list[i] = sections[j] BY <2>1
    <3>2. j \in 1..n /\ j # k + 1 BY <1>1, <2>1
    <3> QED BY <1>1, <2>1, <3>1, <3>2 DEF s
  <2>7. ListOK(t, out)
    <3>1. \A i \in DOMAIN out : Named(t, out[i]) BY <2>1, <2>3, <2>4 DEF ListOK
    <3>2. ASSUME NEW i \in DOMAIN out, NEW j \in DOMAIN out,
                 out[i].id # Anonymous, out[i].id = out[j].id
          PROVE  i = j
      <4>1. CASE i \in DOMAIN list /\ j \in DOMAIN list BY <2>1, <2>3, <3>2, <4>1 DEF ListOK
      <4>2. CASE ~(i \in DOMAIN list /\ j \in DOMAIN list) BY <2>3, <2>4, <2>6, <3>2, <4>2
      <4> QED BY <4>1, <4>2
    <3> QED BY <2>3, <3>1, <3>2 DEF ListOK
  <2>8. f[k + 1] = list \/ f[k + 1] = out BY <1>5, <1>7 DEF list, out, s
  <2>9. Right(f[k + 1], k + 1) BY <2>1, <2>2, <2>5, <2>7, <2>8
  <2> HIDE DEF Right
  <2> QED BY <2>1, <2>9
<1>8. good = 0..n
  <2> HIDE DEF good
  <2>1. good \in SUBSET (0..n) BY DEF good
  <2> QED BY <1>6, <1>7, <2>1, <1>1, EachStep
<1>9. n \in good BY <1>3, <1>8
<1> QED BY <1>1, <1>2, <1>9

-----------------------------------------------------------------------------
(* The invariant of the store                                              *)

StoreOK ==
    /\ FileOK(uciFile) /\ FileOK(bundle)
    /\ catalog \subseteq Strategies /\ library \subseteq Strategies
    /\ removing \in Strategies \cup {NoStrategy}
    /\ luciEdits \in 0..MaxSaves

Additions == {<<>>} \cup {<<[name |-> n, body |-> "imported"]>> : n \in SafeNames \cup OtherNames}

LEMMA NamesAre ==
    ASSUME FileAssumption
    PROVE  /\ SafeNames \subseteq ObjectNames /\ OtherNames \subseteq ObjectNames
           /\ Strategies \subseteq Words
BY DEF FileAssumption, ObjectNames, Words

(* A Config with one of its fields set.                                    *)
LEMMA FieldsAre ==
    ASSUME NEW c, ConfigOK(c)
    PROVE  \E apps, secs, rules, devices, options, on :
             /\ c = [apps |-> apps, secs |-> secs, rules |-> rules, devices |-> devices,
                     options |-> options, meshOn |-> on]
             /\ c.apps = apps /\ c.secs = secs /\ c.rules = rules /\ c.devices = devices
             /\ c.options = options /\ c.meshOn = on
BY Zenon DEF ConfigOK

LEMMA RulesSet ==
    ASSUME NEW c, ConfigOK(c), NEW new
    PROVE  [c EXCEPT !.rules = @ \o new]
             = [apps |-> c.apps, secs |-> c.secs, rules |-> c.rules \o new, devices |-> c.devices,
                options |-> c.options, meshOn |-> c.meshOn]
<1> DEFINE more == c.rules \o new
<1>1. [c EXCEPT !.rules = @ \o new] = [c EXCEPT !.rules = more] OBVIOUS
<1> HIDE DEF more
<1>2. [c EXCEPT !.rules = more]
        = [apps |-> c.apps, secs |-> c.secs, rules |-> more, devices |-> c.devices,
           options |-> c.options, meshOn |-> c.meshOn]
  BY FieldsAre
<1> QED BY <1>1, <1>2 DEF more

LEMMA MeshSet ==
    ASSUME NEW c, ConfigOK(c), NEW new
    PROVE  [c EXCEPT !.meshOn = new]
             = [apps |-> c.apps, secs |-> c.secs, rules |-> c.rules, devices |-> c.devices,
                options |-> c.options, meshOn |-> new]
BY FieldsAre

LEMMA MeshForgotten ==
    ASSUME NEW c, ConfigOK(c)
    PROVE  [c EXCEPT !.meshOn = FALSE, !.options["mesh"] = "Default"]
             = [apps |-> c.apps, secs |-> c.secs, rules |-> c.rules, devices |-> c.devices,
                options |-> [c.options EXCEPT !["mesh"] = "Default"], meshOn |-> FALSE]
<1> DEFINE forgotten == [c.options EXCEPT !["mesh"] = "Default"]
           d == [c EXCEPT !.meshOn = FALSE]
<1>1. d = [apps |-> c.apps, secs |-> c.secs, rules |-> c.rules, devices |-> c.devices,
           options |-> c.options, meshOn |-> FALSE]
  BY MeshSet
<1>2. [c EXCEPT !.meshOn = FALSE, !.options["mesh"] = "Default"]
        = [d EXCEPT !.options = [d.options EXCEPT !["mesh"] = "Default"]]
  OBVIOUS
<1> HIDE DEF d
<1>3. d.options = c.options BY <1>1
<1>4. [d EXCEPT !.options = [d.options EXCEPT !["mesh"] = "Default"]]
        = [d EXCEPT !.options = forgotten]
  BY <1>3
<1> HIDE DEF forgotten
<1>5. PICK apps, secs, rules, devices, options, on :
        /\ d = [apps |-> apps, secs |-> secs, rules |-> rules, devices |-> devices,
                options |-> options, meshOn |-> on]
        /\ c.apps = apps /\ c.secs = secs /\ c.rules = rules /\ c.devices = devices
        /\ on = FALSE
  BY Zenon, <1>1
<1>6. [d EXCEPT !.options = forgotten]
        = [apps |-> c.apps, secs |-> c.secs, rules |-> c.rules, devices |-> c.devices,
           options |-> forgotten, meshOn |-> FALSE]
  <2>1. d = [apps |-> apps, secs |-> secs, rules |-> rules, devices |-> devices,
             options |-> options, meshOn |-> on]
    BY <1>5
  <2>2. [d EXCEPT !.options = forgotten]
          = [apps |-> apps, secs |-> secs, rules |-> rules, devices |-> devices,
             options |-> forgotten, meshOn |-> on]
    BY <2>1
  <2> QED BY <1>5, <2>2
<1> QED BY <1>2, <1>4, <1>6 DEF forgotten

LEMMA AddedIs ==
    ASSUME FileAssumption, NEW c, ConfigOK(c), NEW added \in Additions
    PROVE  LET d == [c EXCEPT !.rules = @ \o added]
           IN ConfigOK(d) /\ d.apps = c.apps /\ d.secs = c.secs
<1> DEFINE d == [c EXCEPT !.rules = @ \o added]
<1>1. "imported" \in Body("rule_provider") BY DEF Body, Words
<1>2. added \in Seq(Object("rule_provider"))
  <2>1. CASE added = <<>> BY <2>1
  <2>2. ASSUME NEW n \in SafeNames \cup OtherNames, added = <<[name |-> n, body |-> "imported"]>>
        PROVE  added \in Seq(Object("rule_provider"))
    <3>1. [name |-> n, body |-> "imported"] \in Object("rule_provider") BY <1>1, NamesAre DEF Object
    <3> QED BY <2>2, <3>1
  <2> QED BY <2>1, <2>2 DEF Additions
<1> DEFINE more == c.rules \o added
<1>3. more \in Seq(Object("rule_provider"))
  <2>1. c.rules \in Seq(Object("rule_provider")) BY DEF ConfigOK
  <2> QED BY <1>2, <2>1
<1>4. d = [apps |-> c.apps, secs |-> c.secs, rules |-> more, devices |-> c.devices,
           options |-> c.options, meshOn |-> c.meshOn]
  BY RulesSet
<1> HIDE DEF d, more
<1>5. /\ d.apps = c.apps /\ d.secs = c.secs /\ d.rules = more
      /\ d.devices = c.devices /\ d.options = c.options /\ d.meshOn = c.meshOn
  BY <1>4
<1>6. ConfigOK(d) BY <1>3, <1>4, <1>5 DEF ConfigOK
<1> QED BY <1>5, <1>6 DEF d

LEMMA MeshIs ==
    ASSUME NEW c, ConfigOK(c), NEW options, NEW on \in BOOLEAN,
           options = c.options \/ options = [c.options EXCEPT !["mesh"] = "Default"],
           NEW d, d = [apps |-> c.apps, secs |-> c.secs, rules |-> c.rules, devices |-> c.devices,
                       options |-> options, meshOn |-> on]
    PROVE  ConfigOK(d) /\ d.apps = c.apps /\ d.secs = c.secs
<1>1. /\ options \in [OptionKinds -> Values]
      /\ \A k \in OptionKinds : options[k] = "Empty" => k \in {"scalar", "dnslist"}
  <2>1. "Default" \in Values BY DEF Values
  <2> QED BY <2>1 DEF ConfigOK
<1>2. /\ d.apps = c.apps /\ d.secs = c.secs /\ d.rules = c.rules
      /\ d.devices = c.devices /\ d.options = options /\ d.meshOn = on
  OBVIOUS
<1> QED BY <1>1, <1>2 DEF ConfigOK

LEMMA ResetIs ==
    ASSUME NEW c, ConfigOK(c)
    PROVE  LET d == [Default EXCEPT !.apps = c.apps]
           IN ConfigOK(d) /\ d.apps = c.apps /\ d.secs = FactorySections
<1> DEFINE options == [k \in OptionKinds |-> "Default"]
           d == [Default EXCEPT !.apps = c.apps]
<1>1. d = [apps |-> c.apps, secs |-> FactorySections, rules |-> <<>>, devices |-> <<>>,
           options |-> options, meshOn |-> FALSE]
  <2> DEFINE none == <<>>
             factory == FactorySections
             off == FALSE
  <2>1. Default = [apps |-> none, secs |-> factory, rules |-> none, devices |-> none,
                   options |-> options, meshOn |-> off]
    BY DEF Default
  <2> HIDE DEF none, factory, off, options
  <2>2. d = [apps |-> c.apps, secs |-> factory, rules |-> none, devices |-> none,
             options |-> options, meshOn |-> off]
    BY <2>1
  <2> QED BY <2>2 DEF none, factory, off
<1>2. /\ options \in [OptionKinds -> Values]
      /\ \A k \in OptionKinds : options[k] = "Empty" => k \in {"scalar", "dnslist"}
  BY DEF Values
<1> HIDE DEF d, options
<1>3. /\ d.apps = c.apps /\ d.secs = FactorySections /\ d.rules = <<>>
      /\ d.devices = <<>> /\ d.options = options /\ d.meshOn = FALSE
  BY <1>1
<1>4. /\ <<>> \in Seq(Object("rule_provider")) /\ <<>> \in Seq(Object("device"))
      /\ DOMAIN <<>> = {}
  OBVIOUS
<1>5. DistinctMacs(<<>>) BY <1>4 DEF DistinctMacs
<1>6. ConfigOK(d) BY <1>1, <1>2, <1>3, <1>4, <1>5, FactoryIs DEF ConfigOK
<1> QED BY <1>3, <1>6 DEF d

(* A command writes a configuration with the applications it read, and the *)
(* sections it read or the factory's.                                      *)
Written(c, write) ==
    /\ ConfigOK(c) /\ write = Serialize(c)
    /\ c.apps = Load(uciFile).apps
    /\ c.secs = Load(uciFile).secs \/ c.secs = FactorySections

Commands == (\E added \in Additions : Rewrite(added)) \/ WizardReset \/ JoinMesh \/ LeaveMesh

LEMMA CommandsWrite ==
    ASSUME FileAssumption, FileOK(uciFile), Commands
    PROVE  \E c : Written(c, uciFile')
<1> DEFINE c == Load(uciFile)
<1>1. ConfigOK(c) BY LoadIs
<1> HIDE DEF c
<1>3. ASSUME NEW added \in Additions, Rewrite(added) PROVE \E d : Written(d, uciFile')
  <2> DEFINE d == [c EXCEPT !.rules = @ \o added]
  <2>1. ConfigOK(d) /\ d.apps = c.apps /\ d.secs = c.secs BY <1>1, AddedIs
  <2>2. uciFile' = Serialize(d) BY <1>3 DEF Rewrite, c
  <2> HIDE DEF d
  <2>3. Written(d, uciFile') BY <2>1, <2>2 DEF Written, c
  <2> QED BY <2>3
<1>4. CASE WizardReset
  <2> DEFINE d == [Default EXCEPT !.apps = c.apps]
  <2>1. ConfigOK(d) /\ d.apps = c.apps /\ d.secs = FactorySections BY <1>1, ResetIs
  <2>2. uciFile' = Serialize(d) BY <1>4 DEF WizardReset, c
  <2> HIDE DEF d
  <2>3. Written(d, uciFile') BY <2>1, <2>2 DEF Written, c
  <2> QED BY <2>3
<1>5. CASE JoinMesh
  <2> DEFINE d == [c EXCEPT !.meshOn = TRUE]
  <2>1. d = [apps |-> c.apps, secs |-> c.secs, rules |-> c.rules, devices |-> c.devices,
             options |-> c.options, meshOn |-> TRUE]
    BY <1>1, MeshSet
  <2>2. uciFile' = Serialize(d) BY <1>5 DEF JoinMesh, c
  <2> HIDE DEF d
  <2>3. ConfigOK(d) /\ d.apps = c.apps /\ d.secs = c.secs BY <1>1, <2>1, MeshIs
  <2>4. Written(d, uciFile') BY <2>2, <2>3 DEF Written, c
  <2> QED BY <2>4
<1>6. CASE LeaveMesh
  <2> DEFINE d == [c EXCEPT !.meshOn = FALSE, !.options["mesh"] = "Default"]
  <2>1. d = [apps |-> c.apps, secs |-> c.secs, rules |-> c.rules, devices |-> c.devices,
             options |-> [c.options EXCEPT !["mesh"] = "Default"], meshOn |-> FALSE]
    BY <1>1, MeshForgotten
  <2>2. uciFile' = Serialize(d) BY <1>6 DEF LeaveMesh, c
  <2> HIDE DEF d
  <2>3. ConfigOK(d) /\ d.apps = c.apps /\ d.secs = c.secs BY <1>1, <2>1, MeshIs
  <2>4. Written(d, uciFile') BY <2>2, <2>3 DEF Written, c
  <2> QED BY <2>4
<1> QED BY <1>3, <1>4, <1>5, <1>6 DEF Commands

(* The file a command wrote loads with the same applications, each text as *)
(* Load reads it.                                                          *)
LEMMA WrittenLoads ==
    ASSUME FileAssumption, NEW c, Written(c, uciFile')
    PROVE  /\ FileOK(uciFile')
           /\ Load(uciFile').apps = Again("zapret_strategy", Load(uciFile).apps)
           /\ \/ Load(uciFile').secs = Again("section", Load(uciFile).secs)
              \/ Load(uciFile').secs = Again("section", FactorySections)
<1>1. ConfigOK(c) /\ uciFile' = Serialize(c) BY DEF Written
<1>2. FileOK(Serialize(c)) BY <1>1, WrittenIs
<1>3. /\ Load(Serialize(c)).apps = Again("zapret_strategy", c.apps)
      /\ Load(Serialize(c)).secs = Again("section", c.secs)
  BY <1>1, ReadBack
<1> QED BY <1>1, <1>2, <1>3 DEF Written

(* An entry less is no harm if no enabled application uses it.             *)
LEMMA StillCompiles ==
    ASSUME NEW c, NEW known, NEW more, Compiles(c, known),
           \A i \in DOMAIN c.apps : c.apps[i].body.on /\ c.apps[i].body.uses \in known
                                    => c.apps[i].body.uses \in more
    PROVE  Compiles(c, more)
BY DEF Compiles

(* What compiles does so when it is read again: names of applications are  *)
(* plain, those of the library too.                                        *)
LEMMA AgainCompiles ==
    ASSUME FileAssumption, NEW c, ConfigOK(c), NEW d, NEW known, known \subseteq Strategies,
           Compiles(c, known), d.apps = Again("zapret_strategy", c.apps),
           d.secs = Again("section", c.secs) \/ d.secs = Again("section", FactorySections)
    PROVE  Compiles(d, known)
<1> DEFINE running == {c.apps[i].name : i \in {j \in DOMAIN c.apps : c.apps[j].body.on}}
           runs == {d.apps[i].name : i \in {j \in DOMAIN d.apps : d.apps[j].body.on}}
<1>1. /\ \A i \in DOMAIN c.apps : PlainName(c.apps[i].name)
      /\ \A i, j \in DOMAIN c.apps : c.apps[i].name = c.apps[j].name => i = j
      /\ \A i \in DOMAIN c.apps : c.apps[i].body.on => c.apps[i].body.uses \in known
      /\ \A i \in DOMAIN c.secs : c.secs[i].body.zapret => c.secs[i].body.apps \subseteq running
  BY DEF Compiles
<1>2. /\ \A v : PlainName(v) => Parsed(v) = v
      /\ \A v \in known : Parsed(v) = v
  BY ParsedIs DEF PlainName
<1>3. /\ c.apps \in Seq(Object("zapret_strategy")) /\ c.secs \in Seq(Object("section"))
  BY DEF ConfigOK
<1>4. /\ DOMAIN d.apps = DOMAIN c.apps
      /\ \A i \in DOMAIN c.apps :
           /\ d.apps[i].name = c.apps[i].name
           /\ d.apps[i].body.on = c.apps[i].body.on
           /\ d.apps[i].body.uses = Parsed(c.apps[i].body.uses)
  <2>1. /\ DOMAIN d.apps = DOMAIN c.apps
        /\ \A i \in DOMAIN c.apps :
             d.apps[i] = [name |-> Parsed(c.apps[i].name),
                          body |-> ParsedBody("zapret_strategy", c.apps[i].body)]
    BY DEF Again
  <2>2. \A i \in DOMAIN c.apps : c.apps[i].body \in [on : BOOLEAN, uses : Words]
    <3>1. \A i \in DOMAIN c.apps : c.apps[i] \in Object("zapret_strategy") BY <1>3
    <3> QED BY <3>1 DEF Object, Body
  <2>3. \A b \in [on : BOOLEAN, uses : Words] :
          /\ ParsedBody("zapret_strategy", b).on = b.on
          /\ ParsedBody("zapret_strategy", b).uses = Parsed(b.uses)
    BY DEF ParsedBody
  <2>4. ASSUME NEW i \in DOMAIN c.apps
        PROVE  /\ d.apps[i].name = c.apps[i].name
               /\ d.apps[i].body.on = c.apps[i].body.on
               /\ d.apps[i].body.uses = Parsed(c.apps[i].body.uses)
    <3>1. /\ d.apps[i].name = Parsed(c.apps[i].name)
          /\ d.apps[i].body = ParsedBody("zapret_strategy", c.apps[i].body)
      <4> DEFINE name == Parsed(c.apps[i].name)
                 body == ParsedBody("zapret_strategy", c.apps[i].body)
      <4>1. d.apps[i] = [name |-> name, body |-> body] BY <2>1
      <4> HIDE DEF name, body
      <4>2. d.apps[i].name = name /\ d.apps[i].body = body BY <4>1
      <4> QED BY <4>2 DEF name, body
    <3>2. Parsed(c.apps[i].name) = c.apps[i].name BY <1>1, <1>2
    <3>3. /\ ParsedBody("zapret_strategy", c.apps[i].body).on = c.apps[i].body.on
          /\ ParsedBody("zapret_strategy", c.apps[i].body).uses = Parsed(c.apps[i].body.uses)
      BY <2>2, <2>3
    <3> QED BY <3>1, <3>2, <3>3
  <2> QED BY <2>1, <2>4
<1>5. runs = running BY <1>4
<1> HIDE DEF running, runs
<1>6. \A v \in running : Parsed(v) = v BY <1>1, <1>2 DEF running
<1>7. \A i \in DOMAIN d.secs : d.secs[i].body.zapret => d.secs[i].body.apps \subseteq running
  <2>1. ASSUME NEW secs \in Seq(Object("section")), d.secs = Again("section", secs),
               \A i \in DOMAIN secs : secs[i].body.zapret => secs[i].body.apps \subseteq running
        PROVE  \A i \in DOMAIN d.secs : d.secs[i].body.zapret => d.secs[i].body.apps \subseteq running
    <3> SUFFICES ASSUME NEW i \in DOMAIN d.secs, d.secs[i].body.zapret
                 PROVE  d.secs[i].body.apps \subseteq running
      OBVIOUS
    <3> DEFINE b == secs[i].body
    <3>1. i \in DOMAIN secs /\ d.secs[i].body = ParsedBody("section", b) BY <2>1 DEF Again
    <3>2. b \in [zapret : BOOLEAN, apps : SUBSET Words]
      <4>1. secs[i] \in Object("section") BY <2>1, <3>1
      <4> QED BY <4>1 DEF Object, Body
    <3>3. b.zapret => b.apps \subseteq running BY <2>1, <3>1
    <3> HIDE DEF b
    <3> DEFINE read == {Parsed(a) : a \in b.apps}
    <3>4. ParsedBody("section", b) = [b EXCEPT !.apps = read] BY DEF ParsedBody
    <3> HIDE DEF read
    <3>5. ParsedBody("section", b).apps = read /\ ParsedBody("section", b).zapret = b.zapret
      BY <3>2, <3>4
    <3>6. read \subseteq running BY <1>6, <3>1, <3>3, <3>5 DEF read
    <3> QED BY <3>1, <3>5, <3>6
  <2>2. \A i \in DOMAIN FactorySections : FactorySections[i].body.zapret = FALSE
    BY DEF FactorySections
  <2>3. CASE d.secs = Again("section", FactorySections) BY <2>1, <2>2, <2>3, FactoryIs
  <2>4. CASE d.secs = Again("section", c.secs) BY <1>1, <1>3, <2>1, <2>4
  <2> QED BY <2>3, <2>4
<1>8. \A i \in DOMAIN d.apps : d.apps[i].body.on => d.apps[i].body.uses \in known
  BY <1>1, <1>2, <1>4
<1>9. /\ \A i \in DOMAIN d.apps : PlainName(d.apps[i].name)
      /\ \A i, j \in DOMAIN d.apps : d.apps[i].name = d.apps[j].name => i = j
  BY <1>1, <1>4
<1> QED BY <1>5, <1>7, <1>8, <1>9 DEF Compiles, runs

LEMMA PairIs ==
    ASSUME NEW A, NEW B, NEW x \in A \X B
    PROVE  \E p \in A, n \in B : x = <<p, n>>
OBVIOUS

LEMMA StartIs ==
    ASSUME FileAssumption, CfgInit
    PROVE  StoreOK
<1>1. PICK named \in StartFiles :
        uciFile = [named |-> named, meshOn |-> FALSE, options |-> [k \in OptionKinds |-> "Absent"]]
  BY DEF CfgInit
<1> DEFINE options == [k \in OptionKinds |-> "Absent"]
<1>2. uciFile = [named |-> named, options |-> options, meshOn |-> FALSE] BY <1>1
<1>3. /\ DOMAIN named = SectionTypes /\ IdsUnique(named)
      /\ \A t \in SectionTypes : named[t] \in Seq(StartSections(t))
  BY DEF FileAssumption
<1>4. ASSUME NEW t \in SectionTypes
      PROVE  named[t] \in Seq(Section(t)) /\ \A i \in DOMAIN named[t] : Named(t, named[t][i])
  <2> DEFINE none == ""
  <2>1. /\ none \in Words /\ t \in Words /\ t # "dev" /\ none # "dev"
        /\ STRING \subseteq Words /\ STRING \ {NoLabel} \subseteq ObjectNames
    BY Zenon DEF Words, SectionTypes, ObjectNames
  <2>2. StartSections(t) =
          {s \in [id : {Anonymous} \cup (({none, t} \ {"device"}) \X (STRING \ {NoLabel})) \cup ({"dev"} \X Macs),
                  label : STRING, body : Bodies(t)] :
             \A m \in Macs : s.id = <<"dev", m>> =>
                              t = "device" /\ s.body.mac = m /\ s.label # NoLabel}
    BY DEF StartSections
  <2> HIDE DEF none
  <2>3. Bodies(t) \subseteq Body(t)
    <3>1. CASE t = "zapret_strategy" BY <2>1, <3>1 DEF Bodies, Body
    <3>2. CASE t = "device" BY <2>1, <3>2 DEF Bodies, Body
    <3>3. CASE t = "section" BY <2>1, <3>3 DEF Bodies, Body
    <3>4. CASE t = "rule_provider" BY <2>1, <3>4 DEF Bodies, Body
    <3> QED BY <3>1, <3>2, <3>3, <3>4 DEF SectionTypes
  <2>4. ASSUME NEW s \in StartSections(t) PROVE s \in Section(t) /\ Named(t, s)
    <3>1. /\ s = [id |-> s.id, label |-> s.label, body |-> s.body] /\ s.label \in STRING
          /\ \/ s.id = Anonymous \/ s.id \in ({none, t} \ {"device"}) \X (STRING \ {NoLabel})
             \/ s.id \in {"dev"} \X Macs
          /\ s.body \in Bodies(t)
          /\ \A m \in Macs : s.id = <<"dev", m>> =>
                            t = "device" /\ s.body.mac = m /\ s.label # NoLabel
      BY <2>2
    <3>2. CASE s.id = Anonymous
      <4>1. \A m : s.id # <<"dev", m>> BY <3>2 DEF Anonymous
      <4> QED BY <2>1, <2>3, <3>1, <3>2, <4>1 DEF Section, Named
    <3>3. CASE s.id \in ({none, t} \ {"device"}) \X (STRING \ {NoLabel})
      <4> DEFINE Names == STRING \ {NoLabel}
                 prefixes == {none, t} \ {"device"}
      <4> HIDE DEF Names, prefixes
      <4>1. PICK p \in prefixes, n \in Names : s.id = <<p, n>>
        <5>1. s.id \in prefixes \X Names BY <3>3 DEF Names, prefixes
        <5> QED BY <5>1, PairIs
      <4>2. p \in Words /\ p # "dev" /\ n \in ObjectNames BY <2>1, <4>1 DEF Names, prefixes
      <4>3. s.id[1] = p /\ s.id[2] = n BY <4>1
      <4>4. \A m : s.id # <<"dev", m>> BY <4>2, <4>3
      <4>5. s.id \in Words \X (ObjectNames \cup Macs) BY <4>1, <4>2
      <4>6. s \in Section(t) BY <2>1, <2>3, <3>1, <4>5 DEF Section
      <4> QED BY <4>2, <4>3, <4>4, <4>6 DEF Named
    <3>4. CASE s.id \in {"dev"} \X Macs
      <4>1. PICK p \in {"dev"}, m \in Macs : s.id = <<p, m>> BY <3>4, PairIs
      <4>2. s.id = <<"dev", m>> /\ s.id[2] = m BY <4>1
      <4>3. t = "device" /\ s.body.mac = m /\ s.label # NoLabel BY <3>1, <4>2
      <4>4. ASSUME NEW o, s.id = <<"dev", o>> PROVE o = m
        <5>1. s.id[2] = o BY <4>4
        <5> QED BY <4>2, <5>1
      <4>5. s.id \in Words \X (ObjectNames \cup Macs) /\ s.id # Anonymous
        <5>1. "dev" \in Words BY DEF Words
        <5> QED BY <4>2, <5>1 DEF Anonymous
      <4>6. s \in Section(t) BY <2>1, <2>3, <3>1, <4>5 DEF Section
      <4> QED BY <3>1, <4>3, <4>4, <4>5, <4>6 DEF Named
    <3> QED BY <3>1, <3>2, <3>3, <3>4
  <2>5. named[t] \in Seq(StartSections(t)) BY <1>3
  <2>6. named[t] \in Seq(Section(t))
    <3>1. /\ Len(named[t]) \in Nat /\ named[t] \in [1..Len(named[t]) -> StartSections(t)] BY <2>5
    <3>2. named[t] \in [1..Len(named[t]) -> Section(t)] BY <2>4, <3>1
    <3> QED BY <3>1, <3>2, IsASeq
  <2>7. \A i \in DOMAIN named[t] : named[t][i] \in StartSections(t) BY <2>5
  <2> QED BY <2>4, <2>6, <2>7
<1>5. NamedOK(named) BY <1>3, <1>4 DEF NamedOK
<1>6. OptionsOK(options) BY DEF OptionsOK, Stored
<1> HIDE DEF options
<1>7. FileOK(uciFile) BY <1>2, <1>5, <1>6 DEF FileOK
<1> QED BY <1>7 DEF StoreOK, CfgInit, FileAssumption

LEMMA PagesSave ==
    ASSUME FileAssumption, FileOK(uciFile), LuciPages
    PROVE  FileOK(uciFile')
<1>1. ASSUME NEW t \in SectionTypes, t # "device", NEW n \in SafeNames, NEW b \in Body(t),
             AddObject(t, n, b)
      PROVE  FileOK(uciFile')
  <2> DEFINE s == [id |-> <<t, n>>, label |-> NoLabel, body |-> b]
  <2>1. uciFile' = [uciFile EXCEPT !.named[t] = Append(@, s)]
    BY <1>1 DEF AddObject, LuciSaves, WithSection
  <2>2. /\ s.id = <<t, n>> /\ s.label = NoLabel /\ s.body = b /\ s.id[1] = t /\ s.id[2] = n
    OBVIOUS
  <2>3. \A u \in SectionTypes : \A i \in DOMAIN uciFile.named[u] : uciFile.named[u][i].id # s.id
    BY <1>1, <2>2 DEF AddObject, FreeId
  <2>4. /\ t \in Words /\ t # "dev" /\ NoLabel \in Words /\ n \in ObjectNames
    BY NamesAre DEF Words, SectionTypes
  <2>5. s \in Section(t) BY <2>4 DEF Section
  <2> HIDE DEF s
  <2>6. Named(t, s) BY <2>2, <2>4 DEF Named
  <2> QED BY <2>1, <2>3, <2>5, <2>6, SectionAdded
<1>2. \A m \in Macs, target \in {"media", Exclude} :
        Target(m, target) \in Body("device") /\ Target(m, target).mac = m
  <2>1. NoName \in Words /\ "media" \in Words /\ Exclude \in Words BY DEF Words, NoName
  <2> QED BY Zenon, <2>1 DEF Target, Body
<1>3. ASSUME NEW m \in Macs, NEW target \in {"media", Exclude}, AddDevice(m, target)
      PROVE  FileOK(uciFile')
  <2> DEFINE b == Target(m, target)
             s == [id |-> <<"dev", m>>, label |-> "phone", body |-> b]
  <2>1. b \in Body("device") /\ b.mac = m BY <1>2
  <2>2. uciFile' = [uciFile EXCEPT !.named["device"] = Append(@, s)]
    BY <1>3 DEF AddDevice, LuciSaves, WithSection
  <2> HIDE DEF b
  <2>3. /\ s.id = <<"dev", m>> /\ s.label = "phone" /\ s.body = b OBVIOUS
  <2>4. "dev" \in Words /\ "phone" \in Words /\ "phone" # NoLabel BY DEF Words, NoLabel
  <2>5. s \in Section("device") BY <2>1, <2>4 DEF Section
  <2> HIDE DEF s
  <2>6. Named("device", s)
    <3>1. ASSUME NEW o, s.id = <<"dev", o>> PROVE o = m
      <4>1. s.id[2] = o /\ s.id[2] = m BY <2>3, <3>1
      <4> QED BY <4>1
    <3> QED BY <2>1, <2>3, <2>4, <3>1 DEF Named
  <2>7. \A u \in SectionTypes : \A i \in DOMAIN uciFile.named[u] : uciFile.named[u][i].id # s.id
    <3> SUFFICES ASSUME NEW u \in SectionTypes, NEW i \in DOMAIN uciFile.named[u],
                        uciFile.named[u][i].id = <<"dev", m>>
                 PROVE  FALSE
      BY <2>3
    <3>1. Named(u, uciFile.named[u][i]) BY DEF FileOK, NamedOK
    <3>2. u = "device" /\ uciFile.named[u][i].body.mac = m BY <3>1 DEF Named
    <3> QED BY <1>3, <3>2 DEF AddDevice, OfMac, Devices
  <2> QED BY <2>2, <2>5, <2>6, <2>7, SectionAdded, TypesAre
<1>4. ASSUME NEW m \in Macs, NEW target \in {"media", Exclude}, RetargetDevice(m, target)
      PROVE  FileOK(uciFile')
  <2>1. PICK i \in DOMAIN uciFile.named["device"] :
          /\ uciFile.named["device"][i].body.mac = m
          /\ uciFile' = [uciFile EXCEPT !.named["device"][i].body = Target(m, target)]
    BY <1>4 DEF RetargetDevice, LuciSaves, OfMac, Devices
  <2>2. Target(m, target) \in Body("device") /\ Target(m, target).mac = m BY <1>2
  <2> QED BY <2>1, <2>2, DeviceRetargeted
<1>5. ASSUME NEW m \in Macs, RemoveDevice(m) PROVE FileOK(uciFile')
  <2> DEFINE list == uciFile.named["device"]
             out == WithoutMac(list, m)
  <2>1. uciFile' = [uciFile EXCEPT !.named["device"] = out] BY <1>5 DEF RemoveDevice, LuciSaves
  <2>2. ListOK("device", list) BY ListsAreOK, TypesAre
  <2>3. ListOK("device", out) /\ \A i \in DOMAIN out : \E j \in DOMAIN list : out[i] = list[j]
    BY <2>2, KeptIs, TypesAre
  <2> HIDE DEF out
  <2> QED BY <2>1, <2>3, ListDrawn, TypesAre
<1>6. ASSUME NEW t \in SectionTypes, NEW i \in DOMAIN uciFile.named[t], RemoveSection(t, i)
      PROVE  FileOK(uciFile')
  <2>1. uciFile' = [uciFile EXCEPT !.named[t] = RemoveAt(@, i)] BY <1>6 DEF RemoveSection, LuciSaves
  <2> QED BY <2>1, SectionRemoved
<1>7. ASSUME NEW text \in {"Custom"} \cup DOMAIN Misread, FillForm(text) PROVE FileOK(uciFile')
  <2> DEFINE filled == [k \in OptionKinds |-> text]
  <2>1. text \in Texts /\ text \notin Marks BY ParsedIs DEF Texts
  <2>2. text \in Stored /\ text # "Blank" BY <2>1 DEF Stored, Marks
  <2>3. OptionsOK(filled) BY <2>2 DEF OptionsOK
  <2>4. uciFile' = [uciFile EXCEPT !.options = filled] BY <1>7 DEF FillForm, LuciSaves
  <2> QED BY <2>3, <2>4, FormSaved
<1>8. CASE ClearForm
  <2>1. OptionsOK([k \in OptionKinds |-> IF k = "dnslist" THEN "Blank" ELSE "Absent"])
    BY DEF OptionsOK, Stored
  <2> QED BY <1>8, <2>1, FormSaved DEF ClearForm, LuciSaves
<1>9. \A n \in SafeNames, s \in Strategies : [on |-> TRUE, uses |-> s] \in Body("zapret_strategy")
  BY NamesAre DEF Body
<1>10. \A n \in SafeNames : [zapret |-> TRUE, apps |-> {n}] \in Body("section")
  BY NamesAre DEF Body, ObjectNames
<1>11. "zapret_strategy" # "device" /\ "section" # "device" OBVIOUS
<1>12. CASE \E n \in SafeNames, s \in Strategies :
              AddObject("zapret_strategy", n, [on |-> TRUE, uses |-> s])
  BY <1>1, <1>9, <1>11, <1>12, TypesAre
<1>13. CASE \E n \in SafeNames : AddObject("section", n, [zapret |-> TRUE, apps |-> {n}])
  BY <1>1, <1>10, <1>11, <1>13, TypesAre
<1> QED BY <1>3, <1>4, <1>5, <1>6, <1>7, <1>8, <1>12, <1>13 DEF LuciPages

LEMMA CommandsAre ==
    ASSUME CfgCommands
    PROVE  Commands \/ ExportConfig \/ ImportConfig
<1>1. <<>> \in Additions BY DEF Additions
<1>2. \A n \in SafeNames \cup OtherNames : <<[name |-> n, body |-> "imported"]>> \in Additions
  BY DEF Additions
<1>3. CASE \E n \in SafeNames \cup OtherNames : Rewrite(<<[name |-> n, body |-> "imported"]>>)
  BY <1>2, <1>3 DEF Commands
<1>4. CASE Rewrite(<<>>) BY <1>1, <1>4 DEF Commands
<1> QED BY <1>3, <1>4 DEF CfgCommands, Commands

LEMMA CommandsLeave ==
    ASSUME Commands
    PROVE  CanLoad /\ UNCHANGED <<catalog, library, removing, bundle, luciEdits>>
BY DEF Commands, Rewrite, WizardReset, JoinMesh, LeaveMesh

LEMMA StoreSteps ==
    ASSUME StoreOK, [CfgNext]_cfgVars
    PROVE  StoreOK'
<1> USE DEF StoreOK
<1>0. FileAssumption BY FileAssumption
<1>1. CASE Commands
  <2>1. PICK c : Written(c, uciFile') BY <1>0, <1>1, CommandsWrite
  <2>2. FileOK(uciFile') BY <1>0, <2>1, WrittenLoads
  <2> QED BY <1>1, <2>2, CommandsLeave
<1>2. CASE ExportConfig
  <2>1. FileOK(Serialize(Load(uciFile))) BY <1>0, LoadIs, WrittenIs
  <2> QED BY <1>2, <2>1 DEF ExportConfig
<1>3. CASE ImportConfig BY <1>3 DEF ImportConfig
<1>4. CASE FetchZapretCandidates
  <2>1. catalog' \subseteq Strategies BY <1>4 DEF FetchZapretCandidates
  <2> QED BY <1>4, <2>1 DEF FetchZapretCandidates
<1>5. ASSUME NEW s \in Strategies, AddEntry(s) PROVE StoreOK'
  <2>1. library' \subseteq Strategies BY <1>5 DEF AddEntry
  <2> QED BY <1>5, <2>1 DEF AddEntry
<1>6. ASSUME NEW s \in Strategies, CheckRemoval(s) PROVE StoreOK' BY <1>6 DEF CheckRemoval
<1>7. CASE RemoveEntry
  <2>1. library' \subseteq Strategies BY <1>7 DEF RemoveEntry
  <2> QED BY <1>7, <2>1 DEF RemoveEntry
<1>8. CASE LuciPages
  <2>1. FileOK(uciFile') BY <1>0, <1>8, PagesSave
  <2>2. \E f : LuciSaves(f)
    BY <1>8 DEF LuciPages, AddObject, AddDevice, RetargetDevice, RemoveDevice, RemoveSection,
                FillForm, ClearForm
  <2>3. luciEdits < MaxSaves /\ luciEdits' = luciEdits + 1
        /\ UNCHANGED <<catalog, library, removing, bundle>>
    BY <2>2 DEF LuciSaves
  <2>4. luciEdits' \in 0..MaxSaves BY <1>0, <2>3 DEF FileAssumption
  <2> QED BY <2>1, <2>3, <2>4
<1>9. CASE UNCHANGED cfgVars BY <1>9 DEF cfgVars
<1>10. CASE CfgCommands BY <1>1, <1>2, <1>3, <1>10, CommandsAre
<1>11. CASE LibraryCommands BY <1>5, <1>6, <1>7, <1>11 DEF LibraryCommands
<1> QED BY <1>4, <1>8, <1>9, <1>10, <1>11 DEF CfgNext

(* The file, whoever wrote it last, has no repeated section id (Serialize, *)
(* sectionHeader, the sections LuCI names), and every option Load can take.*)
THEOREM StoreTypes == CfgSpec => []CfgTypeOK
<1>1. CfgInit => StoreOK BY FileAssumption, StartIs
<1>2. StoreOK /\ [CfgNext]_cfgVars => StoreOK' BY StoreSteps
<1>3. StoreOK => CfgTypeOK
  <2> SUFFICES ASSUME StoreOK PROVE CfgTypeOK OBVIOUS
  <2>1. NamedOK(uciFile.named) /\ OptionsOK(uciFile.options) BY DEF StoreOK, FileOK
  <2>2. SectionIdsUnique BY <2>1 DEF NamedOK, SectionIdsUnique
  <2>3. ASSUME NEW k \in OptionKinds
        PROVE  uciFile.options[k] \in Stored /\ LoadOption(k, uciFile.options[k]) \in Values
    <3> DEFINE loaded == LoadOptions(uciFile)
    <3>1. uciFile.options[k] \in Stored BY <2>1 DEF OptionsOK
    <3>2. loaded[k] = LoadOption(k, uciFile.options[k]) BY DEF LoadOptions
    <3>3. loaded \in [OptionKinds -> Values]
      BY <2>1, FileAssumption, LoadedOptions DEF LoadOptions
    <3> QED BY <3>1, <3>2, <3>3
  <2> QED BY <2>2, <2>3 DEF CfgTypeOK, StoreOK
<1> QED BY <1>1, <1>2, <1>3, PTL DEF CfgSpec

(* A command that rewrites the file changes nothing of the configuration   *)
(* but what it set out to change: what Serialize wrote, Load reads back as *)
(* it was, but for the texts it reads otherwise than they were written     *)
(* (Parsed; TextsSurvive is false of them).                                *)
THEOREM RewriteFaithful == CfgSpec => RewriteIsFaithful
<1> DEFINE Faithful ==
             uciFile' # uciFile /\ luciEdits' = luciEdits /\ bundle' = bundle =>
               \A added \in Additions : Rewrite(added) =>
                 Meaning(Load(uciFile')) = Meaning(AsRead([Load(uciFile) EXCEPT !.rules = @ \o added]))
<1>1. CfgInit => StoreOK BY FileAssumption, StartIs
<1>2. StoreOK /\ [CfgNext]_cfgVars => StoreOK' BY StoreSteps
<1>3. StoreOK => Faithful
  <2> SUFFICES ASSUME StoreOK, NEW added \in Additions, Rewrite(added)
               PROVE  Meaning(Load(uciFile')) = Meaning(AsRead([Load(uciFile) EXCEPT !.rules = @ \o added]))
    OBVIOUS
  <2> DEFINE c == Load(uciFile)
             d == [c EXCEPT !.rules = @ \o added]
  <2>1. ConfigOK(c) BY LoadIs, FileAssumption DEF StoreOK
  <2> HIDE DEF c
  <2>2. ConfigOK(d) BY <2>1, FileAssumption, AddedIs
  <2>3. uciFile' = Serialize(d) BY DEF Rewrite, c
  <2> HIDE DEF d
  <2>4. Meaning(Load(uciFile')) = Meaning(AsRead(d)) BY <2>2, <2>3, FileAssumption, ReadBack
  <2> QED BY <2>4 DEF d, c
<1>4. [][Faithful]_cfgVars => RewriteIsFaithful BY DEF RewriteIsFaithful, Additions
<1>5. StoreOK /\ [CfgNext]_cfgVars => [Faithful]_cfgVars BY <1>3
<1> HIDE DEF Faithful
<1> QED BY <1>1, <1>2, <1>4, <1>5, PTL DEF CfgSpec

(* While no other program comes between the two steps of a removal, the    *)
(* entry to be removed is used by no application.                          *)
Unused == removing # NoStrategy => ~Referenced(removing)

(* A rewrite makes no application refer to another entry of the library.   *)
LEMMA UseStays ==
    ASSUME FileOK(uciFile), NEW s \in Strategies,
           Load(uciFile').apps = Again("zapret_strategy", Load(uciFile).apps), Referenced(s)'
    PROVE  Referenced(s)
<1> DEFINE found == uciFile.named["zapret_strategy"]
           apps == Load(uciFile).apps
           again == Again("zapret_strategy", apps)
<1>1. PICK i \in DOMAIN again : again[i].body.uses = s BY DEF Referenced
<1>2. apps = Objects(uciFile, "zapret_strategy") BY DEF Load
<1>3. found \in Seq(Section("zapret_strategy")) BY TypesAre DEF FileOK, NamedOK
<1>4. /\ i \in DOMAIN apps /\ i \in DOMAIN found
      /\ again[i].body = ParsedBody("zapret_strategy", apps[i].body)
      /\ apps[i].body = ParsedBody("zapret_strategy", found[i].body)
  <2>1. i \in DOMAIN apps /\ again[i].body = ParsedBody("zapret_strategy", apps[i].body)
    <3> HIDE DEF apps
    <3> QED BY <1>1 DEF Again
  <2>2. apps = [j \in DOMAIN found |-> [name |-> IdName("zapret_strategy", found[j]),
                                        body |-> ParsedBody("zapret_strategy", found[j].body)]]
    BY <1>2 DEF Objects
  <2> HIDE DEF apps, found
  <2> QED BY <2>1, <2>2
<1>5. found[i].body \in Body("zapret_strategy")
  <2> HIDE DEF found
  <2>1. found[i] \in Section("zapret_strategy") BY <1>3, <1>4
  <2> QED BY <2>1 DEF Section
<1> HIDE DEF found, apps, again
<1>6. apps[i].body \in Body("zapret_strategy")
  BY <1>4, <1>5, FileAssumption, ParsedBodyIs, TypesAre
<1>7. \A b \in Body("zapret_strategy") : ParsedBody("zapret_strategy", b).uses = Parsed(b.uses)
  BY DEF Body, ParsedBody
<1>8. s = Parsed(apps[i].body.uses) /\ apps[i].body.uses = Parsed(found[i].body.uses)
  BY <1>1, <1>4, <1>5, <1>6, <1>7
<1>9. /\ \A v \in DOMAIN Misread : Misread[v] \in DOMAIN Misread => Misread[Misread[v]] \notin Strategies
      /\ s \notin DOMAIN Misread
  BY FileAssumption DEF FileAssumption, TextAssumption
<1>10. apps[i].body.uses = s BY <1>8, <1>9 DEF Parsed
<1> QED BY <1>4, <1>10 DEF Referenced, apps

LEMMA UnusedStays ==
    ASSUME ~Overlap, StoreOK, Unused, [CfgNext]_cfgVars
    PROVE  Unused'
<1>1. CASE Commands
  <2>1. PICK c : Written(c, uciFile') BY <1>1, FileAssumption, CommandsWrite DEF StoreOK
  <2>2. Load(uciFile').apps = Again("zapret_strategy", Load(uciFile).apps)
    BY <2>1, FileAssumption, WrittenLoads
  <2>3. \A s \in Strategies : ~Referenced(s) => ~Referenced(s)' BY <2>2, UseStays DEF StoreOK
  <2>4. removing' = removing /\ removing \in Strategies \cup {NoStrategy}
    BY <1>1, CommandsLeave DEF StoreOK
  <2> QED BY <2>3, <2>4 DEF Unused
<1>2. CASE removing' = NoStrategy BY <1>2 DEF Unused
<1>3. CASE UNCHANGED <<uciFile, removing>> BY <1>3 DEF Unused, Referenced
<1>4. CASE ExportConfig BY <1>3, <1>4 DEF ExportConfig
<1>5. CASE ImportConfig BY <1>2, <1>5 DEF ImportConfig, MayIntervene
<1>6. CASE FetchZapretCandidates BY <1>3, <1>6 DEF FetchZapretCandidates
<1>7. ASSUME NEW s, AddEntry(s) PROVE Unused' BY <1>3, <1>7 DEF AddEntry
<1>8. ASSUME NEW s, CheckRemoval(s) PROVE Unused'
  <2>1. removing' = s /\ uciFile' = uciFile /\ ~Referenced(s) BY <1>8 DEF CheckRemoval, InUse
  <2> QED BY <2>1 DEF Unused, Referenced
<1>9. CASE RemoveEntry BY <1>2, <1>9 DEF RemoveEntry
<1>10. CASE LuciPages
  <2>1. \E f : LuciSaves(f)
    BY <1>10 DEF LuciPages, AddObject, AddDevice, RetargetDevice, RemoveDevice, RemoveSection,
                 FillForm, ClearForm
  <2> QED BY <1>2, <2>1 DEF LuciSaves, MayIntervene
<1>11. CASE UNCHANGED cfgVars BY <1>3, <1>11 DEF cfgVars
<1>12. CASE CfgCommands BY <1>1, <1>4, <1>5, <1>12, CommandsAre
<1>13. CASE LibraryCommands BY <1>7, <1>8, <1>9, <1>13 DEF LibraryCommands
<1> QED BY <1>6, <1>10, <1>11, <1>12, <1>13 DEF CfgNext

(* What purewrt writes by itself it can load again: no rewrite, reset,     *)
(* imported bundle or change of the user's library locks the commands out, *)
(* as long as no other program changes the file while one of them is at    *)
(* work (with Overlap an entry can be removed that was just referred to).  *)
THEOREM OwnWrites == ASSUME ~Overlap PROVE CfgSpec => OwnWritesLoad
<1> DEFINE Loadable ==
             <<uciFile, library>>' # <<uciFile, library>>
               /\ UNCHANGED <<luciEdits, catalog>> /\ CanLoad
               => Loads(uciFile', catalog' \cup library')
<1>1. CfgInit => StoreOK /\ Unused
  <2>1. CfgInit => Unused BY DEF CfgInit, Unused
  <2> QED BY <2>1, FileAssumption, StartIs
<1>2. StoreOK /\ Unused /\ [CfgNext]_cfgVars => (StoreOK /\ Unused)'
  BY StoreSteps, UnusedStays
<1>3. StoreOK /\ Unused /\ [CfgNext]_cfgVars => [Loadable]_cfgVars
  <2> SUFFICES ASSUME StoreOK, Unused, [CfgNext]_cfgVars,
                      <<uciFile, library>>' # <<uciFile, library>>,
                      UNCHANGED <<luciEdits, catalog>>, CanLoad
               PROVE  Loads(uciFile', catalog' \cup library')
    OBVIOUS
  <2> DEFINE c == Load(uciFile)
             known == catalog' \cup library'
  <2>1. Compiles(c, Known) BY DEF CanLoad, Loads
  <2>2. ASSUME Known \subseteq known, uciFile' = uciFile PROVE Loads(uciFile', known)
    <3>1. \A i \in DOMAIN c.apps : c.apps[i].body.on /\ c.apps[i].body.uses \in Known
                                   => c.apps[i].body.uses \in known
      BY <2>2
    <3> HIDE DEF c, known
    <3>2. Compiles(c, known) BY <2>1, <3>1, StillCompiles
    <3> QED BY <2>2, <3>2 DEF Loads, c
  <2>3. CASE Commands
    <3>1. PICK d : Written(d, uciFile') BY <2>3, FileAssumption, CommandsWrite DEF StoreOK
    <3>2. /\ Load(uciFile').apps = Again("zapret_strategy", c.apps)
          /\ \/ Load(uciFile').secs = Again("section", c.secs)
             \/ Load(uciFile').secs = Again("section", FactorySections)
      BY <3>1, FileAssumption, WrittenLoads
    <3>3. known = Known BY <2>3, CommandsLeave DEF Known
    <3>4. ConfigOK(c) /\ Known \subseteq Strategies
      BY LoadIs, FileAssumption DEF StoreOK, Known
    <3> HIDE DEF c, known
    <3>5. Compiles(Load(uciFile'), known)
      BY <2>1, <3>2, <3>3, <3>4, FileAssumption, AgainCompiles
    <3> QED BY <3>5 DEF Loads, known
  <2>4. CASE ExportConfig BY <2>4 DEF ExportConfig
  <2>5. CASE ImportConfig
    <3>1. uciFile' = bundle /\ known = Known /\ Loads(bundle, Known)
      BY <2>5 DEF ImportConfig, Staged, Known
    <3> QED BY <3>1
  <2>6. CASE FetchZapretCandidates BY <2>6 DEF FetchZapretCandidates
  <2>7. ASSUME NEW s, AddEntry(s) PROVE Loads(uciFile', known)
    <3>1. Known \subseteq known /\ uciFile' = uciFile BY <2>7 DEF AddEntry, Known
    <3> QED BY <2>2, <3>1
  <2>8. ASSUME NEW s, CheckRemoval(s) PROVE FALSE BY <2>8 DEF CheckRemoval
  <2>9. CASE RemoveEntry
    <3>1. uciFile' = uciFile /\ ~Referenced(removing) /\ known = catalog \cup (library \ {removing})
      BY <2>9 DEF RemoveEntry, Unused
    <3>2. \A i \in DOMAIN c.apps : c.apps[i].body.on /\ c.apps[i].body.uses \in Known
                                   => c.apps[i].body.uses \in known
      BY <3>1 DEF Referenced, Known
    <3> HIDE DEF c, known
    <3>3. Compiles(c, known) BY <2>1, <3>2, StillCompiles
    <3> QED BY <3>1, <3>3 DEF Loads, c, known
  <2>10. CASE LuciPages
    <3>1. \E f : LuciSaves(f)
      BY <2>10 DEF LuciPages, AddObject, AddDevice, RetargetDevice, RemoveDevice, RemoveSection,
                   FillForm, ClearForm
    <3>2. luciEdits' = luciEdits + 1 /\ luciEdits' = luciEdits BY <3>1 DEF LuciSaves
    <3>3. luciEdits \in Nat BY FileAssumption DEF StoreOK, FileAssumption
    <3> QED BY <3>2, <3>3
  <2>11. CASE UNCHANGED cfgVars BY <2>11 DEF cfgVars
  <2>12. CASE CfgCommands BY <2>3, <2>4, <2>5, <2>12, CommandsAre
  <2>13. CASE LibraryCommands BY <2>7, <2>8, <2>9, <2>13 DEF LibraryCommands
  <2> QED BY <2>6, <2>10, <2>11, <2>12, <2>13 DEF CfgNext
<1>4. [][Loadable]_cfgVars => OwnWritesLoad BY DEF OwnWritesLoad
<1> HIDE DEF Loadable
<1> QED BY <1>1, <1>2, <1>3, <1>4, PTL DEF CfgSpec
=============================================================================
