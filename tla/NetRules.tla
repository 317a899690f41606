-------------------------------- MODULE NetRules --------------------------------
(***************************************************************************)
(* What happens to one packet under the generated ruleset                  *)
(* (internal/generator/nftables.go, section_match.go and                   *)
(* internal/config/section_match.go): the OUTPUT chain that marks the      *)
(* router's own traffic, the re-injection through lo, the PREROUTING chain *)
(* that dispatches to the sections' listeners, the POSTROUTING chain that  *)
(* queues to nfqws.  A rule is a condition on the packet and a verdict, a  *)
(* chain the list of its rules in the order they are written, and the      *)
(* first rule whose condition holds decides.  In place of a rule there may *)
(* be what a part of the chain decides, itself a rule that applies or not. *)
(*                                                                         *)
(* A destination is the collection of sets that hold it (each of them      *)
(* stands for the static set and its dns_ twin); a packet is one of the    *)
(* first of its connection, which is all the queue rules look at.  Native  *)
(* expressions (the port, protocol and AND lines of lists) and the WAN a   *)
(* strategy is assigned to are left out.                                   *)
(***************************************************************************)
EXTENDS Integers, Sequences

CONSTANTS
    Configs,     \* configurations: [sections, strategies, ...], see MC
    Packets      \* [from, v6, udp, port, in, mac, src, private, reply]

Unset == "none"

(* A port list is a sequence of <<first, last>>.                           *)
PortList(l) == l \in Seq(Nat \X Nat) /\ \A i \in DOMAIN l : l[i][1] <= l[i][2]

(* What a configuration that loads has: sections with names of their own   *)
(* (UCI ids), port lists in order, strategies that exist.                  *)
ConfigAssumption ==
  \A c \in Configs :
    /\ c.sections \in Seq({c.sections[i] : i \in DOMAIN c.sections})
    /\ \A i \in DOMAIN c.sections : LET s == c.sections[i] IN
         /\ s.name # Unset /\ \A j \in DOMAIN c.sections : c.sections[j].name = s.name => i = j
         /\ s.action \in {"proxy", "direct", "reject", "zapret"} /\ s.enabled \in BOOLEAN
         /\ s.priority \in Int /\ PortList(s.ports)
         /\ s.strategies \in Seq(DOMAIN c.strategies)
    /\ \A z \in DOMAIN c.strategies :
         /\ c.strategies[z].onTcp \in BOOLEAN /\ c.strategies[z].onUdp \in BOOLEAN
         /\ PortList(c.strategies[z].tcp) /\ PortList(c.strategies[z].udp)
(* The router's own packets have no hardware address, and the router is    *)
(* not among the clients its source lists are about.                       *)
PacketAssumption ==
  \A p \in Packets : p.port \in Nat /\ (p.from # "client" => p.mac = Unset /\ p.src = {})
ASSUME NetAssumption == ConfigAssumption /\ PacketAssumption

VARIABLES conf, packet, hook, via, queued
netVars == <<conf, packet, hook, via, queued>>

NetTypeOK ==
    /\ hook \in {"output", "prerouting", "postrouting", "direct", "rejected", "lost", "listener"}
    /\ via \in {Unset} \cup {conf.sections[i].name : i \in DOMAIN conf.sections}
    /\ queued \in {Unset} \cup {conf.strategies[z].name : z \in DOMAIN conf.strategies}
    /\ hook = "listener" => via # Unset

(* Config.IPv6Routed.                                                      *)
IPv6Routed(c) ==
    c.ipv6Mode = "on" \/ (c.ipv6Mode = "auto" /\ c.ipv6 /\ ~c.low)

-----------------------------------------------------------------------------
(* Ports and sections                                                      *)

(* parsePortRanges sorts a list by the first port and merges what overlaps *)
(* or touches: the last of the merged ranges is still open.  No ranges     *)
(* restrict nothing.                                                       *)
Sorting(list) ==
    CHOOSE p \in [DOMAIN list -> DOMAIN list] :
      /\ \A k \in DOMAIN list : \E i \in DOMAIN list : p[i] = k
      /\ \A i, j \in DOMAIN list : i < j => list[p[i]][1] <= list[p[j]][1]
MergeRange(m, r) ==
    IF r[1] <= m.open[2] + 1
    THEN [m EXCEPT !.open = <<@[1], IF r[2] > @[2] THEN r[2] ELSE @[2]>>]
    ELSE [closed |-> m.closed \cup {m.open}, open |-> r]
MergedRanges(list, order) ==
    LET merged[n \in DOMAIN list] ==
          IF n = 1 THEN [closed |-> {}, open |-> list[order[1]]]
          ELSE MergeRange(merged[n - 1], list[order[n]])
    IN merged[Len(list)]
PortRanges(list) ==
    IF list = <<>> THEN {}
    ELSE LET m == MergedRanges(list, Sorting(list)) IN m.closed \cup {m.open}

(* IntersectDestinationPorts: no port in common is not the same as no      *)
(* restriction.                                                            *)
Meeting(r, s) == <<IF r[1] > s[1] THEN r[1] ELSE s[1], IF r[2] < s[2] THEN r[2] ELSE s[2]>>
Overlapping(a, b) == {m \in {Meeting(r, s) : r \in a, s \in b} : m[1] <= m[2]}
IntersectLoosely(a, b) ==             \* variant: forgets that difference
    IF a = {} THEN [ports |-> b, ok |-> TRUE]
    ELSE IF b = {} THEN [ports |-> a, ok |-> TRUE]
    ELSE [ports |-> Overlapping(a, b), ok |-> TRUE]
Intersect(a, b) ==
    IF a = {} THEN [ports |-> b, ok |-> TRUE]
    ELSE IF b = {} THEN [ports |-> a, ok |-> TRUE]
    ELSE [ports |-> Overlapping(a, b), ok |-> Overlapping(a, b) # {}]

InPorts(p, ranges) == ranges = {} \/ \E r \in ranges : p.port \in r[1]..r[2]

MatchesProtocol(s, udp) ==
    s.action \in {"proxy", "zapret"} => s.match = "any" \/ s.match = (IF udp THEN "udp" ELSE "tcp")

(* The protocol and port test of every rule that marks for a proxy section.*)
ProxyTakes(s, p) ==
    /\ MatchesProtocol(s, p.udp) /\ (p.udp => s.udpMode # "tcp_only")
    /\ InPorts(p, PortRanges(s.ports))

(* sectionsByPriority: stable in the configured order.                     *)
Ahead(c, i, j) ==
    LET a == c.sections[i].priority
        b == c.sections[j].priority IN
    a < b \/ (a = b /\ i < j)

NFTSet(s) == IF s.action \in {"direct", "reject"} THEN s.action ELSE s.name
(* The sets of a family exist, and are matched, only when it is routed.    *)
Holds(c, p, set) == (p.v6 => IPv6Routed(c)) /\ set \in p.in

(* sectionZapretStrategy: a strategy under the section's own filters.      *)
Scoped(s, z) ==
    LET tcp == Intersect(PortRanges(z.tcp), PortRanges(s.ports))
        udp == Intersect(PortRanges(z.udp), PortRanges(s.ports))
    IN [name |-> z.name, tcp |-> tcp.ports, udp |-> udp.ports,
        onTcp |-> z.onTcp /\ MatchesProtocol(s, FALSE) /\ tcp.ok,
        onUdp |-> z.onUdp /\ MatchesProtocol(s, TRUE) /\ udp.ok]
StrategyTakes(z, p) ==
    IF p.udp THEN z.onUdp /\ InPorts(p, z.udp) ELSE z.onTcp /\ InPorts(p, z.tcp)
ScopedStrategy(c, s, i) == Scoped(s, c.strategies[s.strategies[i]])
Claims(c, s, p) == \E i \in DOMAIN s.strategies : StrategyTakes(ScopedStrategy(c, s, i), p)

-----------------------------------------------------------------------------
(* The chains                                                              *)

Rule(cond, verdict) == [cond |-> cond, verdict |-> verdict, to |-> Unset]
To(cond, verdict, s) == [cond |-> cond, verdict |-> verdict, to |-> s.name]
Silent == Rule(FALSE, "accept")
(* The first rule that applies.                                            *)
First(rules) ==
    LET hits == {i \in DOMAIN rules : rules[i].cond} IN
    IF hits = {} THEN Silent ELSE rules[CHOOSE i \in hits : \A j \in hits : i <= j]
(* A pass over the enabled sections: what the first of them says of which  *)
(* a rule applies.                                                         *)
SectionPass(c, said) ==
    LET hits == {i \in DOMAIN c.sections : c.sections[i].enabled /\ said[i].cond} IN
    IF hits = {} THEN Silent
    ELSE said[CHOOSE i \in hits : \A j \in hits \ {i} : Ahead(c, i, j)]

(* Private destinations, and the bypass sets.                              *)
Undefended(c, p) ==                  \* variant: proxy_server_bypass left out
    << Rule(p.private /\ (p.v6 => IPv6Routed(c)), "return"),
       Rule(Holds(c, p, "bypass"), "return") >>
Exempt(c, p) ==
    << Rule(p.private /\ (p.v6 => IPv6Routed(c)), "return"),
       Rule(Holds(c, p, "bypass"), "return"), Rule(Holds(c, p, "proxy server"), "return") >>

(* An assignment of the client: any destination.                           *)
IdentityRule(s, assigned, p) ==
    CASE s.action = "proxy"  -> To(assigned /\ ProxyTakes(s, p), "tproxy", s)
      [] s.action = "direct" -> To(assigned, "return", s)
      [] s.action = "reject" -> To(assigned, "reject", s)
      [] s.action = "zapret" -> Silent
DevicePass(c, p) ==
    SectionPass(c, [i \in DOMAIN c.sections |-> LET s == c.sections[i] IN
      IdentityRule(s, p.mac = s.name /\ (s.action = "proxy" /\ p.v6 => IPv6Routed(c)), p)])
SourcePass(c, p) ==
    SectionPass(c, [i \in DOMAIN c.sections |-> LET s == c.sections[i] IN
      IdentityRule(s, s.name \in p.src /\ (p.v6 => IPv6Routed(c)), p)])

BlocksQUIC(s, p) ==
    /\ s.udpMode = "block_quic" /\ MatchesProtocol(s, TRUE) /\ p.udp /\ p.port = 443
    /\ Intersect(PortRanges(s.ports), {<<443, 443>>}).ok
DestinationRule(c, s, p, output) ==
    LET held == Holds(c, p, NFTSet(s)) IN
    CASE s.action = "reject" -> To(held, "reject", s)
      [] s.action = "direct" -> To(held, "return", s)
      [] s.action = "zapret" -> To(held /\ Claims(c, s, p), "return", s)
      [] s.action = "proxy"  ->
           IF output THEN To(held /\ ProxyTakes(s, p), "mark", s)
           ELSE First(<< To(held /\ BlocksQUIC(s, p), "reject", s),
                         To(held /\ ProxyTakes(s, p), "tproxy", s) >>)
DestinationPass(c, p, output) ==
    SectionPass(c, [i \in DOMAIN c.sections |-> DestinationRule(c, c.sections[i], p, output)])
Sections(c, p) ==
    First(<< DevicePass(c, p), SourcePass(c, p),
             Rule(Holds(c, p, "reject"), "reject"), Rule(Holds(c, p, "direct"), "return"),
             DestinationPass(c, p, FALSE) >>)

(* What comes in through lo is the router talking to itself, or marked     *)
(* traffic coming back, which must pass.  (Packets that come marked from   *)
(* elsewhere, which a third rule returns, are not among the packets.)      *)
LoopBreakers(p, lo) ==
    << Rule(p.reply, "return"), Rule(lo /\ "self" \in p.in, "return") >>

(* Source ranges and devices kept out of everything: the rule for IPv6     *)
(* ranges is written only when IPv6 is routed.                             *)
Excluded(c, p) ==
    << Rule("bypass" \in p.src /\ (p.v6 => IPv6Routed(c)), "return"),
       Rule(p.mac = "excluded", "return") >>

Prerouting(c, p, lo) ==
    First(<< First(LoopBreakers(p, lo)), First(Exempt(c, p)), First(Excluded(c, p)), Sections(c, p),
             Rule(c.blockDoT /\ ~p.udp /\ p.port = 853, "reject"),
             Rule(p.v6 /\ ~IPv6Routed(c) /\ c.rejectV6, "reject"),
             Rule(c.blockDoQ /\ p.udp /\ p.port = 853, "reject"),
             Rule(c.blockDoH3 /\ Holds(c, p, "doh3") /\ p.udp /\ p.port = 443, "reject") >>)

(* writeOutputChain.  The first rules are those of the daemons: mihomo's   *)
(* cgroup, when the match works, and the mark nfqws puts on its packets.   *)
Output(c, p) ==
    First(<< Rule(p.from = "mihomo" /\ c.cgroup, "return"), Rule(p.from = "nfqws", "return"),
             Rule("self" \in p.in, "return"), Rule(p.reply, "return"),
             First(Exempt(c, p)), DestinationPass(c, p, TRUE) >>)

(* writeZapretPostroutingRules: nfqws never gets its own packets back.     *)
Fresh(p) == p.from # "nfqws"
QueueRules(c, s, p) ==
    [i \in DOMAIN s.strategies |->
       To(/\ s.action = "zapret" /\ Holds(c, p, s.name) /\ Fresh(p)
          /\ StrategyTakes(ScopedStrategy(c, s, i), p), "queue", ScopedStrategy(c, s, i))]
Queue(c, p) ==
    LET said == [i \in DOMAIN c.sections |-> First(QueueRules(c, c.sections[i], p))] IN
    First(<< Rule(p.reply, "return"), SectionPass(c, said) >>)

-----------------------------------------------------------------------------
(* The packet's way                                                        *)

NetInit ==
    /\ conf \in Configs /\ packet \in Packets
    /\ hook = IF packet.from = "client" THEN "prerouting" ELSE "output"
    /\ via = Unset /\ queued = Unset

AtOutput ==
    /\ hook = "output"
    /\ LET d == IF conf.routerOutput THEN Output(conf, packet) ELSE Silent IN
       /\ hook' = CASE d.verdict = "mark" -> "prerouting"
                    [] d.verdict = "reject" -> "rejected"
                    [] OTHER -> "postrouting"
       /\ via' = d.to
    /\ UNCHANGED <<conf, packet, queued>>

(* A marked packet that no rule takes is delivered to the router itself:   *)
(* the mark routes it to table `local default dev lo`.                     *)
AtPrerouting ==
    /\ hook = "prerouting"
    /\ LET d == Prerouting(conf, packet, packet.from # "client") IN
       /\ hook' = CASE d.verdict = "tproxy" -> "listener"
                    [] d.verdict = "reject" -> "rejected"
                    [] OTHER -> IF packet.from = "client" THEN "postrouting" ELSE "lost"
       /\ via' = d.to
    /\ UNCHANGED <<conf, packet, queued>>

AtPostrouting ==
    /\ hook = "postrouting" /\ hook' = "direct"
    /\ queued' = Queue(conf, packet).to
    /\ UNCHANGED <<conf, packet, via>>

NetNext == AtOutput \/ AtPrerouting \/ AtPostrouting

NetSpec == NetInit /\ [][NetNext]_netVars

-----------------------------------------------------------------------------
(* Properties                                                              *)

Arrived == hook \in {"direct", "rejected", "lost", "listener"}
Section(name) == CHOOSE s \in {conf.sections[i] : i \in DOMAIN conf.sections} : s.name = name
Enabled == {s \in {conf.sections[i] : i \in DOMAIN conf.sections} : s.enabled}
OnRouter == packet.from # "client"
Skips == packet.reply \/ packet.private \/ packet.in \cap {"bypass", "proxy server", "self"} # {}
         \/ "bypass" \in packet.src \/ packet.mac = "excluded" \/ (packet.v6 /\ ~IPv6Routed(conf))
Raw(p, list) == list = <<>> \/ \E i \in DOMAIN list : p.port \in list[i][1]..list[i][2]

(* A client that is assigned to a section by its MAC gets that section's   *)
(* treatment wherever it connects, whatever the sections' priorities and   *)
(* lists say; only where the section does not take the packet do its       *)
(* address and then the destination decide (nftables.go:155).              *)
MarksIt(s) ==
    /\ s.match = "any" \/ s.match = (IF packet.udp THEN "udp" ELSE "tcp")
    /\ ~(packet.udp /\ s.udpMode = "tcp_only") /\ Raw(packet, s.ports)
DeviceDecides ==
    Arrived /\ ~OnRouter /\ ~Skips =>
      \A s \in Enabled : packet.mac = s.name =>
        /\ s.action = "reject" => hook = "rejected"
        /\ s.action = "direct" => hook = "direct"
        /\ s.action = "proxy" /\ MarksIt(s) => hook = "listener" /\ via = s.name

(* Among the sections that hold a destination and take the packet's        *)
(* protocol and port, the one with the lowest priority number gets it:     *)
(* for a LAN client and, through the mark and the re-injection, for the    *)
(* router's own traffic.                                                   *)
ZapretTakes(s) ==
    /\ s.match = "any" \/ s.match = (IF packet.udp THEN "udp" ELSE "tcp")
    /\ Raw(packet, s.ports)
    /\ \E i \in DOMAIN s.strategies : LET z == conf.strategies[s.strategies[i]] IN
         IF packet.udp THEN z.onUdp /\ Raw(packet, z.udp) ELSE z.onTcp /\ Raw(packet, z.tcp)
PriorityDecides ==
    Arrived /\ ~Skips /\ packet.mac = Unset /\ packet.src = {}
    /\ packet.from \in {"client", "router"} /\ (OnRouter => conf.routerOutput)
    /\ packet.in \cap {"direct", "reject"} = {} =>
      \A s \in Enabled :
        /\ s.name \in packet.in
        /\ (s.action = "proxy" /\ MarksIt(s)) \/ (s.action = "zapret" /\ ZapretTakes(s))
        /\ \A t \in Enabled \ {s} : t.priority <= s.priority =>
             ~(t.action = "proxy" /\ MarksIt(t)) /\ ~(t.action = "zapret" /\ ZapretTakes(t))
             /\ ~(t.action = "proxy" /\ t.udpMode = "block_quic")
        => \/ s.action = "proxy" /\ hook = "listener" /\ via = s.name
           \/ s.action = "proxy" /\ s.udpMode = "block_quic" /\ packet.udp /\ packet.port = 443
              /\ hook = "rejected"
           \/ s.action = "zapret" /\ hook = "direct"

(* What a Zapret section keeps away from the proxy does go through nfqws,  *)
(* by one of that section's strategies; and what nfqws sends is never      *)
(* queued again (section_match.go:31, "precisely the same scope").         *)
ClaimIsQueued ==
    hook = "direct" /\ ~packet.reply =>
      /\ (via # Unset /\ Section(via).action = "zapret" /\ packet.from # "nfqws") =>
           \E i \in DOMAIN Section(via).strategies :
             queued = conf.strategies[Section(via).strategies[i]].name
      /\ packet.from = "nfqws" => queued = Unset

(* mihomo's own connections never come back to a listener: its cgroup      *)
(* keeps them out, and if that match fails the proxy servers' addresses    *)
(* do (nftables.go:367, loop safety).                                      *)
NoProxyLoop ==
    packet.from = "mihomo" /\ (conf.cgroup \/ "proxy server" \in packet.in) =>
      hook \notin {"listener", "lost", "prerouting"}

(* A marked packet is never lost: the section that marked it also takes it *)
(* when it comes back, or it is rejected (but see DirectIsGlobal).         *)
MarkedIsDispatched == hook = "lost" => "direct" \in packet.in

(* One section decides on each packet, and the same at every hook          *)
(* (nftables.go, NFTablesWithNative).                                      *)
Dispatched == DeviceDecides /\ PriorityDecides /\ MarkedIsDispatched /\ ClaimIsQueued

(* The global direct list is an exclusion whatever sections also hold the  *)
(* destination (docs/section-port-filters.md:26).  Not so for the router's *)
(* own traffic: OUTPUT has no such rule, marks it for a proxy section, and *)
(* PREROUTING then returns it where the mark delivers it to the router.    *)
DirectIsGlobal ==
    Arrived /\ ~Skips /\ packet.mac = Unset /\ packet.src = {}
    /\ "direct" \in packet.in /\ "reject" \notin packet.in => hook = "direct"
=============================================================================
