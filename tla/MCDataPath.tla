------------------------------ MODULE MCDataPath ------------------------------
(***************************************************************************)
(* What lies between a panel's answer and the verdict on a packet: the     *)
(* configuration file, the import of providers, the compiled lists, the    *)
(* rule outputs, the nftables rules, mihomo's configuration; and the       *)
(* counters beside them.  The models share no variables (a configuration,  *)
(* a list or an output is data, each module says which), so a history is   *)
(* about one part.                                                         *)
(***************************************************************************)
EXTENDS ConfigStore, ProviderImport, MrsSet, RuleStream, NetRules, MetricsStore,
        MihomoConfig, TLC

VARIABLE part

vars == <<part, cfgVars, importVars, mrsVars, rsVars, netVars, msVars, mihomoVars>>

-----------------------------------------------------------------------------
(* ConfigStore: an empty file, and one of an old version; a text that each *)
(* rewrite changes (three times, then it stays) and one that Load changes  *)
(* once.                                                                   *)
MCMisread == "John's" :> "John's (2)" @@ "John's (2)" :> "John's (3)" @@ "a  b" :> "a b"
Saved(id, l, b) == [id |-> id, label |-> l, body |-> b]
MCStartFiles ==
  { [t \in SectionTypes |-> <<>>],
    [t \in SectionTypes |->
       CASE t = "rule_provider" -> << Saved(<<"", "a">>, NoLabel, "x"), Saved(Anonymous, "a", "y"),
                                      Saved(Anonymous, "my-b", "a  b") >>
         [] t = "device" ->
              << Saved(Anonymous, "tv", [mac |-> "m1", section |-> "media", exclude |-> FALSE]),
                 Saved(<<"dev", "m1">>, "John's", [mac |-> "m1", section |-> "", exclude |-> TRUE]) >>
         [] OTHER -> <<>>] }

(* ProviderImport: a profile with hints, another without nodes whose lists *)
(* have the same names or addresses, a plain list of nodes.                *)
MCAnswers ==
  LET Answer(y, n, l, g) == [yaml |-> y, nodes |-> n, lists |-> l, groups |-> g]
      From(n, u, c, t) == [name |-> n, url |-> u, class |-> c, target |-> t]
      Has(n, h) == [name |-> n, hint |-> h]
  IN { Answer(TRUE, TRUE, <<From("a", "u1", "common", "Proxy"), From("b", "u2", "ai", "DIRECT")>>,
              <<Has("Videos", "fast"), Has("idle", "slow")>>),
       Answer(TRUE, FALSE, <<From("b", "u1", "ai", "foo"), From("c", NoUrl, "common", NoTarget),
                              From("d", "u3", "ai", "Videos")>>,
              <<Has("foo", "slow"), Has("Proxy", "none")>>),
       Answer(FALSE, TRUE, <<From("x", "u", "common", NoTarget)>>, <<>>) }

(* MrsSet: reversed names over two labels, alone and under wildcards.      *)
Com == 3
Org == 4
MCLists ==
  {s \in SUBSET { <<Com>>, <<Org, Com>>, <<Com, Dot, Com>>, <<Plus, Dot, Com>>, <<Org, Dot, Com>>,
                  <<Plus, Dot, Org, Dot, Com>>, <<Com, Org>>, <<Plus, Dot, Org, Com>> } :
     Cardinality(s) \in 1..4}
MCNames ==
  { <<Com>>, <<Org>>, <<Org, Com>>, <<Com, Dot, Org, Com>>, <<Com, Dot, Com>>, <<Org, Dot, Com>>,
    <<Com, Dot, Org, Dot, Com>>, <<Com, Dot>>, <<Com, Org>>, <<Org, Dot, Com, Org>>, <<Com, Com>>,
    <<Org, Com, Dot, Com>> }

(* RuleStream: a compiled list, one whose next version is damaged, a text  *)
(* list that repeats it, one for direct, one without a section and a file. *)
MCRuleLists ==
  << [name |-> "m", format |-> "mrs", section |-> "a", on |-> TRUE],
     [name |-> "t", format |-> "text", section |-> "a", on |-> TRUE],
     [name |-> "u", format |-> "text", section |-> "direct", on |-> TRUE],
     [name |-> "x", format |-> "text", section |-> "gone", on |-> TRUE] >>
MCRuleSections == {[name |-> "a", action |-> "proxy"]}
MCContent ==
  LET Line(t, v) == [type |-> t, value |-> v, valid |-> TRUE]
      Whole(lines) == [lines |-> lines, damaged |-> FALSE]
  IN [m |-> << Whole(<<Line("domain_suffix", "d1"), Line("domain_suffix", "d2")>>),
               [lines |-> <<Line("ip_cidr", "n1"), Line("ip_cidr6", "n6")>>, damaged |-> TRUE] >>,
      t |-> << Whole(<<Line("domain", "d1"), Line("ip_cidr", "n1"),
                       Line("domain_suffix", "d1"), Line("logical", "o1")>>),
               Whole(<<Line("ip_cidr", "n2"), Line("ip_cidr6", "n6"),
                       Line("dst_port", "p1"), Line("ip_cidr", "n1")>>) >>,
      u |-> << Whole(<<[type |-> "domain", value |-> "d?", valid |-> FALSE],
                       [type |-> "and", value |-> "o2", valid |-> FALSE],
                       Line("ip_cidr6", "n6"), Line("ip_cidr", "n1"), Line("domain", "d1")>>) >>,
      x |-> <<>>]
MCSettings ==
  {[ipv6 |-> TRUE, low |-> FALSE, mode |-> "auto"], [ipv6 |-> TRUE, low |-> TRUE, mode |-> "on"]}

(* NetRules: two sections of every kind in both orders of priority, two    *)
(* strategies, three settings; packets of clients, the router, mihomo and  *)
(* nfqws.                                                                  *)
Traffic(name, action, match, ports, udpMode, strategies, prio) ==
  [name |-> name, action |-> action, match |-> match, ports |-> ports, udpMode |-> udpMode,
   strategies |-> strategies, priority |-> prio, enabled |-> TRUE]
Kinds(name, prio) ==
  { Traffic(name, "proxy", "any", <<>>, "all", <<>>, prio),
    Traffic(name, "proxy", "tcp", <<<<440, 442>>, <<443, 500>>, <<80, 80>>>>, "all", <<>>, prio),
    Traffic(name, "proxy", "any", <<>>, "block_quic", <<>>, prio),
    Traffic(name, "proxy", "any", <<<<853, 853>>>>, "tcp_only", <<>>, prio),
    Traffic(name, "direct", "any", <<>>, "all", <<>>, prio),
    Traffic(name, "reject", "any", <<>>, "all", <<>>, prio),
    Traffic(name, "zapret", "any", <<>>, "all", <<1, 2>>, prio),
    Traffic(name, "zapret", "any", <<<<80, 80>>>>, "all", <<1>>, prio),
    Traffic(name, "zapret", "tcp", <<<<443, 853>>, <<80, 80>>>>, "all", <<2, 1>>, prio) }
Desync ==
  << [name |-> "quic", onTcp |-> FALSE, tcp |-> <<>>, onUdp |-> TRUE, udp |-> <<<<443, 443>>>>],
     [name |-> "tls", onTcp |-> TRUE, tcp |-> <<<<443, 443>>, <<853, 853>>>>,
      onUdp |-> FALSE, udp |-> <<>>] >>
Setup(secs, output, mode, low, rej, cg) ==
  [sections |-> secs, strategies |-> Desync, routerOutput |-> output, ipv6Mode |-> mode,
   ipv6 |-> TRUE, low |-> low, rejectV6 |-> rej, cgroup |-> cg,
   blockDoT |-> rej, blockDoQ |-> ~rej, blockDoH3 |-> TRUE]
OtherKinds == {k \in Kinds("b", 2) : k.match = "any" /\ k.udpMode = "all"}
Pairs ==
  UNION {{<<first, second>> : first \in Kinds("a", prio), second \in OtherKinds} : prio \in {1, 3}}
MCConfigs ==
  {Setup(s, TRUE, "auto", FALSE, FALSE, TRUE) : s \in Pairs}
  \cup UNION {{Setup(s, FALSE, "on", TRUE, FALSE, TRUE), Setup(s, TRUE, "auto", TRUE, TRUE, FALSE)} :
                s \in {t \in Pairs : t[1].priority < t[2].priority}}

PacketOf(from, v6, udp, port, in, mac, src, private, reply) ==
  [from |-> from, v6 |-> v6, udp |-> udp, port |-> port, in |-> in, mac |-> mac, src |-> src,
   private |-> private, reply |-> reply]
Listed == {{"a"}, {"b"}, {"a", "b"}, {"a", "direct"}, {"b", "reject"}, {"a", "b", "direct"},
           {"a", "bypass"}, {"proxy server", "b"}, {"doh3"}, {"self", "a"}}
MCPackets ==
  {PacketOf("client", FALSE, u, port, d, "none", {}, FALSE, FALSE) :
     u \in BOOLEAN, port \in {80, 443, 853}, d \in Listed}
  \cup {PacketOf(f, FALSE, u, 443, d, "none", {}, FALSE, FALSE) :
     f \in {"router", "mihomo", "nfqws"}, u \in BOOLEAN, d \in Listed}
  \cup {PacketOf("client", v, u, 443, d, m, s, FALSE, FALSE) :
     v \in BOOLEAN, u \in {FALSE}, d \in {{"b"}, {"a", "direct"}}, m \in {"none", "excluded", "a"},
     s \in {{}, {"bypass"}, {"b"}, {"a", "b"}}}
  \cup {PacketOf(f, v, FALSE, 443, {"a"}, "none", {}, pr, ~pr) :
     f \in {"client", "router"}, v \in BOOLEAN, pr \in BOOLEAN}

-----------------------------------------------------------------------------
(* MihomoConfig: sections that are on, off, double, filtered, none of the  *)
(* proxy's, or called like what another or a VPN becomes; providers on,    *)
(* off, misnamed or spread over WANs; a VPN that is up or not; no mesh, a  *)
(* friend, an exit; mixins that add, take a generated name, replace or     *)
(* spoil; and three guard states.                                          *)
Pooled(n, g, on, action, v, skip) ==
  [name |-> n, group |-> g, enabled |-> on, action |-> action, vpns |-> v, skip |-> skip]
MCRouters ==
  LET sections ==
        { <<>>, << Pooled("m", "Media", TRUE, "proxy", {"wg"}, {}),
                   Pooled("c", "Common", TRUE, "proxy", {}, {"n1"}) >>,
          << Pooled("m", "Media", TRUE, "proxy", {"wg"}, {}),
             Pooled("o", "Media", FALSE, "proxy", {}, {}) >>,
          << Pooled("m", "Media", TRUE, "proxy", {}, {}),
             Pooled("o", "Media", TRUE, "proxy", {}, {}) >>,
          << Pooled("m", "Media", TRUE, "proxy", {"wg"}, {}),
             Pooled("l", "Media_local", TRUE, "proxy", {}, {"n1"}) >>,
          << Pooled("v", "vpn_wg", TRUE, "proxy", {"wg"}, {}) >>,
          << Pooled("d", "Common", TRUE, "direct", {"wg"}, {}) >> }
      provided == { {}, {[name |-> "p", enabled |-> TRUE], [name |-> "q", enabled |-> FALSE]},
                    {[name |-> "p", enabled |-> TRUE], [name |-> "default", enabled |-> FALSE]} }
      friend(on) == [id |-> "friend_b", enabled |-> on, offers |-> TRUE, sound |-> TRUE]
      meshes == { [on |-> FALSE, joined |-> TRUE, exit |-> TRUE, skip |-> {}],
                  [on |-> TRUE, joined |-> TRUE, exit |-> TRUE, skip |-> {"n2"}],
                  [on |-> TRUE, joined |-> TRUE, exit |-> FALSE, skip |-> {}] }
      ways == { [on |-> FALSE, selected |-> {"w1"}, resolved |-> {}],
                [on |-> TRUE, selected |-> {"w1"}, resolved |-> {"w1"}],
                [on |-> TRUE, selected |-> {"w1", "w2"}, resolved |-> {"w2"}] }
  IN { [sections |-> s, providers |-> pr, vpns |-> {[name |-> "wg", up |-> up]},
        dnsVpns |-> IF up THEN {} ELSE {"wg"}, peers |-> {friend(me.exit = up)}, mesh |-> me,
        wans |-> w, guardOn |-> g, mixinOn |-> g \/ up] :
          s \in sections, pr \in provided, up \in BOOLEAN, me \in meshes, w \in ways, g \in BOOLEAN }
MCMixins ==
  { NoMixin,
    [sound |-> TRUE, over |-> <<>>, scalars |-> {},
     front |-> "groups" :> {Group(-1, "Mine", "select", {}, {"DIRECT", "DNSProxy"}, {})}
               @@ "rules" :> {RuleFor("any", "Mine")}],
    [sound |-> TRUE, scalars |-> {}, front |-> <<>>,
     over |-> "groups" :> {Group(-1, "Common", "select", {"p"}, {"vpn_wg"}, {"n2"})}],
    [sound |-> TRUE, over |-> <<>>, scalars |-> {},
     front |-> "groups" :> {Group(-1, "DNSProxy", "select", {"gone"}, {}, {})}],
    [sound |-> TRUE, over |-> <<>>, front |-> <<>>, scalars |-> {"groups"}] }
MCGuardStates ==
  LET guarded == {"DNSProxy", "Media", "Media_local", "Common", "Friends", "MeshExit"}
      Of(names, bad, resort) == [members |-> [g \in guarded |-> names], bad |-> bad,
                                 resorts |-> [g \in guarded |-> resort]]
  IN { [members |-> <<>>, resorts |-> <<>>, bad |-> {"n1"}],
       Of({"n1", "n2", "vpn_wg"}, {"n1", "vpn_wg"}, {}),
       Of({"n1", "n2", "vpn_wg", "friend_b"}, {"n1", "n2", "vpn_wg", "friend_b"}, {"n1", "friend_b"}) }
MCNodesOf == "p" :> {"n1", "n2"} @@ "PureWRTWAN_p_w1" :> {"n1", "n3"} @@ "main" :> {}

-----------------------------------------------------------------------------
(* The other parts stay at one of their beginnings.  The first panel begins *)
(* with a profile, for a router of low resources so does the second.       *)
AnyOf(S) == CHOOSE x \in S : TRUE
Init ==
  /\ part \in {"config", "import", "list", "rules", "packets", "metrics", "mihomo"}
  /\ part # "config" => uciFile = [named |-> [t \in SectionTypes |-> <<>>], meshOn |-> FALSE,
                                   options |-> [k \in OptionKinds |-> "Absent"]]
                        /\ library = {} /\ catalog = {}
  /\ part # "import" => panel = [u \in PanelUrls |-> AnyOf(PanelAnswers)] /\ lowResource = FALSE
  /\ part # "list" => list = [names |-> AnyOf(Lists)]
  /\ part # "rules" => settings = AnyOf(Settings) /\ overlap = AnyOf(ChangesMeanwhile)
  /\ part # "packets" => conf = AnyOf(Configs) /\ packet = AnyOf(Packets)
  /\ part # "mihomo" => router = AnyOf(Routers) /\ guard = AnyOf(GuardStates)
  /\ CfgInit /\ ImportInit /\ MrsInit /\ RuleInit /\ NetInit /\ MetricsInit /\ MihomoInit
  /\ part = "import" => panel["p1"].yaml /\ panel["p1"].nodes
                        /\ (lowResource => panel["p2"] = panel["p1"])

Next ==
  /\ UNCHANGED part
  /\ \/ /\ part = "config" /\ CfgNext
        /\ UNCHANGED <<importVars, mrsVars, rsVars, netVars, msVars, mihomoVars>>
     \/ /\ part = "import" /\ ImportNext
        /\ UNCHANGED <<cfgVars, mrsVars, rsVars, netVars, msVars, mihomoVars>>
     \/ /\ part = "list" /\ MrsNext
        /\ UNCHANGED <<cfgVars, importVars, rsVars, netVars, msVars, mihomoVars>>
     \/ /\ part = "rules" /\ RuleNext
        /\ UNCHANGED <<cfgVars, importVars, mrsVars, netVars, msVars, mihomoVars>>
     \/ /\ part = "packets" /\ NetNext
        /\ UNCHANGED <<cfgVars, importVars, mrsVars, rsVars, msVars, mihomoVars>>
     \/ /\ part = "metrics" /\ MetricsNext
        /\ UNCHANGED <<cfgVars, importVars, mrsVars, rsVars, netVars, mihomoVars>>
     \/ /\ part = "mihomo" /\ MihomoNext
        /\ UNCHANGED <<cfgVars, importVars, mrsVars, rsVars, netVars, msVars>>

Spec == Init /\ [][Next]_vars

-----------------------------------------------------------------------------
(* Processes and statuses are interchangeable.                             *)
Symmetric == Permutations(Commands) \cup Permutations(Statuses)

(* The parts are well-formed: the files uci reads and the commands load,   *)
(* the entries of the configuration, lists, outputs, verdicts, counters,    *)
(* mihomo's file.                                                          *)
TypeOK ==
  /\ CfgTypeOK /\ ImportTypeOK /\ MrsTypeOK /\ RuleTypeOK /\ NetTypeOK /\ MetricsTypeOK
  /\ MihomoTypeOK
=============================================================================
