------------------------------- MODULE RuleStream -------------------------------
(***************************************************************************)
(* From the rule providers' files to the set payload and the dnsmasq       *)
(* directives (internal/generator/stream.go, dnsmasq.go), with the parser  *)
(* of text lists (internal/rules/parse_text.go, normalize.go) and the      *)
(* cache of parsed lists (internal/provider/artifact_cache.go).            *)
(*                                                                         *)
(* `generate` takes no lock, so a provider's file can be replaced while it *)
(* runs; it can be killed at any step and the cache stays.  A file is one  *)
(* of the versions Content gives for its provider, and a checksum is the   *)
(* version itself.  What a generation writes, it writes entry by entry.    *)
(***************************************************************************)
EXTENDS Naturals, Sequences, FiniteSets

CONSTANTS
    RuleLists,        \* the providers in name order: [name, format, section, on]
    RuleSections,     \* [name, action]
    Content,      \* provider name -> versions -> [lines, damaged]
    Settings,     \* [ipv6, low, mode]
    ChangesMeanwhile       \* whether files change while a generation runs

VARIABLES
    file,      \* provider -> version on disk, 0 for none
    cached,    \* provider -> version -> version whose rules the artifact holds, 0 for none
    sealed,    \* provider -> versions with artifact metadata
    settings, overlap,
    gen,       \* the generation: [at, next, data, sum, line]
    out        \* section -> type -> the entries written
rsVars == <<file, cached, sealed, settings, overlap, gen, out>>

ListNames == {RuleLists[i].name : i \in DOMAIN RuleLists}
Versions(p) == DOMAIN Content[p]
Types == {"domain", "cidr4", "cidr6", "native"}
NoEntries == [t \in Types |-> <<>>]
OutNames == {s.name : s \in RuleSections} \cup {"direct", "reject"}
NoGen == [at |-> "idle", next |-> 0, data |-> 0, sum |-> 0, line |-> 0]

List == RuleLists[gen.next]
Reading == Content[List.name][gen.data].lines

(* Providers, versions of a file and lines are numbered from 1.            *)
Counted(seq) == seq \in Seq({seq[i] : i \in DOMAIN seq})
ASSUME RuleAssumption ==
    /\ Counted(RuleLists) /\ ChangesMeanwhile \subseteq BOOLEAN
    /\ \A p \in ListNames : Counted(Content[p])
    /\ \A p \in ListNames : \A v \in Versions(p) : Counted(Content[p][v].lines)

RuleTypeOK ==
    /\ \A p \in ListNames :
         /\ file[p] \in {0} \cup Versions(p) /\ sealed[p] \subseteq Versions(p)
         /\ \A v \in Versions(p) : cached[p][v] \in {0} \cup Versions(p)
    /\ gen.at \in {"idle", "read", "sum", "seal", "open", "emit", "done"}
    /\ gen.at \notin {"idle", "done"} => gen.next \in DOMAIN RuleLists
    /\ gen.at \in {"sum", "seal", "open", "emit"} => gen.data \in Versions(List.name)
    /\ gen.at = "emit" => gen.line \in 1..Len(Reading) + 1
    /\ DOMAIN out = OutNames

-----------------------------------------------------------------------------
(* Lines                                                                   *)

(* ParseText and RuleToNeutral: what nftables and dnsmasq can express, by  *)
(* neutral type.  A CIDR is taken as it is; a name is checked; the rest is *)
(* mihomo's or nobody's.  Of equal entries the first stays.                *)
IsNative(line) ==                     \* an AND is valid when each of its parts is native
    \/ line.type \in {"dst_port", "src_port"}
    \/ line.type \in {"network", "and"} /\ line.valid
NeutralType(line) ==
    CASE line.type \in {"domain", "domain_suffix"} /\ line.valid -> "domain"
      [] line.type = "ip_cidr" -> "cidr4"
      [] line.type = "ip_cidr6" -> "cidr6"
      [] IsNative(line) -> "native"
      [] OTHER -> "unsupported"
Same(line, other) == NeutralType(line) = NeutralType(other) /\ line.value = other.value
Neutral(lines) ==
    {i \in DOMAIN lines : /\ NeutralType(lines[i]) # "unsupported"
                         /\ \A j \in DOMAIN lines : j < i => ~Same(lines[i], lines[j])}

(* sectionForRuleProvider: a section of that name, enabled or not, or the  *)
(* built-in direct and reject ones.                                        *)
HasSection(l) == l.section \in OutNames

-----------------------------------------------------------------------------
(* Emitting                                                                *)

EmitsV6(s) == s.ipv6 /\ ~s.low
IPv6Routing(s) == s.mode = "on" \/ (s.mode = "auto" /\ s.ipv6 /\ ~s.low)

(* Domains are remembered per section, addresses per set; so an entry goes *)
(* to every section that has it, and to each of them once.                 *)
Written(name, type) == {out[name][type][j] : j \in DOMAIN out[name][type]}
Add(name, type, value) == [out EXCEPT ![name][type] = Append(@, value)]
Emits(name, line) ==
    /\ NeutralType(line) = "cidr6" => EmitsV6(settings)
    /\ line.value \notin Written(name, NeutralType(line))

(* A text list goes out as it is parsed.  A binary or prebuilt one goes    *)
(* out as it is read; where a binary list is damaged, what came before the *)
(* damage stays.                                                           *)
Cacheable(l) == l.format = "text"
FirstHalf(S) == {i \in S : 2 * Cardinality({j \in S : j <= i}) <= Cardinality(S)}
Streamed(c) ==
    LET whole == {i \in Neutral(c.lines) : NeutralType(c.lines[i]) # "native"}
    IN IF c.damaged THEN FirstHalf(whole) ELSE whole
Entries(l, c) == IF Cacheable(l) THEN Neutral(c.lines) ELSE Streamed(c)

-----------------------------------------------------------------------------
(* The generation                                                          *)

RuleInit ==
    /\ file = [p \in ListNames |-> 0]
    /\ cached = [p \in ListNames |-> [v \in Versions(p) |-> 0]]
    /\ sealed = [p \in ListNames |-> {}]
    /\ settings \in Settings /\ overlap \in ChangesMeanwhile
    /\ gen = NoGen /\ out = [n \in OutNames |-> NoEntries]

At(n) == IF n \in DOMAIN RuleLists THEN [NoGen EXCEPT !.at = "read", !.next = n]
         ELSE [NoGen EXCEPT !.at = "done"]
Generate ==
    /\ gen.at \in {"idle", "done"}
    /\ gen' = At(1)
    /\ out' = [n \in OutNames |-> NoEntries]
    /\ UNCHANGED <<file, cached, sealed, settings, overlap>>

Following == At(gen.next + 1)
Emitting(v) == [gen EXCEPT !.at = "emit", !.data = v, !.line = 1]

Skip ==
    /\ gen.at = "read" /\ (~List.on \/ ~HasSection(List) \/ file[List.name] = 0)
    /\ gen' = Following
    /\ UNCHANGED <<file, cached, sealed, settings, overlap, out>>
ReadStreamed ==
    /\ gen.at = "read" /\ List.on /\ HasSection(List) /\ file[List.name] # 0 /\ ~Cacheable(List)
    /\ gen' = Emitting(file[List.name])
    /\ UNCHANGED <<file, cached, sealed, settings, overlap, out>>
ReadData ==
    /\ gen.at = "read" /\ List.on /\ HasSection(List) /\ file[List.name] # 0 /\ Cacheable(List)
    /\ gen' = [gen EXCEPT !.at = "sum", !.data = file[List.name]]
    /\ UNCHANGED <<file, cached, sealed, settings, overlap, out>>

(* ArtifactChecksum reads the file again; EnsureArtifact then trusts what  *)
(* is cached under that checksum or parses the data read before.           *)
SharedPath(v) == 1                    \* variant: one artifact per provider
ArtifactPath(v) == v
Trusted(p, v) == ArtifactPath(v) \in sealed[p] /\ cached[p][ArtifactPath(v)] # 0
Ensure ==
    /\ gen.at = "sum"
    /\ LET p == List.name
           v == file[p]
       IN IF v = 0 \/ Trusted(p, v)
          THEN gen' = [gen EXCEPT !.at = "open", !.sum = v] /\ UNCHANGED cached
          ELSE /\ gen' = [gen EXCEPT !.at = "seal", !.sum = v]
               /\ cached' = [cached EXCEPT ![p][ArtifactPath(v)] = gen.data]
    /\ UNCHANGED <<file, sealed, settings, overlap, out>>
Seal ==
    /\ gen.at = "seal" /\ gen' = [gen EXCEPT !.at = "open"]
    /\ sealed' = [sealed EXCEPT ![List.name] = @ \cup {ArtifactPath(gen.sum)}]
    /\ UNCHANGED <<file, cached, settings, overlap, out>>
(* ReadArtifact looks at the artifact only; without one the data is parsed.*)
Open ==
    /\ gen.at = "open"
    /\ LET held == IF gen.sum = 0 THEN 0 ELSE cached[List.name][ArtifactPath(gen.sum)]
       IN gen' = Emitting(IF held # 0 THEN held ELSE gen.data)
    /\ UNCHANGED <<file, cached, sealed, settings, overlap, out>>

EmitEntry ==
    /\ gen.at = "emit" /\ gen.line \in DOMAIN Reading
    /\ LET line == Reading[gen.line]
       IN IF gen.line \in Entries(List, Content[List.name][gen.data]) /\ Emits(List.section, line)
          THEN out' = Add(List.section, NeutralType(line), line.value)
          ELSE UNCHANGED out
    /\ gen' = [gen EXCEPT !.line = @ + 1]
    /\ UNCHANGED <<file, cached, sealed, settings, overlap>>
EmitEnd ==
    /\ gen.at = "emit" /\ gen.line \notin DOMAIN Reading
    /\ gen' = Following
    /\ UNCHANGED <<file, cached, sealed, settings, overlap, out>>

Killed ==
    /\ gen.at \notin {"idle", "done"} /\ gen' = NoGen /\ out' = [n \in OutNames |-> NoEntries]
    /\ UNCHANGED <<file, cached, sealed, settings, overlap>>

-----------------------------------------------------------------------------
(* The other commands                                                      *)

(* A provider update: the file, and, unless it stops there, the artifact.  *)
Caches(p) == \E i \in DOMAIN RuleLists : RuleLists[i].name = p /\ Cacheable(RuleLists[i])
Quiet == overlap \/ gen.at \in {"idle", "done"}
Replaced == IF gen.at = "done" THEN gen' = NoGen /\ out' = [n \in OutNames |-> NoEntries]
            ELSE UNCHANGED <<gen, out>>
UpdateList(p) ==
    /\ Quiet /\ Replaced
    /\ \E v \in Versions(p) \ {file[p]} :
         /\ file' = [file EXCEPT ![p] = v]
         /\ \/ UNCHANGED <<cached, sealed>>
            \/ /\ Caches(p) /\ ~Trusted(p, v)
               /\ cached' = [cached EXCEPT ![p][ArtifactPath(v)] = v]
               /\ sealed' \in {sealed, [sealed EXCEPT ![p] = @ \cup {ArtifactPath(v)}]}
    /\ UNCHANGED <<settings, overlap>>

(* CleanupArtifacts: what is not the file's checksum goes, unless the file *)
(* cannot be read; the metadata goes with it if that succeeds.             *)
Cleanup ==
    /\ Quiet
    /\ cached' = [p \in ListNames |-> [v \in Versions(p) |->
                    IF file[p] \in {0, v} THEN cached[p][v] ELSE 0]]
    /\ sealed' \in {sealed, [p \in ListNames |-> {v \in sealed[p] : cached'[p][v] # 0}]}
    /\ UNCHANGED <<file, settings, overlap, gen, out>>

RuleNext ==
    \/ Generate \/ Skip \/ ReadStreamed \/ ReadData \/ Ensure \/ Seal
    \/ Open \/ EmitEntry \/ EmitEnd \/ Killed
    \/ (\E p \in ListNames : UpdateList(p)) \/ Cleanup

RuleSpec == RuleInit /\ [][RuleNext]_rsVars

-----------------------------------------------------------------------------
(* Properties                                                              *)

(* The lists of a section that have a file, and what it says.              *)
Sources(name) ==
    {i \in DOMAIN RuleLists : /\ RuleLists[i].on /\ RuleLists[i].section = name
                             /\ file[RuleLists[i].name] # 0}
Current(i) == Content[RuleLists[i].name][file[RuleLists[i].name]]
Says(i, type) ==
    {Current(i).lines[k].value : k \in {k \in DOMAIN Current(i).lines :
       /\ NeutralType(Current(i).lines[k]) = type
       /\ type = "native" => Cacheable(RuleLists[i])}}

(* A finished generation holds, for each section, what the files on disk   *)
(* hold for it: the same destination also where another section has it     *)
(* (docs/section-port-filters.md:50), nothing of a version that has been   *)
(* replaced, whatever the cache went through.  (While no file is replaced  *)
(* during a generation; of a damaged file some entries may be missing.)    *)
FilesDecide ==
    ~overlap /\ gen.at = "done" =>
      \A name \in OutNames, type \in Types :
        /\ Written(name, type) \subseteq UNION {Says(i, type) : i \in Sources(name)}
        /\ (type = "cidr6" => EmitsV6(settings)) =>
             \A i \in Sources(name) :
               ~Current(i).damaged => Says(i, type) \subseteq Written(name, type)

(* An artifact that is trusted holds the rules of the file it is named     *)
(* after: kills between the artifact and its metadata, cleanups and        *)
(* updates do not make the cache answer with another version's rules.      *)
CacheIsFaithful ==
    ~overlap => \A p \in ListNames : \A v \in Versions(p) : cached[p][v] \in {0, v}

(* An entry is written once for a section, however many lists have it:     *)
(* also when files change under the generation.                            *)
WrittenOnce ==
    \A name \in OutNames, type \in Types :
      \A i, j \in DOMAIN out[name][type] : i # j => out[name][type][i] # out[name][type][j]

(* Thus rules cannot come from anywhere but the files, at once or through  *)
(* the cache, and no entry is lost or repeated (stream.go, artifact_cache).*)
OutputIsCurrent == FilesDecide /\ CacheIsFaithful /\ WrittenOnce

(* README.md:202 and model.go:807: the IPv6 mode decides whether the sets  *)
(* of IPv6 addresses are filled.  The stream looks at the older switch and *)
(* the resource profile instead: `on` leaves them empty on a small router, *)
(* and with `off` it fills sets the ruleset does not declare.              *)
IPv6ModeDecides ==
    ~overlap /\ gen.at = "done" =>
      \A name \in OutNames :
        IF IPv6Routing(settings)
        THEN \A i \in Sources(name) : ~Current(i).damaged =>
               Says(i, "cidr6") \subseteq Written(name, "cidr6")
        ELSE Written(name, "cidr6") = {}
=============================================================================
