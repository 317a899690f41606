--------------------------- MODULE ProviderImport ---------------------------
(***************************************************************************)
(* How subscriptions become providers.  `purewrt import` and the refresh   *)
(* that starts every `purewrt update` download a panel's answer, plan the  *)
(* proxy provider, the rule providers and the section groups it stands for *)
(* (internal/provider), merge the plan into the configuration by name or   *)
(* URL (the Upsert functions of internal/config/write.go) and write the    *)
(* files that have no URL to be fetched from.  Meanwhile the user edits    *)
(* the same entries in LuCI, and a prune removes the files no entry names. *)
(*                                                                         *)
(* A configuration list is a sequence, because the merges take the FIRST   *)
(* entry that matches.  A provider's name is <<base, k>>: the base (a word *)
(* and a suffix), with _k appended when k > 1.                             *)
(***************************************************************************)
EXTENDS Naturals, Sequences, SequencesExt

CONSTANTS
  PanelUrls,     \* the addresses subscriptions are read from
  PanelAnswers,  \* what a panel can serve: [yaml, nodes, lists, groups]
  NativeLists,   \* the URLs of pre-built lists (add-native-list)
  MaxEdits       \* imports, user edits and panel changes in a behaviour

NoUrl == "no url"
NoTarget == "no target"

(* Addresses, names and words are strings; NoUrl is no address.            *)
ImportAssumption ==
  /\ MaxEdits \in Nat
  /\ PanelUrls \subseteq STRING \ {NoUrl} /\ NativeLists \subseteq STRING \ {NoUrl}
  /\ \A a \in PanelAnswers :
       /\ a.yaml \in BOOLEAN /\ a.nodes \in BOOLEAN
       /\ a.lists \in Seq([name : STRING, url : STRING, class : STRING, target : STRING])
       /\ a.groups \in Seq([name : STRING, hint : STRING])
ASSUME ImportAssumption

DefaultSections == {"common", "media", "ai"}

VARIABLES
  subscriptions, \* [name, url, only, lowRules, tuned]: tuned stands for the mirrors,
                 \* the TLS pin and the HWID opt-out the user gave
  proxies,       \* [name, url, on]
  ruleLists,     \* [name, url, section, enabled, ownSection]
  groups,        \* section name -> [on, hint, own]: the sections and their group settings
  panel,         \* what each address serves now
  lowResource,   \* resource_profile=low
  stored,        \* the files under rulesets/ and providers/, as <<directory, name>>
  settled,       \* the last step that touched configuration or panels was a full refresh
  edits          \* the bound's counter

importVars == <<subscriptions, proxies, ruleLists, groups, panel, lowResource, stored,
                settled, edits>>

configuration == [subs |-> subscriptions, pps |-> proxies, rps |-> ruleLists,
                  secs |-> groups, low |-> lowResource]

-----------------------------------------------------------------------------
(* Merging one planned entry into a list of the configuration. *)

SameUrl(old, new) == new.url # NoUrl /\ old.url = new.url  \* variant: names do not count
\* Same name, or the same URL where there is one.
SameEntry(old, new) == old.name = new.name \/ (new.url # NoUrl /\ old.url = new.url)

ForgetEnabled(old, new) ==  \* variant: the panel's entry is always on
  [new EXCEPT !.section = IF old.ownSection THEN old.section ELSE @, !.ownSection = old.ownSection]
\* A rule list keeps what the user decided about it: off stays off and a chosen
\* section (with its action) stays chosen.
MergeRuleList(old, new) ==
  [new EXCEPT !.section = IF old.ownSection THEN old.section ELSE @,
              !.ownSection = old.ownSection,
              !.enabled = old.enabled]

Hits(list, new) == {i \in DOMAIN list : SameEntry(list[i], new)}
FirstHit(list, new) == CHOOSE i \in Hits(list, new) : \A j \in Hits(list, new) : i <= j

\* Subscriptions and proxy providers are replaced whole.
UpsertEntry(list, new) ==
  IF Hits(list, new) = {} THEN Append(list, new) ELSE [list EXCEPT ![FirstHit(list, new)] = new]
UpsertRuleList(list, new) ==
  IF Hits(list, new) = {} THEN Append(list, new)
  ELSE [list EXCEPT ![FirstHit(list, new)] = MergeRuleList(@, new)]
UpsertRuleLists(list, planned) ==
  LET upserted[k \in 0..Len(planned)] ==
        IF k = 0 THEN list ELSE UpsertRuleList(upserted[k - 1], planned[k])
  IN upserted[Len(planned)]

\* A section's group settings follow the panel's hint unless the user owns them.
UpsertGroups(secs, hinted) ==
  [s \in DOMAIN secs \cup DOMAIN hinted |->
     IF s \notin DOMAIN secs THEN [on |-> FALSE, hint |-> hinted[s], own |-> FALSE]
     ELSE IF s \notin DOMAIN hinted \/ secs[s].own THEN secs[s]
     ELSE [secs[s] EXCEPT !.hint = hinted[s]]]

EnsureDefaults(secs) ==
  [s \in DOMAIN secs \cup DefaultSections |->
     IF s \in DOMAIN secs THEN secs[s] ELSE [on |-> TRUE, hint |-> "none", own |-> FALSE]]

-----------------------------------------------------------------------------
(* Planning an import. *)

\* base, base_2, base_3, ...: the first that no entry has.
FreshName(base, list) ==
  LET free == {k \in 1..(Len(list) + 1) : \A i \in DOMAIN list : list[i].name # <<base, k>>}
  IN <<base, CHOOSE k \in free : \A j \in free : k <= j>>

RuleList(name, url, section) ==
  [name |-> name, url |-> url, section |-> section, enabled |-> TRUE, ownSection |-> FALSE]

\* A list of an answer is [name, url, class, target]: class is the section its own words
\* suggest, target the action of the profile's first rule for it.  A profile's group is
\* [name, hint], hint "none" when it sets nothing.  A group stands for the section its
\* words name, else for one of its own name; an action that is no group of the profile
\* stands for the section its words name, else for the common one.
SectionOfWords(action) == IF action = "Videos" THEN "media" ELSE "common"
SectionOfGroup(g) == IF g \in {"Videos", "Proxy"} THEN SectionOfWords(g) ELSE g

SectionOfList(answer, l) ==
  CASE l.target = NoTarget -> l.class
    [] l.target = "DIRECT" -> "direct"
    [] \E g \in ToSet(answer.groups) : g.name = l.target -> SectionOfGroup(l.target)
    [] OTHER -> SectionOfWords(l.target)

\* What the groups say of the sections: those with known words, and those some rule uses.
\* The first of a section counts.
SectionHints(answer) ==
  LET Telling == SelectSeq(answer.groups, LAMBDA g :
        /\ g.hint # "none"
        /\ \/ SectionOfGroup(g.name) \in DefaultSections
           \/ \E l \in ToSet(answer.lists) : l.target = g.name)
  IN [s \in {SectionOfGroup(g.name) : g \in ToSet(Telling)} |->
        SelectSeq(Telling, LAMBDA g : SectionOfGroup(g.name) = s)[1].hint]

Nothing == [pps |-> <<>>, rps |-> <<>>, hinted |-> <<>>, files |-> {}]

\* A low-resource router takes the nodes only, unless the subscription opts in.
WantedPart(c, sub) ==
  IF c.low /\ ~sub.lowRules /\ sub.only # "nodes" THEN "nodes" ELSE sub.only

\* The files of a profile: what no URL can bring back, whatever part of it is wanted.
PlanFiles(sub, answer) ==
  (IF answer.nodes THEN {<<"providers", <<<<sub.name, "nodes">>, 1>>>>} ELSE {})
  \cup {<<"rulesets", <<<<l.name, "">>, 1>>>> : l \in {k \in ToSet(answer.lists) : k.url = NoUrl}}

\* A whole Mihomo profile: its nodes become one provider read from a file this import
\* writes, its rule providers keep their own names, its groups give hints.
DecomposeYAMLProfile(sub, part, answer) ==
  [pps |-> IF answer.nodes /\ part # "rules"
           THEN <<[name |-> <<<<sub.name, "nodes">>, 1>>, url |-> NoUrl, on |-> TRUE]>>
           ELSE <<>>,
   rps |-> IF part # "nodes"
           THEN [i \in DOMAIN answer.lists |->
                   RuleList(<<<<answer.lists[i].name, "">>, 1>>, answer.lists[i].url,
                            SectionOfList(answer, answer.lists[i]))]
           ELSE <<>>,
   hinted |-> SectionHints(answer),
   files |-> PlanFiles(sub, answer)]

\* Anything else is one provider read from the subscription's own address.
PlanPlain(c, sub, part, answer) ==
  [Nothing EXCEPT
     !.pps = IF answer.nodes /\ part # "rules"
             THEN <<[name |-> FreshName(<<"main", "">>, c.pps), url |-> sub.url, on |-> TRUE]>>
             ELSE <<>>,
     !.rps = IF answer.lists # <<>> /\ part # "nodes"
             THEN <<RuleList(FreshName(<<sub.name, "rules">>, c.rps), sub.url,
                             answer.lists[1].class)>>
             ELSE <<>>]

PlanImport(c, sub, answer) ==
  LET part == WantedPart(c, sub)
  IN IF answer.yaml /\ (answer.nodes \/ answer.lists # <<>>)
     THEN DecomposeYAMLProfile(sub, part, answer)
     ELSE PlanPlain(c, sub, part, answer)

\* The subscription as the refresh writes it back: the fields it names and no others.
Resubscribed(sub) == [sub EXCEPT !.tuned = FALSE]

\* A plan has one proxy provider at most.
ApplyPlan(c, sub, plan) ==
  [c EXCEPT !.subs = UpsertEntry(@, Resubscribed(sub)),
            !.pps = IF plan.pps = <<>> THEN @ ELSE UpsertEntry(@, plan.pps[1]),
            !.rps = UpsertRuleLists(@, plan.rps),
            !.secs = UpsertGroups(@, plan.hinted)]

\* The refresh goes through the subscriptions in order; `heard` are those whose panel
\* answers, the others keep what they had.
RefreshOne(acc, i, heard) ==
  LET sub == acc.c.subs[i]
      plan == PlanImport(acc.c, sub, panel[sub.url])
  IN IF i \notin heard THEN acc
     ELSE [c |-> ApplyPlan(acc.c, sub, plan), files |-> acc.files \cup plan.files]
RefreshFold(c, heard) ==
  LET after[k \in 0..Len(c.subs)] ==
        IF k = 0 THEN [c |-> c, files |-> {}] ELSE RefreshOne(after[k - 1], k, heard)
  IN after[Len(c.subs)]

Become(c) ==
  /\ subscriptions' = c.subs
  /\ proxies' = c.pps
  /\ ruleLists' = c.rps
  /\ groups' = c.secs

-----------------------------------------------------------------------------
(* The commands. *)

\* purewrt update, its subscription part: config and files; nothing is saved when no
\* panel answered.
Refresh ==
  /\ subscriptions # <<>>
  /\ \E heard \in SUBSET DOMAIN subscriptions :
       LET r == RefreshFold(configuration, heard)
       IN /\ IF heard = {} THEN UNCHANGED <<subscriptions, proxies, ruleLists, groups>>
             ELSE Become([r.c EXCEPT !.secs = EnsureDefaults(@)])
          /\ stored' = stored \cup r.files
          /\ settled' = (heard = DOMAIN subscriptions)
  /\ UNCHANGED <<panel, lowResource, edits>>

\* The refresh dies, or cannot save: the files are written and the configuration is not.
RefreshLost ==
  /\ subscriptions # <<>>
  /\ stored' = stored \cup RefreshFold(configuration, DOMAIN subscriptions).files
  /\ settled' = FALSE
  /\ UNCHANGED <<subscriptions, proxies, ruleLists, groups, panel, lowResource, edits>>

\* purewrt import <url>: the sections are completed before the plan is made.
ImportUrl(u, only) ==
  LET sub == [name |-> u, url |-> u, only |-> only, lowRules |-> FALSE, tuned |-> FALSE]
      c == [configuration EXCEPT !.secs = EnsureDefaults(@)]
      plan == PlanImport(c, sub, panel[u])
  IN /\ Become(ApplyPlan(c, sub, plan))
     /\ stored' = stored \cup plan.files
     /\ settled' = FALSE
     /\ edits < MaxEdits /\ edits' = edits + 1
     /\ UNCHANGED <<panel, lowResource>>

\* What a user or a panel's operator does, and the bound on it.
Edited ==
  /\ edits < MaxEdits
  /\ edits' = edits + 1
  /\ settled' = FALSE
  /\ UNCHANGED <<lowResource, stored>>

\* The section of a native list is created complete if it is missing.
ensureNativeSection(section) ==
  [s \in DOMAIN groups \cup {section} |->
     IF s \in DOMAIN groups THEN groups[s] ELSE [on |-> TRUE, hint |-> "none", own |-> FALSE]]

\* purewrt add-native-list: by the name derived from the URL; it rebinds and enables.
AddNativeList(l, section) ==
  LET new == RuleList(<<<<l, "native">>, 1>>, l, section)
      same == {i \in DOMAIN ruleLists : ruleLists[i].name = new.name}
      first == CHOOSE i \in same : \A j \in same : i <= j
  IN /\ Edited
     /\ ruleLists' = IF same = {} THEN Append(ruleLists, new)
                     ELSE [ruleLists EXCEPT ![first] = new]
     /\ groups' = ensureNativeSection(section)
     /\ UNCHANGED <<subscriptions, proxies, panel>>

\* What an entry of the configuration expects on disk.
ExpectedFiles(c) ==
  {<<"rulesets", r.name>> : r \in ToSet(c.rps)} \cup
  {<<"providers", p.name>> : p \in ToSet(c.pps)}

\* prune-orphans, and the end of every apply.
PruneOrphans ==
  /\ stored' = stored \cap ExpectedFiles(configuration)
  /\ UNCHANGED <<subscriptions, proxies, ruleLists, groups, panel, lowResource, settled, edits>>

TuneSubscription(i) ==
  /\ Edited
  /\ subscriptions' = [subscriptions EXCEPT ![i].tuned = TRUE]
  /\ UNCHANGED <<proxies, ruleLists, groups, panel>>

OptIn(i) ==
  /\ Edited
  /\ subscriptions' = [subscriptions EXCEPT ![i].lowRules = TRUE]
  /\ UNCHANGED <<proxies, ruleLists, groups, panel>>

\* override-rule-provider works by name, on every entry that has it.
OverrideRuleProvider(name, section) ==
  /\ Edited
  /\ ruleLists' = [i \in DOMAIN ruleLists |->
                     IF ruleLists[i].name # name THEN ruleLists[i]
                     ELSE [ruleLists[i] EXCEPT !.section = section, !.ownSection = TRUE]]
  /\ UNCHANGED <<subscriptions, proxies, groups, panel>>

ToggleRuleList(i) ==
  /\ Edited
  /\ ruleLists' = [ruleLists EXCEPT ![i].enabled = ~@]
  /\ UNCHANGED <<subscriptions, proxies, groups, panel>>

OwnGroup(s) ==
  /\ Edited
  /\ groups' = [groups EXCEPT ![s].hint = "mine", ![s].own = TRUE]
  /\ UNCHANGED <<subscriptions, proxies, ruleLists, panel>>

PanelChanges(u, answer) ==
  /\ Edited
  /\ panel' = [panel EXCEPT ![u] = answer]
  /\ UNCHANGED <<subscriptions, proxies, ruleLists, groups>>

ImportInit ==
  /\ subscriptions = <<>> /\ proxies = <<>> /\ ruleLists = <<>>
  /\ groups = EnsureDefaults(<<>>)
  /\ panel \in [PanelUrls -> PanelAnswers]
  /\ lowResource \in BOOLEAN
  /\ stored = {} /\ settled = FALSE /\ edits = 0

ImportCommands ==
  \/ Refresh \/ RefreshLost \/ PruneOrphans
  \/ \E u \in PanelUrls, only \in {"all", "nodes", "rules"} : ImportUrl(u, only)

UserEdits ==
  \/ \E l \in NativeLists, s \in {"common", "direct"} : AddNativeList(l, s)
  \/ \E i \in DOMAIN subscriptions : TuneSubscription(i) \/ OptIn(i)
  \/ \E i \in DOMAIN ruleLists : OverrideRuleProvider(ruleLists[i].name, "media")
  \/ \E i \in DOMAIN ruleLists : ToggleRuleList(i)
  \/ \E s \in DOMAIN groups : OwnGroup(s)
  \/ \E u \in PanelUrls, a \in PanelAnswers : PanelChanges(u, a)

ImportNext == ImportCommands \/ UserEdits

ImportSpec == ImportInit /\ [][ImportNext]_importVars

-----------------------------------------------------------------------------
\* validateConfigSafety refuses a configuration with two proxy providers of one name, and
\* mihomo with it: however imports, refreshes and panel changes follow each other, the
\* merges never produce one.
ProxyNamesDistinct ==
  \A i, j \in DOMAIN proxies : proxies[i].name = proxies[j].name => i = j

\* An entry that has no URL lives on the file the import wrote: no prune, no refused save
\* and no later refresh leaves it without.
NothingUnfetchable ==
  /\ \A i \in DOMAIN proxies : proxies[i].url = NoUrl => <<"providers", proxies[i].name>> \in stored
  /\ \A i \in DOMAIN ruleLists :
       ruleLists[i].url = NoUrl => <<"rulesets", ruleLists[i].name>> \in stored

ImportTypeOK ==
  /\ ProxyNamesDistinct /\ NothingUnfetchable
  /\ \A i \in DOMAIN subscriptions :
       subscriptions[i].url \in PanelUrls /\ subscriptions[i].tuned \in BOOLEAN
  /\ \A i \in DOMAIN proxies :
       proxies[i].url \in PanelUrls \cup {NoUrl} /\ proxies[i].on \in BOOLEAN
  /\ \A i \in DOMAIN ruleLists : ruleLists[i].enabled \in BOOLEAN
  /\ DefaultSections \subseteq DOMAIN groups
  /\ edits \in 0..MaxEdits

\* What the user decided survives every command that merges a panel's answer: a rule list
\* switched off stays off, a list sent to a section stays there, and a section's own group
\* settings stay (add-native-list alone rebinds, on the user's order).  Nor do two
\* subscriptions that both plan a provider `main` take it from each other.
DecisionsSurvive ==
  [][ImportCommands =>
       /\ \A i \in DOMAIN proxies : proxies[i].url # NoUrl =>
            \E j \in DOMAIN proxies' : proxies'[j].url = proxies[i].url
       /\ \A i \in DOMAIN ruleLists :
            /\ ~ruleLists[i].enabled => ~ruleLists'[i].enabled
            /\ ruleLists[i].ownSection =>
                 ruleLists'[i].ownSection /\ ruleLists'[i].section = ruleLists[i].section
       /\ \A s \in DOMAIN groups : groups[s].own => groups'[s] = groups[s]]_importVars

\* A list goes to a section that exists and is enabled: stream.go fills no set for a
\* missing one, nftables.go has no rule for one that is off.
ListsReachSections ==
  \A i \in DOMAIN ruleLists : ruleLists[i].section # "direct" =>
    ruleLists[i].section \in DOMAIN groups /\ groups[ruleLists[i].section].on

\* Where the panels serve whole profiles, a refresh right after a complete refresh, with no
\* edit and no change at a panel between them, changes neither the entries nor the groups:
\* an update that brings nothing new does not regenerate and reload.  (A plain answer is
\* planned under the first free name, main or main_2, and so changes name every time.  Nor
\* is it so of a profile that gives two lists one address another profile's list renames.)
RefreshSettles ==
  [][settled /\ settled' /\ (\A i \in DOMAIN subscriptions : panel[subscriptions[i].url].yaml)
       => proxies' = proxies /\ ruleLists' = ruleLists /\ groups' = groups]_importVars

\* The mirrors, the TLS pin and the HWID opt-out LuCI lets the user give a subscription
\* apply to its downloads from then on (subscriptions.js, model.go Subscription): no
\* refresh takes them back.
TuningKept ==
  [][Refresh => \A i \in DOMAIN subscriptions :
       subscriptions[i].tuned => \E j \in DOMAIN subscriptions' :
         subscriptions'[j].url = subscriptions[i].url /\ subscriptions'[j].tuned]_importVars
=============================================================================
