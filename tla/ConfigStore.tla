---------------------------- MODULE ConfigStore ----------------------------
(***************************************************************************)
(* The UCI file /etc/config/purewrt and the two programs that write it:    *)
(* LuCI, which edits single options and sections through libuci, and       *)
(* purewrt, whose commands Load the whole file into a Config, change it    *)
(* and Serialize all of it again (internal/config/uci.go, write.go).  Load *)
(* also compiles the Zapret applications against the strategy library      *)
(* (catalog and user entries, kept in two other files), and refuses the    *)
(* whole configuration when a reference cannot be resolved.                *)
(*                                                                         *)
(* The sections with a name are in the file by type, in order, each as     *)
(* [id, label, body]: id is <<prefix, name>>, the prefix "" in files older *)
(* than the prefixes, or Anonymous; label is the name option or NoLabel.   *)
(* Load takes each type by itself, so the order of sections of different   *)
(* types is left out.  The hundred and fifty plain options fall into five  *)
(* kinds by how they are written and read.  A text stands in the file as   *)
(* libuci reads it; Load, which splits the lines by itself, reads some     *)
(* texts otherwise.                                                        *)
(***************************************************************************)
EXTENDS Naturals, Sequences, SequencesExt, FiniteSets

CONSTANTS
  SafeNames,    \* names that can be section ids
  OtherNames,   \* names with a dash or a dot
  Strategies,   \* names of library entries (the lists have others too)
  Misread,      \* what Load makes of the texts it reads otherwise than libuci
  Macs,         \* devices
  StartFiles,   \* the named sections of the files a router may start from
  Overlap,      \* may the file change between the steps of a library command
  MaxSaves      \* LuCI edits in a behaviour

Anonymous == <<>>
NoLabel == "no label"
NoName == ""
NoStrategy == "no strategy"
Exclude == "excluded"
OptionKinds == {"scalar", "optional", "list", "dnslist", "mesh"}
\* What an option can hold: in the file Absent and Blank, in a Config Default and Empty.
Marks == {"Absent", "Blank", "Default", "Empty"}
Texts == {"Custom"} \cup DOMAIN Misread \cup Range(Misread)
Stored == {"Absent", "Blank", "Default"} \cup Texts
Values == {"Default", "Empty"} \cup Texts

\* The routing sections of the factory settings (the code has three), and the names
\* that can be section ids.
FactorySections == <<[name |-> "common", body |-> [zapret |-> FALSE, apps |-> {}]]>>
IdNames == SafeNames \cup {"common"}

\* The sections a file may have, with what each type says.
SectionTypes == {"zapret_strategy", "device", "section", "rule_provider"}
Bodies(t) ==
  CASE t = "zapret_strategy" -> [on : BOOLEAN, uses : STRING]
    [] t = "device" -> [mac : Macs, section : STRING, exclude : BOOLEAN]
    [] t = "section" -> [zapret : BOOLEAN, apps : SUBSET STRING]
    [] t = "rule_provider" -> STRING
StartSections(t) ==
  {s \in [id : {Anonymous} \cup (({"", t} \ {"device"}) \X (STRING \ {NoLabel})) \cup ({"dev"} \X Macs),
          label : STRING, body : Bodies(t)] :
     \A m \in Macs : s.id = <<"dev", m>> =>
                      t = "device" /\ s.body.mac = m /\ s.label # NoLabel}

IdsUnique(named) ==
  \A t, u \in SectionTypes : \A i \in DOMAIN named[t], j \in DOMAIN named[u] :
    named[t][i].id # Anonymous /\ named[t][i].id = named[u][j].id => t = u /\ i = j

(* A text is misread for an apostrophe, an outer quote or a run of spaces, *)
(* so ids and library names are not; those of quotes only are left out.    *)
(* What Load has read can be misread again only for an apostrophe, which   *)
(* leaves no library name.                                                 *)
TextAssumption ==
  /\ DOMAIN Misread \subseteq STRING \ ({NoName, NoLabel} \cup Marks \cup IdNames \cup Strategies)
  /\ \A v \in DOMAIN Misread :
       /\ Misread[v] \in STRING \ ({NoName, NoLabel} \cup Marks)
       /\ Misread[v] \in DOMAIN Misread => Misread[Misread[v]] \notin Strategies

(* Names are strings, and the marks for a missing one are no names; libuci *)
(* reads the files a router starts from.                                   *)
FileAssumption ==
  /\ MaxSaves \in Nat /\ TextAssumption
  /\ SafeNames \subseteq STRING \ {NoLabel} /\ OtherNames \subseteq STRING \ {NoLabel}
  /\ Strategies \subseteq STRING \ {NoStrategy}
  /\ \A named \in StartFiles :
       /\ DOMAIN named = SectionTypes
       /\ \A t \in SectionTypes : named[t] \in Seq(StartSections(t))
       /\ IdsUnique(named)
ASSUME FileAssumption

VARIABLES
  uciFile,   \* [named, options]: the file
  catalog,   \* the downloaded strategies (or the built-in ones)
  library,   \* the user's strategies
  removing,  \* the library entry whose removal has been allowed, not yet written
  bundle,    \* an exported configuration
  luciEdits

cfgVars == <<uciFile, catalog, library, removing, bundle, luciEdits>>

-----------------------------------------------------------------------------
(* Load. *)

\* The words of a line are joined by single spaces and stripped of outer quotes; the
\* escape of an apostrophe stays.
Parsed(v) == IF v \in DOMAIN Misread THEN Misread[v] ELSE v

ParsedBody(t, b) ==
  CASE t = "zapret_strategy" -> [b EXCEPT !.uses = Parsed(@)]
    [] t = "device" -> [b EXCEPT !.section = Parsed(@)]
    [] t = "section" -> [b EXCEPT !.apps = {Parsed(a) : a \in @}]
    [] t = "rule_provider" -> Parsed(b)

\* Only a device may have an empty name beside its id.
IdName(t, s) ==
  IF s.label = NoLabel \/ (s.label = NoName /\ t # "device")
  THEN IF s.id = Anonymous THEN NoName ELSE s.id[2]
  ELSE Parsed(s.label)

LoadOption(kind, stored) ==
  CASE stored = "Absent" -> "Default"
    [] stored = "Blank" -> "Empty"
    [] OTHER -> Parsed(stored)

LoadOptions(f) == [k \in OptionKinds |-> LoadOption(k, f.options[k])]

Objects(f, t) ==
  [i \in DOMAIN f.named[t] |->
     [name |-> IdName(t, f.named[t][i]), body |-> ParsedBody(t, f.named[t][i].body)]]

\* The last section of a MAC stands, at the place of the first.
MergeDevice(devices, d) ==
  LET same == {i \in DOMAIN devices : devices[i].body.mac = d.body.mac}
  IN IF same = {} THEN Append(devices, d)
     ELSE [devices EXCEPT ![CHOOSE i \in same : TRUE] = d]
MergeDevices(found) ==
  LET merged[k \in 0..Len(found)] ==
        IF k = 0 THEN <<>> ELSE MergeDevice(merged[k - 1], found[k])
  IN merged[Len(found)]

\* A file without sections has the factory's.
Load(f) ==
  [apps    |-> Objects(f, "zapret_strategy"),
   secs    |-> IF f.named["section"] = <<>> THEN FactorySections ELSE Objects(f, "section"),
   rules   |-> Objects(f, "rule_provider"),
   devices |-> MergeDevices(Objects(f, "device")),
   options |-> LoadOptions(f),
   meshOn  |-> f.meshOn]

\* The applications must have plain names and be distinct, the enabled ones must find
\* their strategy, and the enabled zapret sections their enabled applications.
PlainName(n) == n # NoName /\ n \notin DOMAIN Misread
Compiles(c, known) ==
  LET running == {c.apps[i].name : i \in {j \in DOMAIN c.apps : c.apps[j].body.on}}
  IN /\ \A i \in DOMAIN c.apps : PlainName(c.apps[i].name)
     /\ \A i, j \in DOMAIN c.apps : c.apps[i].name = c.apps[j].name => i = j
     /\ \A i \in DOMAIN c.apps : c.apps[i].body.on => c.apps[i].body.uses \in known
     /\ \A i \in DOMAIN c.secs : c.secs[i].body.zapret => c.secs[i].body.apps \subseteq running

Loads(f, known) == Compiles(Load(f), known)

-----------------------------------------------------------------------------
(* Serialize. *)

\* The id carries the name if it can and nobody has it; otherwise the section is
\* anonymous and says its name in an option.
AlwaysNamed(t, o, seen) ==  \* variant: repeated names are not noticed
  IF o.name \in IdNames THEN [id |-> <<t, o.name>>, label |-> NoLabel, body |-> o.body]
  ELSE [id |-> Anonymous, label |-> o.name, body |-> o.body]
SectionHeader(t, o, seen) ==
  IF o.name \in IdNames \ seen
  THEN [id |-> <<t, o.name>>, label |-> NoLabel, body |-> o.body]
  ELSE [id |-> Anonymous, label |-> o.name, body |-> o.body]

WriteNamed(t, objects) ==
  [i \in DOMAIN objects |->
     SectionHeader(t, objects[i], {objects[j].name : j \in 1..(i - 1)})]

\* Devices are named by their MAC, and a device that is excluded has no section.
WriteDevice(d) ==
  [id |-> <<"dev", d.body.mac>>, label |-> d.name,
   body |-> [d.body EXCEPT !.section = IF d.body.exclude THEN NoName ELSE @]]

\* An empty list leaves nothing to write, so a DNS list is written as one blank option.
ListsAlike(kind) == IF kind = "scalar" THEN "Blank" ELSE "Absent"  \* variant: no such option
WriteEmpty(kind) == IF kind \in {"scalar", "dnslist"} THEN "Blank" ELSE "Absent"

\* Mesh options are written only where they differ, while the mesh is on.
WriteMesh(value, meshOn) == IF meshOn /\ value # "Default" THEN value ELSE "Absent"

WriteOption(kind, value, meshOn) ==
  CASE value = "Empty" -> WriteEmpty(kind)
    [] kind = "mesh" -> WriteMesh(value, meshOn)
    [] OTHER -> value

Serialize(c) ==
  [named |-> [t \in SectionTypes |->
     CASE t = "zapret_strategy" -> WriteNamed(t, c.apps)
       [] t = "device" -> [i \in DOMAIN c.devices |-> WriteDevice(c.devices[i])]
       [] t = "section" -> WriteNamed(t, c.secs)
       [] t = "rule_provider" -> WriteNamed(t, c.rules)],
   options |-> [k \in OptionKinds |-> WriteOption(k, c.options[k], c.meshOn)],
   meshOn |-> c.meshOn]

-----------------------------------------------------------------------------
\* A library command looks at the file and writes the library later; no lock joins the two.
MayIntervene == removing = NoStrategy \/ Overlap

(* The commands of purewrt: each loads the file first and gives up if it cannot. *)

Known == catalog \cup library
CanLoad == Loads(uciFile, Known)

\* A command that records something of its own: a version, a provider, a new list.
Rewrite(added) ==
  /\ CanLoad
  /\ uciFile' = Serialize([Load(uciFile) EXCEPT !.rules = @ \o added])
  /\ UNCHANGED <<catalog, library, removing, bundle, luciEdits>>

\* The configuration of a router that was never set up.
Default == [apps |-> <<>>, secs |-> FactorySections, rules |-> <<>>, devices |-> <<>>, meshOn |-> FALSE,
            options |-> [k \in OptionKinds |-> "Default"]]

\* The wizard starts from the defaults and keeps what describes this router.
WizardReset ==
  /\ CanLoad
  /\ uciFile' = Serialize([Default EXCEPT !.apps = Load(uciFile).apps])
  /\ UNCHANGED <<catalog, library, removing, bundle, luciEdits>>

\* mesh-init and mesh-join turn the mesh on; mesh-leave forgets its options too.
JoinMesh ==
  /\ CanLoad /\ ~uciFile.meshOn
  /\ uciFile' = Serialize([Load(uciFile) EXCEPT !.meshOn = TRUE])
  /\ UNCHANGED <<catalog, library, removing, bundle, luciEdits>>

LeaveMesh ==
  /\ CanLoad /\ uciFile.meshOn
  /\ uciFile' = Serialize([Load(uciFile) EXCEPT !.meshOn = FALSE, !.options["mesh"] = "Default"])
  /\ UNCHANGED <<catalog, library, removing, bundle, luciEdits>>

ExportConfig ==
  /\ CanLoad
  /\ bundle' = Serialize(Load(uciFile))
  /\ UNCHANGED <<uciFile, catalog, library, removing, luciEdits>>

\* The bundle replaces the file as it is, if it loads here.
Staged == Loads(bundle, Known)
ImportConfig ==
  /\ bundle # uciFile
  /\ MayIntervene
  /\ Staged
  /\ uciFile' = bundle
  /\ UNCHANGED <<catalog, library, removing, bundle, luciEdits>>

\* zapret-candidates --update replaces the catalog by what the list server has now; a
\* user's entry of the same name is shadowed.
FetchZapretCandidates ==
  /\ CanLoad
  /\ catalog' \in SUBSET Strategies
  /\ UNCHANGED <<uciFile, library, removing, bundle, luciEdits>>

AddEntry(s) ==
  /\ s \notin Known
  /\ library' = library \cup {s}
  /\ UNCHANGED <<uciFile, catalog, removing, bundle, luciEdits>>

\* Removing or renaming a user's entry first looks for applications that refer to it.
Referenced(s) == \E i \in DOMAIN Load(uciFile).apps : Load(uciFile).apps[i].body.uses = s
NeverReferenced(s) == FALSE  \* variant: no look
InUse(s) == Referenced(s)
CheckRemoval(s) ==
  /\ removing = NoStrategy
  /\ s \in library
  /\ CanLoad
  /\ ~InUse(s)
  /\ removing' = s
  /\ UNCHANGED <<uciFile, catalog, library, bundle, luciEdits>>

RemoveEntry ==
  /\ removing # NoStrategy
  /\ library' = library \ {removing}
  /\ removing' = NoStrategy
  /\ UNCHANGED <<uciFile, catalog, bundle, luciEdits>>

-----------------------------------------------------------------------------
(* LuCI. *)

LuciSaves(f) ==
  /\ luciEdits < MaxSaves
  /\ MayIntervene
  /\ luciEdits' = luciEdits + 1
  /\ uciFile' = f
  /\ UNCHANGED <<catalog, library, removing, bundle>>

WithSection(t, s) == [uciFile EXCEPT !.named[t] = Append(@, s)]
FreeId(id) ==
  \A t \in SectionTypes : \A i \in DOMAIN uciFile.named[t] : uciFile.named[t][i].id # id

AddObject(t, n, body) ==
  /\ FreeId(<<t, n>>)
  /\ LuciSaves(WithSection(t, [id |-> <<t, n>>, label |-> NoLabel, body |-> body]))

\* The Devices page: a device is sent to a section or excluded.
Target(m, target) == [mac |-> m, section |-> IF target = Exclude THEN NoName ELSE target,
                      exclude |-> target = Exclude]
OfMac(s, m) == s.body.mac = m
Devices == uciFile.named["device"]

AddDevice(m, target) ==
  /\ \A i \in DOMAIN Devices : ~OfMac(Devices[i], m)
  /\ LuciSaves(WithSection("device", [id |-> <<"dev", m>>, label |-> "phone",
                                      body |-> Target(m, target)]))

\* It sets options of the section dev_<mac>: an older, anonymous one it cannot change.
RetargetDevice(m, target) ==
  \E i \in DOMAIN Devices :
    /\ OfMac(Devices[i], m) /\ Devices[i].id = <<"dev", m>>
    /\ LuciSaves([uciFile EXCEPT !.named["device"][i].body = Target(m, target)])

WithoutMac(sections, m) ==
  LET kept[k \in 0..Len(sections)] ==
        IF k = 0 THEN <<>>
        ELSE IF OfMac(sections[k], m) THEN kept[k - 1] ELSE Append(kept[k - 1], sections[k])
  IN kept[Len(sections)]
RemoveDevice(m) ==
  /\ \E i \in DOMAIN Devices : OfMac(Devices[i], m)
  /\ LuciSaves([uciFile EXCEPT !.named["device"] = WithoutMac(@, m)])

RemoveSection(t, i) ==
  LuciSaves([uciFile EXCEPT !.named[t] = RemoveAt(@, i)])

\* A form is saved as a whole: filled in, or with its fields cleared.
FillForm(text) == LuciSaves([uciFile EXCEPT !.options = [k \in OptionKinds |-> text]])
ClearForm == LuciSaves([uciFile EXCEPT !.options =
  [k \in OptionKinds |-> IF k = "dnslist" THEN "Blank" ELSE "Absent"]])

-----------------------------------------------------------------------------
CfgInit ==
  /\ \E named \in StartFiles : uciFile = [named |-> named, meshOn |-> FALSE,
                                          options |-> [k \in OptionKinds |-> "Absent"]]
  /\ library \in SUBSET Strategies
  /\ catalog \in SUBSET Strategies
  /\ removing = NoStrategy
  /\ bundle = uciFile
  /\ luciEdits = 0

CfgCommands ==
  \/ Rewrite(<<>>)
  \/ \E n \in SafeNames \cup OtherNames :
       (\A i \in DOMAIN Load(uciFile).rules : Load(uciFile).rules[i].name # n)
       /\ Rewrite(<<[name |-> n, body |-> "imported"]>>)
  \/ WizardReset \/ JoinMesh \/ LeaveMesh \/ ExportConfig \/ ImportConfig

LibraryCommands ==
  \/ \E s \in Strategies : AddEntry(s) \/ CheckRemoval(s)
  \/ RemoveEntry

LuciPages ==
  \/ \E n \in SafeNames, s \in Strategies :
       AddObject("zapret_strategy", n, [on |-> TRUE, uses |-> s])
  \/ \E n \in SafeNames :
       AddObject("section", n, [zapret |-> TRUE, apps |-> {n}])
  \/ \E m \in Macs, target \in {"media", Exclude} :
       AddDevice(m, target) \/ RetargetDevice(m, target)
  \/ \E m \in Macs : RemoveDevice(m)
  \/ \E t \in SectionTypes \ {"device"} : \E i \in DOMAIN uciFile.named[t] : RemoveSection(t, i)
  \/ (\E text \in {"Custom"} \cup DOMAIN Misread : FillForm(text)) \/ ClearForm

CfgNext == CfgCommands \/ LibraryCommands \/ FetchZapretCandidates \/ LuciPages

CfgSpec == CfgInit /\ [][CfgNext]_cfgVars

-----------------------------------------------------------------------------
\* libuci has one namespace of section ids in a file; a repeated id makes the file
\* unreadable to every uci program (write.go, Serialize and sectionHeader).
SectionIdsUnique == IdsUnique(uciFile.named)

CfgTypeOK ==
  /\ SectionIdsUnique
  /\ \A k \in OptionKinds : uciFile.options[k] \in Stored /\ LoadOption(k, uciFile.options[k]) \in Values
  /\ catalog \subseteq Strategies /\ library \subseteq Strategies
  /\ removing \in Strategies \cup {NoStrategy}
  /\ luciEdits \in 0..MaxSaves

\* What a device's entry means: excluded, or sent to its section.
Meaning(c) ==
  [c EXCEPT !.devices = [i \in DOMAIN @ |-> WriteDevice(@[i])],
            !.options["mesh"] = IF c.meshOn THEN @ ELSE "Default"]

\* The same configuration with its texts as the next Load reads them.
Again(t, objects) ==
  [i \in DOMAIN objects |->
     [name |-> Parsed(objects[i].name), body |-> ParsedBody(t, objects[i].body)]]
AsRead(c) ==
  [apps |-> Again("zapret_strategy", c.apps), secs |-> Again("section", c.secs),
   rules |-> Again("rule_provider", c.rules), devices |-> Again("device", c.devices),
   options |-> [k \in OptionKinds |-> Parsed(c.options[k])], meshOn |-> c.meshOn]

\* A command changes nothing of the configuration but what it set out to change: names,
\* in old files and new, repeated, or unfit for ids, cleared lists and devices come back
\* from the file as they went in, each text as Load reads what q wrote.
RewriteIsFaithful ==
  [][uciFile' # uciFile /\ luciEdits' = luciEdits /\ bundle' = bundle =>
       \A added \in {<<>>} \cup {<<[name |-> n, body |-> "imported"]>> :
                                     n \in SafeNames \cup OtherNames} :
         Rewrite(added) =>
           Meaning(Load(uciFile')) = Meaning(AsRead([Load(uciFile) EXCEPT !.rules = @ \o added]))]_cfgVars

\* write.go, sectionHeader: Serialize must never lose data on its own.  A command that
\* adds nothing of its own leaves every text as the next command reads it.
TextsSurvive ==
  [][Rewrite(<<>>) => Meaning(Load(uciFile')) = Meaning(Load(uciFile))]_cfgVars

\* What purewrt writes by itself it can load again: a rewrite, a reset, an imported
\* bundle or a change of the user's library never locks every command out.
OwnWritesLoad ==
  [][<<uciFile, library>>' # <<uciFile, library>> /\ UNCHANGED <<luciEdits, catalog>> /\ CanLoad
       => Loads(uciFile', catalog' \cup library')]_cfgVars

\* docs/zapret.md: referenced entries cannot be deleted or renamed.
ReferencedEntriesStay ==
  [][\A s \in Known : Referenced(s) /\ CanLoad /\ uciFile' = uciFile => s \in catalog' \cup library']_cfgVars
=============================================================================
