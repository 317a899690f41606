---------------------------- MODULE RuleStreamProofs ----------------------------
(***************************************************************************)
(* A finished generation holds what the files hold, whatever the cache     *)
(* went through: for any lists, versions, settings and sections.           *)
(***************************************************************************)
EXTENDS RuleStream, WellFoundedInduction, TLAPS

InWork == {"sum", "seal", "open", "emit"}

(* What is where: the functions' domains, and versions of the right list.  *)
FilesOK ==
    /\ overlap \in BOOLEAN
    /\ DOMAIN file = ListNames /\ DOMAIN cached = ListNames /\ DOMAIN sealed = ListNames
    /\ \A p \in ListNames :
         /\ file[p] \in {0} \cup Versions(p) /\ sealed[p] \subseteq Versions(p)
         /\ DOMAIN cached[p] = Versions(p)
         /\ \A v \in Versions(p) : cached[p][v] \in {0} \cup Versions(p)
Gens == [at : {"idle", "read", "done"} \cup InWork, next : Nat, data : Nat, sum : Nat, line : Nat]
GenOK ==
    /\ gen \in Gens
    /\ gen.at \notin {"idle", "done"} => gen.next \in DOMAIN RuleLists
    /\ gen.at \in InWork => /\ List.on /\ HasSection(List)
                            /\ gen.data \in Versions(List.name)
    /\ gen.at = "seal" => gen.sum \in Versions(List.name)
    /\ gen.at = "open" => gen.sum \in {0} \cup Versions(List.name)
    /\ gen.at = "emit" => gen.line \in 1..Len(Reading) + 1
OutOK ==
    /\ DOMAIN out = OutNames
    /\ \A n \in OutNames : /\ DOMAIN out[n] = Types
                           /\ \A t \in Types : Counted(out[n][t])

(* While no file changes under it, a generation holds the current version, *)
(* also when it got it from the cache.                                     *)
UpToDate ==
    ~overlap => /\ gen.at \in InWork => gen.data = file[List.name]
                /\ gen.at \in {"seal", "open"} => gen.sum = file[List.name]

(* Nothing is written that no file says, and nothing at all before it.     *)
Sourced ==
    /\ gen.at = "idle" => \A n \in OutNames, t \in Types : Written(n, t) = {}
    /\ ~overlap => \A n \in OutNames, t \in Types :
         Written(n, t) \subseteq UNION {Says(i, t) : i \in Sources(n)}

(* The entries the generation is past are written.                         *)
Past(i, k) == \/ gen.at = "done" \/ i < gen.next
              \/ i = gen.next /\ gen.at = "emit" /\ k < gen.line
Due(i, k) ==
    LET line == Current(i).lines[k]
    IN (NeutralType(line) = "cidr6" => EmitsV6(settings)) =>
          line.value \in Written(RuleLists[i].section, NeutralType(line))
Complete ==
    ~overlap /\ gen.at # "idle" =>
      \A n \in OutNames : \A i \in Sources(n) : \A k \in Entries(RuleLists[i], Current(i)) :
        Past(i, k) => Due(i, k)

StreamInv == /\ FilesOK /\ GenOK /\ OutOK /\ UpToDate /\ Sourced /\ Complete
             /\ CacheIsFaithful /\ WrittenOnce

-----------------------------------------------------------------------------
(* Lists, versions and lines                                               *)

LEMMA CountedIs ==
    ASSUME NEW s, Counted(s)
    PROVE  /\ Len(s) \in Nat /\ DOMAIN s = 1..Len(s)
           /\ \A i : i \in DOMAIN s <=> i \in Nat /\ 1 <= i /\ i <= Len(s)
BY DEF Counted

LEMMA NumbersFacts ==
    /\ DOMAIN RuleLists \subseteq Nat \ {0}
    /\ \A i \in DOMAIN RuleLists : RuleLists[i].name \in ListNames
    /\ \A p \in ListNames : Versions(p) \subseteq Nat \ {0}
    /\ \A p \in ListNames : \A v \in Versions(p) : DOMAIN Content[p][v].lines \subseteq Nat \ {0}
<1>1. \A s : Counted(s) => DOMAIN s \subseteq Nat \ {0} BY CountedIs
<1> QED BY <1>1, RuleAssumption DEF Versions, ListNames

LEMMA NeutralFacts ==
    /\ \A line : NeutralType(line) \in Types \cup {"unsupported"}
    /\ \A l, c : \A k \in Entries(l, c) :
         /\ k \in DOMAIN c.lines /\ NeutralType(c.lines[k]) \in Types
         /\ NeutralType(c.lines[k]) = "native" => Cacheable(l)
<1>1. \A line : NeutralType(line) \in Types \cup {"unsupported"}
  BY DEF NeutralType, Types
<1>2. \A l, c : \A k \in Entries(l, c) :
         /\ k \in Neutral(c.lines)
         /\ NeutralType(c.lines[k]) = "native" => Cacheable(l)
  BY DEF Entries, Streamed, FirstHalf
<1> QED BY <1>1, <1>2 DEF Neutral

LEMMA LeastNatural ==
    ASSUME NEW S, S \subseteq Nat, S # {}
    PROVE  \E n \in S : \A m \in S : n <= m
<1>. DEFINE R == OpToRel(<, Nat)
<1>1. IsWellFoundedOn(R, Nat) BY NatLessThanWellFounded
<1>2. \A x \in Nat : \A y \in Nat : x < y => <<x, y>> \in R BY DEF OpToRel
<1>. HIDE DEF R
<1>3. PICK n \in S : \A m \in S : <<m, n>> \notin R BY <1>1, WFMin
<1>4. ASSUME NEW m \in S PROVE n <= m
  <2>1. m \in Nat /\ n \in Nat /\ ~(m < n) BY <1>2, <1>3
  <2>. QED BY <2>1
<1>. QED BY <1>4

(* Of equal lines the first is an entry.                                   *)
LEMMA FirstIsEntry ==
    ASSUME NEW l, NEW c, Counted(c.lines), ~c.damaged, NEW k \in DOMAIN c.lines,
           NeutralType(c.lines[k]) \in Types, NeutralType(c.lines[k]) = "native" => Cacheable(l)
    PROVE  \E f \in Entries(l, c) : Same(c.lines[f], c.lines[k])
<1>. DEFINE equal == {j \in DOMAIN c.lines : Same(c.lines[j], c.lines[k])}
<1>1. k \in equal /\ equal \subseteq Nat BY CountedIs DEF Same
<1>2. PICK f \in equal : \A j \in equal : f <= j BY <1>1, LeastNatural
<1>3. \A j \in DOMAIN c.lines : j < f => ~Same(c.lines[f], c.lines[j])
  BY <1>1, <1>2 DEF Same
<1>4. f \in Neutral(c.lines) BY <1>2, <1>3 DEF Neutral, Same, Types
<1>5. f \in Entries(l, c) BY <1>2, <1>4 DEF Entries, Streamed, Same
<1>. QED BY <1>2, <1>5

-----------------------------------------------------------------------------
(* Writing an entry                                                        *)

LEMMA Appended ==
    \A s, x : Counted(s) => /\ Counted(Append(s, x)) /\ Append(s, x)[Len(s) + 1] = x
                            /\ \A i \in DOMAIN s : Append(s, x)[i] = s[i]
                            /\ DOMAIN Append(s, x) = DOMAIN s \cup {Len(s) + 1}
<1>. SUFFICES ASSUME NEW s, Counted(s), NEW x, NEW r, r = Append(s, x)
              PROVE  /\ Counted(r) /\ r[Len(s) + 1] = x
                     /\ \A i \in DOMAIN s : r[i] = s[i]
                     /\ DOMAIN r = DOMAIN s \cup {Len(s) + 1}
  OBVIOUS
<1>. DEFINE S == {s[i] : i \in DOMAIN s} \cup {x}
<1>1. s \in Seq(S) BY DEF Counted
<1>2. r \in Seq(S) /\ Len(r) = Len(s) + 1 /\ r[Len(s) + 1] = x
      /\ \A i \in 1..Len(s) : r[i] = s[i]
  BY <1>1
<1>3. r \in Seq({r[i] : i \in DOMAIN r}) BY <1>2
<1>. QED BY <1>1, <1>2, <1>3 DEF Counted

LEMMA AddFacts ==
    ASSUME OutOK, WrittenOnce, NEW n \in OutNames, NEW t \in Types, NEW x,
           x \notin Written(n, t), out' = Add(n, t, x)
    PROVE  /\ OutOK' /\ WrittenOnce'
           /\ \A m \in OutNames, u \in Types :
                Written(m, u)' = IF m = n /\ u = t THEN Written(m, u) \cup {x} ELSE Written(m, u)
<1>. DEFINE s == out[n][t]
            r == Append(s, x)
            o == [out[n] EXCEPT ![t] = r]
<1>1. out' = [out EXCEPT ![n] = o] BY DEF Add
<1>2. /\ DOMAIN o = Types /\ o[t] = r
      /\ \A u \in Types \ {t} : o[u] = out[n][u]
  BY DEF OutOK
<1>3. Counted(s) BY DEF OutOK
<1>4. /\ Counted(r) /\ r[Len(s) + 1] = x
      /\ \A i \in DOMAIN s : r[i] = s[i]
      /\ DOMAIN r = DOMAIN s \cup {Len(s) + 1}
  <2>1. r = Append(s, x) OBVIOUS
  <2>. HIDE DEF s, r
  <2>. QED BY <1>3, <2>1, Appended
<1>. HIDE DEF o, r
<1>5. /\ DOMAIN out' = OutNames /\ out'[n] = o
      /\ \A m \in OutNames \ {n} : out'[m] = out[m]
  BY <1>1 DEF OutOK
<1>6. /\ out'[n][t] = r
      /\ \A m \in OutNames, u \in Types : m # n \/ u # t => out'[m][u] = out[m][u]
  BY <1>2, <1>5
<1>. HIDE DEF s
<1>7. OutOK' BY <1>2, <1>4, <1>5, <1>6 DEF OutOK
<1>8. Written(n, t)' = Written(n, t) \cup {x}
  <2>1. Written(n, t) = {s[j] : j \in DOMAIN s} BY DEF Written, s
  <2>2. Written(n, t)' = {r[j] : j \in DOMAIN r} BY <1>6 DEF Written
  <2>. QED BY <1>4, <2>1, <2>2
<1>9. \A m \in OutNames, u \in Types : m # n \/ u # t => Written(m, u)' = Written(m, u)
  BY <1>6 DEF Written
<1>10. \A i, j \in DOMAIN r : i # j => r[i] # r[j]
  <2>1. \A i \in DOMAIN s : s[i] # x BY DEF Written, s
  <2>2. \A i, j \in DOMAIN s : i # j => s[i] # s[j] BY DEF WrittenOnce, s
  <2>. QED BY <1>4, <2>1, <2>2
<1>11. WrittenOnce'
  <2>. SUFFICES ASSUME NEW m \in OutNames, NEW u \in Types
                PROVE  \A i, j \in DOMAIN out'[m][u] : i # j => out'[m][u][i] # out'[m][u][j]
    BY DEF WrittenOnce
  <2>1. CASE m = n /\ u = t BY <2>1, <1>6, <1>10
  <2>2. CASE ~(m = n /\ u = t) BY <2>2, <1>6 DEF WrittenOnce
  <2>. QED BY <2>1, <2>2
<1>. QED BY <1>7, <1>8, <1>9, <1>11

LEMMA NothingIs ==
    ASSUME out' = [n \in OutNames |-> NoEntries]
    PROVE  OutOK' /\ WrittenOnce' /\ \A n \in OutNames, t \in Types : Written(n, t)' = {}
<1>1. Counted(<<>>) BY DEF Counted
<1>2. /\ DOMAIN out' = OutNames
      /\ \A n \in OutNames : DOMAIN out'[n] = Types
      /\ \A n \in OutNames, t \in Types : out'[n][t] = <<>>
  BY DEF NoEntries
<1>. QED BY <1>1, <1>2 DEF OutOK, WrittenOnce, Written

LEMMA SameOutput ==
    ASSUME UNCHANGED out
    PROVE  /\ (OutOK => OutOK') /\ (WrittenOnce => WrittenOnce')
           /\ \A n, t : Written(n, t)' = Written(n, t)
BY DEF OutOK, WrittenOnce, Written

-----------------------------------------------------------------------------
(* Where the generation is                                                 *)

LEMMA AtFacts ==
    ASSUME NEW n \in Nat
    PROVE  /\ At(n) \in Gens
           /\ \/ At(n).at = "read" /\ At(n).next = n /\ n \in DOMAIN RuleLists
              \/ At(n).at = "done" /\ n \notin DOMAIN RuleLists
BY DEF At, NoGen, Gens, InWork

LEMMA NoGenFacts == NoGen \in Gens /\ NoGen.at = "idle"
BY DEF NoGen, Gens

LEMMA EmittingFacts ==
    ASSUME gen \in Gens, NEW v \in Nat
    PROVE  /\ Emitting(v) \in Gens
           /\ Emitting(v).at = "emit" /\ Emitting(v).next = gen.next
           /\ Emitting(v).data = v /\ Emitting(v).line = 1
BY DEF Emitting, Gens, InWork

LEMMA NextFacts ==
    ASSUME GenOK, gen.at \notin {"idle", "done"}, gen' = Following
    PROVE  /\ GenOK' /\ gen'.at \in {"read", "done"}
           /\ \A i \in DOMAIN RuleLists : \A k : Past(i, k)' => i <= gen.next
<1>1. gen.next \in Nat /\ gen.next \in DOMAIN RuleLists BY DEF GenOK, Gens
<1>2. gen' \in Gens
      /\ \/ gen'.at = "read" /\ gen'.next = gen.next + 1 /\ gen.next + 1 \in DOMAIN RuleLists
         \/ gen'.at = "done" /\ gen.next + 1 \notin DOMAIN RuleLists
  BY <1>1, AtFacts DEF Following
<1>3. GenOK' BY <1>2 DEF GenOK, InWork
<1>4. ASSUME NEW i \in DOMAIN RuleLists, NEW k, Past(i, k)' PROVE i <= gen.next
  <2>1. Len(RuleLists) \in Nat /\ DOMAIN RuleLists = 1..Len(RuleLists)
    BY CountedIs, RuleAssumption
  <2>2. CASE gen'.at = "read" /\ gen'.next = gen.next + 1
    BY <1>1, <1>4, <2>1, <2>2 DEF Past
  <2>3. CASE gen.next + 1 \notin DOMAIN RuleLists BY <1>1, <2>1, <2>3
  <2>. QED BY <1>2, <2>2, <2>3
<1>. QED BY <1>2, <1>3, <1>4

LEMMA SameFiles ==
    ASSUME UNCHANGED file
    PROVE  /\ \A n : Sources(n)' = Sources(n)
           /\ \A i : Current(i)' = Current(i)
           /\ \A i, t : Says(i, t)' = Says(i, t)
BY DEF Sources, Current, Says

LEMMA SameEntries ==
    ASSUME UNCHANGED <<file, settings, out>>
    PROVE  \A i, k : Due(i, k)' = Due(i, k)
BY SameFiles, SameOutput DEF Due, EmitsV6

LEMMA SourceFacts ==
    \A n : \A i \in Sources(n) :
      /\ i \in DOMAIN RuleLists /\ RuleLists[i].on /\ RuleLists[i].section = n
      /\ RuleLists[i].name \in ListNames /\ file[RuleLists[i].name] # 0
BY NumbersFacts DEF Sources

(* While a list is written and no file changes, it is the file's.          *)
LEMMA ReadingIs ==
    ASSUME FilesOK, GenOK, UpToDate, gen.at \in InWork, ~overlap
    PROVE  /\ List.name \in ListNames /\ gen.next \in Nat \ {0}
           /\ gen.next \in Sources(List.section) /\ List.section \in OutNames
           /\ Reading = Current(gen.next).lines
           /\ Content[List.name][gen.data] = Current(gen.next)
<1>1. gen.next \in DOMAIN RuleLists BY DEF GenOK, InWork
<1>2. List.name \in ListNames /\ gen.next \in Nat \ {0} BY <1>1, NumbersFacts DEF List
<1>3. gen.data = file[List.name] /\ gen.data \in Versions(List.name) /\ List.on
      /\ List.section \in OutNames
  BY DEF GenOK, UpToDate, HasSection
<1>4. gen.data # 0 BY <1>2, <1>3, NumbersFacts
<1>. QED BY <1>1, <1>2, <1>3, <1>4 DEF Sources, Reading, Current, List

-----------------------------------------------------------------------------
(* Every step keeps the invariant: a lemma for each action.                *)

(* What a step that writes nothing and changes no file has to show.        *)
LEMMA QuietStep ==
    ASSUME StreamInv, UNCHANGED <<file, settings, overlap, out>>,
           FilesOK', GenOK', UpToDate', CacheIsFaithful',
           gen.at # "idle", gen'.at # "idle",
           ~overlap => \A n \in OutNames : \A i \in Sources(n) :
             \A k \in Entries(RuleLists[i], Current(i)) : Past(i, k)' => Past(i, k)
    PROVE  StreamInv'
<1>1. OutOK' /\ WrittenOnce' BY SameOutput DEF StreamInv
<1>2. Sourced' BY SameOutput, SameFiles DEF StreamInv, Sourced
<1>3. Complete' BY SameEntries, SameFiles DEF StreamInv, Complete
<1>. QED BY <1>1, <1>2, <1>3 DEF StreamInv

LEMMA SameCache ==
    ASSUME UNCHANGED <<file, cached, sealed, overlap>>
    PROVE  (FilesOK => FilesOK') /\ (CacheIsFaithful => CacheIsFaithful')
BY DEF FilesOK, CacheIsFaithful

LEMMA GenerateKeeps == ASSUME StreamInv, Generate PROVE StreamInv'
<1>1. FilesOK' /\ CacheIsFaithful' BY SameCache DEF Generate, StreamInv
<1>2. gen' \in Gens
      /\ \/ gen'.at = "read" /\ gen'.next = 1 /\ 1 \in DOMAIN RuleLists
         \/ gen'.at = "done" /\ 1 \notin DOMAIN RuleLists
  BY AtFacts DEF Generate
<1>3. GenOK' /\ UpToDate' BY <1>2 DEF GenOK, UpToDate, InWork
<1>4. OutOK' /\ WrittenOnce' /\ \A n \in OutNames, t \in Types : Written(n, t)' = {}
  BY NothingIs DEF Generate
<1>5. Sourced' BY <1>4 DEF Sourced
<1>6. \A i \in DOMAIN RuleLists : \A k : ~Past(i, k)'
  <2>1. Len(RuleLists) \in Nat /\ DOMAIN RuleLists = 1..Len(RuleLists)
    BY CountedIs, RuleAssumption
  <2>. QED BY <1>2, <2>1 DEF Past
<1>7. Complete' BY <1>6, SourceFacts, SameFiles DEF Complete, Generate
<1>. QED BY <1>1, <1>3, <1>4, <1>5, <1>7 DEF StreamInv

LEMMA SkipKeeps == ASSUME StreamInv, Skip PROVE StreamInv'
<1>1. FilesOK' /\ CacheIsFaithful' BY SameCache DEF Skip, StreamInv
<1>2. /\ GenOK' /\ gen'.at \in {"read", "done"}
      /\ \A i \in DOMAIN RuleLists : \A k : Past(i, k)' => i <= gen.next
  BY NextFacts DEF Skip, StreamInv
<1>3. UpToDate' BY <1>2 DEF UpToDate, InWork
<1>4. \A n \in OutNames : gen.next \notin Sources(n)
  BY DEF Skip, Sources, HasSection, List
<1>5. gen.next \in Nat BY DEF StreamInv, GenOK, Gens
<1>6. \A n \in OutNames : \A i \in Sources(n) : \A k : Past(i, k)' => Past(i, k)
  <2>. SUFFICES ASSUME NEW n \in OutNames, NEW i \in Sources(n), NEW k, Past(i, k)'
                PROVE  i < gen.next
    BY DEF Past
  <2>1. i \in DOMAIN RuleLists /\ i \in Nat /\ i # gen.next
    BY <1>4, SourceFacts, NumbersFacts
  <2>. QED BY <1>2, <1>5, <2>1
<1>. QED BY <1>1, <1>2, <1>3, <1>6, QuietStep DEF Skip

(* The generation stays at its list, before its first line.                *)
LEMMA NoLineYet ==
    ASSUME gen'.next = gen.next, gen.at \notin {"idle", "done", "emit"},
           \/ gen'.at \notin {"done", "emit"}
           \/ gen'.at = "emit" /\ gen'.line = 1
    PROVE  \A i : \A k \in Nat \ {0} : Past(i, k)' => Past(i, k)
BY DEF Past

LEMMA EntriesAreLines ==
    ASSUME FilesOK
    PROVE  \A n : \A i \in Sources(n) : \A k \in Entries(RuleLists[i], Current(i)) :
             /\ k \in Nat \ {0} /\ k \in DOMAIN Current(i).lines
             /\ NeutralType(Current(i).lines[k]) \in Types
<1>. SUFFICES ASSUME NEW n, NEW i \in Sources(n)
              PROVE  DOMAIN Current(i).lines \subseteq Nat \ {0}
  BY NeutralFacts
<1>1. RuleLists[i].name \in ListNames /\ file[RuleLists[i].name] # 0 BY SourceFacts
<1>2. file[RuleLists[i].name] \in Versions(RuleLists[i].name) BY <1>1 DEF FilesOK
<1>. QED BY <1>1, <1>2, NumbersFacts DEF Current

LEMMA ReadStreamedKeeps == ASSUME StreamInv, ReadStreamed PROVE StreamInv'
<1>1. FilesOK' /\ CacheIsFaithful' BY SameCache DEF ReadStreamed, StreamInv
<1>2. gen \in Gens /\ gen.next \in DOMAIN RuleLists /\ List.name \in ListNames
  BY NumbersFacts DEF ReadStreamed, StreamInv, GenOK, List
<1>3. file[List.name] \in Versions(List.name) /\ file[List.name] \in Nat
  BY <1>2, NumbersFacts DEF ReadStreamed, StreamInv, FilesOK
<1>4. /\ gen' \in Gens /\ gen'.at = "emit" /\ gen'.next = gen.next
      /\ gen'.data = file[List.name] /\ gen'.line = 1
  BY <1>2, <1>3, EmittingFacts DEF ReadStreamed
<1>5. List' = List BY <1>4 DEF List
<1>6. Reading' = Content[List.name][gen'.data].lines BY <1>5 DEF Reading
<1>7. Len(Reading') \in Nat BY <1>2, <1>3, <1>4, <1>6, CountedIs, RuleAssumption
<1>8. GenOK'
  BY <1>2, <1>3, <1>4, <1>5, <1>7 DEF GenOK, HasSection, ReadStreamed
<1>9. UpToDate' BY <1>4, <1>5 DEF UpToDate, ReadStreamed
<1>10. \A i : \A k \in Nat \ {0} : Past(i, k)' => Past(i, k)
  BY <1>4, NoLineYet DEF ReadStreamed
<1>. QED BY <1>1, <1>4, <1>8, <1>9, <1>10, EntriesAreLines, QuietStep DEF ReadStreamed, StreamInv

LEMMA ReadDataKeeps == ASSUME StreamInv, ReadData PROVE StreamInv'
<1>1. FilesOK' /\ CacheIsFaithful' BY SameCache DEF ReadData, StreamInv
<1>2. gen \in Gens /\ gen.next \in DOMAIN RuleLists /\ List.name \in ListNames
  BY NumbersFacts DEF ReadData, StreamInv, GenOK, List
<1>3. file[List.name] \in Versions(List.name) /\ file[List.name] \in Nat
  BY <1>2, NumbersFacts DEF ReadData, StreamInv, FilesOK
<1>4. /\ gen' \in Gens /\ gen'.at = "sum" /\ gen'.next = gen.next
      /\ gen'.data = file[List.name]
  BY <1>2, <1>3 DEF ReadData, Gens, InWork
<1>5. List' = List BY <1>4 DEF List
<1>6. GenOK' BY <1>2, <1>3, <1>4, <1>5 DEF GenOK, HasSection, ReadData
<1>7. UpToDate' BY <1>4, <1>5 DEF UpToDate, ReadData
<1>8. \A i : \A k \in Nat \ {0} : Past(i, k)' => Past(i, k)
  BY <1>4, NoLineYet DEF ReadData
<1>. QED BY <1>1, <1>4, <1>6, <1>7, <1>8, EntriesAreLines, QuietStep DEF ReadData, StreamInv

LEMMA EnsureKeeps == ASSUME StreamInv, Ensure PROVE StreamInv'
<1>. DEFINE p == List.name
            v == file[p]
<1>1. /\ gen \in Gens /\ gen.next \in DOMAIN RuleLists /\ p \in ListNames
      /\ gen.data \in Versions(p) /\ List.on /\ HasSection(List)
  BY NumbersFacts DEF Ensure, StreamInv, GenOK, List, InWork
<1>2. v \in {0} \cup Versions(p) /\ v \in Nat
  BY <1>1, NumbersFacts DEF StreamInv, FilesOK
<1>3. /\ gen' \in Gens /\ gen'.next = gen.next /\ gen'.data = gen.data /\ gen'.sum = v
      /\ \/ gen'.at = "open" /\ UNCHANGED cached
         \/ gen'.at = "seal" /\ v # 0 /\ cached' = [cached EXCEPT ![p][v] = gen.data]
  BY <1>1, <1>2 DEF Ensure, Gens, InWork, ArtifactPath
<1>4. List' = List BY <1>3 DEF List
<1>. HIDE DEF p, v
<1>5. GenOK' BY <1>1, <1>2, <1>3, <1>4 DEF GenOK, InWork, HasSection, p
<1>6. UpToDate' BY <1>3, <1>4 DEF UpToDate, StreamInv, Ensure, InWork, p, v
<1>7. \A i : \A k \in Nat \ {0} : Past(i, k)' => Past(i, k)
  BY <1>3, NoLineYet DEF Ensure
<1>8. FilesOK' /\ CacheIsFaithful'
  <2>1. CASE UNCHANGED cached BY <2>1, SameCache DEF Ensure, StreamInv
  <2>2. CASE v # 0 /\ cached' = [cached EXCEPT ![p][v] = gen.data]
    <3>1. p \in DOMAIN cached /\ DOMAIN cached[p] = Versions(p) /\ v \in Versions(p)
      BY <1>1, <1>2, <2>2 DEF StreamInv, FilesOK
    <3>2. /\ DOMAIN cached' = DOMAIN cached /\ DOMAIN cached'[p] = Versions(p)
          /\ \A q \in DOMAIN cached : q # p => cached'[q] = cached[q]
          /\ \A w \in Versions(p) : cached'[p][w] = IF w = v THEN gen.data ELSE cached[p][w]
      BY <2>2, <3>1
    <3>3. ~overlap => gen.data = v BY DEF StreamInv, UpToDate, Ensure, InWork, p, v
    <3>4. FilesOK' BY <1>1, <3>1, <3>2 DEF FilesOK, StreamInv, Ensure
    <3>5. CacheIsFaithful' BY <3>1, <3>2, <3>3 DEF CacheIsFaithful, StreamInv, FilesOK, Ensure
    <3>. QED BY <3>4, <3>5
  <2>. QED BY <1>3, <2>1, <2>2
<1>. QED BY <1>3, <1>5, <1>6, <1>7, <1>8, EntriesAreLines, QuietStep DEF Ensure, StreamInv

LEMMA SealKeeps == ASSUME StreamInv, Seal PROVE StreamInv'
<1>1. /\ gen \in Gens /\ gen.next \in DOMAIN RuleLists /\ List.name \in ListNames
      /\ gen.data \in Versions(List.name) /\ List.on /\ HasSection(List)
      /\ gen.sum \in Versions(List.name)
  BY NumbersFacts DEF Seal, StreamInv, GenOK, List, InWork
<1>2. /\ gen' \in Gens /\ gen'.at = "open" /\ gen'.next = gen.next
      /\ gen'.data = gen.data /\ gen'.sum = gen.sum
  BY <1>1 DEF Seal, Gens, InWork
<1>3. List' = List BY <1>2 DEF List
<1>4. GenOK' BY <1>1, <1>2, <1>3 DEF GenOK, InWork, HasSection
<1>5. UpToDate' BY <1>2, <1>3 DEF UpToDate, StreamInv, Seal, InWork
<1>6. \A i : \A k \in Nat \ {0} : Past(i, k)' => Past(i, k)
  BY <1>2, NoLineYet DEF Seal
<1>7. CacheIsFaithful' BY DEF Seal, StreamInv, CacheIsFaithful
<1>8. FilesOK' BY <1>1 DEF Seal, StreamInv, FilesOK, ArtifactPath
<1>. QED BY <1>2, <1>4, <1>5, <1>6, <1>7, <1>8, EntriesAreLines, QuietStep DEF Seal, StreamInv

LEMMA OpenKeeps == ASSUME StreamInv, Open PROVE StreamInv'
<1>. DEFINE p == List.name
<1>1. FilesOK' /\ CacheIsFaithful' BY SameCache DEF Open, StreamInv
<1>2. /\ gen \in Gens /\ gen.next \in DOMAIN RuleLists /\ p \in ListNames
      /\ gen.data \in Versions(p) /\ List.on /\ HasSection(List)
      /\ gen.sum \in {0} \cup Versions(p)
  BY NumbersFacts DEF Open, StreamInv, GenOK, List, InWork
<1>. DEFINE held == IF gen.sum = 0 THEN 0 ELSE cached[p][gen.sum]
            v == IF held # 0 THEN held ELSE gen.data
<1>3. /\ gen' = Emitting(v)
      /\ v = gen.data \/ (gen.sum # 0 /\ v = cached[p][gen.sum] /\ v # 0)
  BY DEF Open, ArtifactPath
<1>. HIDE DEF held, v
<1>4. v \in Versions(p) /\ v \in Nat BY <1>2, <1>3, NumbersFacts DEF StreamInv, FilesOK
<1>5. ~overlap => v = file[p]
  BY <1>2, <1>3 DEF StreamInv, UpToDate, CacheIsFaithful, Open, InWork
<1>6. /\ gen' \in Gens /\ gen'.at = "emit" /\ gen'.next = gen.next
      /\ gen'.data = v /\ gen'.line = 1
  BY <1>2, <1>3, <1>4, EmittingFacts
<1>7. List' = List BY <1>6 DEF List
<1>8. Reading' = Content[p][v].lines BY <1>6, <1>7 DEF Reading
<1>9. Len(Reading') \in Nat BY <1>2, <1>4, <1>8, CountedIs, RuleAssumption
<1>10. GenOK' BY <1>2, <1>4, <1>6, <1>7, <1>9 DEF GenOK, HasSection
<1>11. UpToDate' BY <1>5, <1>6, <1>7 DEF UpToDate, Open
<1>12. \A i : \A k \in Nat \ {0} : Past(i, k)' => Past(i, k)
  BY <1>6, NoLineYet DEF Open
<1>. QED BY <1>1, <1>6, <1>10, <1>11, <1>12, EntriesAreLines, QuietStep DEF Open, StreamInv

(* Written entries stay, and what is new a line of the list says.          *)
LEMMA EmitEntryKeeps == ASSUME StreamInv, EmitEntry PROVE StreamInv'
<1>. DEFINE line == Reading[gen.line]
            type == NeutralType(line)
            goes == /\ gen.line \in Entries(List, Content[List.name][gen.data])
                    /\ Emits(List.section, line)
<1>1. FilesOK' /\ CacheIsFaithful' BY SameCache DEF EmitEntry, StreamInv
<1>2. /\ gen \in Gens /\ gen.next \in DOMAIN RuleLists /\ List.name \in ListNames
      /\ gen.data \in Versions(List.name) /\ List.on /\ HasSection(List)
      /\ gen.line \in DOMAIN Reading /\ gen.line \in Nat \ {0}
      /\ gen.at = "emit"
  BY NumbersFacts DEF EmitEntry, StreamInv, GenOK, List, InWork, Reading
<1>3. /\ gen' \in Gens /\ gen'.at = "emit" /\ gen'.next = gen.next
      /\ gen'.data = gen.data /\ gen'.line = gen.line + 1
  BY <1>2 DEF EmitEntry, Gens, InWork
<1>4. List' = List /\ Reading' = Reading BY <1>3 DEF List, Reading
<1>5. Len(Reading) \in Nat /\ DOMAIN Reading = 1..Len(Reading)
  BY <1>2, CountedIs, RuleAssumption DEF Reading
<1>6. GenOK' BY <1>2, <1>3, <1>4, <1>5 DEF GenOK, InWork, HasSection
<1>7. UpToDate' BY <1>3, <1>4 DEF UpToDate, StreamInv, EmitEntry, InWork
<1>8. gen.line \in Entries(List, Content[List.name][gen.data]) => type \in Types
  BY NeutralFacts DEF Reading
<1>. DEFINE section == List.section
<1>9. section \in OutNames BY <1>2 DEF HasSection
<1>. HIDE DEF line, type, section
<1>10. /\ OutOK' /\ WrittenOnce'
       /\ \A n \in OutNames, t \in Types :
            Written(n, t)' = IF goes /\ n = section /\ t = type
                             THEN Written(n, t) \cup {line.value} ELSE Written(n, t)
  <2>1. CASE goes
    <3>1. out' = Add(section, type, line.value) /\ line.value \notin Written(section, type)
      BY <2>1 DEF EmitEntry, Emits, line, type, section
    <3>2. OutOK /\ WrittenOnce BY DEF StreamInv
    <3>3. /\ OutOK' /\ WrittenOnce'
          /\ \A n \in OutNames, t \in Types :
               Written(n, t)' = IF n = section /\ t = type
                                THEN Written(n, t) \cup {line.value} ELSE Written(n, t)
      BY <1>8, <1>9, <2>1, <3>1, <3>2, AddFacts
    <3>. QED BY <2>1, <3>3
  <2>2. CASE ~goes
    <3>1. UNCHANGED out BY <2>2 DEF EmitEntry, line, type
    <3>. QED BY <2>2, <3>1, SameOutput DEF StreamInv
  <2>. QED BY <2>1, <2>2
<1>11. ~overlap => /\ gen.next \in Sources(section) /\ Reading = Current(gen.next).lines
                   /\ Content[List.name][gen.data] = Current(gen.next)
                   /\ List = RuleLists[gen.next]
  BY <1>2, ReadingIs DEF StreamInv, InWork, section, List
<1>12. ~overlap /\ goes => line.value \in Says(gen.next, type)
  <2>. SUFFICES ASSUME ~overlap, goes PROVE line.value \in Says(gen.next, type) OBVIOUS
  <2>1. line = Current(gen.next).lines[gen.line] BY <1>11 DEF line
  <2>2. gen.line \in Entries(RuleLists[gen.next], Current(gen.next)) BY <1>11
  <2>3. /\ gen.line \in DOMAIN Current(gen.next).lines
        /\ type = "native" => Cacheable(RuleLists[gen.next])
    BY <2>1, <2>2, NeutralFacts DEF type
  <2>. QED BY <2>1, <2>3 DEF Says, type
<1>13. Sourced'
  <2>1. \A n : Sources(n)' = Sources(n) BY SameFiles DEF EmitEntry
  <2>2. \A i, t : Says(i, t)' = Says(i, t) BY SameFiles DEF EmitEntry
  <2>3. ASSUME ~overlap, NEW n \in OutNames, NEW t \in Types
        PROVE  Written(n, t)' \subseteq UNION {Says(i, t) : i \in Sources(n)}
    <3>1. Written(n, t) \subseteq UNION {Says(i, t) : i \in Sources(n)}
      BY <2>3 DEF StreamInv, Sourced
    <3>2. CASE goes /\ n = section /\ t = type
      BY <1>10, <1>11, <1>12, <2>3, <3>1, <3>2
    <3>3. CASE ~(goes /\ n = section /\ t = type) BY <1>10, <3>1, <3>3
    <3>. QED BY <3>2, <3>3
  <2>. QED BY <1>3, <2>1, <2>2, <2>3 DEF Sourced, EmitEntry
<1>14. Complete'
  <2>. SUFFICES ASSUME ~overlap, NEW n \in OutNames, NEW i \in Sources(n),
                       NEW k \in Entries(RuleLists[i], Current(i)), Past(i, k)'
                PROVE  Due(i, k)'
    BY SameFiles DEF Complete, EmitEntry
  <2>1. /\ k \in Nat \ {0} /\ NeutralType(Current(i).lines[k]) \in Types
        /\ RuleLists[i].section = n
    BY EntriesAreLines, SourceFacts DEF StreamInv
  <2>2. \A m \in OutNames, t \in Types : Written(m, t) \subseteq Written(m, t)' BY <1>10
  <2>3. /\ Current(i)' = Current(i) /\ EmitsV6(settings)' = EmitsV6(settings)
    BY SameFiles DEF EmitEntry, EmitsV6
  <2>4. CASE Past(i, k)
    <3>1. Due(i, k) BY <2>4, <1>2 DEF StreamInv, Complete
    <3>. QED BY <2>1, <2>2, <2>3, <3>1 DEF Due
  <2>5. CASE ~Past(i, k)
    <3>1. i = gen.next /\ k = gen.line BY <1>2, <1>3, <2>1, <2>5 DEF Past
    <3>2. /\ Current(i).lines[k] = line /\ n = section
          /\ k \in Entries(List, Content[List.name][gen.data])
      BY <1>11, <2>1, <3>1 DEF line, section
    <3>3. ASSUME NEW t \in Types, t = type, t = "cidr6" => EmitsV6(settings)
          PROVE  line.value \in Written(n, t)'
      <4>1. CASE goes BY <1>10, <3>2, <3>3, <4>1
      <4>2. CASE ~goes
        <5>1. line.value \in Written(n, t) BY <3>1, <3>2, <3>3, <4>2 DEF Emits, section, type
        <5>. QED BY <1>10, <4>2, <5>1
      <4>. QED BY <4>1, <4>2
    <3>. QED BY <2>1, <2>3, <3>2, <3>3 DEF Due, type
  <2>. QED BY <2>4, <2>5
<1>. QED BY <1>1, <1>6, <1>7, <1>10, <1>13, <1>14 DEF StreamInv

LEMMA EmitEndKeeps == ASSUME StreamInv, EmitEnd PROVE StreamInv'
<1>1. FilesOK' /\ CacheIsFaithful' BY SameCache DEF EmitEnd, StreamInv
<1>2. /\ GenOK' /\ gen'.at \in {"read", "done"}
      /\ \A i \in DOMAIN RuleLists : \A k : Past(i, k)' => i <= gen.next
  BY NextFacts DEF EmitEnd, StreamInv
<1>3. UpToDate' BY <1>2 DEF UpToDate, InWork
<1>4. /\ gen.next \in DOMAIN RuleLists /\ List.name \in ListNames
      /\ gen.data \in Versions(List.name) /\ gen.line \in 1..Len(Reading) + 1
  BY NumbersFacts DEF EmitEnd, StreamInv, GenOK, List, InWork
<1>5. Len(Reading) \in Nat /\ DOMAIN Reading = 1..Len(Reading)
  BY <1>4, CountedIs, RuleAssumption DEF Reading
<1>6. \A k \in DOMAIN Reading : k < gen.line BY <1>4, <1>5 DEF EmitEnd
<1>7. ASSUME ~overlap, NEW n \in OutNames, NEW i \in Sources(n),
             NEW k \in Entries(RuleLists[i], Current(i)), Past(i, k)'
      PROVE  Past(i, k)
  <2>1. /\ i \in DOMAIN RuleLists /\ i \in Nat /\ k \in DOMAIN Current(i).lines
    BY SourceFacts, NumbersFacts, EntriesAreLines DEF StreamInv
  <2>2. i <= gen.next BY <1>2, <1>7, <2>1
  <2>3. CASE i < gen.next BY <2>3 DEF Past
  <2>4. CASE i = gen.next
    <3>1. Reading = Current(i).lines
      BY <1>7, <2>4, ReadingIs DEF StreamInv, EmitEnd, InWork
    <3>. QED BY <1>6, <2>1, <2>4, <3>1 DEF Past, EmitEnd
  <2>5. gen.next \in Nat BY DEF StreamInv, GenOK, Gens
  <2>. QED BY <2>1, <2>2, <2>3, <2>4, <2>5
<1>. QED BY <1>1, <1>2, <1>3, <1>7, QuietStep DEF EmitEnd

(* Nothing under way and nothing written.                                  *)
LEMMA BlankStep ==
    ASSUME FilesOK', CacheIsFaithful', gen' = NoGen, out' = [n \in OutNames |-> NoEntries]
    PROVE  StreamInv'
<1>1. gen' \in Gens /\ gen'.at = "idle" BY NoGenFacts
<1>2. OutOK' /\ WrittenOnce' /\ \A n \in OutNames, t \in Types : Written(n, t)' = {}
  BY NothingIs
<1>3. GenOK' /\ UpToDate' BY <1>1 DEF GenOK, UpToDate, InWork
<1>4. Sourced' BY <1>2 DEF Sourced
<1>5. Complete' BY <1>1 DEF Complete
<1>. QED BY <1>2, <1>3, <1>4, <1>5 DEF StreamInv

LEMMA KilledKeeps == ASSUME StreamInv, Killed PROVE StreamInv'
<1>1. FilesOK' /\ CacheIsFaithful' BY SameCache DEF Killed, StreamInv
<1>. QED BY <1>1, BlankStep DEF Killed

(* What the other commands do to files and artifacts.                      *)
LEMMA UpdateFiles ==
    ASSUME StreamInv, NEW p \in ListNames, UpdateList(p)
    PROVE  FilesOK' /\ CacheIsFaithful'
<1>1. PICK v \in Versions(p) \ {file[p]} :
        /\ file' = [file EXCEPT ![p] = v]
        /\ \/ UNCHANGED <<cached, sealed>>
           \/ /\ cached' = [cached EXCEPT ![p][v] = v]
              /\ sealed' \in {sealed, [sealed EXCEPT ![p] = @ \cup {v}]}
  BY DEF UpdateList, ArtifactPath
<1>2. /\ UNCHANGED overlap /\ FilesOK /\ CacheIsFaithful BY DEF UpdateList, StreamInv
<1>3. /\ DOMAIN file' = ListNames /\ \A q \in ListNames : file'[q] \in {0} \cup Versions(q)
  BY <1>1, <1>2 DEF FilesOK
<1>4. /\ DOMAIN sealed' = ListNames /\ \A q \in ListNames : sealed'[q] \subseteq Versions(q)
  BY <1>1, <1>2 DEF FilesOK
<1>5. /\ DOMAIN cached' = ListNames
      /\ \A q \in ListNames : DOMAIN cached'[q] = Versions(q)
      /\ \A q \in ListNames : \A w \in Versions(q) : cached'[q][w] \in {cached[q][w], w}
  <2>1. CASE UNCHANGED cached BY <1>2, <2>1 DEF FilesOK
  <2>2. CASE cached' = [cached EXCEPT ![p][v] = v]
    <3>1. p \in DOMAIN cached /\ DOMAIN cached[p] = Versions(p) BY <1>2 DEF FilesOK
    <3>2. /\ DOMAIN cached' = DOMAIN cached /\ DOMAIN cached'[p] = Versions(p)
          /\ \A q \in DOMAIN cached : q # p => cached'[q] = cached[q]
          /\ \A w \in Versions(p) : cached'[p][w] = IF w = v THEN v ELSE cached[p][w]
      BY <2>2, <3>1
    <3>. QED BY <1>2, <3>2 DEF FilesOK
  <2>. QED BY <1>1, <2>1, <2>2
<1>6. FilesOK' BY <1>2, <1>3, <1>4, <1>5 DEF FilesOK
<1>7. CacheIsFaithful' BY <1>2, <1>5 DEF CacheIsFaithful
<1>. QED BY <1>6, <1>7

(* While files may change under it, a generation need only be well-formed. *)
LEMMA BesideStep ==
    ASSUME StreamInv, overlap, UNCHANGED <<overlap, gen, out>>, FilesOK', CacheIsFaithful'
    PROVE  StreamInv'
<1>1. OutOK' /\ WrittenOnce' /\ \A n, t : Written(n, t)' = Written(n, t)
  BY SameOutput DEF StreamInv
<1>2. GenOK' BY DEF StreamInv, GenOK, List, Reading
<1>3. UpToDate' /\ Complete' BY DEF UpToDate, Complete
<1>4. Sourced' BY <1>1 DEF Sourced, StreamInv
<1>. QED BY <1>1, <1>2, <1>3, <1>4 DEF StreamInv

LEMMA UpdateListKeeps ==
    ASSUME StreamInv, NEW p \in ListNames, UpdateList(p) PROVE StreamInv'
<1>1. FilesOK' /\ CacheIsFaithful' BY UpdateFiles
<1>2. CASE gen.at = "done" BY <1>1, <1>2, BlankStep DEF UpdateList, Replaced
<1>3. CASE gen.at = "idle"
  <2>1. UNCHANGED <<gen, out, overlap>> BY <1>3 DEF UpdateList, Replaced
  <2>2. OutOK' /\ WrittenOnce' /\ \A n, t : Written(n, t)' = Written(n, t)
    BY <2>1, SameOutput DEF StreamInv
  <2>3. GenOK' /\ UpToDate' /\ Complete'
    BY <1>3, <2>1 DEF StreamInv, GenOK, UpToDate, Complete, InWork
  <2>4. Sourced' BY <1>3, <2>1, <2>2 DEF Sourced, StreamInv
  <2>. QED BY <1>1, <2>2, <2>3, <2>4 DEF StreamInv
<1>4. CASE gen.at \notin {"idle", "done"}
  <2>1. overlap /\ UNCHANGED <<overlap, gen, out>> BY <1>4 DEF UpdateList, Replaced, Quiet
  <2>. QED BY <1>1, <2>1, BesideStep
<1>. QED BY <1>2, <1>3, <1>4

LEMMA CleanupKeeps == ASSUME StreamInv, Cleanup PROVE StreamInv'
<1>1. /\ FilesOK /\ CacheIsFaithful /\ UNCHANGED <<file, settings, overlap, gen, out>>
  BY DEF Cleanup, StreamInv
<1>2. /\ DOMAIN cached' = ListNames
      /\ \A p \in ListNames : DOMAIN cached'[p] = Versions(p)
      /\ \A p \in ListNames : \A v \in Versions(p) : cached'[p][v] \in {cached[p][v], 0}
  BY DEF Cleanup
<1>3. DOMAIN sealed' = ListNames /\ \A p \in ListNames : sealed'[p] \subseteq sealed[p]
  BY <1>1 DEF Cleanup, FilesOK
<1>4. FilesOK' BY <1>1, <1>2, <1>3 DEF FilesOK
<1>5. CacheIsFaithful' BY <1>1, <1>2 DEF CacheIsFaithful
<1>6. GenOK' /\ UpToDate' BY <1>1 DEF StreamInv, GenOK, UpToDate, List, Reading
<1>7. OutOK' /\ WrittenOnce' /\ \A n, t : Written(n, t)' = Written(n, t)
  BY <1>1, SameOutput DEF StreamInv
<1>8. Sourced' BY <1>1, <1>7, SameFiles DEF StreamInv, Sourced
<1>9. Complete'
  <2>1. \A i, k : Due(i, k)' = Due(i, k) BY <1>1, SameEntries
  <2>. QED BY <1>1, <2>1, SameFiles DEF StreamInv, Complete, Past
<1>. QED BY <1>4, <1>5, <1>6, <1>7, <1>8, <1>9 DEF StreamInv

-----------------------------------------------------------------------------
(* The theorems                                                            *)

LEMMA StreamStarts == RuleInit => StreamInv
<1>. SUFFICES ASSUME RuleInit PROVE StreamInv OBVIOUS
<1>1. gen \in Gens /\ gen.at = "idle" BY NoGenFacts DEF RuleInit
<1>2. GenOK /\ UpToDate /\ Complete BY <1>1 DEF GenOK, UpToDate, Complete, InWork
<1>3. FilesOK BY RuleAssumption DEF RuleInit, FilesOK
<1>4. CacheIsFaithful BY DEF RuleInit, CacheIsFaithful
<1>5. /\ DOMAIN out = OutNames
      /\ \A n \in OutNames : DOMAIN out[n] = Types
      /\ \A n \in OutNames, t \in Types : out[n][t] = <<>>
  BY DEF RuleInit, NoEntries
<1>6. Counted(<<>>) BY DEF Counted
<1>7. OutOK /\ WrittenOnce BY <1>5, <1>6 DEF OutOK, WrittenOnce
<1>8. Sourced BY <1>5 DEF Sourced, Written
<1>. QED BY <1>2, <1>3, <1>4, <1>7, <1>8 DEF StreamInv

LEMMA StreamSteps == StreamInv /\ [RuleNext]_rsVars => StreamInv'
<1>. SUFFICES ASSUME StreamInv, [RuleNext]_rsVars PROVE StreamInv' OBVIOUS
<1>1. CASE UNCHANGED rsVars
  <2>1. UNCHANGED <<file, cached, sealed, settings, overlap, gen, out>> BY <1>1 DEF rsVars
  <2>2. OutOK' /\ WrittenOnce' BY <2>1, SameOutput DEF StreamInv
  <2>3. FilesOK' /\ CacheIsFaithful' BY <2>1, SameCache DEF StreamInv
  <2>4. GenOK' /\ UpToDate' BY <2>1 DEF StreamInv, GenOK, UpToDate, List, Reading
  <2>5. Sourced' BY <2>1, SameOutput, SameFiles DEF StreamInv, Sourced
  <2>6. \A i, k : Due(i, k)' = Due(i, k) BY <2>1, SameEntries
  <2>7. Complete' BY <2>1, <2>6, SameFiles DEF StreamInv, Complete, Past
  <2>. QED BY <2>2, <2>3, <2>4, <2>5, <2>7 DEF StreamInv
<1>2. CASE RuleNext
  BY <1>2, GenerateKeeps, SkipKeeps, ReadStreamedKeeps, ReadDataKeeps, EnsureKeeps, SealKeeps,
     OpenKeeps, EmitEntryKeeps, EmitEndKeeps, KilledKeeps, UpdateListKeeps, CleanupKeeps
  DEF RuleNext
<1>. QED BY <1>1, <1>2

LEMMA StreamSafe == RuleSpec => []StreamInv
<1>. QED BY StreamStarts, StreamSteps, PTL DEF RuleSpec

(* The files, artifacts and outputs keep their form.                       *)
THEOREM RuleTypes == RuleSpec => []RuleTypeOK
<1>1. StreamInv => RuleTypeOK
  BY DEF StreamInv, FilesOK, GenOK, OutOK, Gens, InWork, RuleTypeOK
<1>. QED BY <1>1, StreamSafe, PTL

(* A line that is said is one of the entries, or equal to one.             *)
LEMMA SaidIsDue ==
    ASSUME StreamInv, ~overlap, gen.at = "done", NEW n \in OutNames, NEW t \in Types,
           t = "cidr6" => EmitsV6(settings), NEW i \in Sources(n), ~Current(i).damaged
    PROVE  Says(i, t) \subseteq Written(n, t)
<1>. SUFFICES ASSUME NEW x \in Says(i, t) PROVE x \in Written(n, t) OBVIOUS
<1>1. PICK k \in DOMAIN Current(i).lines :
        /\ NeutralType(Current(i).lines[k]) = t /\ x = Current(i).lines[k].value
        /\ t = "native" => Cacheable(RuleLists[i])
  BY DEF Says
<1>2. /\ RuleLists[i].name \in ListNames /\ RuleLists[i].section = n
      /\ file[RuleLists[i].name] \in Versions(RuleLists[i].name)
  BY SourceFacts DEF StreamInv, FilesOK
<1>3. Counted(Current(i).lines) BY <1>2, RuleAssumption DEF Current
<1>4. PICK f \in Entries(RuleLists[i], Current(i)) :
        Same(Current(i).lines[f], Current(i).lines[k])
  BY <1>1, <1>3, FirstIsEntry
<1>5. Due(i, f) BY <1>4 DEF StreamInv, Complete, Past
<1>. QED BY <1>1, <1>2, <1>4, <1>5 DEF Due, Same

(* What a finished generation holds is what the files hold, the cache      *)
(* answers for the file it is asked about, and no entry is written twice,  *)
(* for any lists, versions and damage (stream.go, artifact_cache.go).      *)
THEOREM OutputsAreCurrent == RuleSpec => []OutputIsCurrent
<1>1. StreamInv => FilesDecide
  BY SaidIsDue DEF StreamInv, Sourced, FilesDecide
<1>2. StreamInv => OutputIsCurrent BY <1>1 DEF StreamInv, OutputIsCurrent
<1>. QED BY <1>2, StreamSafe, PTL
=============================================================================
