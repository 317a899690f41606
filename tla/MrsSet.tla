--------------------------------- MODULE MrsSet ---------------------------------
(***************************************************************************)
(* Reading a binary rule list (internal/rules/parse_mrs.go, domainset.go). *)
(* A domain list is a succinct trie of the reversed names: its nodes in    *)
(* breadth-first order, a bitmap that has a 0 for each child and a 1 at    *)
(* the end of each node, the children's labels, and a bitmap of the nodes  *)
(* that end a name.  An address list is ranges, which become prefixes by   *)
(* arithmetic on two machine words.                                        *)
(*                                                                         *)
(* A name is a sequence of characters; addresses are scaled down: a word   *)
(* has WordBits bits, an IPv6 address two words, and an IPv4 address is    *)
(* the V4Bits low bits under a fixed prefix of ones.                       *)
(***************************************************************************)
EXTENDS Integers, Sequences, FiniteSets, SequencesExt, FiniteSetsExt

CONSTANTS Lists,      \* the sets of names lists hold
          Names,      \* the names looked up
          WordBits, V4Bits, BitmapWord

ASSUME ScaleAssumption ==
    WordBits \in Nat \ {0} /\ V4Bits \in 1..(WordBits - 1) /\ BitmapWord \in Nat \ {0}

VARIABLES list, streamed, question, answer
mrsVars == <<list, streamed, question, answer>>

Plus == 1
Dot == 2
NoAnswer == [ok |-> FALSE, suffix |-> <<>>]
Word == 2^WordBits

-----------------------------------------------------------------------------
(* The file, as mihomo writes it                                           *)

Before(s, t) ==
    \/ Len(s) < Len(t)
    \/ Len(s) = Len(t) /\ \E i \in 1..Len(s) :
         s[i] < t[i] /\ \A j \in 1..(i - 1) : s[j] = t[j]
Encode(names) ==
    LET keys  == {Reverse(n) : n \in names}
        found == UNION {{SubSeq(k, 1, n) : n \in 0..Len(k)} : k \in keys}
        nodes == [i \in 1..Cardinality(found) |->
                    CHOOSE s \in found : Cardinality({t \in found : Before(t, s)}) = i - 1]
        children(i) == SelectSeq(nodes, LAMBDA s : s # <<>> /\ Front(s) = nodes[i])
        bits == FlattenSeq([i \in DOMAIN nodes |->
                              [j \in 1..(Len(children(i)) + 1) |-> IF j > Len(children(i)) THEN 1 ELSE 0]])
        padding == (BitmapWord - (Len(bits) % BitmapWord)) % BitmapWord
    IN [leaves |-> {i - 1 : i \in {k \in DOMAIN nodes : nodes[k] \in keys}},
        bits   |-> bits \o [j \in 1..padding |-> 0],
        labels |-> FlattenSeq([i \in DOMAIN nodes |->
                     [j \in DOMAIN children(i) |-> Last(children(i)[j])]])]

-----------------------------------------------------------------------------
(* The trie: bitAt, countZeros, selectOne, nodeBmStart, findChild          *)

BitAt(t, i) == t.bits[i + 1] = 1
CountZeros(t, n) == Cardinality({i \in 0..(n - 1) : i < Len(t.bits) /\ ~BitAt(t, i)})
SelectOne(t, k) ==
    LET ones == {i \in 0..(Len(t.bits) - 1) : BitAt(t, i)}
    IN CHOOSE i \in ones \cup {-1} :
         IF k \in 0..(Cardinality(ones) - 1)
         THEN i \in ones /\ Cardinality({j \in ones : j < i}) = k ELSE i = -1
NodeStart(t, n) == IF n = 0 THEN 0 ELSE SelectOne(t, n - 1) + 1

(* The places of a node's children: from its start up to the next 1.       *)
ChildPlaces(t, node) ==
    {i \in NodeStart(t, node)..(Len(t.bits) - 1) :
       ~BitAt(t, i) /\ \A j \in NodeStart(t, node)..i : ~BitAt(t, j)}
LabelAt(t, node, i) == t.labels[i - node + 1]
Child(t, node, label) ==
    LET here == {i \in ChildPlaces(t, node) : LabelAt(t, node, i) = label}
    IN IF here = {} THEN -1 ELSE CountZeros(t, Min(here) + 1)

(* walkMRSTrie, streamMRSDomains, readMRSDomains: every leaf's name with   *)
(* the wildcard marker taken off.                                          *)
StripWildcard(n) == IF Len(n) >= 2 /\ n[1] = Plus /\ n[2] = Dot THEN SubSeq(n, 3, Len(n)) ELSE n

RECURSIVE Walk(_, _, _)
Walk(t, node, path) ==
    (IF node \in t.leaves THEN {StripWildcard(Reverse(path))} ELSE {})
    \cup UNION {Walk(t, CountZeros(t, i + 1), Append(path, LabelAt(t, node, i)))
                : i \in ChildPlaces(t, node)}
StreamDomains(names) == Walk(Encode(names), 0, <<>>)

(* buildCompactLeaves: a node also ends a rule when `.`, `+`, `.` lead     *)
(* from it to a leaf.                                                      *)
CompactLeaf(t, node) ==
    \/ node \in t.leaves
    \/ LET dot == Child(t, node, Dot) IN
       dot # -1 /\ LET plus == Child(t, dot, Plus) IN
       plus # -1 /\ Child(t, plus, Dot) \in t.leaves

(* DomainSet.Lookup: the first leaf on the way down that stands at a label *)
(* boundary.                                                               *)
Anywhere(rd, k) == TRUE               \* variant: not only at a boundary
AtBoundary(rd, k) == k = Len(rd) \/ rd[k + 1] = Dot

RECURSIVE Descend(_, _, _, _)
Descend(t, rd, node, k) ==
    IF k = Len(rd) THEN NoAnswer
    ELSE LET next == Child(t, node, rd[k + 1]) IN
         IF next = -1 THEN NoAnswer
         ELSE IF CompactLeaf(t, next) /\ AtBoundary(rd, k + 1)
              THEN [ok |-> TRUE, suffix |-> Reverse(SubSeq(rd, 1, k + 1))]
              ELSE Descend(t, rd, next, k + 1)
Lookup(names, q) ==
    LET t == Encode(names)
        d == IF q # <<>> /\ Last(q) = Dot THEN Front(q) ELSE q
    IN IF d = <<>> THEN NoAnswer
       ELSE IF CompactLeaf(t, 0) THEN [ok |-> TRUE, suffix |-> <<>>]
       ELSE Descend(t, Reverse(d), 0, 0)

-----------------------------------------------------------------------------
(* rangeToPrefixes                                                         *)

Bits(v4) == IF v4 THEN V4Bits ELSE 2 * WordBits
(* addrToUint of an address counted from its family's first.               *)
Words(a, v4) ==
    IF v4 THEN <<0, (Word - 2^V4Bits) + a>> ELSE <<a \div Word, a % Word>>
AtMost(u, v) == u[1] < v[1] \/ (u[1] = v[1] /\ u[2] <= v[2])
TrailingZeros(x, width) ==
    IF x = 0 THEN width ELSE Max({n \in 0..width : x % 2^n = 0})
TrailingZeros128(u, v4) ==
    IF v4 THEN TrailingZeros(u[2] % 2^V4Bits, V4Bits)
    ELSE IF u[2] # 0 THEN TrailingZeros(u[2], WordBits) ELSE WordBits + TrailingZeros(u[1], WordBits)
Sub128(u, v) ==
    <<(u[1] - v[1] - (IF u[2] < v[2] THEN 1 ELSE 0)) % Word, (u[2] - v[2]) % Word>>
AddOne128(u) == IF u[2] = Word - 1 THEN <<(u[1] + 1) % Word, 0>> ELSE <<u[1], u[2] + 1>>
FloorLog(x) == Max({n \in 0..WordBits : 2^n <= x})
FloorLog128(u) ==
    IF u[1] # 0 THEN WordBits + FloorLog(u[1]) ELSE IF u[2] # 0 THEN FloorLog(u[2]) ELSE 0
AddPow2(u, pow) ==
    IF pow >= WordBits THEN <<(u[1] + 2^(pow - WordBits)) % Word, u[2]>>
    ELSE <<(u[1] + (u[2] + 2^pow) \div Word) % Word, (u[2] + 2^pow) % Word>>
Remaining(end, cur) == AddOne128(Sub128(end, cur))

RECURSIVE Cut(_, _, _)
Cut(cur, end, v4) ==
    IF ~AtMost(cur, end) THEN <<>>
    ELSE LET size == Min({TrailingZeros128(cur, v4), FloorLog128(Remaining(end, cur))})
             next == AddPow2(cur, size)
             one  == [at |-> cur, size |-> size]
         IN IF next = <<0, 0>> /\ ~v4 THEN <<one>> ELSE <<one>> \o Cut(next, end, v4)
RangeToPrefixes(from, to, v4) == Cut(Words(from, v4), Words(to, v4), v4)

-----------------------------------------------------------------------------
(* Behaviour                                                               *)

Ranges == {[v4 |-> v, from |-> a, to |-> b] : v \in BOOLEAN, a, b \in 0..(2^(2 * WordBits) - 1)}
IsRange(l) == DOMAIN l = {"v4", "from", "to"}

MrsTypeOK ==
    /\ streamed \subseteq (IF IsRange(list) THEN [at : (0..(Word - 1)) \X (0..(Word - 1)), size : 0..Bits(list.v4)]
                           ELSE {StripWildcard(n) : n \in list.names})
    /\ answer.ok \in BOOLEAN

MrsInit ==
    /\ list \in {[names |-> l] : l \in Lists}
                \cup {r \in Ranges : {r.from, r.to} \subseteq 0..(2^Bits(r.v4) - 1)}
    /\ streamed = {} /\ question = <<>> /\ answer = NoAnswer

Stream ==
    /\ streamed = {}
    /\ streamed' = IF IsRange(list) THEN ToSet(RangeToPrefixes(list.from, list.to, list.v4))
                   ELSE StreamDomains(list.names)
    /\ UNCHANGED <<list, question, answer>>
Ask(q) ==
    /\ ~IsRange(list) /\ question = <<>> /\ streamed # {}
    /\ question' = q /\ answer' = Lookup(list.names, q)
    /\ UNCHANGED <<list, streamed>>
MrsNext == Stream \/ \E q \in Names : Ask(q)

-----------------------------------------------------------------------------
(* Properties                                                              *)

(* What the generator puts into the nft set is exactly the range of the    *)
(* file: no address too many at either end of the address space, none      *)
(* lost where the low word overflows, none twice.                          *)
Addresses(p) ==
    LET first == p.at[1] * Word + p.at[2] IN first..(first + 2^p.size - 1)
RangeIsExact ==
    IsRange(list) /\ streamed # {} =>
      LET offset == IF list.v4 THEN Word - 2^V4Bits ELSE 0 IN
      /\ UNION {Addresses(p) : p \in streamed} = (list.from + offset)..(list.to + offset)
      /\ \A p, q \in streamed : p # q => Addresses(p) \cap Addresses(q) = {}

(* The lookup on the packed trie and the rules the materialising parser    *)
(* makes of the same file agree (domainset.go:253): a name is found when   *)
(* it is a rule's value or a subdomain of it, at label boundaries.  This   *)
(* is for lists in which a wildcard entry comes with its plain form, which *)
(* mihomo writes for every `+.` rule.                                      *)
Plain(n) == StripWildcard(n) = n
SuffixOf(r, n) == Len(n) > Len(r) /\ SubSeq(n, Len(n) - Len(r) + 1, Len(n)) = r
                  /\ n[Len(n) - Len(r)] = Dot
LookupAgrees ==
    question # <<>> /\ (\A n \in list.names : Plain(n) \/ StripWildcard(n) \in list.names) =>
      LET d == IF Last(question) = Dot THEN Front(question) ELSE question
      IN /\ answer.ok <=> \E r \in streamed : r = d \/ SuffixOf(r, d)
         /\ answer.ok => answer.suffix \in streamed

(* Both readings of a compiled list say what the list says (parse_mrs.go   *)
(* for the generator, domainset.go for the route checker).                 *)
ListIsRead == RangeIsExact /\ LookupAgrees

(* parse_mrs_test.go:98: every materialised rule is found by the lookup.   *)
(* Not so for a wildcard entry that stands alone, as mihomo writes it for  *)
(* a rule `.name`: the fold follows `.`, `+`, `.` where the reversed entry *)
(* ends after `.`, `+`.                                                    *)
EveryRuleIsFound == question \in streamed => answer.ok
=============================================================================
