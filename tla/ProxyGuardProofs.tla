-------------------------- MODULE ProxyGuardProofs --------------------------
(***************************************************************************)
(* Theorems about ProxyGuard, for any members, groups, pools and limits.   *)
(***************************************************************************)
EXTENDS ProxyGuard, FiniteSetTheorems, WellFoundedInduction, TLAPS

LEMMA Limits ==
    /\ Node \subseteq Nat /\ IsFiniteSet(Node) /\ Pool \in [Group -> SUBSET Node]
    /\ MinMembers \in Nat /\ MaxProbes \in Nat /\ MaxProbes >= 1 /\ Cooldown \in Nat
    /\ TTL \in Nat /\ Fleet \in Nat /\ Oldest \in Nat /\ Oldest >= 1
    /\ Windows \subseteq {"short", "stable", "unstable"} /\ Volatile \subseteq Node
  BY GuardAssumption DEF Oldest, Larger

LEMMA NewTypes == New \in NodeState /\ Condemned \in NodeState /\ NewState \in State
  <1>1. New \in NodeState /\ Condemned \in NodeState
    BY Limits DEF New, Condemned, NodeState
  <1>. QED BY <1>1 DEF NewState, State, Nobody

LEMMA MoreType == \A bad \in 0..2 : More(bad) \in 0..2
  BY DEF More

LEMMA MarkType ==
    ASSUME NEW r \in NodeState, NEW st \in {"healthy", "suspect", "quarantined"},
           NEW bad \in 0..2
    PROVE  [r EXCEPT !.st = st, !.bad = bad] \in NodeState
  BY DEF NodeState

LEMMA ProbedType ==
    ASSUME NEW r \in NodeState, NEW age \in 0..Oldest, NEW speed \in {"slow", "good"}
    PROVE  [r EXCEPT !.age = age, !.speed = speed] \in NodeState
  BY DEF NodeState

LEMMA StreakType ==
    ASSUME NEW r \in NodeState, NEW rec \in 0..1, NEW wait \in 0..Cooldown
    PROVE  [r EXCEPT !.rec = rec, !.wait = wait] \in NodeState
  BY DEF NodeState

LEMMA Numbers ==
    0 \in 0..2 /\ 0 \in 0..1 /\ 1 \in 0..1 /\ 0 \in 0..Oldest /\ Cooldown \in 0..Cooldown
  BY Limits

LEMMA MarkedTypes ==
    ASSUME NEW r \in NodeState
    PROVE  /\ [r EXCEPT !.st = "suspect", !.bad = More(r.bad)] \in NodeState
           /\ [r EXCEPT !.st = "healthy", !.bad = 0] \in NodeState
  <1>1. More(r.bad) \in 0..2
    BY MoreType DEF NodeState
  <1>. QED BY <1>1, Numbers, MarkType, Zenon

LEMMA SweptType ==
    ASSUME NEW r \in NodeState, NEW w
    PROVE  Swept(r, w) \in NodeState
  BY MarkedTypes, Zenon DEF Swept

(* The entry of a member that was downloaded through.                      *)
Fetched(n, x) ==
    [cur.node[n] EXCEPT !.age = 0, !.speed = IF x = "slow" THEN "slow" ELSE "good"]

LEMMA MeasuredCases ==
    ASSUME NEW n, NEW x
    PROVE  \/ Measured(n, x) = Fetched(n, x)
           \/ Measured(n, x)
                = [Fetched(n, x) EXCEPT !.st = "suspect", !.bad = More(Fetched(n, x).bad)]
           \/ Measured(n, x) = [Fetched(n, x) EXCEPT !.st = "healthy", !.bad = 0]
  BY Zenon DEF Measured, Fetched

LEMMA FetchedType ==
    ASSUME cur \in State, NEW n \in Node, NEW x
    PROVE  Fetched(n, x) \in NodeState
  <1>1. cur.node[n] \in NodeState
    BY DEF State
  <1>2. (IF x = "slow" THEN "slow" ELSE "good") \in {"slow", "good"}
    OBVIOUS
  <1>. QED BY <1>1, <1>2, ProbedType, Numbers, Zenon DEF Fetched

LEMMA MeasuredType ==
    ASSUME cur \in State, NEW n \in Node, NEW x
    PROVE  Measured(n, x) \in NodeState
  <1>. DEFINE f == Fetched(n, x)
  <1>1. f \in NodeState
    BY FetchedType
  <1>2. \/ Measured(n, x) = f
        \/ Measured(n, x) = [f EXCEPT !.st = "suspect", !.bad = More(f.bad)]
        \/ Measured(n, x) = [f EXCEPT !.st = "healthy", !.bad = 0]
    BY MeasuredCases
  <1>. HIDE DEF f
  <1>. QED BY <1>1, <1>2, MarkedTypes, Zenon

LEMMA RetestedType ==
    ASSUME cur \in State, NEW n \in Node, NEW x
    PROVE  Retested(n, x) \in NodeState
  <1>. DEFINE r == cur.node[n]
  <1>1. r \in NodeState
    BY DEF State
  <1>2. \/ Retested(n, x) = [r EXCEPT !.rec = 0, !.wait = Cooldown]
        \/ Retested(n, x) = [New EXCEPT !.age = 0, !.speed = "good"]
        \/ Retested(n, x) = [r EXCEPT !.rec = 1, !.wait = Cooldown]
    BY Zenon DEF Retested
  <1>. HIDE DEF r
  <1>3. "good" \in {"slow", "good"}
    OBVIOUS
  <1>4. [New EXCEPT !.age = 0, !.speed = "good"] \in NodeState
    BY <1>3, ProbedType, NewTypes, Numbers, Zenon
  <1>5. /\ [r EXCEPT !.rec = 0, !.wait = Cooldown] \in NodeState
        /\ [r EXCEPT !.rec = 1, !.wait = Cooldown] \in NodeState
    BY <1>1, StreakType, Numbers, Zenon
  <1>. QED BY <1>2, <1>4, <1>5, Zenon

LEMMA StateParts ==
    ASSUME NEW s \in State
    PROVE  /\ s.node \in [Node -> NodeState]
           /\ s.mems \in [Group -> SUBSET Node] /\ s.keep \in [Group -> SUBSET Node]
           /\ \A node \in [Node -> NodeState] : [s EXCEPT !.node = node] \in State
           /\ \A keep \in [Group -> SUBSET Node] : [s EXCEPT !.keep = keep] \in State
           /\ \A n \in Node, r \in NodeState : [s EXCEPT !.node[n] = r] \in State
  BY DEF State

LEMMA MemberType ==
    ASSUME NEW s \in State
    PROVE  Members(s) \subseteq Node /\ Out(s) \subseteq Node
  BY DEF Members, Out, State

(* The least of a set of members: there is one, as they are finitely many. *)
LEMMA FirstExists ==
    ASSUME NEW S \in SUBSET Node, S # {}
    PROVE  First(S) \in S /\ \A m \in S : First(S) <= m
  <1>. DEFINE Upto(n) == {m \in S : m <= n}
              T == {Upto(n) : n \in S}
  <1>1. IsFiniteSet(S) /\ S \subseteq Nat
    BY Limits, FS_Subset
  <1>2. T \subseteq FiniteSubsetsOf(S) /\ T # {}
    <2>1. \A n \in S : Upto(n) \in SUBSET S
      OBVIOUS
    <2>2. FiniteSubsetsOf(S) = SUBSET S
      BY <1>1, FS_FiniteSubsetsOfFinite
    <2>3. T \subseteq SUBSET S
      BY <2>1
    <2>4. PICK n \in S : TRUE
      OBVIOUS
    <2>5. Upto(n) \in T
      OBVIOUS
    <2>. QED BY <2>2, <2>3, <2>5
  <1>3. PICK U \in T : \A V \in T : ~(<<V, U>> \in StrictSubsetOrdering(S))
    <2>1. IsWellFoundedOn(StrictSubsetOrdering(S), FiniteSubsetsOf(S))
      BY <1>1, FS_StrictSubsetOrderingWellFounded
    <2>. HIDE DEF T
    <2>. QED BY <1>2, <2>1, WFMin
  <1>4. PICK n \in S : U = Upto(n)
    BY <1>3
  <1>5. \A m \in S : n <= m
    <2>. SUFFICES ASSUME NEW m \in S, m < n PROVE FALSE
      BY <1>1
    <2>1. Upto(m) \subseteq Upto(n) /\ n \in Upto(n) /\ n \notin Upto(m)
      <3>1. m \in Nat /\ n \in Nat /\ \A k \in S : k \in Nat
        BY <1>1
      <3>2. \A k \in Nat : k <= m => k <= n
        BY <3>1
      <3>3. Upto(m) \subseteq Upto(n)
        BY <3>1, <3>2
      <3>4. n \in Upto(n) /\ n \notin Upto(m)
        BY <3>1
      <3>. QED BY <3>3, <3>4
    <2>2. <<Upto(m), Upto(n)>> \in StrictSubsetOrdering(S)
      BY <2>1 DEF StrictSubsetOrdering
    <2>. QED BY <1>3, <1>4, <2>2
  <1>. QED BY <1>5 DEF First

-----------------------------------------------------------------------------
(* Types                                                                   *)

WindowType == [Node -> {"short", "stable", "unstable"}]

LEMMA SlotFacts ==
    /\ probes \in 0..MaxProbes /\ UrgentSlot => probes + 1 \in 0..MaxProbes
    /\ probes \in 0..MaxProbes /\ probes < MaxProbes => probes + 1 \in 0..MaxProbes
  BY Limits DEF UrgentSlot

LEMMA CompanionType == TypeOK => \A n : Companions(n) \subseteq Node
  BY DEF Companions, TypeOK, State

LEMMA SuspectFacts ==
    ASSUME TypeOK, Suspects # {}
    PROVE  /\ Suspect \in Suspects /\ \A m \in Suspects : Suspect <= m
           /\ Suspect \in Node /\ Suspect \in todo
           /\ Suspect \notin Out(cur) /\ cur.node[Suspect].bad = 2
  <1>1. Suspects \in SUBSET Node
    BY DEF Suspects, TypeOK
  <1>2. Suspect \in Suspects /\ \A m \in Suspects : Suspect <= m
    BY <1>1, FirstExists DEF Suspect
  <1>. QED BY <1>1, <1>2 DEF Suspects

LEMMA StartTypes ==
    ASSUME TypeOK, Start
    PROVE  TypeOK'
  <1>1. PICK w \in [Node -> Windows], sweep \in BOOLEAN :
           /\ cur' = [node |-> [n \in Node |->
                         IF n \notin UNION {Listed[g] : g \in Group} THEN New
                         ELSE IF sweep THEN Swept(known.node[n], w[n])
                         ELSE known.node[n]],
                      mems |-> Listed, keep |-> known.keep]
           /\ window' = [n \in Node |-> IF n \in UNION {Listed[g] : g \in Group}
                                          THEN w[n] ELSE "short"]
    BY DEF Start
  <1>2. Listed \in [Group -> SUBSET Node]
    BY Limits DEF Listed, TypeOK
  <1>3. \A n \in Node : known.node[n] \in NodeState
    BY DEF TypeOK, State
  <1>4. cur' \in State
    <2>. DEFINE node(n) == IF n \notin UNION {Listed[g] : g \in Group} THEN New
                           ELSE IF sweep THEN Swept(known.node[n], w[n])
                           ELSE known.node[n]
    <2>1. \A n \in Node : node(n) \in NodeState
      BY <1>3, NewTypes, SweptType
    <2>. HIDE DEF node
    <2>2. [n \in Node |-> node(n)] \in [Node -> NodeState]
      BY <2>1
    <2>3. known.keep \in [Group -> SUBSET Node]
      BY DEF TypeOK, State
    <2>4. cur' = [node |-> [n \in Node |-> node(n)], mems |-> Listed, keep |-> known.keep]
      BY <1>1 DEF node
    <2>. QED BY <1>2, <2>2, <2>3, <2>4 DEF State
  <1>5. window' \in WindowType
    <2>1. \A n \in Node : w[n] \in {"short", "stable", "unstable"}
      BY <1>1, Limits
    <2>. QED BY <1>1, <2>1 DEF WindowType
  <1>6. /\ pc' = "recover"
        /\ UNCHANGED <<present, live, torn, known, file, probed, probes, todo, tried>>
    BY DEF Start, disk, routing
  <1>. QED BY <1>4, <1>5, <1>6 DEF TypeOK, WindowType

LEMMA ProbeTypes ==
    ASSUME TypeOK, NEW n \in Node, NEW r \in NodeState, Probe(n, r), probes + 1 \in 0..MaxProbes
    PROVE  cur' \in State /\ probed' \subseteq Node /\ probes' \in 0..MaxProbes
  BY StateParts DEF Probe, TypeOK

LEMMA RecoverTypes ==
    ASSUME TypeOK, Recover
    PROVE  TypeOK'
  <1>1. cur' \in State /\ probed' \subseteq Node /\ probes' \in 0..MaxProbes
    <2>1. CASE Due # {} /\ UrgentSlot
      <3>1. Due \in SUBSET Node
        BY MemberType DEF Due, TypeOK
      <3>2. First(Due) \in Node
        BY <2>1, <3>1, FirstExists
      <3>3. PICK x : Probe(First(Due), Retested(First(Due), x))
        BY <2>1 DEF Recover
      <3>4. Retested(First(Due), x) \in NodeState
        BY <3>2, RetestedType DEF TypeOK
      <3>5. probes + 1 \in 0..MaxProbes
        BY <2>1, SlotFacts DEF TypeOK
      <3>. QED BY <3>2, <3>3, <3>4, <3>5, ProbeTypes
    <2>2. CASE ~(Due # {} /\ UrgentSlot)
      BY <2>2 DEF Recover, TypeOK
    <2>. QED BY <2>1, <2>2
  <1>2. todo' \subseteq Node
    <2>1. Members(cur) \subseteq Node
      BY MemberType DEF TypeOK
    <2>. QED BY <2>1 DEF Recover, InUse
  <1>3. pc' = "active" /\ UNCHANGED <<present, live, torn, known, file, window, tried>>
    BY DEF Recover, disk, routing
  <1>. QED BY <1>1, <1>2, <1>3 DEF TypeOK

LEMMA ActiveTypes ==
    ASSUME TypeOK, ProbeActive \/ ActiveDone
    PROVE  TypeOK'
  <1>1. CASE ProbeActive
    <2>. DEFINE n == First(todo)
    <2>1. n \in Node
      <3>1. todo \in SUBSET Node /\ todo # {}
        BY <1>1 DEF ProbeActive, TypeOK
      <3>. QED BY <3>1, FirstExists
    <2>2. PICK x : Probe(n, Measured(n, x))
      BY <1>1 DEF ProbeActive
    <2>3. Measured(n, x) \in NodeState
      BY <2>1, MeasuredType DEF TypeOK
    <2>4. probes + 1 \in 0..MaxProbes
      BY <1>1, SlotFacts DEF ProbeActive, TypeOK
    <2>5. cur' \in State /\ probed' \subseteq Node /\ probes' \in 0..MaxProbes
      BY <2>1, <2>2, <2>3, <2>4, ProbeTypes
    <2>6. todo' \subseteq Node /\ UNCHANGED <<present, live, torn, known, file, pc, window, tried>>
      BY <1>1 DEF ProbeActive, disk, routing, TypeOK
    <2>. QED BY <2>5, <2>6 DEF TypeOK
  <1>2. CASE ActiveDone
    <2>1. Members(cur) \subseteq Node
      BY MemberType DEF TypeOK
    <2>. QED BY <1>2, <2>1 DEF ActiveDone, disk, routing, TypeOK
  <1>. QED BY <1>1, <1>2

LEMMA ConfirmTypes ==
    ASSUME TypeOK, Condemn \/ ProbeAlternative \/ Spare
    PROVE  TypeOK'
  <1>1. Suspect \in Node /\ Suspects # {}
    BY SuspectFacts DEF Condemn, ProbeAlternative, Spare
  <1>2. CASE Condemn
    <2>1. cur' \in State
      BY <1>1, <1>2, NewTypes, StateParts DEF Condemn, TypeOK
    <2>. QED BY <1>2, <2>1 DEF Condemn, Passed, disk, routing, TypeOK
  <1>3. CASE ProbeAlternative
    <2>0. PICK m \in Alternatives : \E x \in Results(m) : Answer(m, x)
      BY <1>3 DEF ProbeAlternative
    <2>1. PICK x \in Results(m) : Answer(m, x)
      BY <2>0
    <2>2. m \in Node
      BY CompanionType DEF Alternatives
    <2>3. Measured(m, x) \in NodeState
      BY <2>2, MeasuredType DEF TypeOK
    <2>4. cur' \in State
      <3>. DEFINE node == [cur.node EXCEPT ![m] = Measured(m, x)]
      <3>1. cur.node \in [Node -> NodeState]
        BY StateParts DEF TypeOK
      <3>2. /\ node \in [Node -> NodeState]
            /\ [node EXCEPT ![Suspect] = Condemned] \in [Node -> NodeState]
        BY <2>3, <3>1, NewTypes
      <3>3. \/ cur' = [cur EXCEPT !.node = node]
            \/ cur' = [cur EXCEPT !.node = [node EXCEPT ![Suspect] = Condemned]]
        BY <2>1 DEF Answer
      <3>. HIDE DEF node
      <3>. QED BY <3>2, <3>3, StateParts DEF TypeOK
    <2>5. probed' \subseteq Node /\ todo' \subseteq Node /\ tried' \subseteq Node
      BY <2>1, <2>2 DEF Answer, TypeOK, Passed
    <2>6. probes' \in 0..MaxProbes
      BY <1>3, SlotFacts DEF ProbeAlternative, TypeOK
    <2>7. UNCHANGED <<present, live, torn, known, file, pc, window>>
      BY <1>3 DEF ProbeAlternative, disk, routing
    <2>. QED BY <2>4, <2>5, <2>6, <2>7 DEF TypeOK
  <1>4. CASE Spare
    BY <1>4 DEF Spare, Passed, disk, routing, TypeOK
  <1>. QED BY <1>2, <1>3, <1>4

LEMMA EndedTypes ==
    ASSUME Ended, present' \subseteq Node, live' \in [Group -> SUBSET Node], torn' \in BOOLEAN,
           known' \in State, file' \in {"missing", "present", "invalid"}
    PROVE  TypeOK'
  <1>1. /\ cur' = NewState /\ window' = [n \in Node |-> "short"]
        /\ pc' = "idle" /\ probed' = {} /\ probes' = 0 /\ todo' = {} /\ tried' = {}
    BY DEF Ended
  <1>2. window' \in WindowType /\ probes' \in 0..MaxProbes
    BY <1>1, Limits DEF WindowType
  <1>. QED BY <1>1, <1>2, NewTypes DEF TypeOK, WindowType

LEMMA FleetTypes ==
    ASSUME TypeOK, ProbeFleet \/ Decide \/ Route \/ RouteFails \/ Save \/ CutShort
    PROVE  TypeOK'
  <1>1. CASE ProbeFleet
    <2>0. PICK n \in Rolling : \E x \in Results(n) : Probe(n, Measured(n, x))
      BY <1>1 DEF ProbeFleet
    <2>1. PICK x \in Results(n) : Probe(n, Measured(n, x))
      BY <2>0
    <2>2. n \in Node
      BY MemberType DEF Rolling, TypeOK
    <2>3. Measured(n, x) \in NodeState
      BY <2>2, MeasuredType DEF TypeOK
    <2>4. probes + 1 \in 0..MaxProbes
      BY <1>1, SlotFacts DEF ProbeFleet, TypeOK
    <2>5. cur' \in State /\ probed' \subseteq Node /\ probes' \in 0..MaxProbes
      BY <2>1, <2>2, <2>3, <2>4, ProbeTypes
    <2>6. /\ pc' = "fleet" /\ todo' = {}
          /\ UNCHANGED <<present, live, torn, known, file, window, tried>>
      BY <1>1 DEF ProbeFleet, disk, routing
    <2>. QED BY <2>5, <2>6 DEF TypeOK
  <1>2. CASE Decide
    <2>1. cur' \in State
      BY <1>2, StateParts DEF Decide, TypeOK
    <2>. QED BY <1>2, <2>1 DEF Decide, disk, routing, TypeOK
  <1>3. CASE Route
    <2>1. live' \in [Group -> SUBSET Node] /\ torn' \in BOOLEAN
      <3>1. Excluded(cur) \in [Group -> SUBSET Node]
        BY DEF Excluded, TypeOK, State
      <3>. QED BY <1>3, <3>1 DEF Route, routing, TypeOK
    <2>. QED BY <1>3, <2>1 DEF Route, disk, TypeOK
  <1>4. CASE RouteFails \/ Save
    BY <1>4, EndedTypes DEF RouteFails, Save, disk, routing, TypeOK
  <1>5. CASE CutShort
    <2>1. torn' \in BOOLEAN
      BY <1>5 DEF CutShort, TypeOK
    <2>. QED BY <1>5, <2>1, EndedTypes DEF CutShort, disk, TypeOK
  <1>. QED BY <1>1, <1>2, <1>3, <1>4, <1>5

LEMMA AgedType ==
    ASSUME NEW r \in NodeState, NEW age \in 0..Oldest, NEW wait \in 0..Cooldown
    PROVE  [r EXCEPT !.age = age, !.wait = wait] \in NodeState
  BY DEF NodeState

LEMMA TickTypes ==
    ASSUME TypeOK, Tick
    PROVE  TypeOK'
  <1>. DEFINE Older(r) == [r EXCEPT !.age = IF r.age < Oldest THEN r.age + 1 ELSE r.age,
                                    !.wait = IF r.wait > 0 THEN r.wait - 1 ELSE 0]
  <1>1. known' = [known EXCEPT !.node = [n \in Node |-> Older(known.node[n])]]
    BY DEF Tick
  <1>2. \A r \in NodeState : Older(r) \in NodeState
    <2>. SUFFICES ASSUME NEW r \in NodeState PROVE Older(r) \in NodeState
      OBVIOUS
    <2>1. r.age \in 0..Oldest /\ r.wait \in 0..Cooldown
      BY DEF NodeState
    <2>2. /\ (IF r.age < Oldest THEN r.age + 1 ELSE r.age) \in 0..Oldest
          /\ (IF r.wait > 0 THEN r.wait - 1 ELSE 0) \in 0..Cooldown
      BY <2>1, Limits
    <2>. QED BY <2>2, AgedType, Zenon
  <1>. HIDE DEF Older
  <1>3. known' \in State
    BY <1>1, <1>2, StateParts DEF TypeOK
  <1>. QED BY <1>3 DEF Tick, run, routing, TypeOK

LEMMA AroundTypes ==
    ASSUME TypeOK, ResetRouting \/ ResetState \/ Refresh \/ Apply \/ Upgrade \/ Reboot
    PROVE  TypeOK'
  <1>1. Nobody \in [Group -> SUBSET Node] /\ Excluded(known) \in [Group -> SUBSET Node]
    BY DEF Nobody, Excluded, TypeOK, State
  <1>2. CASE ResetRouting
    BY <1>1, <1>2 DEF ResetRouting, disk, TypeOK
  <1>3. CASE ResetState
    BY <1>3, NewTypes, EndedTypes DEF ResetState, routing, TypeOK
  <1>4. CASE Reboot
    BY <1>1, <1>4, NewTypes, EndedTypes DEF Reboot, TypeOK
  <1>5. CASE Refresh
    <2>1. present' \subseteq Node
      BY <1>5, Limits DEF Refresh, TypeOK
    <2>. QED BY <1>5, <2>1 DEF Refresh, disk, routing, run, TypeOK
  <1>6. CASE Apply
    BY <1>1, <1>6 DEF Apply, disk, run, TypeOK
  <1>7. CASE Upgrade
    BY <1>7, NewTypes DEF Upgrade, run, routing, TypeOK
  <1>. QED BY <1>2, <1>3, <1>4, <1>5, <1>6, <1>7

LEMMA TypeStep == TypeOK /\ [Next]_vars => TypeOK'
  <1>. SUFFICES ASSUME TypeOK, [Next]_vars PROVE TypeOK'
    OBVIOUS
  <1>1. CASE UNCHANGED vars
    BY <1>1 DEF vars, disk, routing, run, TypeOK
  <1>2. CASE Next
    BY <1>2, StartTypes, RecoverTypes, ActiveTypes, ConfirmTypes, FleetTypes, TickTypes,
       AroundTypes DEF Next, Guarding
  <1>. QED BY <1>1, <1>2

LEMMA TypeInit == Init => TypeOK
  <1>. SUFFICES ASSUME Init PROVE TypeOK
    OBVIOUS
  <1>1. window \in WindowType /\ probes \in 0..MaxProbes
    BY Limits DEF Init, Idle, WindowType
  <1>2. live \in [Group -> SUBSET Node] /\ torn \in BOOLEAN
    BY DEF Init, Nobody
  <1>. QED BY <1>1, <1>2, NewTypes DEF Init, Idle, TypeOK, WindowType

(* Every state that a run, a reset, an apply, an upgrade or a reboot       *)
(* leaves is well formed: a streak counts one success, a run makes at most *)
(* proxyGuardMaxProbes downloads, and the member a loop of ProxyGuardRun   *)
(* picks next is a member.                                                 *)
THEOREM GuardTypes == Spec => []TypeOK
  BY TypeInit, TypeStep, PTL DEF Spec

-----------------------------------------------------------------------------
(***************************************************************************)
(* What a run of the proxy guard decides and routes: the inductive         *)
(* invariant of ProxyGuard, and the theorems that follow from it.          *)
(***************************************************************************)

(* The inductive invariant                                                 *)

Working == {"recover", "active", "confirm", "fleet", "route"}

(* Nothing is left of a run when none is under way.                        *)
RestInv == pc \in {"idle", "reset"} => probed = {} /\ probes = 0 /\ todo = {} /\ tried = {}

(* A run works on the members listed at its start, and quarantines only    *)
(* those.                                                                  *)
ListInv == pc \in Working \cup {"save"} =>
    cur.mems = Listed /\ Out(cur) \subseteq present /\ todo \subseteq Members(cur)

(* What keeps a member's exclusions a function of the signature: it is     *)
(* listed in every group that admits it as long as it is quarantined.      *)
Settled(s) == \A g \in Group : s.mems[g] \cap Out(s) = Pool[g] \cap Out(s)

LiveInv ==
    /\ Settled(known)
    /\ pc \notin {"save", "reset"} /\ file # "invalid" => torn \/ live = Excluded(known)
    /\ pc = "save" => torn \/ live = Excluded(cur)
    /\ pc = "reset" => live = Nobody

KeepsEnough(s) == \A g \in Group : s.keep[g] \in Resorts(s, g)

KeepInv == /\ file = "present" => KeepsEnough(known)
           /\ pc \in {"route", "save"} => KeepsEnough(cur)

(* The members the run has not touched are as the last one left them.      *)
AgeInv == pc \in Working =>
    \A n \in Members(cur) \ (Out(cur) \cup probed) :
        /\ cur.node[n].age = known.node[n].age
        /\ cur.node[n].speed = known.node[n].speed
        /\ n \notin Out(known)

(* The members that were due for the fleet when the run began.             *)
Overdue == {n \in Members(cur) \ Out(known) : known.node[n].age >= Fleet}
SlotInv ==
    /\ pc \in Working \ {"route"} =>
         Overdue \cap probed # {} \/ Overdue \subseteq Out(cur) \/ probes < MaxProbes
    /\ pc = "route" => Overdue \cap probed # {} \/ Overdue \subseteq Out(cur)

(* While the alternatives of a suspect are tried, none that is not yet     *)
(* tried has passed.                                                       *)
TriedInv == tried # {} => pc = "confirm" /\ Suspects # {} /\ Passing(Suspect) \subseteq tried

Witness(m) == m \in Members(cur) \ Out(cur) /\ (Fast(cur.node[m]) \/ Retaken(m))
WitnessInv ==
    /\ pc \in {"recover", "active"} => Out(cur) \subseteq Out(known)
    /\ pc \in {"confirm", "fleet", "route"} =>
         Out(cur) \subseteq Out(known) \/ \E m \in Node : Witness(m)

GuardInv == /\ TypeOK /\ RestInv /\ ListInv /\ LiveInv /\ KeepInv
            /\ AgeInv /\ SlotInv /\ TriedInv /\ WitnessInv

LEMMA Primed ==
    /\ Out(cur)' = Out(cur') /\ Out(known)' = Out(known')
    /\ Members(cur)' = Members(cur')
    /\ Excluded(cur)' = Excluded(cur') /\ Excluded(known)' = Excluded(known')
    /\ Settled(known)' <=> Settled(known')
    /\ KeepsEnough(known)' <=> KeepsEnough(known')
    /\ KeepsEnough(cur)' <=> KeepsEnough(cur')
  BY DEF Out, Members, Excluded, Settled, KeepsEnough, Resorts, Floor

-----------------------------------------------------------------------------
(* What the steps of a run do to the members                               *)

(* Members D were downloaded through and members C quarantined.            *)
Worked(D, C) ==
    /\ D \subseteq Node /\ C \subseteq Node
    /\ probed' = probed \cup D
    /\ cur'.mems = cur.mems /\ cur'.keep = cur.keep
    /\ \A n \in Node \ (D \cup C) : cur'.node[n] = cur.node[n]
    /\ \A n \in D \ C : n \in Out(cur') => n \in Out(cur)
    /\ \A n \in C : cur'.node[n] = Condemned

LEMMA MarkFacts ==
    ASSUME NEW r \in NodeState, NEW st, NEW bad
    PROVE  /\ [r EXCEPT !.st = st, !.bad = bad].st = st
           /\ [r EXCEPT !.st = st, !.bad = bad].age = r.age
           /\ [r EXCEPT !.st = st, !.bad = bad].speed = r.speed
  BY DEF NodeState

LEMMA FetchedFacts ==
    ASSUME TypeOK, NEW n \in Node, NEW x
    PROVE  /\ Fetched(n, x).age = 0 /\ Fetched(n, x).st = cur.node[n].st
           /\ x = "clean" => Fetched(n, x).speed = "good"
  <1>1. cur.node[n] \in NodeState
    BY DEF TypeOK, State
  <1>. QED BY <1>1 DEF Fetched, NodeState

LEMMA MeasuredFacts ==
    ASSUME TypeOK, NEW n \in Node, NEW x
    PROVE  /\ Measured(n, x).age = 0
           /\ Measured(n, x).st = "quarantined" => cur.node[n].st = "quarantined"
           /\ x = "clean" => Measured(n, x).speed = "good"
  <1>. DEFINE f == Fetched(n, x)
              b == More(f.bad)
              suspect == [f EXCEPT !.st = "suspect", !.bad = b]
              healthy == [f EXCEPT !.st = "healthy", !.bad = 0]
  <1>1. f \in NodeState
    BY FetchedType DEF TypeOK
  <1>2. Measured(n, x) = f \/ Measured(n, x) = suspect \/ Measured(n, x) = healthy
    BY MeasuredCases
  <1>3. f.age = 0 /\ f.st = cur.node[n].st /\ (x = "clean" => f.speed = "good")
    BY FetchedFacts
  <1>. HIDE DEF f, b
  <1>4. suspect.st = "suspect" /\ suspect.age = f.age /\ suspect.speed = f.speed
    BY <1>1, MarkFacts
  <1>5. healthy.st = "healthy" /\ healthy.age = f.age /\ healthy.speed = f.speed
    BY <1>1, MarkFacts
  <1>. HIDE DEF suspect, healthy
  <1>. QED BY <1>2, <1>3, <1>4, <1>5

LEMMA OutFacts ==
    /\ \A n : n \in Out(cur) <=> n \in Node /\ cur.node[n].st = "quarantined"
    /\ \A n : n \in Out(cur') <=> n \in Node /\ cur'.node[n].st = "quarantined"
    /\ \A n : n \in Out(known) <=> n \in Node /\ known.node[n].st = "quarantined"
    /\ Condemned.st = "quarantined"
  BY DEF Out, Condemned

LEMMA ProbeWorked ==
    ASSUME TypeOK, NEW n \in Node, NEW r, Probe(n, r),
           r.st = "quarantined" => n \in Out(cur)
    PROVE  Worked({n}, {}) /\ probes' = probes + 1
  <1>1. cur.node \in [Node -> NodeState]
    BY StateParts DEF TypeOK
  <1>2. /\ cur'.mems = cur.mems /\ cur'.keep = cur.keep
        /\ cur'.node = [cur.node EXCEPT ![n] = r]
    BY DEF Probe, TypeOK, State
  <1>. QED BY <1>1, <1>2, OutFacts DEF Worked, Probe

LEMMA StillWorked ==
    ASSUME UNCHANGED <<cur, probed>>
    PROVE  Worked({}, {})
  BY DEF Worked

LEMMA RecoverWorked ==
    ASSUME TypeOK, Recover
    PROVE  \E D \in SUBSET Node :
             /\ Worked(D, {})
             /\ \/ D = {} /\ probes' = probes
                \/ UrgentSlot /\ probes' = probes + 1
  <1>1. CASE Due # {} /\ UrgentSlot
    <2>1. Due \in SUBSET Node /\ Due \subseteq Out(cur)
      BY MemberType DEF Due, TypeOK
    <2>2. First(Due) \in Node /\ First(Due) \in Out(cur)
      BY <1>1, <2>1, FirstExists
    <2>3. PICK x : Probe(First(Due), Retested(First(Due), x))
      BY <1>1 DEF Recover
    <2>4. Worked({First(Due)}, {}) /\ probes' = probes + 1
      BY <2>2, <2>3, ProbeWorked
    <2>. QED BY <1>1, <2>2, <2>4
  <1>2. CASE ~(Due # {} /\ UrgentSlot)
    <2>1. UNCHANGED <<cur, probed, probes>>
      BY <1>2 DEF Recover
    <2>. QED BY <2>1, StillWorked
  <1>. QED BY <1>1, <1>2

LEMMA ActiveWorked ==
    ASSUME TypeOK, ProbeActive
    PROVE  \E n \in Node : Worked({n}, {}) /\ UrgentSlot /\ probes' = probes + 1
  <1>. DEFINE n == First(todo)
  <1>1. n \in Node
    <2>1. todo \in SUBSET Node /\ todo # {}
      BY DEF ProbeActive, TypeOK
    <2>. QED BY <2>1, FirstExists
  <1>2. PICK x : Probe(n, Measured(n, x))
    BY DEF ProbeActive
  <1>3. Measured(n, x).st = "quarantined" => n \in Out(cur)
    BY <1>1, MeasuredFacts, OutFacts
  <1>4. Worked({n}, {}) /\ probes' = probes + 1
    BY <1>1, <1>2, <1>3, ProbeWorked
  <1>. QED BY <1>1, <1>4 DEF ProbeActive

LEMMA CondemnWorked ==
    ASSUME TypeOK, Condemn
    PROVE  Worked({}, {Suspect}) /\ probes' = probes
  <1>1. Suspect \in Node
    BY SuspectFacts DEF Condemn
  <1>2. cur.node \in [Node -> NodeState]
    BY StateParts DEF TypeOK
  <1>3. /\ cur'.mems = cur.mems /\ cur'.keep = cur.keep
        /\ cur'.node = [cur.node EXCEPT ![Suspect] = Condemned]
    BY DEF Condemn, TypeOK, State
  <1>. QED BY <1>1, <1>2, <1>3 DEF Worked, Condemn

LEMMA AlternativeFacts ==
    ASSUME TypeOK, ProbeAlternative
    PROVE  /\ Suspect \in Node
           /\ \E m \in Node : /\ m \in Alternatives /\ m # Suspect
                              /\ \E x \in Results(m) : Answer(m, x)
  <1>1. Suspect \in Node
    BY SuspectFacts DEF ProbeAlternative
  <1>2. PICK m \in Alternatives : \E x \in Results(m) : Answer(m, x)
    BY DEF ProbeAlternative
  <1>3. m \in Node /\ m # Suspect
    BY CompanionType DEF Alternatives, Companions
  <1>. QED BY <1>1, <1>2, <1>3

(* The suspects the answer of an alternative condemns.                     *)
Found(x) == IF x = "clean" THEN {Suspect} ELSE {}

LEMMA AnswerWorked ==
    ASSUME TypeOK, Suspect \in Node, NEW m \in Node, m # Suspect, NEW x, Answer(m, x)
    PROVE  /\ Worked({m}, Found(x))
           /\ cur'.node[m] = Measured(m, x)
  <1>. DEFINE node == [cur.node EXCEPT ![m] = Measured(m, x)]
  <1>1. cur.node \in [Node -> NodeState]
    BY StateParts DEF TypeOK
  <1>2. Measured(m, x).st = "quarantined" => m \in Out(cur)
    BY MeasuredFacts, OutFacts
  <1>3. CASE x = "clean"
    <2>1. /\ cur'.mems = cur.mems /\ cur'.keep = cur.keep
          /\ cur'.node = [node EXCEPT ![Suspect] = Condemned]
      BY <1>3 DEF Answer, TypeOK, State
    <2>2. /\ cur'.node[m] = Measured(m, x) /\ cur'.node[Suspect] = Condemned
          /\ \A n \in Node \ {m, Suspect} : cur'.node[n] = cur.node[n]
      BY <1>1, <2>1
    <2>. QED BY <1>2, <1>3, <2>1, <2>2, OutFacts DEF Worked, Answer, Found
  <1>4. CASE x # "clean"
    <2>1. cur'.mems = cur.mems /\ cur'.keep = cur.keep /\ cur'.node = node
      BY <1>4 DEF Answer, TypeOK, State
    <2>2. cur'.node[m] = Measured(m, x) /\ \A n \in Node \ {m} : cur'.node[n] = cur.node[n]
      BY <1>1, <2>1
    <2>. QED BY <1>2, <1>4, <2>1, <2>2, OutFacts DEF Worked, Answer, Found
  <1>. QED BY <1>3, <1>4

LEMMA FleetWorked ==
    ASSUME TypeOK, ProbeFleet
    PROVE  \E n \in Rolling : n \in Node /\ Worked({n}, {})
  <1>1. PICK n \in Rolling : \E x \in Results(n) : Probe(n, Measured(n, x))
    BY DEF ProbeFleet
  <1>2. PICK x \in Results(n) : Probe(n, Measured(n, x))
    BY <1>1
  <1>3. n \in Node
    BY MemberType DEF Rolling, TypeOK
  <1>4. Measured(n, x).st = "quarantined" => n \in Out(cur)
    BY <1>3, MeasuredFacts, OutFacts
  <1>. QED BY <1>2, <1>3, <1>4, ProbeWorked

-----------------------------------------------------------------------------
(* The measuring part of a run                                             *)

Busy == Working \ {"route"}
Measuring == \/ Recover \/ ProbeActive \/ ActiveDone \/ Condemn
             \/ ProbeAlternative \/ Spare \/ ProbeFleet

LEMMA MeasuringFacts ==
    ASSUME Measuring
    PROVE  /\ pc \in Busy /\ pc' \in Busy
           /\ UNCHANGED <<present, live, torn, known, file, window>>
  BY DEF Measuring, Recover, ProbeActive, ActiveDone, Condemn, ProbeAlternative, Spare,
         ProbeFleet, AllConfirmed, Busy, Working, routing, disk

LEMMA RollingFacts ==
    ASSUME TypeOK, AgeInv, pc \in Busy
    PROVE  Rolling = Overdue \ (Out(cur) \cup probed)
  <1>1. \A n \in Members(cur) \ (Out(cur) \cup probed) :
          /\ cur.node[n].age = known.node[n].age
          /\ cur.node[n].speed = known.node[n].speed
          /\ n \notin Out(known)
    BY DEF AgeInv, Busy
  <1>. QED BY <1>1 DEF Rolling, Overdue

LEMMA WorkedOut ==
    ASSUME TypeOK, NEW D, NEW C, Worked(D, C)
    PROVE  /\ Members(cur') = Members(cur)
           /\ Out(cur') \subseteq Out(cur) \cup C /\ C \subseteq Out(cur')
           /\ \A n \in Out(cur) : n \in D \/ n \in Out(cur')
           /\ \A n \in Node \ (D \cup C) : n \in Out(cur') <=> n \in Out(cur)
  <1>1. Members(cur') = Members(cur)
    BY DEF Worked, Members
  <1>2. \A n \in Node \ (D \cup C) : n \in Out(cur') <=> n \in Out(cur)
    BY OutFacts DEF Worked
  <1>3. C \subseteq Out(cur')
    BY OutFacts DEF Worked
  <1>4. Out(cur') \subseteq Node /\ Out(cur) \subseteq Node
    BY OutFacts
  <1>. QED BY <1>1, <1>2, <1>3, <1>4 DEF Worked

(* Whatever such a step measures or condemns, the run keeps to the listed  *)
(* members, leaves the others as old as they were, and still has a slot    *)
(* for the fleet or no use for one.                                        *)
LEMMA WorkedKeeps ==
    ASSUME TypeOK, ListInv, AgeInv, SlotInv, Measuring,
           NEW D, NEW C, Worked(D, C), C \subseteq Members(cur),
           todo' \subseteq Members(cur),
           \/ D = {} /\ probes' = probes
           \/ UrgentSlot /\ probes' = probes + 1
           \/ \E n \in D : n \in Rolling
    PROVE  ListInv' /\ AgeInv' /\ SlotInv'
  <1>1. /\ pc \in Busy /\ pc' \in Busy
        /\ UNCHANGED <<present, live, torn, known, file, window>>
    BY MeasuringFacts
  <1>2. /\ Members(cur') = Members(cur)
        /\ Out(cur') \subseteq Out(cur) \cup C /\ C \subseteq Out(cur')
        /\ \A n \in Out(cur) : n \in D \/ n \in Out(cur')
        /\ \A n \in Node \ (D \cup C) : n \in Out(cur') <=> n \in Out(cur)
    BY WorkedOut
  <1>3. /\ cur.mems = Listed /\ Out(cur) \subseteq present /\ todo \subseteq Members(cur)
        /\ \A n \in Members(cur) \ (Out(cur) \cup probed) :
             /\ cur.node[n].age = known.node[n].age
             /\ cur.node[n].speed = known.node[n].speed
             /\ n \notin Out(known)
    BY <1>1 DEF ListInv, AgeInv, Busy
  <1>4. Members(cur) \subseteq present /\ Members(cur) \subseteq Node
    BY <1>3, MemberType DEF Members, Listed, TypeOK
  <1>5. ListInv'
    <2>1. Listed' = Listed /\ cur'.mems = Listed
      BY <1>1, <1>3 DEF Listed, Worked
    <2>2. Out(cur') \subseteq present
      BY <1>2, <1>3, <1>4
    <2>. QED BY <1>1, <1>2, <2>1, <2>2, Primed DEF ListInv
  <1>6. AgeInv'
    <2>. SUFFICES ASSUME NEW n \in Members(cur') \ (Out(cur') \cup probed')
                  PROVE  /\ cur'.node[n].age = known.node[n].age
                         /\ cur'.node[n].speed = known.node[n].speed
                         /\ n \notin Out(known)
      BY <1>1, Primed DEF AgeInv
    <2>1. n \in Node /\ n \notin D /\ n \notin C /\ n \notin probed
      BY <1>2, <1>4 DEF Worked
    <2>2. n \in Members(cur) \ (Out(cur) \cup probed) /\ cur'.node[n] = cur.node[n]
      BY <1>2, <2>1 DEF Worked
    <2>. QED BY <1>3, <2>2
  <1>7. Overdue' = Overdue
    BY <1>1, <1>2, Primed DEF Overdue
  <1>8. \/ Overdue \cap probed' # {} \/ Overdue \subseteq Out(cur') \/ probes' < MaxProbes
    <2>1. Rolling = Overdue \ (Out(cur) \cup probed)
      BY <1>1, RollingFacts
    <2>2. probed' = probed \cup D
      BY DEF Worked
    <2>3. CASE Overdue \cap probed # {}
      BY <2>2, <2>3
    <2>4. CASE Overdue \subseteq Out(cur)
      BY <1>2, <2>2, <2>4
    <2>5. CASE probes < MaxProbes /\ D = {} /\ probes' = probes
      BY <2>5
    <2>6. CASE UrgentSlot /\ probes' = probes + 1
      <3>1. CASE Rolling = {}
        BY <2>1, <2>3, <2>4, <3>1
      <3>2. CASE Rolling # {}
        <4>1. probes < MaxProbes - 1
          BY <2>6, <3>2 DEF UrgentSlot
        <4>. QED BY <2>6, <4>1, Limits DEF TypeOK
      <3>. QED BY <3>1, <3>2
    <2>7. CASE \E n \in D : n \in Rolling
      BY <2>1, <2>2, <2>7
    <2>8. Overdue \cap probed # {} \/ Overdue \subseteq Out(cur) \/ probes < MaxProbes
      BY <1>1 DEF SlotInv, Busy
    <2>. QED BY <2>3, <2>4, <2>5, <2>6, <2>7, <2>8
  <1>9. SlotInv'
    BY <1>1, <1>7, <1>8, Primed DEF SlotInv, Busy
  <1>. QED BY <1>5, <1>6, <1>9

LEMMA MeasuringKeeps ==
    ASSUME TypeOK, ListInv, AgeInv, SlotInv, Measuring
    PROVE  ListInv' /\ AgeInv' /\ SlotInv'
  <1>. USE DEF Measuring
  <1>0. todo \subseteq Members(cur) /\ Members(cur) \subseteq Node
    BY MeasuringFacts, MemberType DEF ListInv, Busy, TypeOK
  <1>1. CASE Recover
    <2>1. PICK D \in SUBSET Node :
             /\ Worked(D, {})
             /\ \/ D = {} /\ probes' = probes
                \/ UrgentSlot /\ probes' = probes + 1
      BY <1>1, RecoverWorked
    <2>2. todo' \subseteq Members(cur)
      BY <1>1 DEF Recover, InUse
    <2>. QED BY <2>1, <2>2, WorkedKeeps
  <1>2. CASE ProbeActive
    <2>1. PICK n \in Node : Worked({n}, {}) /\ UrgentSlot /\ probes' = probes + 1
      BY <1>2, ActiveWorked
    <2>2. todo' \subseteq Members(cur)
      BY <1>0, <1>2 DEF ProbeActive
    <2>. QED BY <2>1, <2>2, WorkedKeeps
  <1>3. CASE ActiveDone \/ Spare
    <2>1. UNCHANGED <<cur, probed, probes>> /\ todo' \subseteq Members(cur)
      BY <1>0, <1>3 DEF ActiveDone, Spare, Passed
    <2>2. Worked({}, {})
      BY <2>1, StillWorked
    <2>. QED BY <2>1, <2>2, WorkedKeeps
  <1>4. CASE Condemn
    <2>1. Worked({}, {Suspect}) /\ probes' = probes
      BY <1>4, CondemnWorked
    <2>2. {Suspect} \subseteq Members(cur)
      BY <1>0, <1>4, SuspectFacts DEF Condemn
    <2>3. todo' \subseteq Members(cur)
      BY <1>0, <1>4 DEF Condemn, Passed
    <2>. QED BY <2>1, <2>2, <2>3, WorkedKeeps
  <1>5. CASE ProbeAlternative
    <2>1. PICK m \in Node : /\ m \in Alternatives /\ m # Suspect
                            /\ \E x \in Results(m) : Answer(m, x)
      BY <1>5, AlternativeFacts
    <2>2. PICK x \in Results(m) : Answer(m, x)
      BY <2>1
    <2>3. Worked({m}, Found(x))
      BY <1>5, <2>1, <2>2, AlternativeFacts, AnswerWorked
    <2>4. Found(x) \subseteq Members(cur)
      BY <1>0, <1>5, SuspectFacts DEF ProbeAlternative, Found
    <2>5. todo' \subseteq Members(cur)
      BY <1>0, <2>2 DEF Answer, Passed
    <2>6. UrgentSlot /\ probes' = probes + 1
      BY <1>5 DEF ProbeAlternative
    <2>. QED BY <2>3, <2>4, <2>5, <2>6, WorkedKeeps
  <1>6. CASE ProbeFleet
    <2>1. PICK n \in Rolling : n \in Node /\ Worked({n}, {})
      BY <1>6, FleetWorked
    <2>2. todo' \subseteq Members(cur)
      BY <1>6 DEF ProbeFleet
    <2>. QED BY <2>1, <2>2, WorkedKeeps
  <1>. QED BY <1>1, <1>2, <1>3, <1>4, <1>5, <1>6

-----------------------------------------------------------------------------
(* Who vouches for a quarantine                                            *)

LEMMA WitnessStays ==
    ASSUME TypeOK, NEW D, NEW C, Worked(D, C),
           NEW w \in Node \ (D \cup C), Witness(w), UNCHANGED known
    PROVE  Witness(w)'
  <1>1. cur'.node[w] = cur.node[w] /\ Members(cur') = Members(cur)
        /\ (w \in Out(cur') <=> w \in Out(cur))
    BY WorkedOut DEF Worked
  <1>2. Retaken(w) => Retaken(w)'
    BY DEF Worked, Retaken
  <1>. QED BY <1>1, <1>2, Primed DEF Witness, Fast

(* The other members' measurements pass as before.                         *)
LEMMA PassingFacts ==
    ASSUME TypeOK, NEW D, NEW C, Worked(D, C), NEW s \in Node,
           NEW k \in Node \ (D \cup C), k \in Passing(s)'
    PROVE  k \in Passing(s)
  <1>1. cur'.node[k] = cur.node[k] /\ (k \in Out(cur') <=> k \in Out(cur))
    BY WorkedOut DEF Worked
  <1>2. Companions(s)' = Companions(s)
    BY DEF Companions, Worked
  <1>. QED BY <1>1, <1>2, Primed DEF Passing, Fast

LEMMA PassingWitness ==
    ASSUME TypeOK, NEW s \in Node, NEW m \in Passing(s)
    PROVE  Witness(m) /\ m # s /\ m \in Node
  <1>1. m \in Members(cur) /\ m # s
    BY DEF Passing, Companions, Members
  <1>. QED BY <1>1, MemberType DEF Passing, Witness, TypeOK

LEMMA UntriedInv ==
    ASSUME TriedInv, pc # "confirm" \/ Suspects = {}
    PROVE  tried = {}
  BY DEF TriedInv

LEMMA ActiveWitness ==
    ASSUME TypeOK, TriedInv, WitnessInv, Recover \/ ProbeActive \/ ActiveDone
    PROVE  TriedInv' /\ WitnessInv'
  <1>1. pc \in {"recover", "active"} /\ pc' \in {"active", "confirm"} /\ tried' = tried
        /\ UNCHANGED known
    BY DEF Recover, ProbeActive, ActiveDone, disk
  <1>2. tried' = {}
    BY <1>1, UntriedInv
  <1>3. Out(cur') \subseteq Out(cur)
    <2>1. CASE Recover
      <3>1. PICK D \in SUBSET Node : Worked(D, {})
        BY <2>1, RecoverWorked
      <3>. QED BY <3>1, WorkedOut
    <2>2. CASE ProbeActive
      <3>1. PICK n \in Node : Worked({n}, {})
        BY <2>2, ActiveWorked
      <3>. QED BY <3>1, WorkedOut
    <2>3. CASE ActiveDone
      BY <2>3 DEF ActiveDone
    <2>. QED BY <2>1, <2>2, <2>3
  <1>4. Out(cur') \subseteq Out(known)
    BY <1>1, <1>3 DEF WitnessInv
  <1>. QED BY <1>1, <1>2, <1>4, Primed DEF TriedInv, WitnessInv

LEMMA CondemnWitness ==
    ASSUME TypeOK, Condemn
    PROVE  TriedInv' /\ WitnessInv'
  <1>1. tried' = {} /\ pc' = "confirm" /\ Suspect \in Node
    BY SuspectFacts DEF Condemn, Passed
  <1>2. PICK m \in Passing(Suspect) : TRUE
    BY DEF Condemn
  <1>3. Witness(m) /\ m # Suspect /\ m \in Node
    BY <1>1, PassingWitness
  <1>4. Witness(m)'
    <2>1. UNCHANGED known
      BY DEF Condemn, disk
    <2>. QED BY <1>3, <2>1, CondemnWorked, WitnessStays
  <1>. QED BY <1>1, <1>3, <1>4 DEF TriedInv, WitnessInv

(* The suspect is still the one at hand after an alternative has failed.   *)
LEMMA SuspectStays ==
    ASSUME TypeOK, Suspects # {}, TypeOK', NEW m \in Node, m # Suspect, Worked({m}, {}),
           todo' = {k \in todo : k >= Suspect}
    PROVE  Suspects' # {} /\ Suspect' = Suspect
  <1>1. Suspect \in Node /\ Suspect \in todo /\ Suspect \notin Out(cur)
        /\ cur.node[Suspect].bad = 2
    BY SuspectFacts
  <1>2. cur'.node[Suspect] = cur.node[Suspect] /\ Suspect \notin Out(cur')
    <2>1. Suspect \in Node \ ({m} \cup {})
      BY <1>1
    <2>. QED BY <1>1, <2>1, WorkedOut, Zenon DEF Worked
  <1>3. Suspect \in Nat
    BY <1>1, Limits
  <1>4. Suspect \in Suspects'
    BY <1>1, <1>2, <1>3, Primed DEF Suspects
  <1>5. Suspects' \in SUBSET Node
    BY DEF Suspects, TypeOK
  <1>6. Suspect' \in Suspects' /\ Suspect' <= Suspect
    <2>1. Suspect' = First(Suspects')
      BY DEF Suspect, First
    <2>. QED BY <1>4, <1>5, <2>1, FirstExists
  <1>7. Suspect' >= Suspect
    BY <1>6 DEF Suspects
  <1>8. Suspect' \in Nat
    BY <1>5, <1>6, Limits
  <1>. QED BY <1>3, <1>4, <1>6, <1>7, <1>8

LEMMA AlternativeWitness ==
    ASSUME TypeOK, TypeOK', TriedInv, WitnessInv, ProbeAlternative
    PROVE  TriedInv' /\ WitnessInv'
  <1>1. PICK m \in Node : /\ m \in Alternatives /\ m # Suspect
                          /\ \E x \in Results(m) : Answer(m, x)
    BY AlternativeFacts
  <1>2. PICK x \in Results(m) : Answer(m, x)
    BY <1>1
  <1>3. Suspect \in Node /\ Worked({m}, Found(x)) /\ cur'.node[m] = Measured(m, x)
    BY <1>1, <1>2, AlternativeFacts, AnswerWorked
  <1>4. /\ pc = "confirm" /\ pc' = "confirm" /\ Suspects # {} /\ UNCHANGED known
        /\ tried # {} \/ Passing(Suspect) = {}
    BY DEF ProbeAlternative, disk
  <1>5. m \in Companions(Suspect) /\ m \notin Out(cur) /\ m \notin tried /\ m \in Members(cur)
    BY <1>1 DEF Alternatives, Companions, Members
  <1>6. CASE x = "clean"
    <2>1. tried' = {}
      BY <1>2, <1>6 DEF Answer, Passed
    <2>2. m \notin Out(cur')
      BY <1>1, <1>3, <1>5, <1>6, WorkedOut DEF Found, Worked
    <2>3. cur'.node[m].age <= TTL /\ cur'.node[m].speed = "good"
      BY <1>1, <1>3, <1>6, MeasuredFacts, Limits
    <2>4. Witness(m)'
      BY <1>3, <1>5, <2>2, <2>3, WorkedOut, Primed DEF Witness, Fast
    <2>. QED BY <1>1, <1>4, <2>1, <2>4 DEF TriedInv, WitnessInv
  <1>7. CASE x # "clean"
    <2>1. Worked({m}, {}) /\ tried' = tried \cup {m} /\ todo' = {k \in todo : k >= Suspect}
      BY <1>2, <1>3, <1>7 DEF Answer, Found
    <2>2. Suspects' # {} /\ Suspect' = Suspect
      BY <1>1, <1>4, <2>1, SuspectStays
    <2>3. Passing(Suspect) \subseteq tried
      BY <1>4 DEF TriedInv
    <2>4. PICK s \in Node : s = Suspect /\ s = Suspect'
      BY <1>3, <2>2
    <2>5. Passing(Suspect)' \subseteq tried'
      <3>1. Passing(Suspect)' = Passing(s)' /\ Passing(s)' \subseteq Node
        BY <2>4 DEF Passing, Companions, TypeOK, State
      <3>2. ASSUME NEW k \in Passing(s)', k # m
            PROVE  k \in tried
        <4>1. k \in Passing(s)
          BY <2>1, <3>1, <3>2, PassingFacts
        <4>. QED BY <2>3, <2>4, <4>1
      <3>. QED BY <2>1, <3>1, <3>2
    <2>6. TriedInv'
      BY <1>4, <2>2, <2>5 DEF TriedInv
    <2>7. Out(cur') \subseteq Out(cur)
      BY <2>1, WorkedOut
    <2>8. ASSUME NEW w \in Node, Witness(w)
          PROVE  Witness(w)'
      <3>1. CASE w # m
        BY <1>4, <2>1, <2>8, <3>1, WitnessStays
      <3>2. CASE w = m
        <4>1. ~Fast(cur.node[m])
          BY <1>5, <2>3 DEF Passing
        <4>2. Retaken(m)'
          BY <1>4, <2>1, <2>8, <3>2, <4>1 DEF Witness, Retaken, Worked
        <4>3. m \notin Out(cur') /\ Members(cur') = Members(cur)
          BY <1>5, <2>1, <2>7, WorkedOut
        <4>. QED BY <1>5, <3>2, <4>2, <4>3, Primed DEF Witness
      <3>. QED BY <3>1, <3>2
    <2>9. WitnessInv'
      BY <1>4, <2>7, <2>8, Primed DEF WitnessInv
    <2>. QED BY <2>6, <2>9
  <1>. QED BY <1>6, <1>7

LEMMA SpareWitness ==
    ASSUME WitnessInv, Spare
    PROVE  TriedInv' /\ WitnessInv'
  <1>1. /\ pc = "confirm" /\ pc' = "confirm" /\ tried' = {} /\ UNCHANGED <<cur, known, probed>>
    BY DEF Spare, Passed, disk
  <1>. QED BY <1>1, Primed DEF TriedInv, WitnessInv, Witness, Fast, Retaken

(* The fleet takes a measurement again that vouched only when it was due.  *)
LEMMA FleetWitness ==
    ASSUME TypeOK, AgeInv, TriedInv, WitnessInv, ProbeFleet
    PROVE  TriedInv' /\ WitnessInv'
  <1>1. PICK n \in Rolling : n \in Node /\ Worked({n}, {})
    BY FleetWorked
  <1>2. /\ pc \in {"confirm", "fleet"} /\ pc' = "fleet" /\ UNCHANGED <<known, tried>>
        /\ pc # "confirm" \/ Suspects = {}
    BY DEF ProbeFleet, AllConfirmed, disk
  <1>3. tried' = {}
    BY <1>2, UntriedInv
  <1>4. ASSUME NEW w \in Node, Witness(w)
        PROVE  Witness(w)'
    <2>1. CASE w # n
      BY <1>1, <1>2, <1>4, <2>1, WitnessStays
    <2>2. CASE w = n
      <3>1. /\ n \in Members(cur) \ (Out(cur) \cup probed) /\ cur.node[n].age >= Fleet
            /\ cur.node[n].age = known.node[n].age /\ cur.node[n].speed = known.node[n].speed
        BY <1>1, <1>2 DEF Rolling, AgeInv, Working
      <3>2. known.node[n].age >= Fleet /\ Fast(known.node[n])
        BY <1>4, <2>2, <3>1 DEF Witness, Retaken, Fast
      <3>3. Retaken(n)'
        BY <1>1, <1>2, <3>2 DEF Retaken, Worked, Fast
      <3>4. n \in Members(cur') /\ n \notin Out(cur')
        BY <1>1, <3>1, WorkedOut
      <3>. QED BY <2>2, <3>3, <3>4, Primed DEF Witness
    <2>. QED BY <2>1, <2>2
  <1>5. Out(cur') \subseteq Out(cur)
    BY <1>1, WorkedOut
  <1>. QED BY <1>2, <1>3, <1>4, <1>5, Primed DEF TriedInv, WitnessInv

LEMMA MeasuringStep ==
    ASSUME GuardInv, Measuring
    PROVE  GuardInv'
  <1>. USE DEF GuardInv
  <1>1. TypeOK'
    BY TypeStep DEF Measuring, Next, Guarding
  <1>2. ListInv' /\ AgeInv' /\ SlotInv'
    BY MeasuringKeeps
  <1>3. /\ pc \in Busy /\ pc' \in Busy
        /\ UNCHANGED <<present, live, torn, known, file, window>>
    BY MeasuringFacts
  <1>4. TriedInv' /\ WitnessInv'
    BY <1>1, ActiveWitness, CondemnWitness, AlternativeWitness, SpareWitness, FleetWitness
    DEF Measuring
  <1>5. RestInv' /\ LiveInv' /\ KeepInv'
    BY <1>3, Primed DEF RestInv, LiveInv, KeepInv, Busy, Working
  <1>. QED BY <1>1, <1>2, <1>4, <1>5

-----------------------------------------------------------------------------
(* The start of a run, its decision and its end                            *)

LEMMA SweptFacts ==
    ASSUME NEW r \in NodeState, NEW w
    PROVE  /\ Swept(r, w).age = r.age /\ Swept(r, w).speed = r.speed
           /\ Swept(r, w).st = "quarantined" <=> r.st = "quarantined"
  <1>. DEFINE b == More(r.bad)
              suspect == [r EXCEPT !.st = "suspect", !.bad = b]
              healthy == [r EXCEPT !.st = "healthy", !.bad = 0]
  <1>1. \/ Swept(r, w) = r
        \/ r.st # "quarantined" /\ Swept(r, w) = suspect
        \/ r.st # "quarantined" /\ Swept(r, w) = healthy
    BY Zenon DEF Swept
  <1>. HIDE DEF b
  <1>2. /\ suspect.st = "suspect" /\ suspect.age = r.age /\ suspect.speed = r.speed
        /\ healthy.st = "healthy" /\ healthy.age = r.age /\ healthy.speed = r.speed
    BY MarkFacts
  <1>. HIDE DEF suspect, healthy
  <1>. QED BY <1>1, <1>2

LEMMA StartStep ==
    ASSUME GuardInv, Start
    PROVE  GuardInv'
  <1>. DEFINE all == UNION {Listed[g] : g \in Group}
  <1>0. TypeOK /\ TypeOK'
    BY TypeStep DEF GuardInv, Next, Guarding
  <1>1. PICK w \in [Node -> Windows], sweep \in BOOLEAN :
          cur' = [node |-> [n \in Node |-> IF n \notin all THEN New
                                           ELSE IF sweep THEN Swept(known.node[n], w[n])
                                           ELSE known.node[n]],
                  mems |-> Listed, keep |-> known.keep]
    BY DEF Start
  <1>2. /\ pc = "idle" /\ pc' = "recover"
        /\ UNCHANGED <<present, live, torn, known, file, probed, probes, todo, tried>>
    BY DEF Start, routing, disk
  <1>3. probed' = {} /\ probes' = 0 /\ todo' = {} /\ tried' = {}
    BY <1>2 DEF GuardInv, RestInv
  <1>4. Members(cur') = all /\ cur'.mems = Listed /\ Listed' = Listed
    BY <1>1, <1>2 DEF Members, Listed
  <1>5. all \subseteq present /\ all \subseteq Node
    BY <1>0 DEF Listed, TypeOK
  <1>6. ASSUME NEW n \in Node
        PROVE  /\ n \notin all => cur'.node[n] = New
               /\ n \in all => /\ cur'.node[n].age = known.node[n].age
                               /\ cur'.node[n].speed = known.node[n].speed
                               /\ cur'.node[n].st = "quarantined"
                                    <=> known.node[n].st = "quarantined"
    <2>1. known.node[n] \in NodeState
      BY <1>0 DEF TypeOK, State
    <2>2. cur'.node[n] = IF n \notin all THEN New
                         ELSE IF sweep THEN Swept(known.node[n], w[n])
                         ELSE known.node[n]
      BY <1>1
    <2>. HIDE DEF all
    <2>3. CASE n \notin all
      BY <2>2, <2>3
    <2>4. CASE n \in all /\ sweep
      <3>1. cur'.node[n] = Swept(known.node[n], w[n])
        BY <2>2, <2>4
      <3>. QED BY <2>1, <2>4, <3>1, SweptFacts
    <2>5. CASE n \in all /\ ~sweep
      BY <2>2, <2>5
    <2>. QED BY <2>3, <2>4, <2>5
  <1>7. Out(cur') \subseteq all /\ Out(cur') \subseteq Out(known)
        /\ Out(known) \cap all \subseteq Out(cur')
    <2>. HIDE DEF all
    <2>1. New.st # "quarantined"
      BY DEF New
    <2>. QED BY <1>6, <2>1, OutFacts
  <1>. HIDE DEF all
  <1>8. RestInv' /\ ListInv' /\ TriedInv' /\ WitnessInv'
    BY <1>2, <1>3, <1>4, <1>5, <1>7, Primed DEF RestInv, ListInv, TriedInv, WitnessInv
  <1>9. AgeInv'
    BY <1>2, <1>4, <1>5, <1>6, <1>7, Primed DEF AgeInv
  <1>10. SlotInv'
    BY <1>2, <1>3, Limits DEF SlotInv
  <1>11. LiveInv' /\ KeepInv'
    BY <1>2, Primed DEF GuardInv, LiveInv, KeepInv
  <1>. QED BY <1>0, <1>8, <1>9, <1>10, <1>11 DEF GuardInv

LEMMA DecideStep ==
    ASSUME GuardInv, Decide
    PROVE  GuardInv'
  <1>0. TypeOK /\ TypeOK'
    BY TypeStep DEF GuardInv, Next, Guarding
  <1>1. PICK keep \in [Group -> SUBSET Node] :
          /\ \A g \in Group : keep[g] \in Resorts(cur, g)
          /\ cur' = [cur EXCEPT !.keep = keep]
    BY DEF Decide
  <1>2. cur'.node = cur.node /\ cur'.mems = cur.mems /\ cur'.keep = keep
    BY <1>0, <1>1 DEF TypeOK, State
  <1>3. Members(cur') = Members(cur) /\ Out(cur') = Out(cur)
        /\ \A g \in Group : Resorts(cur', g) = Resorts(cur, g)
    BY <1>2 DEF Members, Out, Resorts, Floor
  <1>4. /\ pc \in {"confirm", "fleet"} /\ pc' = "route" /\ todo' = {}
        /\ pc # "confirm" \/ Suspects = {}
        /\ probes = MaxProbes \/ Rolling = {}
        /\ UNCHANGED <<present, live, torn, known, file, window, probed, probes, tried>>
    BY DEF Decide, AllConfirmed, routing, disk
  <1>5. tried' = {}
    BY <1>4, UntriedInv DEF GuardInv
  <1>6. KeepsEnough(cur')
    BY <1>1, <1>2, <1>3 DEF KeepsEnough
  <1>7. SlotInv'
    <2>1. Overdue' = Overdue
      BY <1>3, <1>4, Primed DEF Overdue
    <2>2. Overdue \cap probed # {} \/ Overdue \subseteq Out(cur)
      <3>1. CASE Rolling = {}
        <4>1. Rolling = Overdue \ (Out(cur) \cup probed)
          BY <1>0, <1>4, RollingFacts DEF GuardInv, Busy, Working
        <4>. QED BY <3>1, <4>1
      <3>2. CASE probes = MaxProbes
        BY <1>4, <3>2, Limits DEF GuardInv, SlotInv, Working
      <3>. QED BY <1>4, <3>1, <3>2
    <2>. QED BY <1>3, <1>4, <2>1, <2>2, Primed DEF SlotInv
  <1>8. ListInv'
    <2>1. Listed' = Listed
      BY <1>4 DEF Listed
    <2>2. cur.mems = Listed /\ Out(cur) \subseteq present
      BY <1>4 DEF GuardInv, ListInv, Working
    <2>. QED BY <1>2, <1>3, <1>4, <2>1, <2>2, Primed DEF ListInv
  <1>9. AgeInv'
    <2>1. \A n \in Members(cur) \ (Out(cur) \cup probed) :
            /\ cur.node[n].age = known.node[n].age
            /\ cur.node[n].speed = known.node[n].speed
            /\ n \notin Out(known)
      BY <1>4 DEF GuardInv, AgeInv, Working
    <2>. QED BY <1>2, <1>3, <1>4, <2>1, Primed DEF AgeInv
  <1>10. WitnessInv'
    <2>1. Out(cur) \subseteq Out(known) \/ \E m \in Node : Witness(m)
      BY <1>4 DEF GuardInv, WitnessInv
    <2>2. \A m : Witness(m) => Witness(m)'
      BY <1>2, <1>3, <1>4, Primed DEF Witness, Fast, Retaken
    <2>. QED BY <1>3, <1>4, <2>1, <2>2, Primed DEF WitnessInv
  <1>11. RestInv' /\ LiveInv' /\ TriedInv'
    BY <1>4, <1>5, Primed DEF GuardInv, RestInv, LiveInv, TriedInv
  <1>12. KeepInv'
    BY <1>4, <1>6, Primed DEF GuardInv, KeepInv
  <1>. QED BY <1>0, <1>7, <1>8, <1>9, <1>10, <1>11, <1>12 DEF GuardInv

LEMMA RunSettled ==
    ASSUME TypeOK, ListInv, pc \in {"route", "save"}
    PROVE  Settled(cur)
  <1>1. cur.mems = Listed /\ Out(cur) \subseteq present
    BY DEF ListInv, Working
  <1>. QED BY <1>1 DEF Settled, Listed

(* A decision with the signature of the last one excludes the same members.*)
LEMMA SameSignature ==
    ASSUME NEW s, NEW t, Settled(s), Settled(t), Signature(s) = Signature(t)
    PROVE  Excluded(s) = Excluded(t)
  BY DEF Settled, Signature, Excluded

LEMMA RouteStep ==
    ASSUME GuardInv, Route
    PROVE  GuardInv'
  <1>. USE DEF GuardInv
  <1>0. TypeOK'
    BY TypeStep DEF Next, Guarding
  <1>1. /\ pc = "route" /\ pc' = "save"
        /\ UNCHANGED <<present, known, file, cur, window, probed, probes, todo, tried>>
    BY DEF Route, disk
  <1>2. tried' = {}
    BY <1>1, UntriedInv
  <1>3. torn' \/ live' = Excluded(cur)
    <2>1. CASE Forced \/ Signature(cur) # Signature(known)
      BY <2>1 DEF Route
    <2>2. CASE ~(Forced \/ Signature(cur) # Signature(known))
      <3>1. torn' = torn /\ live' = live
        BY <2>2 DEF Route, routing
      <3>2. file # "invalid" /\ Signature(cur) = Signature(known)
        BY <2>2 DEF Forced
      <3>3. Settled(cur) /\ Settled(known)
        BY <1>1, RunSettled DEF LiveInv
      <3>4. torn \/ live = Excluded(known)
        BY <1>1, <3>2 DEF LiveInv
      <3>5. Excluded(cur) = Excluded(known)
        BY <3>2, <3>3, SameSignature
      <3>. QED BY <3>1, <3>4, <3>5
    <2>. QED BY <2>1, <2>2
  <1>4. LiveInv'
    BY <1>1, <1>3, Primed DEF LiveInv
  <1>5. ListInv'
    <2>1. Listed' = Listed
      BY <1>1 DEF Listed
    <2>. QED BY <1>1, <2>1, Primed DEF ListInv, Working
  <1>6. KeepInv' /\ RestInv' /\ TriedInv' /\ AgeInv' /\ SlotInv' /\ WitnessInv'
    BY <1>1, <1>2, Primed DEF KeepInv, RestInv, TriedInv, AgeInv, SlotInv, WitnessInv, Working
  <1>. QED BY <1>0, <1>4, <1>5, <1>6

LEMMA EndedKeeps ==
    ASSUME Ended
    PROVE  RestInv' /\ ListInv' /\ AgeInv' /\ SlotInv' /\ TriedInv' /\ WitnessInv'
  BY DEF Ended, RestInv, ListInv, AgeInv, SlotInv, TriedInv, WitnessInv, Working

LEMMA NewSettled == Settled(NewState) /\ Excluded(NewState) = Nobody
  <1>1. Out(NewState) = {} /\ NewState.mems = Nobody
    BY DEF Out, NewState, New
  <1>. QED BY <1>1 DEF Settled, Excluded, Nobody

LEMMA EndStep ==
    ASSUME GuardInv, RouteFails \/ Save \/ ResetState \/ CutShort \/ Reboot
    PROVE  GuardInv'
  <1>. USE DEF GuardInv
  <1>0. TypeOK'
    BY TypeStep DEF Next, Guarding
  <1>1. Ended /\ pc' = "idle"
    BY DEF RouteFails, Save, ResetState, CutShort, Reboot, Ended
  <1>2. RestInv' /\ ListInv' /\ AgeInv' /\ SlotInv' /\ TriedInv' /\ WitnessInv'
    BY <1>1, EndedKeeps
  <1>3. CASE RouteFails
    <2>1. pc = "route" /\ UNCHANGED <<live, torn, known, file>>
      BY <1>3 DEF RouteFails, routing, disk
    <2>2. LiveInv' /\ KeepInv'
      BY <1>1, <2>1, Primed DEF LiveInv, KeepInv
    <2>. QED BY <1>0, <1>2, <2>2
  <1>4. CASE Save
    <2>1. /\ pc = "save" /\ known' = cur /\ file' = "present" /\ UNCHANGED <<live, torn>>
      BY <1>4 DEF Save, routing
    <2>2. Settled(cur)
      BY <2>1, RunSettled
    <2>3. torn \/ live = Excluded(cur)
      BY <2>1 DEF LiveInv
    <2>4. KeepsEnough(cur)
      BY <2>1 DEF KeepInv
    <2>5. LiveInv' /\ KeepInv'
      BY <1>1, <2>1, <2>2, <2>3, <2>4, Primed DEF LiveInv, KeepInv
    <2>. QED BY <1>0, <1>2, <2>5
  <1>5. CASE ResetState \/ Reboot
    <2>1. known' = NewState /\ file' = "missing" /\ live' = Nobody
      BY <1>5 DEF ResetState, Reboot, routing, LiveInv
    <2>2. LiveInv' /\ KeepInv'
      BY <1>1, <2>1, NewSettled, Primed DEF LiveInv, KeepInv
    <2>. QED BY <1>0, <1>2, <2>2
  <1>6. CASE CutShort
    <2>1. /\ UNCHANGED <<live, known, file>>
          /\ torn' = (torn \/ (pc \in {"save", "reset"} /\ live # Excluded(known)))
      BY <1>6 DEF CutShort, disk
    <2>2. LiveInv' /\ KeepInv'
      BY <1>1, <2>1, Primed DEF LiveInv, KeepInv
    <2>. QED BY <1>0, <1>2, <2>2
  <1>. QED BY <1>3, <1>4, <1>5, <1>6

(* Steps outside a run leave it alone.                                     *)
LEMMA IdleKeeps ==
    ASSUME RestInv, pc = "idle", pc' \in {"idle", "reset"},
           UNCHANGED <<probed, probes, todo, tried>>
    PROVE  RestInv' /\ ListInv' /\ AgeInv' /\ SlotInv' /\ TriedInv' /\ WitnessInv'
  BY DEF RestInv, ListInv, AgeInv, SlotInv, TriedInv, WitnessInv, Working

LEMMA TickFacts ==
    ASSUME TypeOK, Tick
    PROVE  /\ Out(known') = Out(known)
           /\ known'.mems = known.mems /\ known'.keep = known.keep
  <1>. DEFINE aged == [n \in Node |->
                        LET r == known.node[n] IN
                          [r EXCEPT !.age = IF @ < Oldest THEN @ + 1 ELSE @,
                                    !.wait = IF @ > 0 THEN @ - 1 ELSE 0]]
  <1>1. known' = [known EXCEPT !.node = aged]
    BY DEF Tick
  <1>2. known \in State /\ known.node \in [Node -> NodeState]
    BY StateParts DEF TypeOK
  <1>3. \A n \in Node : aged[n].st = known.node[n].st
    BY <1>2 DEF NodeState
  <1>. HIDE DEF aged
  <1>4. known'.node = aged /\ known'.mems = known.mems /\ known'.keep = known.keep
    BY <1>1, <1>2 DEF State
  <1>. QED BY <1>3, <1>4 DEF Out

LEMMA AroundStep ==
    ASSUME GuardInv, ResetRouting \/ Tick \/ Refresh \/ Apply \/ Upgrade
    PROVE  GuardInv'
  <1>. USE DEF GuardInv
  <1>0. TypeOK'
    BY TypeStep DEF Next, Guarding
  <1>1. pc = "idle" /\ pc' \in {"idle", "reset"} /\ UNCHANGED <<probed, probes, todo, tried>>
    BY DEF ResetRouting, Tick, Refresh, Apply, Upgrade, run
  <1>2. RestInv' /\ ListInv' /\ AgeInv' /\ SlotInv' /\ TriedInv' /\ WitnessInv'
    BY <1>1, IdleKeeps
  <1>3. CASE ResetRouting
    <2>1. pc' = "reset" /\ live' = Nobody /\ UNCHANGED <<known, file>>
      BY <1>3 DEF ResetRouting, disk
    <2>2. LiveInv' /\ KeepInv'
      BY <2>1, Primed DEF LiveInv, KeepInv
    <2>. QED BY <1>0, <1>2, <2>2
  <1>4. CASE Tick
    <2>1. pc' = "idle" /\ UNCHANGED <<live, torn, file>>
      BY <1>1, <1>4 DEF Tick, routing, run
    <2>2. /\ Out(known') = Out(known)
          /\ known'.mems = known.mems /\ known'.keep = known.keep
      BY <1>4, TickFacts
    <2>3. /\ Excluded(known') = Excluded(known)
          /\ Settled(known') <=> Settled(known)
          /\ KeepsEnough(known') <=> KeepsEnough(known)
      BY <2>2 DEF Excluded, Settled, KeepsEnough, Resorts, Floor
    <2>4. LiveInv' /\ KeepInv'
      BY <1>1, <2>1, <2>3, Primed DEF LiveInv, KeepInv
    <2>. QED BY <1>0, <1>2, <2>4
  <1>5. CASE Refresh
    <2>1. pc' = "idle" /\ UNCHANGED <<live, torn, known, file>>
      BY <1>1, <1>5 DEF Refresh, routing, disk, run
    <2>2. LiveInv' /\ KeepInv'
      BY <1>1, <2>1, Primed DEF LiveInv, KeepInv
    <2>. QED BY <1>0, <1>2, <2>2
  <1>6. CASE Apply
    <2>1. pc' = "idle" /\ live' = Excluded(known) /\ UNCHANGED <<known, file>>
      BY <1>1, <1>6 DEF Apply, disk, run
    <2>2. LiveInv' /\ KeepInv'
      BY <2>1, Primed DEF LiveInv, KeepInv
    <2>. QED BY <1>0, <1>2, <2>2
  <1>7. CASE Upgrade
    <2>1. pc' = "idle" /\ known' = NewState /\ file' = "invalid"
      BY <1>1, <1>7 DEF Upgrade, run
    <2>2. LiveInv' /\ KeepInv'
      BY <2>1, NewSettled, Primed DEF LiveInv, KeepInv
    <2>. QED BY <1>0, <1>2, <2>2
  <1>. QED BY <1>3, <1>4, <1>5, <1>6, <1>7

LEMMA GuardStep == GuardInv /\ [Next]_vars => GuardInv'
  <1>. SUFFICES ASSUME GuardInv, [Next]_vars PROVE GuardInv'
    OBVIOUS
  <1>1. CASE UNCHANGED vars
    <2>1. UNCHANGED <<present, live, torn, known, file, pc, cur, window, probed, probes,
                      todo, tried>>
      BY <1>1 DEF vars, routing, disk, run
    <2>2. TypeOK'
      BY <1>1, TypeStep DEF GuardInv
    <2>3. RestInv' /\ LiveInv' /\ KeepInv'
      BY <2>1, Primed DEF GuardInv, RestInv, LiveInv, KeepInv
    <2>4. ListInv' /\ AgeInv' /\ SlotInv'
      BY <2>1, Primed DEF GuardInv, ListInv, AgeInv, SlotInv, Listed, Overdue
    <2>5. Suspects' = Suspects /\ Suspect' = Suspect /\ Passing(Suspect)' = Passing(Suspect)
      BY <2>1, Primed DEF Suspects, Suspect, First, Passing, Companions, Fast
    <2>6. TriedInv' /\ WitnessInv'
      BY <2>1, <2>5, Primed DEF GuardInv, TriedInv, WitnessInv, Witness, Fast, Retaken
    <2>. QED BY <2>2, <2>3, <2>4, <2>6 DEF GuardInv
  <1>2. CASE Next
    BY <1>2, StartStep, MeasuringStep, DecideStep, RouteStep, EndStep, AroundStep
    DEF Next, Guarding, Measuring
  <1>. QED BY <1>1, <1>2

LEMMA GuardInit == Init => GuardInv
  <1>. SUFFICES ASSUME Init PROVE GuardInv
    OBVIOUS
  <1>1. /\ pc = "idle" /\ known = NewState /\ file = "missing" /\ live = Nobody
        /\ probed = {} /\ probes = 0 /\ todo = {} /\ tried = {}
    BY DEF Init, Idle
  <1>. QED BY <1>1, TypeInit, NewSettled DEF GuardInv, RestInv, ListInv, LiveInv, KeepInv,
        AgeInv, SlotInv, TriedInv, WitnessInv, Working

LEMMA GuardAlways == Spec => []GuardInv
  BY GuardInit, GuardStep, PTL DEF Spec

-----------------------------------------------------------------------------
(* The theorems                                                            *)

LEMMA FloorReached ==
    ASSUME NEW s \in State, NEW g \in Group, s.keep[g] \in Resorts(s, g)
    PROVE  Cardinality(s.mems[g] \ Excluded(s)[g]) >= Floor(s, g)
  <1>. DEFINE M == s.mems[g]
              out == M \cap Out(s)
              K == s.keep[g]
              left == Cardinality(M \ out)
              needed == IF Floor(s, g) > left THEN Floor(s, g) - left ELSE 0
  <1>1. IsFiniteSet(M) /\ M \subseteq Node
    BY Limits, FS_Subset DEF State
  <1>2. K \subseteq out /\ Cardinality(K) = needed
    BY DEF Resorts
  <1>3. IsFiniteSet(M \ out) /\ IsFiniteSet(K)
    BY <1>1, <1>2, FS_Subset
  <1>4. M \ Excluded(s)[g] = (M \ out) \cup K
    BY <1>2 DEF Excluded
  <1>5. (M \ out) \cap K = {}
    BY <1>2
  <1>6. left \in Nat /\ Cardinality(K) \in Nat /\ Cardinality(M) \in Nat
    BY <1>1, <1>3, FS_CardinalityType
  <1>7. Floor(s, g) \in Nat
    BY <1>6, Limits DEF Floor, Smaller
  <1>. HIDE DEF M, out, K
  <1>8. Cardinality((M \ out) \cup K) = left + Cardinality(K) - Cardinality((M \ out) \cap K)
    BY <1>3, FS_Union
  <1>9. Cardinality((M \ out) \cap K) = 0
    BY <1>5, FS_EmptySet
  <1>10. Cardinality(M \ Excluded(s)[g]) = left + needed - 0
    BY <1>2, <1>4, <1>8, <1>9, Zenon
  <1>. HIDE DEF left
  <1>11. left + needed - 0 >= Floor(s, g)
    BY <1>6, <1>7
  <1>. HIDE DEF needed
  <1>. QED BY <1>10, <1>11 DEF M

(* recomputeLastResorts keeps back as many quarantined members as a group  *)
(* lacks, and the overlay of an apply or of the run itself leaves them in: *)
(* after a run every group has the configured minimum of members, or all   *)
(* it has, whatever applies, resets and failed reloads came between.       *)
THEOREM GroupsKeepFloor == Spec => []FloorKept
  <1>1. GuardInv => FloorKept
    <2>. SUFFICES ASSUME GuardInv, pc = "idle", file = "present", ~torn, NEW g \in Group
                  PROVE  Cardinality(known.mems[g] \ live[g]) >= Floor(known, g)
      BY DEF FloorKept
    <2>1. live = Excluded(known) /\ known.keep[g] \in Resorts(known, g) /\ known \in State
      BY DEF GuardInv, LiveInv, KeepInv, KeepsEnough, TypeOK
    <2>. QED BY <2>1, FloorReached
  <1>. QED BY <1>1, GuardAlways, PTL

(* ProxyGuardRun rewrites mihomo's configuration only when the signature   *)
(* of its state changed: between runs mihomo nevertheless excludes exactly *)
(* the members the state says, unless a run or reset was cut short.        *)
THEOREM RoutingIsTheStates == Spec => []RoutingFollowsState
  <1>1. GuardInv => RoutingFollowsState
    BY DEF GuardInv, LiveInv, RoutingFollowsState
  <1>. QED BY <1>1, GuardAlways, PTL

(* urgentProbe's reservation: every run that found fleet members due       *)
(* measures one, or quarantines them all.                                  *)
THEOREM FleetIsReached == Spec => []FleetSlotIsUsed
  <1>1. GuardInv => FleetSlotIsUsed
    BY DEF GuardInv, SlotInv, FleetSlotIsUsed, Overdue
  <1>. QED BY <1>1, GuardAlways, PTL

(* confirmGuardSuspects: a run that quarantines somebody ends with a       *)
(* listed member, not quarantined, that was fast within the TTL.           *)
THEOREM SomebodyVouched == Spec => []QuarantineHasWitness
  <1>1. GuardInv => QuarantineHasWitness
    BY DEF GuardInv, WitnessInv, Witness, QuarantineHasWitness
  <1>. QED BY <1>1, GuardAlways, PTL
=============================================================================
