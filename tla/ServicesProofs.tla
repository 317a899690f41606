---------------------------- MODULE ServicesProofs ----------------------------
(***************************************************************************)
(* The services.  A friend of the mesh is dropped only when it has not     *)
(* answered for the TTL.  A release of mihomo that does not work cannot    *)
(* take the proxy down, for any releases, any of which work, and any       *)
(* number of commands.  In the test of a client's strategy, the strategy   *)
(* asked for is in force, and a session that stopped without an error left *)
(* nothing behind, for any strategies, sessions and switches.  Downloads   *)
(* keep their types; and so do the four together.                          *)
(***************************************************************************)
EXTENDS MCServices, TLAPS

-----------------------------------------------------------------------------
(* The mesh                                                                *)

Syncs == [on : BOOLEAN, peers : [Routers -> Peer], rows : SUBSET cast.ips,
          todo : SUBSET cast.ips, seen : SUBSET Routers, late : 0..1]

(* A daemon that runs has an address, so what a sync lists are addresses.  *)
WorldOK ==
    /\ run \in [Routers -> 0..cast.keys]
    /\ addr \in [Routers -> {0} \cup cast.ips]
    /\ live \in [Routers -> [Routers -> ({0} \cup cast.ips) \X (0..cast.keys)]]
    /\ \A r \in Routers : run[r] # 0 => addr[r] # 0

KeyOK == key \in [Routers -> 0..cast.keys]
PeersOK == peers \in [Routers -> [Routers -> Peer]]
SyncOK == /\ sync \in [Routers -> Syncs]
          /\ \A r \in Routers : sync[r].todo \subseteq sync[r].rows
MetOK == met \in [Routers -> [Routers -> Age]]

(* The copy a sync works on has the configuration's peers with the same    *)
(* stamps; those it has learned by itself have answered it.                *)
Followed ==
    \A r \in Routers : sync[r].on => \A h \in Routers :
      /\ Known(r, h) => /\ sync[r].peers[h] # NoPeer
                        /\ sync[r].peers[h].seen = peers[r][h].seen
      /\ ~Known(r, h) /\ sync[r].peers[h] # NoPeer => h \in sync[r].seen

(* An answer older than the sync's midnight is a day old.                  *)
Dated == \A r \in Routers : \A h \in Routers : sync[r].late <= met[r][h]

(* The stamp of a peer is never older than its last answer: presence on    *)
(* the overlay renews it as well.                                          *)
Stamped == \A r \in Routers : \A h \in Routers :
             Known(r, h) => peers[r][h].seen <= met[r][h]

MeshInv == /\ cast \in Casts /\ calm \in BOOLEAN
           /\ WorldOK /\ KeyOK /\ PeersOK /\ SyncOK /\ MetOK
           /\ Followed /\ Dated /\ Stamped

LEMMA MeshInvTypes == MeshInv => MeshTypeOK
BY DEF MeshInv, WorldOK, KeyOK, PeersOK, SyncOK, MetOK, Syncs, MeshTypeOK

-----------------------------------------------------------------------------
(* Casts, ages and records                                                 *)

LEMMA CastFacts ==
    ASSUME cast \in Casts
    PROVE  /\ cast.ips \subseteq Nat \ {0} /\ cast.keys \in Nat \ {0}
           /\ cast.joining \subseteq Routers /\ cast.syncing \subseteq Routers
           /\ cast.moving \subseteq Routers
           /\ cast.start \in [Routers -> {0} \cup cast.ips]
<1>1. cast \in Cast(cast.members) BY CastsAssumption
<1>2. cast.start \in [Routers -> Nat] BY <1>1 DEF Cast, Routers
<1>3. \A r \in Routers : cast.start[r] \in {0} \cup cast.ips BY CastsAssumption DEF Routers
<1> QED BY <1>1, <1>2, <1>3, CastsAssumption DEF Cast

LEMMA OlderFacts ==
    /\ Never \in Age /\ Age \subseteq Nat /\ 0 \in Age /\ 1 \in Age
    /\ \A a \in Age : Older(a) \in Age /\ 1 <= Older(a) /\ a <= Never
    /\ \A a \in Age : \A b \in Age : a <= b => Older(a) <= Older(b)
BY TTLAssumption DEF Age, Never, Older

LEMMA PeerFacts ==
    ASSUME cast \in Casts
    PROVE  /\ NoPeer \in Peer
           /\ \A p \in Peer : p.seen \in Age
           /\ \A ip \in cast.ips : \A a \in Age :
                [ip |-> ip, seen |-> a] \in Peer \ {NoPeer}
           /\ \A p \in Peer \ {NoPeer} : p \in [ip : cast.ips, seen : Age]
<1>1. 0 \notin cast.ips BY CastFacts
<1>2. \A ip \in cast.ips : \A a \in Age : [ip |-> ip, seen |-> a] # NoPeer
    BY <1>1 DEF NoPeer
<1> QED BY <1>2, OlderFacts DEF Peer, NoPeer

LEMMA NoSyncFacts ==
    ASSUME cast \in Casts
    PROVE  NoSync \in Syncs /\ NoSync.todo = {} /\ ~NoSync.on /\ NoSync.late = 0
BY PeerFacts DEF NoSync, Syncs
(* The updates of a sync's record.                                         *)
LEMMA SyncAged ==
    ASSUME NEW s \in Syncs, NEW a \in [Routers -> Peer]
    PROVE  [s EXCEPT !.peers = a, !.late = 1] \in Syncs
<1>1. [s EXCEPT !.late = 1] \in Syncs BY DEF Syncs
<1>2. \A u \in Syncs : [u EXCEPT !.peers = a] \in Syncs BY DEF Syncs
<1>3. [s EXCEPT !.peers = a, !.late = 1] = [[s EXCEPT !.late = 1] EXCEPT !.peers = a]
    BY DEF Syncs
<1> QED BY <1>1, <1>2, <1>3

LEMMA SyncAnswered ==
    ASSUME NEW s \in Syncs, NEW a \in [Routers -> Peer], NEW h \in Routers
    PROVE  [s EXCEPT !.seen = @ \cup {h}, !.peers = a] \in Syncs
<1>1. [s EXCEPT !.seen = @ \cup {h}] \in Syncs BY DEF Syncs
<1>2. \A u \in Syncs : [u EXCEPT !.peers = a] \in Syncs BY DEF Syncs
<1>3. [s EXCEPT !.seen = @ \cup {h}, !.peers = a]
        = [[s EXCEPT !.seen = @ \cup {h}] EXCEPT !.peers = a]
    BY DEF Syncs
<1> QED BY <1>1, <1>2, <1>3

-----------------------------------------------------------------------------
(* Applies                                                                 *)

LEMMA LoadsKeeps ==
    ASSUME MeshInv, NEW r \in Routers, NEW k \in 0..cast.keys,
           NEW ps \in [Routers -> Peer], Loads(r, k, ps), UNCHANGED cast
    PROVE  WorldOK'
<1>1. Routers' = Routers /\ cast' = cast BY DEF Routers
<1>2. Friends(k, ps) \in [Routers -> ({0} \cup cast.ips) \X (0..cast.keys)]
  <2>1. \A h \in Routers : ps[h] # NoPeer => ps[h].ip \in cast.ips BY PeerFacts DEF MeshInv
  <2> QED BY <2>1, CastFacts DEF Friends, NoFriend, MeshInv
<1>3. live' \in [Routers -> [Routers -> ({0} \cup cast.ips) \X (0..cast.keys)]]
    BY <1>2 DEF Loads, MeshInv, WorldOK
<1>4. run' \in [Routers -> 0..cast.keys] /\ run' = [run EXCEPT ![r] = k]
    BY DEF Loads, MeshInv, WorldOK
<1>5. PICK ip \in {0} \cup cast.ips :
        addr' = [addr EXCEPT ![r] = ip] /\ (k # 0 => ip # 0)
    BY CastFacts DEF Loads, FreeIPs, DaemonDirty, MeshInv, WorldOK
<1> QED BY <1>1, <1>3, <1>4, <1>5 DEF MeshInv, WorldOK

LEMMA SaveApplyKeeps ==
    ASSUME MeshInv, NEW r \in Routers, NEW k \in 0..cast.keys,
           NEW ps \in [Routers -> Peer], SaveApply(r, k, ps), UNCHANGED cast
    PROVE  /\ WorldOK' /\ KeyOK' /\ PeersOK'
           /\ \/ UNCHANGED <<key, peers>>
              \/ key' = [key EXCEPT ![r] = k] /\ peers' = [peers EXCEPT ![r] = ps]
<1>1. \/ key' = [key EXCEPT ![r] = k] /\ peers' = [peers EXCEPT ![r] = ps]
      \/ UNCHANGED <<key, peers>>
    BY DEF SaveApply
<1>2. KeyOK' /\ PeersOK' BY <1>1 DEF KeyOK, PeersOK, MeshInv, Routers, Peer
<1>3. WorldOK'
  <2>1. CASE Loads(r, k, ps) BY <2>1, LoadsKeeps
  <2>2. CASE UNCHANGED <<live, run, addr>> BY <2>2 DEF WorldOK, MeshInv, Routers
  <2> QED BY <2>1, <2>2 DEF SaveApply
<1> QED BY <1>1, <1>2, <1>3

-----------------------------------------------------------------------------
(* The steps                                                               *)

(* What a command of the user does: the peers stay, or all go.             *)
LEMMA CommandKeeps ==
    ASSUME MeshInv, NEW r \in Routers, NEW k \in 0..cast.keys,
           NEW ps \in {Nobody, peers[r]}, Command(r, k, ps)
    PROVE  /\ MeshInv'
           /\ \A x \in Routers : \A h \in Routers :
                Known(x, h) /\ ~Known(x, h)' => x = r /\ ps = Nobody /\ key'[r] = k
<1>1. ps \in [Routers -> Peer] BY PeerFacts DEF Nobody, MeshInv, PeersOK
<1>2. WorldOK' /\ KeyOK' /\ PeersOK' BY <1>1, SaveApplyKeeps DEF Command
<1>3. \/ UNCHANGED <<key, peers>>
      \/ key' = [key EXCEPT ![r] = k] /\ peers' = [peers EXCEPT ![r] = ps]
    BY <1>1, SaveApplyKeeps DEF Command
<1>4. \A x \in Routers : \A h \in Routers :
        peers'[x][h] = peers[x][h] \/ (x = r /\ peers'[x][h] = NoPeer /\ ps = Nobody
                                       /\ key'[r] = k)
    BY <1>3 DEF Nobody, MeshInv, PeersOK, KeyOK
<1>5. \A x \in Routers : \A h \in Routers : sync[x].on => peers'[x][h] = peers[x][h]
    BY <1>4 DEF Command
<1>6. SyncOK' /\ MetOK' /\ Dated'
    BY DEF Command, MeshInv, SyncOK, Syncs, MetOK, Dated, Routers, Peer
<1>7. Followed' BY <1>5 DEF Command, MeshInv, Followed, Known, Routers
<1>8. Stamped' BY <1>4 DEF Command, MeshInv, Stamped, Known, Routers
<1> QED BY <1>2, <1>4, <1>6, <1>7, <1>8 DEF MeshInv, Command, Known

LEMMA SyncStartKeeps == ASSUME MeshInv, NEW r \in Routers, SyncStart(r) PROVE MeshInv'
<1> DEFINE rows == {addr[h] : h \in Overlay(r)}
<1>1. rows \in SUBSET cast.ips BY CastFacts DEF Overlay, MeshInv, WorldOK
<1>2. sync' = [sync EXCEPT ![r] = [on |-> TRUE, peers |-> peers[r], rows |-> rows,
                                   todo |-> rows, seen |-> {}, late |-> 0]]
    BY DEF SyncStart
<1> HIDE DEF rows
<1>3. [on |-> TRUE, peers |-> peers[r], rows |-> rows, todo |-> rows, seen |-> {},
       late |-> 0] \in Syncs
    BY <1>1 DEF Syncs, MeshInv, PeersOK
<1>4. SyncOK' BY <1>2, <1>3 DEF SyncStart, MeshInv, SyncOK, Syncs, Routers, Peer
<1>5. WorldOK' /\ KeyOK' /\ PeersOK' /\ MetOK' /\ Stamped'
    BY DEF SyncStart, MeshInv, WorldOK, KeyOK, PeersOK, MetOK, Stamped, Known, Routers, Peer
<1>6. Followed'
    BY <1>2 DEF SyncStart, MeshInv, Followed, Known, Routers
<1>7. Dated' BY <1>2 DEF SyncStart, MeshInv, MetOK, Dated, Routers, Age
<1> QED BY <1>4, <1>5, <1>6, <1>7 DEF SyncStart, MeshInv

LEMMA ProbeKeeps ==
    ASSUME MeshInv, NEW r \in Routers, NEW ip \in cast.ips, Probe(r, ip) PROVE MeshInv'
<1>1. sync[r] \in Syncs /\ sync[r].on BY DEF MeshInv, SyncOK, Probe
<1> DEFINE s0 == [sync[r] EXCEPT !.todo = @ \ {ip}]
<1>2. s0 \in Syncs /\ s0.todo \subseteq sync[r].todo /\ s0.rows = sync[r].rows
      /\ s0.on /\ s0.late = sync[r].late /\ s0.seen = sync[r].seen
      /\ s0.peers = sync[r].peers
    BY <1>1 DEF Syncs
<1> HIDE DEF s0
<1>3. PICK s : /\ sync' = [sync EXCEPT ![r] = s]
               /\ s = s0 \/ \E h \in Routers : s = Answer(s0, h, ip)
  <2>1. PICK ok \in BOOLEAN :
          /\ ok => \E h \in Holder(r, ip) : key[h] = key[r]
          /\ sync' = [sync EXCEPT ![r] =
               IF ok THEN Answer(s0, CHOOSE h \in Holder(r, ip) : TRUE, ip) ELSE s0]
      BY DEF Probe, s0
  <2>2. ok => (CHOOSE h \in Holder(r, ip) : TRUE) \in Routers
      BY <2>1 DEF Holder, Overlay
  <2> QED BY <2>1, <2>2
<1> DEFINE Good(t) ==
      /\ t \in Syncs /\ t.todo \subseteq sync[r].todo /\ t.rows = sync[r].rows
      /\ t.on /\ t.late = sync[r].late /\ sync[r].seen \subseteq t.seen
      /\ \A h \in Routers :
           \/ t.peers[h] = sync[r].peers[h]
           \/ /\ h \in t.seen /\ t.peers[h] # NoPeer
              /\ sync[r].peers[h] # NoPeer => t.peers[h].seen = sync[r].peers[h].seen
<1>4. Good(s)
  <2>1. CASE s = s0 BY <1>2, <2>1
  <2>2. ASSUME NEW h \in Routers, s = Answer(s0, h, ip) PROVE Good(s)
    <3> DEFINE p == [ip |-> ip, seen |-> IF s0.peers[h] = NoPeer THEN Never
                                         ELSE s0.peers[h].seen]
    <3>1. p \in Peer \ {NoPeer}
        BY <1>2, PeerFacts, OlderFacts DEF Syncs, MeshInv
    <3>2. p.seen = s0.peers[h].seen \/ s0.peers[h] = NoPeer OBVIOUS
    <3>3. Learned(s0.peers, h, ip) = [s0.peers EXCEPT ![h] = p]
        BY <1>2 DEF Learned
    <3> HIDE DEF p
    <3>4. /\ s.todo = s0.todo /\ s.rows = s0.rows /\ s.on = s0.on
          /\ s.late = s0.late /\ s.seen = s0.seen \cup {h}
          /\ s.peers = [s0.peers EXCEPT ![h] = p]
        BY <1>2, <2>2, <3>3 DEF Syncs, Answer
    <3>5. s \in Syncs
      <4>1. [s0.peers EXCEPT ![h] = p] \in [Routers -> Peer] BY <1>2, <3>1 DEF Syncs
      <4> QED BY <1>2, <2>2, <3>3, <4>1, SyncAnswered DEF Answer
    <3> QED BY <1>2, <3>1, <3>2, <3>4, <3>5
  <2> QED BY <1>3, <2>1, <2>2
<1>5. SyncOK' BY <1>3, <1>4 DEF Probe, MeshInv, SyncOK, Syncs, Routers, Peer
<1>6. WorldOK' /\ KeyOK' /\ PeersOK' /\ MetOK' /\ Stamped'
    BY DEF Probe, MeshInv, WorldOK, KeyOK, PeersOK, MetOK, Stamped, Known, Routers, Peer
<1>7. Followed'
  <2>1. UNCHANGED <<cast, peers>> /\ Routers' = Routers BY DEF Probe, Routers
  <2>2. \A h \in Routers :
          /\ Known(r, h) => s.peers[h] # NoPeer /\ s.peers[h].seen = peers[r][h].seen
          /\ ~Known(r, h) /\ s.peers[h] # NoPeer => h \in s.seen
      BY <1>1, <1>4 DEF MeshInv, Followed
  <2>3. \A x \in Routers \ {r} : sync'[x] = sync[x] BY <1>3
  <2>4. sync'[r] = s BY <1>3 DEF MeshInv, SyncOK
  <2> QED BY <2>1, <2>2, <2>3, <2>4 DEF MeshInv, Followed, Known
<1>8. Dated' BY <1>3, <1>4 DEF Probe, MeshInv, Dated, Routers
<1> QED BY <1>5, <1>6, <1>7, <1>8 DEF Probe, MeshInv

(* A sync that ends, for whatever reason.                                  *)
LEMMA NoSyncKeeps ==
    ASSUME MeshInv, NEW r \in Routers, UNCHANGED <<cast, peers, met>>,
           sync' = [sync EXCEPT ![r] = NoSync]
    PROVE  SyncOK' /\ PeersOK' /\ MetOK' /\ Followed' /\ Dated' /\ Stamped'
<1>1. NoSync \in Syncs /\ NoSync.todo = {} /\ ~NoSync.on /\ NoSync.late = 0
    BY NoSyncFacts DEF MeshInv
<1>2. SyncOK' BY <1>1 DEF MeshInv, SyncOK, Syncs, Routers, Peer
<1>3. PeersOK' /\ MetOK' /\ Stamped'
    BY DEF MeshInv, PeersOK, MetOK, Stamped, Known, Routers, Peer
<1>4. Followed' BY <1>1 DEF MeshInv, Followed, Known, Routers
<1>5. Dated' BY <1>1 DEF MeshInv, MetOK, Dated, Routers, Age
<1> QED BY <1>2, <1>3, <1>4, <1>5

LEMMA SyncAbortKeeps == ASSUME MeshInv, NEW r \in Routers, SyncAbort(r) PROVE MeshInv'
<1>1. SyncOK' /\ PeersOK' /\ MetOK' /\ Followed' /\ Dated' /\ Stamped'
    BY NoSyncKeeps DEF SyncAbort
<1> QED BY <1>1 DEF SyncAbort, MeshInv, WorldOK, KeyOK, Routers

LEMMA PowerOffKeeps == ASSUME MeshInv, NEW r \in Routers, PowerOff(r) PROVE MeshInv'
<1>1. SyncOK' /\ PeersOK' /\ MetOK' /\ Followed' /\ Dated' /\ Stamped'
    BY NoSyncKeeps DEF PowerOff
<1>2. WorldOK' /\ KeyOK'
    BY CastFacts DEF PowerOff, MeshInv, WorldOK, KeyOK, Routers
<1> QED BY <1>1, <1>2 DEF PowerOff, MeshInv

(* What moves only the daemon and mihomo leaves every record as it was.    *)
LEMMA RecordsStay ==
    ASSUME MeshInv, UNCHANGED <<cast, peers, sync, met>>
    PROVE  SyncOK' /\ PeersOK' /\ MetOK' /\ Followed' /\ Dated' /\ Stamped'
BY DEF MeshInv, SyncOK, Syncs, PeersOK, MetOK, Followed, Dated, Stamped, Known, Routers, Peer

LEMMA PowerOnKeeps == ASSUME MeshInv, NEW r \in Routers, PowerOn(r) PROVE MeshInv'
<1>1. SyncOK' /\ PeersOK' /\ MetOK' /\ Followed' /\ Dated' /\ Stamped'
    BY RecordsStay DEF PowerOn
<1>2. WorldOK' /\ KeyOK'
    BY CastFacts DEF PowerOn, FreeIPs, MeshInv, WorldOK, KeyOK, Routers
<1> QED BY <1>1, <1>2 DEF PowerOn, MeshInv

LEMMA ApplyAgainKeeps == ASSUME MeshInv, NEW r \in Routers, ApplyAgain(r) PROVE MeshInv'
<1>1. SyncOK' /\ PeersOK' /\ MetOK' /\ Followed' /\ Dated' /\ Stamped'
    BY RecordsStay DEF ApplyAgain
<1>2. WorldOK' BY LoadsKeeps DEF ApplyAgain, MeshInv, KeyOK, PeersOK
<1> QED BY <1>1, <1>2 DEF ApplyAgain, MeshInv, KeyOK, Routers

LEMMA CalmDownKeeps == ASSUME MeshInv, CalmDown PROVE MeshInv'
<1>1. SyncOK' /\ PeersOK' /\ MetOK' /\ Followed' /\ Dated' /\ Stamped'
    BY RecordsStay DEF CalmDown
<1> QED BY <1>1 DEF CalmDown, MeshInv, WorldOK, KeyOK, Routers


(* What the garbage collection leaves of a sync's copy.                    *)
LEMMA CollectedFacts ==
    ASSUME cast \in Casts, NEW s \in Syncs
    PROVE  /\ Collected(s) \in [Routers -> Peer]
           /\ \A h \in Routers :
                /\ s.peers[h] = NoPeer => Collected(s)[h] = NoPeer
                /\ s.peers[h] # NoPeer /\ Collected(s)[h] = NoPeer =>
                     s.peers[h].seen >= TTL + s.late
                /\ Collected(s)[h] # NoPeer =>
                     \/ Collected(s)[h].seen = s.late
                     \/ h \notin s.seen /\ Collected(s)[h] = s.peers[h]
<1>1. \A h \in Routers : s.peers[h] \in Peer /\ s.late \in Age
    BY OlderFacts DEF Syncs
<1>2. \A p \in Peer \ {NoPeer} : Stamp(s, p) \in Peer \ {NoPeer} /\ Stamp(s, p).seen = s.late
  <2>1. TAKE p \in Peer \ {NoPeer}
  <2>2. p \in [ip : cast.ips, seen : Age] /\ s.late \in Age
      BY PeerFacts, OlderFacts DEF Syncs
  <2>3. Stamp(s, p) = [ip |-> p.ip, seen |-> s.late] BY <2>2 DEF Stamp
  <2> QED BY <2>2, <2>3, PeerFacts
<1>3. \A h \in Routers :
        Collected(s)[h] = CASE s.peers[h] = NoPeer -> NoPeer
         [] s.peers[h] # NoPeer /\ Present(s, h) -> Stamp(s, s.peers[h])
         [] s.peers[h] # NoPeer /\ ~Present(s, h) ->
              IF s.peers[h].seen >= TTL + s.late THEN NoPeer ELSE s.peers[h]
    BY DEF Collected
<1>4. \A h \in Routers : s.peers[h] = NoPeer => Collected(s)[h] = NoPeer BY <1>3
<1>5. \A h \in Routers : s.peers[h] # NoPeer /\ Present(s, h) =>
        Collected(s)[h] = Stamp(s, s.peers[h])
    BY <1>3
<1>6. \A h \in Routers : s.peers[h] # NoPeer /\ ~Present(s, h) =>
        Collected(s)[h] = IF s.peers[h].seen >= TTL + s.late THEN NoPeer ELSE s.peers[h]
    BY <1>3
<1>7. \A h \in Routers : ~Present(s, h) => h \notin s.seen BY DEF Present
<1>8. ASSUME NEW h \in Routers PROVE Collected(s)[h] \in Peer
    BY <1>1, <1>2, <1>4, <1>5, <1>6, PeerFacts
<1>9. Collected(s) \in [Routers -> Peer] BY <1>8 DEF Collected
<1> QED BY <1>1, <1>2, <1>4, <1>5, <1>6, <1>7, <1>9

(* A sync that is done: its copy is saved, or nothing is; whoever it drops *)
(* has not answered since TTL midnights or more.                           *)
LEMMA SyncDoneKeeps ==
    ASSUME MeshInv, NEW r \in Routers, SyncDone(r)
    PROVE  /\ MeshInv'
           /\ \A x \in Routers : \A h \in Routers :
                Known(x, h) /\ ~Known(x, h)' => met[x][h] >= TTL
<1> DEFINE s == sync[r]
           ps == Collected(s)
<1>1. s \in Syncs /\ s.on /\ s.late \in Nat BY DEF SyncDone, MeshInv, SyncOK, Syncs
<1>2. /\ ps \in [Routers -> Peer]
      /\ \A h \in Routers :
           /\ s.peers[h] = NoPeer => ps[h] = NoPeer
           /\ s.peers[h] # NoPeer /\ ps[h] = NoPeer => s.peers[h].seen >= TTL + s.late
           /\ ps[h] # NoPeer => \/ ps[h].seen = s.late
                                \/ h \notin s.seen /\ ps[h] = s.peers[h]
    BY <1>1, CollectedFacts DEF MeshInv
<1>3. /\ UNCHANGED <<cast, calm>> /\ Routers' = Routers
      /\ sync' = [sync EXCEPT ![r] = NoSync]
      /\ met' = [met EXCEPT ![r] = [h \in Routers |->
                   IF ps[h] = NoPeer THEN Never
                   ELSE IF h \in s.seen /\ peers'[r] = ps THEN s.late ELSE met[r][h]]]
      /\ SaveApply(r, key[r], ps) \/ (ps = peers[r] /\ UNCHANGED <<key, peers, live, run, addr>>)
    BY DEF SyncDone, Routers
<1> HIDE DEF ps
<1>4. key[r] \in 0..cast.keys BY DEF MeshInv, KeyOK
<1>5. WorldOK' /\ KeyOK' /\ PeersOK'
    BY <1>2, <1>3, <1>4, SaveApplyKeeps DEF MeshInv, WorldOK, KeyOK, PeersOK, Peer
<1>6. \/ peers' = peers
      \/ peers'[r] = ps /\ \A x \in Routers \ {r} : peers'[x] = peers[x]
    BY <1>2, <1>3, <1>4, SaveApplyKeeps DEF PeersOK
<1> HIDE DEF s
<1>7. \A h \in Routers : met'[r][h] = IF ps[h] = NoPeer THEN Never
                    ELSE IF h \in s.seen /\ peers'[r] = ps THEN s.late ELSE met[r][h]
    BY <1>3 DEF MeshInv, MetOK
<1>8. \A x \in Routers \ {r} : met'[x] = met[x] /\ sync'[x] = sync[x]
    BY <1>3
<1>9. MetOK'
  <2>1. \A h \in Routers : met[r][h] \in Age BY DEF MeshInv, MetOK
  <2>2. s.late \in Age BY <1>1, OlderFacts DEF Syncs
  <2>3. \A h \in Routers : met'[r][h] \in Age BY <1>7, <2>1, <2>2, OlderFacts
  <2> QED BY <1>3, <2>3 DEF MeshInv, MetOK
<1>10. \A h \in Routers : s.late <= met[r][h] BY DEF s, MeshInv, Dated
<1>11. ASSUME NEW h \in Routers, ps[h] # NoPeer, h \notin s.seen
       PROVE  ps[h].seen <= met[r][h]
  <2>1. CASE ps[h].seen = s.late BY <1>10, <2>1
  <2>2. CASE ps[h] = s.peers[h]
    <3>1. s.peers[h] # NoPeer BY <1>11, <2>2
    <3>2. Known(r, h) /\ s.peers[h].seen = peers[r][h].seen
        BY <1>1, <1>11, <3>1 DEF s, MeshInv, Followed
    <3> QED BY <2>2, <3>2 DEF MeshInv, Stamped
  <2> QED BY <1>2, <1>11, <2>1, <2>2
<1>12. ASSUME NEW h \in Routers, Known(r, h), ps[h] = NoPeer PROVE met[r][h] >= TTL
  <2>1. s.peers[h] # NoPeer /\ s.peers[h].seen = peers[r][h].seen
      BY <1>1, <1>12 DEF s, MeshInv, Followed
  <2>2. peers[r][h].seen <= met[r][h] BY <1>12 DEF MeshInv, Stamped
  <2>3. s.peers[h].seen >= TTL + s.late BY <1>2, <1>12, <2>1
  <2>4. peers[r][h].seen \in Nat /\ met[r][h] \in Nat
      BY PeerFacts, OlderFacts DEF MeshInv, PeersOK, MetOK
  <2> QED BY <1>1, <2>1, <2>2, <2>3, <2>4, TTLAssumption
<1>13. Stamped'
  <2>1. ASSUME NEW h \in Routers, Known(r, h)' PROVE peers'[r][h].seen <= met'[r][h]
    <3>1. CASE peers'[r] = ps
      <4>1. ps[h] # NoPeer BY <2>1, <3>1 DEF Known
      <4>2. CASE h \in s.seen BY <1>1, <1>2, <1>7, <3>1, <4>1, <4>2
      <4>3. CASE h \notin s.seen BY <1>7, <1>11, <3>1, <4>1, <4>3
      <4> QED BY <4>2, <4>3
    <3>2. CASE peers' = peers /\ peers'[r] # ps
      <4>1. Known(r, h) /\ peers[r][h].seen <= met[r][h]
          BY <2>1, <3>2 DEF Known, MeshInv, Stamped
      <4>2. peers[r][h].seen <= Never
          BY PeerFacts, OlderFacts DEF MeshInv, PeersOK
      <4> QED BY <1>7, <3>2, <4>1, <4>2
    <3> QED BY <1>6, <3>1, <3>2
  <2>2. ASSUME NEW x \in Routers \ {r}, NEW h \in Routers, Known(x, h)'
        PROVE  peers'[x][h].seen <= met'[x][h]
      BY <1>6, <1>8, <2>2 DEF Known, MeshInv, Stamped
  <2> QED BY <1>3, <2>1, <2>2 DEF Stamped
<1>14. SyncOK' /\ Followed' /\ Dated'
  <2>1. NoSync \in Syncs /\ NoSync.todo = {} /\ ~NoSync.on /\ NoSync.late = 0
      BY NoSyncFacts DEF MeshInv
  <2>2. sync'[r] = NoSync BY <1>3 DEF MeshInv, SyncOK
  <2>3. SyncOK' BY <1>3, <2>1 DEF MeshInv, SyncOK, Syncs, Peer
  <2>4. Followed' BY <1>3, <1>6, <1>8, <2>1, <2>2 DEF MeshInv, Followed, Known
  <2>5. Dated'
    <3>1. \A h \in Routers : sync'[r].late <= met'[r][h]
      <4>1. \A h \in Routers : met'[r][h] \in Nat BY <1>3, <1>9, OlderFacts DEF MetOK
      <4> QED BY <2>1, <2>2, <4>1
    <3>2. \A x \in Routers \ {r} : \A h \in Routers : sync'[x].late <= met'[x][h]
        BY <1>8 DEF MeshInv, Dated
    <3> QED BY <1>3, <3>1, <3>2 DEF Dated
  <2> QED BY <2>3, <2>4, <2>5
<1> QED BY <1>3, <1>5, <1>6, <1>9, <1>12, <1>13, <1>14 DEF MeshInv, Known


(* Midnight: stamps, answers and the syncs' copies grow older together.    *)
LEMMA AgedFacts ==
    ASSUME cast \in Casts, NEW ps \in [Routers -> Peer]
    PROVE  /\ Aged(ps) \in [Routers -> Peer]
           /\ \A h \in Routers :
                /\ Aged(ps)[h] = NoPeer <=> ps[h] = NoPeer
                /\ ps[h] # NoPeer => Aged(ps)[h].seen = Older(ps[h].seen)
<1> DEFINE Old(p) == [p EXCEPT !.seen = Older(@)]
<1>1. ASSUME NEW p \in Peer \ {NoPeer}
      PROVE  Old(p) \in Peer \ {NoPeer} /\ Old(p).seen = Older(p.seen)
  <2>1. p \in [ip : cast.ips, seen : Age] /\ Older(p.seen) \in Age
      BY PeerFacts, OlderFacts
  <2>2. Old(p) = [ip |-> p.ip, seen |-> Older(p.seen)] BY <2>1
  <2> QED BY <2>1, <2>2, PeerFacts
<1>2. Aged(ps) = [h \in Routers |-> IF ps[h] = NoPeer THEN NoPeer ELSE Old(ps[h])]
    BY DEF Aged
<1> HIDE DEF Old
<1>3. \A h \in Routers : ps[h] \in Peer OBVIOUS
<1>4. Aged(ps) \in [Routers -> Peer] BY <1>1, <1>2, <1>3, PeerFacts
<1> QED BY <1>1, <1>2, <1>3, <1>4

LEMMA DayKeeps ==
    ASSUME MeshInv, Day
    PROVE  /\ MeshInv'
           /\ \A r \in Routers : \A h \in Routers : Known(r, h) => Known(r, h)'
<1>1. UNCHANGED <<cast, key, run, addr, live, calm>> /\ Routers' = Routers
    BY DEF Day, Routers
<1>2. \A r \in Routers :
        /\ sync[r] \in Syncs /\ sync[r].late = 0
        /\ sync[r].on => sync'[r] = [sync[r] EXCEPT !.peers = Aged(@), !.late = 1]
        /\ ~sync[r].on => sync'[r] = NoSync
    BY DEF Day, MeshInv, SyncOK
<1>3. WorldOK' /\ KeyOK' BY <1>1 DEF MeshInv, WorldOK, KeyOK
<1>4. \A r \in Routers :
        /\ peers'[r] = Aged(peers[r])
        /\ Aged(peers[r]) \in [Routers -> Peer]
        /\ \A h \in Routers :
             /\ Aged(peers[r])[h] = NoPeer <=> peers[r][h] = NoPeer
             /\ peers[r][h] # NoPeer => Aged(peers[r])[h].seen = Older(peers[r][h].seen)
    BY AgedFacts DEF Day, MeshInv, PeersOK
<1>5. ASSUME NEW r \in Routers, sync[r].on
      PROVE  /\ sync'[r] \in Syncs /\ sync'[r].todo = sync[r].todo
             /\ sync'[r].rows = sync[r].rows /\ sync'[r].seen = sync[r].seen
             /\ sync'[r].on /\ sync'[r].late = 1
             /\ \A h \in Routers :
                  /\ sync'[r].peers[h] = NoPeer <=> sync[r].peers[h] = NoPeer
                  /\ sync[r].peers[h] # NoPeer =>
                       sync'[r].peers[h].seen = Older(sync[r].peers[h].seen)
  <2>1. sync[r] \in Syncs /\ sync[r].peers \in [Routers -> Peer] BY <1>2 DEF Syncs
  <2>2. sync'[r] = [sync[r] EXCEPT !.peers = Aged(sync[r].peers), !.late = 1]
      BY <1>2, <1>5
  <2>3. /\ Aged(sync[r].peers) \in [Routers -> Peer]
        /\ \A h \in Routers :
             /\ Aged(sync[r].peers)[h] = NoPeer <=> sync[r].peers[h] = NoPeer
             /\ sync[r].peers[h] # NoPeer =>
                  Aged(sync[r].peers)[h].seen = Older(sync[r].peers[h].seen)
      BY <2>1, AgedFacts DEF MeshInv
  <2> DEFINE a == Aged(sync[r].peers)
  <2> HIDE DEF a
  <2>4. sync'[r] = [sync[r] EXCEPT !.peers = a, !.late = 1] /\ a \in [Routers -> Peer]
      BY <2>2, <2>3 DEF a
  <2> DEFINE s == [sync[r] EXCEPT !.peers = a, !.late = 1]
  <2>5. /\ s.todo = sync[r].todo /\ s.rows = sync[r].rows /\ s.seen = sync[r].seen
        /\ s.on /\ s.late = 1 /\ s.peers = a
      BY <1>5, <2>1
  <2>6. s \in Syncs BY <2>1, <2>4, SyncAged
  <2> HIDE DEF s
  <2> QED BY <2>3, <2>4, <2>5, <2>6 DEF a, s
<1>6. NoSync \in Syncs /\ NoSync.todo = {} /\ ~NoSync.on /\ NoSync.late = 0
    BY NoSyncFacts DEF MeshInv
<1>7. PeersOK'
  <2>1. peers' = [r \in Routers |-> Aged(peers[r])] BY DEF Day
  <2> QED BY <1>1, <1>4, <2>1 DEF PeersOK, Peer
<1>8. MetOK'
  <2>1. met' = [r \in Routers |-> [h \in Routers |-> Older(met[r][h])]] BY DEF Day
  <2> QED BY <1>1, <2>1, OlderFacts DEF MeshInv, MetOK
<1>9. SyncOK'
  <2>1. sync' = [r \in Routers |-> sync'[r]] BY DEF Day
  <2>2. \A r \in Routers : sync'[r] \in Syncs BY <1>2, <1>5, <1>6
  <2>3. \A r \in Routers : sync'[r].todo \subseteq sync'[r].rows
      BY <1>2, <1>5, <1>6 DEF MeshInv, SyncOK
  <2>4. Syncs' = Syncs BY <1>1 DEF Syncs, Peer
  <2> QED BY <1>1, <2>1, <2>2, <2>3, <2>4 DEF SyncOK
<1>10. \A r \in Routers : \A h \in Routers :
         /\ Known(r, h)' <=> Known(r, h)
         /\ Known(r, h) => peers'[r][h].seen = Older(peers[r][h].seen)
    BY <1>4 DEF Known
<1>11. Followed'
  <2>1. ASSUME NEW r \in Routers, sync'[r].on, NEW h \in Routers
        PROVE  /\ Known(r, h)' => /\ sync'[r].peers[h] # NoPeer
                                  /\ sync'[r].peers[h].seen = peers'[r][h].seen
               /\ ~Known(r, h)' /\ sync'[r].peers[h] # NoPeer => h \in sync'[r].seen
    <3>1. sync[r].on BY <1>2, <1>6, <2>1
    <3>2. /\ Known(r, h) => /\ sync[r].peers[h] # NoPeer
                            /\ sync[r].peers[h].seen = peers[r][h].seen
          /\ ~Known(r, h) /\ sync[r].peers[h] # NoPeer => h \in sync[r].seen
        BY <3>1 DEF MeshInv, Followed
    <3> QED BY <1>5, <1>10, <3>1, <3>2
  <2> QED BY <1>1, <2>1 DEF Followed
<1>12. Dated'
  <2>1. \A r \in Routers : \A h \in Routers :
          met[r][h] \in Age /\ met'[r][h] >= 1
      BY OlderFacts DEF Day, MeshInv, MetOK
  <2>2. \A r \in Routers : sync'[r].late \in {0, 1} BY <1>2, <1>5, <1>6
  <2>3. \A r \in Routers : \A h \in Routers : met'[r][h] \in Nat
      BY <1>1, <1>8, OlderFacts DEF MetOK
  <2> QED BY <1>1, <2>1, <2>2, <2>3 DEF Dated
<1>13. Stamped'
  <2>1. \A r \in Routers : \A h \in Routers : Known(r, h) =>
          peers[r][h].seen \in Age /\ met[r][h] \in Age
      BY PeerFacts DEF MeshInv, PeersOK, MetOK
  <2>2. \A r \in Routers : \A h \in Routers : met'[r][h] = Older(met[r][h]) BY DEF Day
  <2>3. ASSUME NEW r \in Routers, NEW h \in Routers, Known(r, h)'
        PROVE  peers'[r][h].seen <= met'[r][h]
    <3>1. Known(r, h) /\ peers'[r][h].seen = Older(peers[r][h].seen) BY <1>10, <2>3
    <3>2. peers[r][h].seen <= met[r][h] BY <3>1 DEF MeshInv, Stamped
    <3> QED BY <2>1, <2>2, <3>1, <3>2, OlderFacts
  <2> QED BY <1>1, <2>3 DEF Stamped
<1> QED BY <1>1, <1>3, <1>7, <1>8, <1>9, <1>10, <1>11, <1>12, <1>13 DEF MeshInv

-----------------------------------------------------------------------------
(* The theorems                                                            *)

LEMMA MeshInitInv == MeshInit => MeshInv
<1> SUFFICES ASSUME MeshInit PROVE MeshInv OBVIOUS
<1>1. cast \in Casts /\ calm \in BOOLEAN BY DEF MeshInit
<1>2. WorldOK
  <2>1. addr \in [Routers -> {0} \cup cast.ips] BY <1>1, CastFacts DEF MeshInit
  <2>2. run \in [Routers -> 0..cast.keys] BY <1>1, CastFacts DEF MeshInit
  <2>3. live \in [Routers -> [Routers -> ({0} \cup cast.ips) \X (0..cast.keys)]]
      BY <1>1, CastFacts DEF MeshInit, NoFriend
  <2>4. \A r \in Routers : run[r] # 0 => addr[r] # 0 BY DEF MeshInit
  <2> QED BY <2>1, <2>2, <2>3, <2>4 DEF WorldOK
<1>3. KeyOK BY <1>1, CastFacts DEF MeshInit, KeyOK
<1>4. PeersOK BY <1>1, PeerFacts DEF MeshInit, PeersOK
<1>5. SyncOK BY <1>1, NoSyncFacts DEF MeshInit, SyncOK
<1>6. MetOK BY OlderFacts DEF MeshInit, MetOK
<1>7. Followed BY <1>1, NoSyncFacts DEF MeshInit, Followed
<1>8. Dated BY <1>1, NoSyncFacts, OlderFacts DEF MeshInit, Dated
<1>9. Stamped BY DEF MeshInit, Stamped, Known
<1> QED BY <1>1, <1>2, <1>3, <1>4, <1>5, <1>6, <1>7, <1>8, <1>9 DEF MeshInv

(* Only a sync forgets somebody while the router stays in the mesh.        *)
Forgets == \A r \in Routers : \A h \in Routers :
             Known(r, h) /\ ~Known(r, h)' /\ key'[r] # 0 => met[r][h] >= TTL

LEMMA MeshStep == MeshInv /\ [MeshNext]_meshVars => MeshInv' /\ Forgets
<1> SUFFICES ASSUME MeshInv, [MeshNext]_meshVars PROVE MeshInv' /\ Forgets OBVIOUS
<1>1. ASSUME UNCHANGED peers PROVE Forgets BY <1>1 DEF Forgets, Known
<1>2. ASSUME NEW r \in Routers, SyncStep(r) PROVE MeshInv' /\ Forgets
  <2>1. CASE SyncStart(r) BY <1>1, <2>1, SyncStartKeeps DEF SyncStart
  <2>2. CASE \E ip \in cast.ips : Probe(r, ip) BY <1>1, <2>2, ProbeKeeps DEF Probe
  <2>3. CASE SyncDone(r) BY <2>3, SyncDoneKeeps DEF Forgets
  <2> QED BY <1>2, <2>1, <2>2, <2>3 DEF SyncStep
<1>3. ASSUME NEW r \in Routers,
             SyncAbort(r) \/ ApplyAgain(r) \/ PowerOff(r) \/ PowerOn(r)
      PROVE  MeshInv' /\ Forgets
  <2>1. MeshInv' BY <1>3, SyncAbortKeeps, ApplyAgainKeeps, PowerOffKeeps, PowerOnKeeps
  <2>2. UNCHANGED peers BY <1>3 DEF SyncAbort, ApplyAgain, PowerOff, PowerOn
  <2> QED BY <1>1, <2>1, <2>2
<1>4. ASSUME NEW r \in Routers, MeshLeave(r) \/ MeshJoin(r) \/ MeshRotate(r)
      PROVE  MeshInv' /\ Forgets
  <2>1. cast.keys \in Nat /\ \A h \in Routers : key[h] \in 0..cast.keys
      BY CastFacts DEF MeshInv, KeyOK
  <2>2. PICK k \in 0..cast.keys, ps \in {Nobody, peers[r]} :
          Command(r, k, ps) /\ (ps = peers[r] \/ k = 0)
      BY <1>4, <2>1 DEF MeshLeave, MeshJoin, MeshRotate
  <2>3. /\ MeshInv'
        /\ \A x \in Routers : \A h \in Routers :
             Known(x, h) /\ ~Known(x, h)' => x = r /\ ps = Nobody /\ key'[r] = k
      BY <2>2, CommandKeeps
  <2> QED BY <2>2, <2>3 DEF Forgets, Nobody, Known
<1>5. CASE Day BY <1>5, DayKeeps DEF Forgets
<1>6. CASE CalmDown BY <1>1, <1>6, CalmDownKeeps DEF CalmDown
<1>7. CASE UNCHANGED meshVars
  <2>1. SyncOK' /\ PeersOK' /\ MetOK' /\ Followed' /\ Dated' /\ Stamped'
      BY <1>7, RecordsStay DEF meshVars
  <2>2. MeshInv' BY <1>7, <2>1 DEF meshVars, MeshInv, WorldOK, KeyOK, Routers
  <2> QED BY <1>1, <1>7, <2>2 DEF meshVars
<1> QED BY <1>2, <1>3, <1>4, <1>5, <1>6, <1>7 DEF MeshNext

LEMMA MeshAlways == MeshSpec => []MeshInv
<1>1. MeshInv /\ [MeshNext]_meshVars => MeshInv' BY MeshStep
<1> QED BY <1>1, MeshInitInv, PTL DEF MeshSpec

(* Every variable of the mesh keeps its type (internal/mesh, mesh_sync.go).*)
THEOREM MeshTypes == MeshSpec => []MeshTypeOK
BY MeshAlways, MeshInvTypes, PTL

(* OnlyAbsentDropped: meshGCPeers drops a peer only when TTL midnights or  *)
(* more have passed since the last completed sync that had its answer,     *)
(* whatever addresses it had, however many syncs failed, died or met       *)
(* midnight, and whoever else came and went.                               *)
THEOREM FriendsAreKept == MeshSpec => OnlyAbsentDropped
<1>1. MeshInv /\ [MeshNext]_meshVars
        => [\A r \in Routers : \A h \in Dropped(r) : met[r][h] >= TTL]_meshVars
  BY MeshStep DEF Forgets, Dropped
<1> QED BY <1>1, MeshAlways, PTL DEF MeshSpec, OnlyAbsentDropped

-----------------------------------------------------------------------------
(* The install of mihomo                                                   *)


(* A download and the save after it are of a release.                      *)
Named == \A j \in Installers : job[j].at \in {"download", "save"} => job[j].release \in Releases

(* Commands that do not overlap: one of them at a time is under way.       *)
Others(j) == \A k \in Installers \ {j} : job[k].at = "idle"
Alone == \A j \in Installers : job[j].at = "idle" \/ Others(j)

(* The warm-up listens to the configured binary.                           *)
WarmIsBooted == \A j \in Installers : job[j].at = "warm" => daemon = Boot(bin)

(* The way back has configured the package's binary, and then started it.  *)
RevertedIsPackage == \A j \in Installers :
    /\ job[j].at \in {"revert restart", "wipe"} => bin = Package
    /\ job[j].at = "wipe" => daemon = Package

Orderly == Alone /\ WarmIsBooted /\ RevertedIsPackage

InstallInv == InsTypeOK /\ Named /\ (~mayOverlap => Orderly) /\ ReleaseCannotBrick

(* Something answers, and what is configured would start again.            *)
Up == daemon # Outside /\ Runs(bin)

-----------------------------------------------------------------------------
(* Types                                                                   *)

Place == {"idle", "download", "save", "restart", "warm", "revert", "revert restart", "wipe"}
Job == [at : Place, release : Releases \cup {Outside}]

LEMMA BootFacts ==
    /\ \A b : Boot(b) = Outside \/ (Boot(b) = b /\ Runs(b) /\ b # Outside)
    /\ \A b \in Binaries : Boot(b) \in Binaries \cup {Outside}
    /\ \A b \in Binaries : Runs(b) => Boot(b) # Outside
    /\ Boot(Package) = Package /\ Runs(Package) /\ Package # Outside
  BY ReleaseAssumption DEF Boot, Runs, Binaries, Package, Outside

LEMMA JobType == InsTypeOK => job \in [Installers -> Job]
  BY DEF InsTypeOK, Job, Place

LEMMA LeaveFacts ==
    ASSUME InsTypeOK, NEW j \in Installers, Leave(j)
    PROVE  /\ job' \in [Installers -> Job] /\ job'[j].at = "idle" /\ job'[j] = NoJob
           /\ \A k \in Installers \ {j} : job'[k] = job[k]
  BY JobType DEF Leave, NoJob, Job, Place

LEMMA ProceedFacts ==
    ASSUME InsTypeOK, NEW j \in Installers, NEW p \in Place, Proceed(j, p)
    PROVE  /\ job' \in [Installers -> Job] /\ job'[j].at = p
           /\ job'[j].release = job[j].release
           /\ \A k \in Installers \ {j} : job'[k] = job[k]
  <1>1. job \in [Installers -> Job] /\ job[j] \in Job
    BY JobType
  <1>2. [job[j] EXCEPT !.at = p] \in Job
    BY <1>1 DEF Job
  <1>3. job' = [job EXCEPT ![j] = [job[j] EXCEPT !.at = p]]
    BY DEF Proceed
  <1>4. job'[j] = [job[j] EXCEPT !.at = p]
    BY <1>1, <1>3
  <1>5. [job[j] EXCEPT !.at = p].at = p /\ [job[j] EXCEPT !.at = p].release = job[j].release
    BY <1>1 DEF Job
  <1>6. job' \in [Installers -> Job]
    BY <1>1, <1>2, <1>3
  <1>. QED BY <1>1, <1>3, <1>4, <1>5, <1>6

LEMMA JobFacts ==
    ASSUME InsTypeOK, NEW j \in Installers
    PROVE  /\ job[j] \in Job
           /\ Leave(j) => /\ job' \in [Installers -> Job] /\ job'[j].at = "idle"
                          /\ \A k \in Installers \ {j} : job'[k] = job[k]
           /\ \A p \in {"save", "restart", "warm", "revert", "revert restart", "wipe"} :
                Proceed(j, p) => /\ job' \in [Installers -> Job] /\ job'[j].at = p
                                 /\ job'[j].release = job[j].release
                                 /\ \A k \in Installers \ {j} : job'[k] = job[k]
  <1>1. \A p \in {"save", "restart", "warm", "revert", "revert restart", "wipe"} : p \in Place
    BY DEF Place
  <1>. QED BY <1>1, JobType, LeaveFacts, ProceedFacts

LEMMA BeginFacts ==
    ASSUME InsTypeOK, Named, NEW j \in Installers, NEW p \in Place,
           NEW r \in Releases \cup {Outside}, p = "download" => r \in Releases, p # "save",
           job' = [job EXCEPT ![j] = [at |-> p, release |-> r]],
           UNCHANGED <<bin, files, daemon, latest, mayOverlap, excused, settled>>
    PROVE  /\ InsTypeOK' /\ Named'
           /\ job'[j].at = p /\ \A k \in Installers \ {j} : job'[k] = job[k]
  BY DEF InsTypeOK, Named, Place

LEMMA WorkTypes ==
    ASSUME InsTypeOK, Named, NEW j \in Installers, Work(j) \/ Killed(j)
    PROVE  InsTypeOK' /\ Named'
  <1>. USE JobFacts DEF Job, Place
  <1>1. CASE Download(j)
    <2>1. job[j].release \in Releases
      BY <1>1 DEF Download, Named
    <2>2. Proceed(j, "save") \/ Leave(j)
      BY <1>1 DEF Download
    <2>3. job' \in [Installers -> Job] /\ Named'
      BY <2>1, <2>2 DEF Named
    <2>4. excused' \in BOOLEAN /\ files' \in [Releases -> {"absent", "intact", "damaged"}]
      BY <1>1, <2>1 DEF Download, InsTypeOK
    <2>. QED BY <1>1, <2>3, <2>4 DEF Download, InsTypeOK
  <1>2. CASE Save(j)
    <2>1. job[j].release \in Releases
      BY <1>2 DEF Save, Named
    <2>2. job' \in [Installers -> Job] /\ Named'
      BY <1>2 DEF Save, Named
    <2>. QED BY <1>2, <2>1, <2>2 DEF Save, InsTypeOK, Binaries
  <1>3. CASE Restart(j)
    <2>1. daemon' \in Binaries \cup {Outside}
      BY <1>3, BootFacts DEF Restart, InsTypeOK
    <2>2. Proceed(j, "warm") \/ Proceed(j, "wipe") \/ Leave(j)
      BY <1>3 DEF Restart
    <2>3. job' \in [Installers -> Job] /\ Named'
      BY <2>2 DEF Named
    <2>. QED BY <1>3, <2>1, <2>3 DEF Restart, InsTypeOK
  <1>4. CASE WarmUp(j)
    <2>1. Proceed(j, "revert") \/ Leave(j)
      BY <1>4 DEF WarmUp
    <2>2. job' \in [Installers -> Job] /\ Named' /\ excused' \in BOOLEAN
      BY <1>4, <2>1 DEF WarmUp, Named, InsTypeOK
    <2>. QED BY <1>4, <2>2 DEF WarmUp, InsTypeOK
  <1>5. CASE RevertSave(j)
    <2>1. job' \in [Installers -> Job] /\ Named'
      BY <1>5 DEF RevertSave, Named
    <2>. QED BY <1>5, <2>1 DEF RevertSave, RevertTo, InsTypeOK, Binaries
  <1>6. CASE RevertWipe(j)
    <2>1. job' \in [Installers -> Job] /\ Named'
      BY <1>6 DEF RevertWipe, Named
    <2>2. files' \in [Releases -> {"absent", "intact", "damaged"}]
      BY <1>6 DEF RevertWipe, InsTypeOK
    <2>3. excused' \in BOOLEAN /\ UNCHANGED <<bin, daemon, latest, mayOverlap, settled>>
      BY <1>6 DEF RevertWipe
    <2>. QED BY <2>1, <2>2, <2>3 DEF InsTypeOK
  <1>7. CASE Killed(j)
    <2>1. job' \in [Installers -> Job] /\ Named'
      BY <1>7 DEF Killed, Named
    <2>. QED BY <1>7, <2>1 DEF Killed, InsTypeOK
  <1>. QED BY <1>1, <1>2, <1>3, <1>4, <1>5, <1>6, <1>7 DEF Work

-----------------------------------------------------------------------------
(* One command at a time                                                   *)

(* What the command under way must see to, and what it can rely on.        *)
LEMMA Reliable ==
    ASSUME InstallInv, ~mayOverlap, NEW j \in Installers, Others(j)
    PROVE  ~excused /\ ~Recovering(j) => Up
  BY DEF InstallInv, ReleaseCannotBrick, Up, Recovering, Others

LEMMA StepOfOne ==
    ASSUME NEW j \in Installers, Others(j)', ~mayOverlap',
           job'[j].at = "warm" => daemon' = Boot(bin)',
           job'[j].at \in {"revert restart", "wipe"} => bin' = Package,
           job'[j].at = "wipe" => daemon' = Package,
           ~excused' /\ ~Recovering(j)' => Up'
    PROVE  Orderly' /\ ReleaseCannotBrick'
  <1>1. \A k \in Installers \ {j} : job'[k].at = "idle"
    BY DEF Others
  <1>2. Alone'
    BY <1>1 DEF Alone, Others
  <1>3. WarmIsBooted'
    BY <1>1 DEF WarmIsBooted
  <1>4. RevertedIsPackage'
    BY <1>1 DEF RevertedIsPackage
  <1>5. ReleaseCannotBrick'
    BY DEF ReleaseCannotBrick, Up
  <1>. QED BY <1>2, <1>3, <1>4, <1>5 DEF Orderly

LEMMA BeginStep ==
    ASSUME InstallInv, ~mayOverlap, NEW j \in Installers,
           Install(j) \/ AutoUpdate(j) \/ Revert(j)
    PROVE  Orderly' /\ ReleaseCannotBrick'
  <1>1. /\ \A k \in Installers : job[k].at = "idle"
        /\ UNCHANGED <<bin, files, daemon, latest, mayOverlap, excused, settled>>
    BY DEF Install, AutoUpdate, Revert, Free, NoJob
  <1>2. PICK p \in {"download", "revert"} : \E r \in Releases \cup {Outside} :
          job' = [job EXCEPT ![j] = [at |-> p, release |-> r]]
    BY DEF Install, AutoUpdate, Revert, InstallInv, InsTypeOK
  <1>3. job'[j].at = p /\ \A k \in Installers \ {j} : job'[k] = job[k]
    <2>1. PICK r : job' = [job EXCEPT ![j] = [at |-> p, release |-> r]]
      BY <1>2
    <2>2. job \in [Installers -> Job]
      BY JobType DEF InstallInv
    <2>3. job'[j] = [at |-> p, release |-> r]
      BY <2>1, <2>2
    <2>. QED BY <2>1, <2>2, <2>3
  <1>4. Others(j) /\ Others(j)'
    BY <1>1, <1>3 DEF Others
  <1>5. ~excused => Up
    BY <1>1, <1>4, Reliable DEF Recovering
  <1>6. ~excused' => Up'
    BY <1>1, <1>5 DEF Up, Runs
  <1>. QED BY <1>1, <1>3, <1>4, <1>6, StepOfOne

LEMMA WorkStep ==
    ASSUME InstallInv, ~mayOverlap, NEW j \in Installers, Work(j) \/ Killed(j)
    PROVE  Orderly' /\ ReleaseCannotBrick'
  <1>0. /\ InsTypeOK /\ Named /\ job[j].at # "idle" /\ mayOverlap' = mayOverlap
        /\ job[j].at = "download" => job[j].release \in Releases
    BY DEF InstallInv, Named, Work, Killed, Download, Save, Restart, WarmUp, RevertSave, RevertWipe
  <1>1. /\ Others(j)
        /\ job[j].at = "warm" => daemon = Boot(bin)
        /\ job[j].at \in {"revert restart", "wipe"} => bin = Package
        /\ job[j].at = "wipe" => daemon = Package
    BY <1>0 DEF InstallInv, Orderly, Alone, WarmIsBooted, RevertedIsPackage
  <1>2. PICK p \in Place : Proceed(j, p) \/ (Leave(j) /\ p = "idle")
    BY DEF Work, Killed, Download, Save, Restart, WarmUp, RevertSave, RevertWipe, Place
  <1>3. job'[j].at = p /\ Others(j)'
        /\ (p # "idle" => job'[j].release = job[j].release)
    BY <1>0, <1>1, <1>2, LeaveFacts, ProceedFacts DEF Others
  <1>4. ~excused /\ ~Recovering(j) => Up
    BY <1>1, Reliable
  <1>5. CASE Download(j)
    <2>. DEFINE r == job[j].release
    <2>1. PICK v \in {"intact", "damaged", "absent"} :
            /\ files' = [files EXCEPT ![r] = v]
            /\ v = "absent" => p = "idle" /\ excused' = (excused \/ bin = r)
            /\ v # "absent" => p = "save" /\ excused' = excused
      BY <1>0, <1>3, <1>5, JobFacts DEF Download
    <2>2. bin' = bin /\ daemon' = daemon /\ job[j].at = "download"
      BY <1>5 DEF Download
    <2>3. ~excused => Up
      BY <1>4, <2>2 DEF Recovering
    <2>4. bin # r => files'[bin] = files[bin] \/ bin \notin Releases
      BY <1>0, <2>1 DEF InsTypeOK
    <2>5. ~excused' /\ ~Recovering(j)' => bin # r /\ ~excused
      BY <1>3, <2>1, <2>2 DEF Recovering
    <2>6. bin # r /\ Up => Up'
      BY <2>2, <2>4, ReleaseAssumption DEF Up, Runs
    <2>7. p \in {"idle", "save"}
      BY <2>1
    <2>. HIDE DEF r
    <2>. QED BY <1>0, <1>3, <2>3, <2>5, <2>6, <2>7, StepOfOne
  <1>6. CASE Save(j)
    <2>1. (p = "idle" /\ excused') \/ p = "restart"
      BY <1>0, <1>3, <1>6, JobFacts DEF Save
    <2>. QED BY <1>0, <1>3, <2>1, StepOfOne DEF Recovering
  <1>7. CASE Restart(j)
    <2>1. bin' = bin /\ files' = files
      BY <1>7 DEF Restart
    <2>2. Boot(bin)' = Boot(bin)
      BY <2>1 DEF Boot, Runs
    <2>3. \/ p = "idle" /\ excused'
          \/ p = "warm" /\ daemon' = Boot(bin)
          \/ p = "wipe" /\ daemon' = Boot(bin) /\ bin = Package
      BY <1>0, <1>1, <1>3, <1>7, JobFacts DEF Restart
    <2>4. p = "wipe" => Up'
      BY <2>1, <2>3, BootFacts DEF Up, Runs
    <2>. QED BY <1>0, <1>3, <2>1, <2>2, <2>3, <2>4, BootFacts, StepOfOne DEF Recovering
  <1>8. CASE WarmUp(j)
    <2>1. /\ bin' = bin /\ files' = files /\ daemon' = daemon
          /\ \/ p = "idle" /\ daemon # Outside
             \/ p = "revert"
      BY <1>0, <1>3, <1>8, JobFacts DEF WarmUp, ReportsVersion
    <2>2. daemon = Boot(bin)
      BY <1>1, <1>8 DEF WarmUp
    <2>3. daemon # Outside => Up
      BY <2>2, BootFacts DEF Up
    <2>4. Up => Up'
      BY <2>1 DEF Up, Runs
    <2>. QED BY <1>0, <1>3, <2>1, <2>3, <2>4, StepOfOne DEF Recovering
  <1>9. CASE RevertSave(j)
    <2>1. (p = "idle" /\ excused') \/ (p = "revert restart" /\ bin' = Package)
      BY <1>0, <1>3, <1>9, JobFacts DEF RevertSave, RevertTo
    <2>. QED BY <1>0, <1>3, <2>1, StepOfOne DEF Recovering
  <1>10. CASE RevertWipe(j)
    <2>1. p = "idle" /\ bin' = Package /\ daemon' = Package
      BY <1>0, <1>1, <1>3, <1>10, JobFacts DEF RevertWipe
    <2>2. Up'
      BY <2>1, BootFacts DEF Up, Runs
    <2>. QED BY <1>0, <1>3, <2>1, <2>2, StepOfOne
  <1>11. CASE Killed(j)
    <2>1. p = "idle" /\ excused'
      BY <1>0, <1>3, <1>11, JobFacts DEF Killed
    <2>. QED BY <1>0, <1>3, <2>1, StepOfOne
  <1>. QED BY <1>5, <1>6, <1>7, <1>8, <1>9, <1>10, <1>11 DEF Work

LEMMA RebootStep ==
    ASSUME InstallInv, Reboot
    PROVE  InstallInv'
  <1>1. /\ \A j \in Installers : job'[j] = NoJob
        /\ daemon' = Boot(bin) /\ excused' \in BOOLEAN
        /\ UNCHANGED <<bin, files, latest, mayOverlap, settled>>
        /\ ~excused' => ~excused /\ \A j \in Installers : job[j].at = "idle"
    BY DEF Reboot, InstallInv, InsTypeOK
  <1>2. daemon' \in Binaries \cup {Outside}
    BY <1>1, BootFacts DEF InstallInv, InsTypeOK
  <1>3. InsTypeOK' /\ Named'
    BY <1>1, <1>2 DEF Reboot, InstallInv, InsTypeOK, Named, NoJob
  <1>4. Orderly'
    <2>1. \A j \in Installers : job'[j].at = "idle"
      BY <1>1 DEF NoJob
    <2>2. Alone' /\ WarmIsBooted' /\ RevertedIsPackage'
      BY <2>1 DEF Alone, Others, WarmIsBooted, RevertedIsPackage
    <2>. QED BY <2>2 DEF Orderly
  <1>5. ReleaseCannotBrick'
    <2>. SUFFICES ASSUME ~mayOverlap, ~excused' PROVE Up'
      BY <1>1 DEF ReleaseCannotBrick, Up
    <2>1. Up
      BY <1>1 DEF InstallInv, ReleaseCannotBrick, Up, Recovering
    <2>2. Boot(bin) # Outside /\ Runs(bin)
      BY <2>1, BootFacts DEF Up, InstallInv, InsTypeOK
    <2>3. Runs(bin)'
      BY <1>1, <2>2 DEF Runs
    <2>. QED BY <1>1, <2>2, <2>3 DEF Up
  <1>. QED BY <1>3, <1>4, <1>5 DEF InstallInv

LEMMA OutsideStep ==
    ASSUME InstallInv, Publish \/ Settle \/ UNCHANGED insVars
    PROVE  InstallInv'
  <1>1. UNCHANGED <<bin, files, daemon, job, mayOverlap, excused>>
    BY DEF Publish, Settle, insVars
  <1>2. InsTypeOK' /\ Named'
    BY <1>1 DEF Publish, Settle, insVars, InstallInv, InsTypeOK, Named
  <1>3. (~mayOverlap => Orderly)'
    BY <1>1 DEF InstallInv, Orderly, Alone, Others, WarmIsBooted, RevertedIsPackage, Boot, Runs
  <1>4. ReleaseCannotBrick'
    BY <1>1 DEF InstallInv, ReleaseCannotBrick, Recovering, Runs
  <1>. QED BY <1>2, <1>3, <1>4 DEF InstallInv

LEMMA InstallStep == InstallInv /\ [InsNext]_insVars => InstallInv'
  <1>. SUFFICES ASSUME InstallInv, [InsNext]_insVars PROVE InstallInv'
    OBVIOUS
  <1>1. ASSUME NEW j \in Installers, Install(j) \/ AutoUpdate(j) \/ Revert(j)
        PROVE  InstallInv'
    <2>1. PICK p \in {"download", "revert"} : \E r \in Releases \cup {Outside} :
            /\ p = "download" => r \in Releases
            /\ job' = [job EXCEPT ![j] = [at |-> p, release |-> r]]
      BY <1>1 DEF Install, AutoUpdate, Revert, InstallInv, InsTypeOK
    <2>2. UNCHANGED <<bin, files, daemon, latest, mayOverlap, excused, settled>>
      BY <1>1 DEF Install, AutoUpdate, Revert
    <2>3. InsTypeOK' /\ Named'
      BY <2>1, <2>2, BeginFacts DEF InstallInv, Place
    <2>4. ~mayOverlap => Orderly' /\ ReleaseCannotBrick'
      BY <1>1, BeginStep
    <2>. QED BY <2>2, <2>3, <2>4 DEF InstallInv, ReleaseCannotBrick
  <1>2. ASSUME NEW j \in Installers, Work(j) \/ Killed(j)
        PROVE  InstallInv'
    <2>1. mayOverlap' = mayOverlap
      BY <1>2 DEF Work, Killed, Download, Save, Restart, WarmUp, RevertSave, RevertWipe
    <2>2. InsTypeOK' /\ Named'
      BY <1>2, WorkTypes DEF InstallInv
    <2>3. ~mayOverlap => Orderly' /\ ReleaseCannotBrick'
      BY <1>2, WorkStep
    <2>. QED BY <2>1, <2>2, <2>3 DEF InstallInv, ReleaseCannotBrick
  <1>. QED BY <1>1, <1>2, RebootStep, OutsideStep DEF InsNext

LEMMA InstallInit == InsInit => InstallInv
  <1>. SUFFICES ASSUME InsInit PROVE InstallInv
    OBVIOUS
  <1>1. \A j \in Installers : job[j] = NoJob
    BY DEF InsInit
  <1>2. InsTypeOK /\ Named /\ Orderly
    BY <1>1 DEF InsInit, InsTypeOK, Binaries, Named, Orderly, Alone, Others, WarmIsBooted,
                RevertedIsPackage, NoJob
  <1>3. ReleaseCannotBrick
    BY BootFacts DEF InsInit, ReleaseCannotBrick
  <1>. QED BY <1>2, <1>3 DEF InstallInv

(* The binaries, files and commands keep their form (mihomo_install.go).   *)
THEOREM InstallTypes == InsSpec => []InsTypeOK
  <1>1. InstallInv => InsTypeOK
    BY DEF InstallInv
  <1>. QED BY <1>1, InstallInit, InstallStep, PTL DEF InsSpec

(* mihomoInstall's warm-up and MihomoRevertToPackage: installing a release *)
(* that does not start or answer leaves the proxy without a daemon only    *)
(* until the way back is done, and what is configured then also boots,     *)
(* however damaged downloads, reverts, reboots and new releases come and   *)
(* go, as long as commands do not overlap, are not killed, and can restart *)
(* mihomo.                                                                 *)
THEOREM ReleasesAreSafe == InsSpec => []ReleaseCannotBrick
  <1>1. InstallInv => ReleaseCannotBrick
    BY DEF InstallInv
  <1>. QED BY <1>1, InstallInit, InstallStep, PTL DEF InsSpec

-----------------------------------------------------------------------------
(* The session of a client test                                            *)

(* Where the worker is with a strategy of this session, with a switch, and *)
(* with the packets on its own queue.                                      *)
Switching == {"starting", "swapping", "swapped", "replying"}
Chosen == {"preparing", "started", "routed", "testing"} \cup Switching
OnQueue == {"testing", "starting", "swapping", "replying"}

(* Requests and states are of this session or earlier ones; of earlier     *)
(* ones until the session has said that it is running.                     *)
Ordered ==
    /\ state.session <= session /\ request.session <= session /\ caller.req.session <= session
    /\ worker.at = "locked" => /\ state.session < session /\ request.session < session
                               /\ caller.req.session < session

(* The caller's request has the last number, and before it is written      *)
(* nobody else knows it.                                                   *)
Numbered ==
    /\ request.id <= switches /\ worker.req.id <= switches /\ result.id <= switches
    /\ caller.at # "none" => caller.req.id = switches
    /\ caller.at = "checked" =>
         request.id < switches /\ worker.req.id < switches /\ result.id < switches

(* Whatever may still come into force was asked for in this session.       *)
Requested ==
    /\ worker.at \in Chosen => state.strategy \in asked
    /\ worker.at \in Switching => worker.req.strategy \in asked
    /\ request # Nothing /\ request.session = session => request.strategy \in asked
    /\ caller.at # "none" /\ caller.req.session = session => caller.req.strategy \in asked

(* A written request is in the file, with the worker, or done with; only   *)
(* in the last case has it an answer, and a good one means what it says.   *)
InFile == request = caller.req /\ worker.req.id < switches /\ result.id < switches
WithWorker == /\ request = Nothing /\ worker.req = caller.req /\ result.id < switches
              /\ worker.at \in Switching \cup {"ending", "ended"}
Over == /\ request = Nothing /\ worker.at \notin Switching
        /\ result.ok /\ result.id = switches /\ caller.req.session = session =>
             state.strategy = caller.req.strategy
Pending ==
    /\ caller.at = "waiting" => InFile \/ WithWorker \/ Over
    /\ caller.at = "told" => Over /\ result.ok /\ result.id = switches

(* The nfqws on the worker's queue runs the strategy of the state file,    *)
(* the one on the spare queue that of the switch under way.                *)
InForce ==
    /\ worker.at \in {"locked", "preparing", "started", "routed"} => worker.queue = 1
    /\ worker.at \in OnQueue => kernel.queue = worker.queue
    /\ worker.at = "swapped" => kernel.queue = Spare(worker.queue)
    /\ worker.at \in OnQueue \cup {"started", "routed"} =>
         nfqws[worker.queue] \in {NoStrategy, state.strategy}
    /\ worker.at \in {"swapping", "swapped"} =>
         nfqws[Spare(worker.queue)] \in {NoStrategy, worker.req.strategy}
    /\ worker.at = "replying" /\ ~state.error => state.strategy = worker.req.strategy

(* fw4's rule is replaced only with its snapshot on disk; a worker that    *)
(* has ended well, and a session that has, left nothing.                   *)
Swept ==
    /\ kernel.guard => snapshot
    /\ worker.at = "ended" /\ ~state.error => kernel = Clean
    /\ state.phase = "stopped" => worker.at \in {"none", "locked", "ended"}
    /\ state.phase = "stopped" /\ ~state.error => kernel = Clean

SessionInv == ZctTypeOK /\ Ordered /\ Numbered /\ Requested /\ Pending /\ InForce /\ Swept

-----------------------------------------------------------------------------
(* Every step keeps the invariant: a lemma for each action.                *)

USE DEF Idle, Nothing, Asking, Queues, NoStrategy, disk, count, Workers, StateFiles,
        Kernels, Switching, Chosen, OnQueue, Spare, Goto, Kill, Release

(* What the updates of the state file and of the kernel give.              *)
LEMMA StateMarked ==
    ASSUME SessionInv
    PROVE  \A e \in BOOLEAN : [state EXCEPT !.error = e] \in StateFiles
BY DEF SessionInv, ZctTypeOK

LEMMA KernelCleaned ==
    ASSUME SessionInv
    PROVE  Clean \in Kernels /\ ~Clean.guard /\ Cleaned(kernel) = Clean
<1>1. (kernel.guard /\ ~snapshot) = FALSE BY DEF SessionInv, ZctTypeOK, Swept
<1>2. Clean \in Kernels /\ ~Clean.guard BY DEF Clean
<1>3. \A k \in Kernels : ~k.guard => [k EXCEPT !.guard = FALSE] = k
  <2> HIDE DEF Queues
  <2> QED OBVIOUS
<1>4. Cleaned(kernel) = [Clean EXCEPT !.guard = FALSE] BY <1>1 DEF Cleaned
<1> QED BY <1>2, <1>3, <1>4

LEMMA RunLockKeeps == ASSUME SessionInv, RunLock PROVE SessionInv'
<1>1. ZctTypeOK' BY ClientTestAssumption DEF RunLock, SessionInv, ZctTypeOK
<1>2. Ordered' BY DEF RunLock, SessionInv, ZctTypeOK, Ordered
<1>3. Numbered' BY DEF RunLock, SessionInv, ZctTypeOK, Numbered
<1>4. Requested' BY DEF RunLock, SessionInv, ZctTypeOK, Requested, Ordered
<1>5. Pending'
    BY DEF RunLock, SessionInv, ZctTypeOK, Pending, InFile, WithWorker, Over, Ordered
<1>6. InForce' BY DEF RunLock, InForce
<1>7. Swept' BY DEF RunLock, SessionInv, Swept
<1> QED BY <1>1, <1>2, <1>3, <1>4, <1>5, <1>6, <1>7 DEF SessionInv

LEMMA RunPrepareKeeps == ASSUME SessionInv, NEW s \in Strategies, RunPrepare(s) PROVE SessionInv'
<1>1. ZctTypeOK'
  <2>1. worker' \in Workers /\ (worker'.at # "none" <=> holder' = "worker")
      BY DEF RunPrepare, SessionInv, ZctTypeOK
  <2>2. state' \in StateFiles BY DEF RunPrepare, SessionInv, ZctTypeOK
  <2>3. request' \in Asking BY ClientTestAssumption DEF RunPrepare
  <2> HIDE DEF Workers, StateFiles, Kernels, Asking
  <2> QED BY <2>1, <2>2, <2>3 DEF RunPrepare, SessionInv, ZctTypeOK
<1>2. Ordered' BY DEF RunPrepare, SessionInv, ZctTypeOK, Ordered
<1>3. Numbered' BY DEF RunPrepare, SessionInv, ZctTypeOK, Numbered
<1>4. Requested' BY DEF RunPrepare, SessionInv, ZctTypeOK, Requested, Ordered
<1>5. Pending' BY DEF RunPrepare, SessionInv, ZctTypeOK, Pending, Over, Ordered
<1>6. InForce' BY DEF RunPrepare, SessionInv, InForce
<1>7. Swept' BY DEF RunPrepare, SessionInv, Swept
<1> QED BY <1>1, <1>2, <1>3, <1>4, <1>5, <1>6, <1>7 DEF SessionInv

LEMMA RunStartKeeps == ASSUME SessionInv, RunStart PROVE SessionInv'
<1>1. ZctTypeOK' BY ClientTestAssumption DEF RunStart, SessionInv, ZctTypeOK
<1>2. Ordered' BY DEF RunStart, SessionInv, Ordered
<1>3. Numbered' BY DEF RunStart, SessionInv, Numbered
<1>4. Requested' BY DEF RunStart, SessionInv, Requested
<1>5. Pending' BY DEF RunStart, SessionInv, Pending, InFile, WithWorker, Over
<1>6. InForce' BY DEF RunStart, SessionInv, InForce
<1>7. Swept' BY DEF RunStart, SessionInv, Swept
<1> QED BY <1>1, <1>2, <1>3, <1>4, <1>5, <1>6, <1>7 DEF SessionInv

LEMMA RunRouteKeeps == ASSUME SessionInv, RunRoute PROVE SessionInv'
<1>1. ZctTypeOK'
  <2>1. worker' \in Workers /\ (worker'.at # "none" <=> holder' = "worker")
      BY DEF RunRoute, SessionInv, ZctTypeOK
  <2>2. kernel' \in Kernels BY DEF RunRoute, SessionInv, ZctTypeOK
  <2> HIDE DEF Workers, StateFiles, Kernels
  <2> QED BY <2>1, <2>2 DEF RunRoute, SessionInv, ZctTypeOK
<1>2. Ordered' BY DEF RunRoute, SessionInv, Ordered
<1>3. Numbered' BY DEF RunRoute, SessionInv, Numbered
<1>4. Requested' BY DEF RunRoute, SessionInv, Requested
<1>5. Pending' BY DEF RunRoute, SessionInv, Pending, InFile, WithWorker, Over
<1>6. InForce' BY DEF RunRoute, SessionInv, InForce
<1>7. Swept' BY DEF RunRoute, SessionInv, Swept
<1> QED BY <1>1, <1>2, <1>3, <1>4, <1>5, <1>6, <1>7 DEF SessionInv

LEMMA RunInstallKeeps == ASSUME SessionInv, RunInstall PROVE SessionInv'
<1>1. ZctTypeOK' BY ClientTestAssumption DEF RunInstall, SessionInv, ZctTypeOK
<1>2. Ordered' BY DEF RunInstall, SessionInv, Ordered
<1>3. Numbered' BY DEF RunInstall, SessionInv, Numbered
<1>4. Requested' BY DEF RunInstall, SessionInv, Requested
<1>5. Pending' BY DEF RunInstall, SessionInv, Pending, InFile, WithWorker, Over
<1>6. InForce' BY DEF RunInstall, SessionInv, InForce
<1>7. Swept' BY DEF RunInstall, Swept
<1> QED BY <1>1, <1>2, <1>3, <1>4, <1>5, <1>6, <1>7 DEF SessionInv

LEMMA RunFailKeeps == ASSUME SessionInv, RunFail PROVE SessionInv'
<1>1. ZctTypeOK'
  <2>1. worker' \in Workers /\ (worker'.at # "none" <=> holder' = "worker")
      BY DEF RunFail, SessionInv, ZctTypeOK
  <2>2. state' \in StateFiles BY DEF RunFail, SessionInv, ZctTypeOK
  <2> HIDE DEF Workers, StateFiles, Kernels
  <2> QED BY <2>1, <2>2 DEF RunFail, SessionInv, ZctTypeOK
<1>2. Ordered' BY DEF RunFail, SessionInv, Ordered
<1>3. Numbered' BY DEF RunFail, SessionInv, Numbered
<1>4. Requested' BY DEF RunFail, SessionInv, Requested
<1>5. Pending' BY DEF RunFail, SessionInv, Pending, InFile, WithWorker, Over
<1>6. InForce' BY DEF RunFail, InForce
<1>7. Swept' BY DEF RunFail, SessionInv, ZctTypeOK, Swept
<1> QED BY <1>1, <1>2, <1>3, <1>4, <1>5, <1>6, <1>7 DEF SessionInv

LEMMA TestEndsKeeps == ASSUME SessionInv, TestEnds PROVE SessionInv'
<1>1. ZctTypeOK'
  <2>1. worker' \in Workers /\ (worker'.at # "none" <=> holder' = "worker")
      BY DEF TestEnds, SessionInv, ZctTypeOK
  <2>2. state' \in StateFiles BY DEF TestEnds, SessionInv, ZctTypeOK
  <2> HIDE DEF Workers, StateFiles, Kernels
  <2> QED BY <2>1, <2>2 DEF TestEnds, SessionInv, ZctTypeOK
<1>2. Ordered' BY DEF TestEnds, SessionInv, Ordered
<1>3. Numbered' BY DEF TestEnds, SessionInv, Numbered
<1>4. Requested' BY DEF TestEnds, SessionInv, Requested
<1>5. Pending' BY DEF TestEnds, SessionInv, Pending, InFile, WithWorker, Over
<1>6. InForce' BY DEF TestEnds, InForce
<1>7. Swept' BY DEF TestEnds, SessionInv, Swept
<1> QED BY <1>1, <1>2, <1>3, <1>4, <1>5, <1>6, <1>7 DEF SessionInv

LEMMA SwitchReadKeeps == ASSUME SessionInv, SwitchRead PROVE SessionInv'
<1>1. ZctTypeOK'
  <2>1. worker' \in Workers /\ (worker'.at # "none" <=> holder' = "worker")
      BY DEF SwitchRead, SessionInv, ZctTypeOK
  <2>2. request' \in Asking BY ClientTestAssumption DEF SwitchRead
  <2> HIDE DEF Workers, StateFiles, Kernels, Asking
  <2> QED BY <2>1, <2>2 DEF SwitchRead, SessionInv, ZctTypeOK
<1>2. Ordered' BY DEF SwitchRead, SessionInv, ZctTypeOK, Ordered
<1>3. Numbered' BY DEF SwitchRead, SessionInv, ZctTypeOK, Numbered
<1>4. Requested' BY DEF SwitchRead, Applies, SessionInv, Requested
<1>5. Pending' BY DEF SwitchRead, Applies, SessionInv, Pending, InFile, WithWorker, Over
<1>6. InForce' BY DEF SwitchRead, SessionInv, InForce
<1>7. Swept' BY DEF SwitchRead, SessionInv, Swept
<1> QED BY <1>1, <1>2, <1>3, <1>4, <1>5, <1>6, <1>7 DEF SessionInv

LEMMA SwitchStartKeeps == ASSUME SessionInv, SwitchStart PROVE SessionInv'
<1>1. ZctTypeOK'
  <2>1. worker' \in Workers /\ (worker'.at # "none" <=> holder' = "worker")
      BY DEF SwitchStart, SessionInv, ZctTypeOK
  <2>2. state' \in StateFiles
    <3> HIDE DEF StateFiles
    <3> QED BY StateMarked DEF SwitchStart, SessionInv, ZctTypeOK
  <2>3. nfqws' \in [Queues -> Strategies \cup {NoStrategy}]
    <3>1. worker.req.strategy \in Strategies \cup {NoStrategy} BY DEF SessionInv, ZctTypeOK
    <3> HIDE DEF Queues, Spare, NoStrategy
    <3> QED BY <3>1 DEF SwitchStart, SessionInv, ZctTypeOK
  <2> HIDE DEF Workers, StateFiles, Kernels
  <2> QED BY <2>1, <2>2, <2>3 DEF SwitchStart, SessionInv, ZctTypeOK
<1>2. Ordered' BY DEF SwitchStart, SessionInv, ZctTypeOK, Ordered
<1>3. Numbered' BY DEF SwitchStart, SessionInv, ZctTypeOK, Numbered
<1>4. Requested' BY DEF SwitchStart, SessionInv, ZctTypeOK, Requested
<1>5. Pending' BY DEF SwitchStart, SessionInv, ZctTypeOK, Pending, InFile, WithWorker, Over
<1>6. InForce' BY DEF SwitchStart, SessionInv, ZctTypeOK, InForce
<1>7. Swept' BY DEF SwitchStart, SessionInv, ZctTypeOK, Swept
<1> QED BY <1>1, <1>2, <1>3, <1>4, <1>5, <1>6, <1>7 DEF SessionInv

LEMMA SwitchRulesKeeps == ASSUME SessionInv, SwitchRules PROVE SessionInv'
<1>1. ZctTypeOK'
  <2>1. worker' \in Workers /\ (worker'.at # "none" <=> holder' = "worker")
      BY DEF SwitchRules, SessionInv, ZctTypeOK
  <2>2. state' \in StateFiles
    <3> HIDE DEF StateFiles
    <3> QED BY StateMarked DEF SwitchRules, SessionInv, ZctTypeOK
  <2>3. kernel' \in Kernels BY DEF SwitchRules, SessionInv, ZctTypeOK
  <2> HIDE DEF Workers, StateFiles, Kernels
  <2> QED BY <2>1, <2>2, <2>3 DEF SwitchRules, SessionInv, ZctTypeOK
<1>2. Ordered' BY DEF SwitchRules, SessionInv, ZctTypeOK, Ordered
<1>3. Numbered' BY DEF SwitchRules, SessionInv, ZctTypeOK, Numbered
<1>4. Requested' BY DEF SwitchRules, SessionInv, ZctTypeOK, Requested
<1>5. Pending' BY DEF SwitchRules, SessionInv, ZctTypeOK, Pending, InFile, WithWorker, Over
<1>6. InForce' BY DEF SwitchRules, SessionInv, ZctTypeOK, InForce
<1>7. Swept' BY DEF SwitchRules, SessionInv, ZctTypeOK, Swept
<1> QED BY <1>1, <1>2, <1>3, <1>4, <1>5, <1>6, <1>7 DEF SessionInv

LEMMA SwitchDoneKeeps == ASSUME SessionInv, SwitchDone PROVE SessionInv'
<1>1. ZctTypeOK'
  <2>1. worker.queue \in Queues /\ Spare(worker.queue) \in Queues BY DEF SessionInv, ZctTypeOK
  <2>2. worker.req \in Asking /\ worker.req.strategy \in Strategies \cup {NoStrategy}
      BY DEF SessionInv, ZctTypeOK
  <2> HIDE DEF Asking, Queues, Spare
  <2>3. worker' \in Workers /\ (worker'.at # "none" <=> holder' = "worker")
      BY <2>1, <2>2 DEF SwitchDone, SessionInv, ZctTypeOK
  <2>4. state' \in StateFiles BY <2>1, <2>2 DEF SwitchDone, SessionInv, ZctTypeOK
  <2> HIDE DEF Workers, StateFiles, Kernels
  <2> QED BY <2>3, <2>4 DEF SwitchDone, SessionInv, ZctTypeOK
<1>2. Ordered' BY DEF SwitchDone, SessionInv, Ordered
<1>3. Numbered' BY DEF SwitchDone, SessionInv, Numbered
<1>4. Requested' BY DEF SwitchDone, SessionInv, Requested
<1>5. Pending' BY DEF SwitchDone, SessionInv, Pending, InFile, WithWorker, Over
<1>6. InForce' BY DEF SwitchDone, SessionInv, InForce
<1>7. Swept' BY DEF SwitchDone, SessionInv, Swept
<1> QED BY <1>1, <1>2, <1>3, <1>4, <1>5, <1>6, <1>7 DEF SessionInv

LEMMA SwitchReplyKeeps == ASSUME SessionInv, SwitchReply PROVE SessionInv'
<1>1. ZctTypeOK'
  <2>1. Nothing \in Asking BY ClientTestAssumption
  <2>2. result' \in [id : 0..MaxSwitches, ok : BOOLEAN]
      BY DEF SwitchReply, SessionInv, ZctTypeOK
  <2> HIDE DEF Asking, Nothing, Queues
  <2>3. worker' \in Workers /\ (worker'.at # "none" <=> holder' = "worker")
      BY <2>1 DEF SwitchReply, SessionInv, ZctTypeOK
  <2> HIDE DEF Workers, StateFiles, Kernels
  <2> QED BY <2>2, <2>3 DEF SwitchReply, SessionInv, ZctTypeOK
<1>2. Ordered' BY DEF SwitchReply, SessionInv, Ordered
<1>3. Numbered' BY DEF SwitchReply, SessionInv, ZctTypeOK, Numbered
<1>4. Requested' BY DEF SwitchReply, SessionInv, Requested
<1>5. Pending'
  <2>1. /\ result' = [id |-> worker.req.id, ok |-> ~state.error]
        /\ worker'.at = "testing" /\ worker'.req.id = 0 /\ worker.at = "replying"
        /\ UNCHANGED <<request, caller, state, session, switches>>
      BY DEF SwitchReply
  <2>2. caller.at # "told" BY <2>1 DEF SessionInv, Pending, Over
  <2>3. CASE InFile BY <2>1, <2>2, <2>3 DEF Pending, InFile, SessionInv, ZctTypeOK
  <2>4. CASE WithWorker BY <2>1, <2>2, <2>4 DEF Pending, WithWorker, Over, SessionInv, InForce
  <2>5. CASE caller.at \notin {"waiting", "told"} BY <2>1, <2>5 DEF Pending
  <2> QED BY <2>1, <2>2, <2>3, <2>4, <2>5 DEF SessionInv, Pending, Over
<1>6. InForce' BY DEF SwitchReply, SessionInv, InForce
<1>7. Swept' BY DEF SwitchReply, SessionInv, Swept
<1> QED BY <1>1, <1>2, <1>3, <1>4, <1>5, <1>6, <1>7 DEF SessionInv

LEMMA RunCleanupKeeps == ASSUME SessionInv, RunCleanup PROVE SessionInv'
<1>1. ZctTypeOK'
  <2>1. worker' \in Workers /\ (worker'.at # "none" <=> holder' = "worker")
      BY DEF RunCleanup, SessionInv, ZctTypeOK
  <2>2. state' \in StateFiles BY DEF RunCleanup, SessionInv, ZctTypeOK
  <2>3. kernel' \in Kernels
    <3> HIDE DEF Kernels
    <3> QED BY KernelCleaned DEF RunCleanup, Cleanup, SessionInv, ZctTypeOK
  <2> HIDE DEF Workers, StateFiles, Kernels
  <2> QED BY <2>1, <2>2, <2>3 DEF RunCleanup, Cleanup, SessionInv, ZctTypeOK
<1>2. Ordered' BY DEF RunCleanup, SessionInv, Ordered
<1>3. Numbered' BY DEF RunCleanup, SessionInv, Numbered
<1>4. Requested' BY DEF RunCleanup, SessionInv, Requested
<1>5. Pending' BY DEF RunCleanup, SessionInv, Pending, InFile, WithWorker, Over
<1>6. InForce' BY DEF RunCleanup, InForce
<1>7. Swept' BY KernelCleaned DEF RunCleanup, Cleanup, Clean, SessionInv, Swept
<1> QED BY <1>1, <1>2, <1>3, <1>4, <1>5, <1>6, <1>7 DEF SessionInv

LEMMA RunEndKeeps == ASSUME SessionInv, RunEnd PROVE SessionInv'
<1>1. ZctTypeOK'
  <2>1. worker' \in Workers /\ (worker'.at # "none" <=> holder' = "worker")
      BY ClientTestAssumption DEF RunEnd
  <2>2. state' \in StateFiles BY DEF RunEnd, SessionInv, ZctTypeOK
  <2> HIDE DEF Workers, StateFiles, Kernels
  <2> QED BY <2>1, <2>2 DEF RunEnd, SessionInv, ZctTypeOK
<1>2. Ordered' BY DEF RunEnd, SessionInv, Ordered
<1>3. Numbered' BY DEF RunEnd, SessionInv, ZctTypeOK, Numbered
<1>4. Requested' BY DEF RunEnd, SessionInv, Requested
<1>5. Pending' BY DEF RunEnd, SessionInv, ZctTypeOK, Pending, InFile, WithWorker, Over
<1>6. InForce' BY DEF RunEnd, InForce
<1>7. Swept' BY DEF RunEnd, SessionInv, Swept
<1> QED BY <1>1, <1>2, <1>3, <1>4, <1>5, <1>6, <1>7 DEF SessionInv

LEMMA RunKilledKeeps == ASSUME SessionInv, RunKilled PROVE SessionInv'
<1>1. ZctTypeOK' BY ClientTestAssumption DEF RunKilled, SessionInv, ZctTypeOK
<1>2. Ordered' BY DEF RunKilled, SessionInv, Ordered
<1>3. Numbered' BY DEF RunKilled, SessionInv, ZctTypeOK, Numbered
<1>4. Requested' BY DEF RunKilled, SessionInv, Requested
<1>5. Pending' BY DEF RunKilled, SessionInv, ZctTypeOK, Pending, InFile, WithWorker, Over
<1>6. InForce' BY DEF RunKilled, InForce
<1>7. Swept' BY DEF RunKilled, SessionInv, Swept
<1> QED BY <1>1, <1>2, <1>3, <1>4, <1>5, <1>6, <1>7 DEF SessionInv

LEMMA StopAskKeeps == ASSUME SessionInv, StopAsk PROVE SessionInv'
<1>1. ZctTypeOK' BY ClientTestAssumption DEF StopAsk, SessionInv, ZctTypeOK
<1>2. Ordered' /\ Numbered' /\ Requested' /\ Pending' /\ InForce' /\ Swept'
    BY DEF StopAsk, SessionInv, Ordered, Numbered, Requested, Pending, InForce, Swept, InFile,
       WithWorker, Over
<1> QED BY <1>1, <1>2 DEF SessionInv

LEMMA StopCleanKeeps == ASSUME SessionInv, StopClean PROVE SessionInv'
<1>1. worker.at = "none" /\ UNCHANGED <<worker, stopFile, request, result, over, caller,
                                       session, switches, asked>>
    BY DEF StopClean, SessionInv, ZctTypeOK
<1>2. /\ state' \in StateFiles /\ kernel' \in Kernels /\ snapshot' \in BOOLEAN
      /\ state'.session = state.session /\ state'.strategy = state.strategy
      /\ kernel'.guard => snapshot'
      /\ state'.phase = "stopped" /\ ~state'.error => kernel' = Clean
  <2>1. CASE state.session = 0
    <3> HIDE DEF StateFiles, Kernels
    <3> QED BY <2>1 DEF StopClean, SessionInv, ZctTypeOK, Swept
  <2>2. CASE state.session # 0
    <3>1. PICK failed \in BOOLEAN :
            /\ Cleanup(failed)
            /\ state' = [state EXCEPT !.running = FALSE, !.phase = "stopped",
                                      !.process = 0, !.error = failed]
        BY <2>2 DEF StopClean
    <3>2. /\ state' \in StateFiles /\ state'.error = failed
          /\ state'.session = state.session /\ state'.strategy = state.strategy
        BY <3>1 DEF SessionInv, ZctTypeOK
    <3>3. /\ kernel' \in Kernels /\ snapshot' \in BOOLEAN
          /\ kernel'.guard => snapshot'
          /\ ~failed => kernel' = Clean
      <4>1. kernel \in Kernels /\ snapshot \in BOOLEAN /\ (kernel.guard => snapshot)
          BY DEF SessionInv, ZctTypeOK, Swept
      <4>2. Clean \in Kernels /\ ~Clean.guard /\ Cleaned(kernel) = Clean BY KernelCleaned
      <4> HIDE DEF Kernels
      <4>3. CASE failed = FALSE BY <3>1, <4>2, <4>3 DEF Cleanup
      <4>4. CASE failed = TRUE BY <3>1, <4>1, <4>4 DEF Cleanup
      <4> QED BY <4>3, <4>4
    <3> HIDE DEF StateFiles, Kernels
    <3> QED BY <3>2, <3>3
  <2> QED BY <2>1, <2>2
<1>3. ZctTypeOK'
  <2>1. nfqws' \in [Queues -> Strategies \cup {NoStrategy}] /\ holder' = "none"
      BY DEF StopClean, SessionInv, ZctTypeOK
  <2> HIDE DEF Workers, StateFiles, Kernels, Asking
  <2> QED BY <1>1, <1>2, <2>1 DEF SessionInv, ZctTypeOK
<1>4. Ordered' BY <1>1, <1>2 DEF SessionInv, Ordered
<1>5. Numbered' BY <1>1 DEF SessionInv, Numbered
<1>6. Requested' BY <1>1, <1>2 DEF SessionInv, Requested
<1>7. Pending' BY <1>1, <1>2 DEF SessionInv, Pending, InFile, WithWorker, Over
<1>8. InForce' BY <1>1 DEF SessionInv, InForce
<1>9. Swept' BY <1>1, <1>2 DEF SessionInv, Swept
<1> QED BY <1>3, <1>4, <1>5, <1>6, <1>7, <1>8, <1>9 DEF SessionInv

LEMMA PollKeeps == ASSUME SessionInv, Poll PROVE SessionInv'
<1>1. ZctTypeOK' BY ClientTestAssumption DEF Poll, SessionInv, ZctTypeOK
<1>2. Ordered' /\ Numbered' /\ Requested' /\ Pending' /\ InForce' /\ Swept'
    BY DEF Poll, SessionInv, Ordered, Numbered, Requested, Pending, InForce, Swept, InFile,
       WithWorker, Over
<1> QED BY <1>1, <1>2 DEF SessionInv

LEMMA PolledKeeps == ASSUME SessionInv, Polled PROVE SessionInv'
<1>1. ZctTypeOK' BY ClientTestAssumption DEF Polled, SessionInv, ZctTypeOK
<1>2. Ordered' /\ Numbered' /\ Requested' /\ Pending' /\ InForce' /\ Swept'
    BY DEF Polled, SessionInv, Ordered, Numbered, Requested, Pending, InForce, Swept, InFile,
       WithWorker, Over
<1> QED BY <1>1, <1>2 DEF SessionInv

LEMMA SwitchCheckKeeps == ASSUME SessionInv, NEW s \in Strategies, SwitchCheck(s) PROVE SessionInv'
<1>1. ZctTypeOK' BY ClientTestAssumption DEF SwitchCheck, SessionInv, ZctTypeOK
<1>2. InForce' /\ Swept' BY DEF SwitchCheck, SessionInv, InForce, Swept
<1>3. Ordered' BY DEF SwitchCheck, SessionInv, Ordered
<1>4. Numbered' BY DEF SwitchCheck, SessionInv, ZctTypeOK, Numbered
<1>5. Requested' BY DEF SwitchCheck, SessionInv, Requested
<1>6. Pending' BY DEF SwitchCheck, Pending
<1> QED BY <1>1, <1>2, <1>3, <1>4, <1>5, <1>6 DEF SessionInv

LEMMA SwitchWriteKeeps == ASSUME SessionInv, SwitchWrite PROVE SessionInv'
<1>1. ZctTypeOK' BY ClientTestAssumption DEF SwitchWrite, SessionInv, ZctTypeOK
<1>2. InForce' /\ Swept' BY DEF SwitchWrite, SessionInv, InForce, Swept
<1>3. Ordered' BY DEF SwitchWrite, SessionInv, Ordered
<1>4. Numbered' BY DEF SwitchWrite, SessionInv, ZctTypeOK, Numbered
<1>5. Requested' BY DEF SwitchWrite, SessionInv, Requested
<1>6. Pending' BY DEF SwitchWrite, SessionInv, Pending, InFile, Numbered
<1> QED BY <1>1, <1>2, <1>3, <1>4, <1>5, <1>6 DEF SessionInv

LEMMA SwitchToldKeeps == ASSUME SessionInv, SwitchTold PROVE SessionInv'
<1>1. ZctTypeOK' BY ClientTestAssumption DEF SwitchTold, SessionInv, ZctTypeOK
<1>2. InForce' /\ Swept' BY DEF SwitchTold, SessionInv, InForce, Swept
<1>3. Ordered' BY DEF SwitchTold, SessionInv, Ordered
<1>4. Numbered' BY DEF SwitchTold, Answered, SessionInv, Numbered
<1>5. Requested' BY DEF SwitchTold, Answered, SessionInv, Requested
<1>6. Pending'
    BY DEF SwitchTold, Answered, SessionInv, ZctTypeOK, Pending, InFile, WithWorker, Over,
       Numbered
<1> QED BY <1>1, <1>2, <1>3, <1>4, <1>5, <1>6 DEF SessionInv

LEMMA SwitchReturnKeeps == ASSUME SessionInv, SwitchReturn PROVE SessionInv'
<1>1. ZctTypeOK' BY ClientTestAssumption DEF SwitchReturn, SessionInv, ZctTypeOK
<1>2. InForce' /\ Swept' BY DEF SwitchReturn, SessionInv, InForce, Swept
<1>3. Ordered' BY DEF SwitchReturn, SessionInv, ZctTypeOK, Ordered
<1>4. Numbered' BY DEF SwitchReturn, SessionInv, Numbered
<1>5. Requested' BY DEF SwitchReturn, SessionInv, Requested
<1>6. Pending' BY DEF SwitchReturn, Pending
<1> QED BY <1>1, <1>2, <1>3, <1>4, <1>5, <1>6 DEF SessionInv

LEMMA TimeUpKeeps == ASSUME SessionInv, TimeUp PROVE SessionInv'
<1>1. ZctTypeOK' BY ClientTestAssumption DEF TimeUp, SessionInv, ZctTypeOK
<1>2. Ordered' /\ Numbered' /\ Requested' /\ Pending' /\ InForce' /\ Swept'
    BY DEF TimeUp, SessionInv, Ordered, Numbered, Requested, Pending, InForce, Swept, InFile,
       WithWorker, Over
<1> QED BY <1>1, <1>2 DEF SessionInv

LEMMA ExpireKeeps == ASSUME SessionInv, Expire PROVE SessionInv'
<1>1. ZctTypeOK'
  <2>1. kernel' \in Kernels BY DEF Expire, SessionInv, ZctTypeOK
  <2> HIDE DEF Workers, StateFiles, Kernels
  <2> QED BY <2>1 DEF Expire, SessionInv, ZctTypeOK
<1>2. Ordered' /\ Numbered' /\ Requested' /\ Pending'
    BY DEF Expire, SessionInv, Ordered, Numbered, Requested, Pending, InFile, WithWorker, Over
<1>3. InForce' BY DEF Expire, SessionInv, InForce
<1>4. Swept' BY DEF Expire, SessionInv, Swept, Clean
<1> QED BY <1>1, <1>2, <1>3, <1>4 DEF SessionInv

LEMMA ExitKeeps == ASSUME SessionInv, NEW q \in Queues, Exit(q) PROVE SessionInv'
<1>1. ZctTypeOK' BY ClientTestAssumption DEF Exit, SessionInv, ZctTypeOK
<1>2. Ordered' /\ Numbered' /\ Requested' /\ Pending' /\ Swept'
    BY DEF Exit, SessionInv, Ordered, Numbered, Requested, Pending, Swept, InFile, WithWorker,
       Over
<1>3. InForce' BY DEF Exit, SessionInv, InForce
<1> QED BY <1>1, <1>2, <1>3 DEF SessionInv

LEMMA ReloadKeeps == ASSUME SessionInv, Reload PROVE SessionInv'
<1>1. ZctTypeOK'
  <2>1. /\ [kernel EXCEPT !.guard = FALSE] \in Kernels
        /\ [kernel EXCEPT !.bypass = FALSE] \in Kernels
      BY DEF SessionInv, ZctTypeOK
  <2> HIDE DEF Workers, StateFiles, Kernels
  <2>2. kernel' \in Kernels BY <2>1 DEF Reload
  <2> QED BY <2>2 DEF Reload, SessionInv, ZctTypeOK
<1>2. Ordered' /\ Numbered' /\ Requested' /\ Pending'
    BY DEF Reload, SessionInv, Ordered, Numbered, Requested, Pending, InFile, WithWorker, Over
<1>3. InForce' BY DEF Reload, SessionInv, ZctTypeOK, InForce
<1>4. Swept' BY DEF Reload, SessionInv, ZctTypeOK, Swept, Clean
<1> QED BY <1>1, <1>2, <1>3, <1>4 DEF SessionInv

-----------------------------------------------------------------------------
(* The theorems                                                            *)

LEMMA SessionInit == ZctInit => SessionInv
<1> SUFFICES ASSUME ZctInit PROVE SessionInv OBVIOUS
<1>1. ZctTypeOK
  <2>1. worker \in Workers /\ state \in StateFiles /\ kernel \in Kernels
      BY ClientTestAssumption DEF ZctInit, Clean
  <2>2. Nothing \in Asking BY ClientTestAssumption
  <2>3. caller \in [at : {"none", "checked", "waiting", "told"}, req : Asking]
      BY <2>2 DEF ZctInit
  <2>4. result \in [id : 0..MaxSwitches, ok : BOOLEAN] BY ClientTestAssumption DEF ZctInit
  <2>5. nfqws \in [Queues -> Strategies \cup {NoStrategy}] BY DEF ZctInit
  <2>6. /\ holder \in {"none", "worker", "stop", "status"}
        /\ worker.at # "none" <=> holder = "worker"
        /\ request \in Asking /\ asked \subseteq Strategies
      BY <2>2 DEF ZctInit
  <2>7. session \in 0..MaxSessions /\ switches \in 0..MaxSwitches
      BY ClientTestAssumption DEF ZctInit
  <2> HIDE DEF Workers, StateFiles, Kernels, Asking, Nothing, Idle
  <2> QED BY <2>1, <2>3, <2>4, <2>5, <2>6, <2>7 DEF ZctInit, ZctTypeOK
<1>2. Ordered /\ Numbered BY DEF ZctInit, Ordered, Numbered
<1>3. Requested /\ Pending /\ InForce /\ Swept
    BY DEF ZctInit, Requested, Pending, InForce, Swept, Clean
<1> QED BY <1>1, <1>2, <1>3 DEF SessionInv

LEMMA SessionStep == SessionInv /\ [ZctNext]_zctVars => SessionInv'
<1> SUFFICES ASSUME SessionInv, [ZctNext]_zctVars PROVE SessionInv' OBVIOUS
<1>1. CASE RunLock BY <1>1, RunLockKeeps
<1>2. CASE WorkerStep
    BY <1>2, RunPrepareKeeps, RunStartKeeps, RunRouteKeeps, RunInstallKeeps, RunFailKeeps,
       TestEndsKeeps, SwitchReadKeeps, SwitchStartKeeps, SwitchRulesKeeps, SwitchDoneKeeps,
       SwitchReplyKeeps, RunCleanupKeeps, RunEndKeeps DEF WorkerStep
<1>3. CASE RunKilled BY <1>3, RunKilledKeeps
<1>4. CASE StopAsk \/ StopClean \/ Poll \/ Polled
    BY <1>4, StopAskKeeps, StopCleanKeeps, PollKeeps, PolledKeeps
<1>5. CASE (\E s \in Strategies : SwitchCheck(s)) \/ SwitchWrite \/ SwitchTold \/ SwitchReturn
    BY <1>5, SwitchCheckKeeps, SwitchWriteKeeps, SwitchToldKeeps, SwitchReturnKeeps
<1>6. CASE TimeUp \/ Expire \/ (\E q \in Queues : Exit(q)) \/ Reload
    BY <1>6, TimeUpKeeps, ExpireKeeps, ExitKeeps, ReloadKeeps
<1>7. CASE UNCHANGED zctVars
  <2>1. ZctTypeOK' BY <1>7 DEF zctVars, SessionInv, ZctTypeOK
  <2>2. Ordered' /\ Numbered' /\ Requested' /\ Pending'
      BY <1>7 DEF zctVars, SessionInv, Ordered, Numbered, Requested, Pending, InFile,
         WithWorker, Over
  <2>3. InForce' /\ Swept' BY <1>7 DEF zctVars, SessionInv, InForce, Swept
  <2> QED BY <2>1, <2>2, <2>3 DEF SessionInv
<1> QED BY <1>1, <1>2, <1>3, <1>4, <1>5, <1>6, <1>7 DEF ZctNext

LEMMA SessionAlways == ZctSpec => []SessionInv
BY SessionInit, SessionStep, PTL DEF ZctSpec

(* Every variable keeps its type, and the session lock is held by a worker *)
(* exactly while there is one (zapret_client_test_session.go).             *)
THEOREM ZctTypes == ZctSpec => []ZctTypeOK
<1>1. SessionInv => ZctTypeOK BY DEF SessionInv
<1> QED BY <1>1, SessionAlways, PTL

LEMMA AskedFor == SessionInv => StrategyAskedFor
<1>1. ASSUME SessionInv, worker.at \in {"testing", "starting", "swapping"},
             nfqws[kernel.queue] # NoStrategy
      PROVE  /\ nfqws[kernel.queue] = state.strategy /\ state.strategy \in asked
             /\ caller.at = "told" /\ caller.req.session = session =>
                  state.strategy = caller.req.strategy
  <2>1. nfqws[kernel.queue] = state.strategy BY <1>1 DEF SessionInv, InForce
  <2>2. state.strategy \in asked BY <1>1 DEF SessionInv, Requested
  <2>3. caller.at = "told" /\ caller.req.session = session =>
          state.strategy = caller.req.strategy
      BY <1>1 DEF SessionInv, Pending, Over
  <2> QED BY <2>1, <2>2, <2>3
<1> QED BY <1>1 DEF StrategyAskedFor

LEMMA StoppedClean == SessionInv => StoppedIsClean
BY DEF SessionInv, Swept, StoppedIsClean

(* StrategyAskedFor: whatever requests, timed-out callers and leftovers of *)
(* killed sessions there are, a client under test meets a strategy that    *)
(* was asked for in its session, the one the state file and the last       *)
(* answer name (zapret_client_switch.go).                                  *)
THEOREM StrategyIsAskedFor == ZctSpec => []StrategyAskedFor
BY AskedFor, SessionAlways, PTL

(* StoppedIsClean: a session whose state file says that it stopped without *)
(* an error has left no rule, route or replaced offload rule behind        *)
(* (zapret_client_test_session.go, zapret_client_offload.go).              *)
THEOREM StoppedSessionIsClean == ZctSpec => []StoppedIsClean
BY StoppedClean, SessionAlways, PTL

-----------------------------------------------------------------------------
(* Downloads                                                               *)

Downloading ==
    [at : {"idle", "lookup", "cached", "resolve", "dial", "tls", "failed"},
     host : Hosts \cup {"none"}, loaded : BOOLEAN, map : [Hosts -> Entry],
     parked : SUBSET Endpoints, ip : Addresses \cup {"none"}, tries : Nat]

(* Who looks a host up has one, who dials has an address.                  *)
Sensible(d, c) ==
    /\ c.tries <= MaxAttempts[d]
    /\ c.at # "idle" => c.host \in Hosts
    /\ c.at = "dial" => c.ip \in Addresses
DownloadsInv ==
    /\ origin \in [Hosts -> Addresses] /\ tofu \in [Hosts -> Entry]
    /\ endpointUp \subseteq Endpoints /\ quiet \in BOOLEAN
    /\ client \in [Clients -> Downloading]
    /\ \A d \in Clients : Sensible(d, client[d])

LEMMA NobodyDownloads ==
    /\ NoEntry \in Entry /\ NoClient \in Downloading /\ NoClient.tries = 0 /\ NoClient.at = "idle"
    /\ \A d \in Clients : Sensible(d, NoClient)
<1>1. NoEntry \in Entry BY DEF Entry
<1>2. NoClient \in Downloading BY <1>1 DEF NoClient, Downloading
<1>3. NoClient.tries = 0 /\ NoClient.at = "idle" BY DEF NoClient
<1>4. \A d \in Clients : MaxAttempts[d] \in Nat BY DownloadsAssumption
<1> QED BY <1>1, <1>2, <1>3, <1>4 DEF Sensible

LEMMA DownloadsStart == BootstrapInit => DownloadsInv
BY NobodyDownloads DEF BootstrapInit, DownloadsInv

(* A step of one download, which may write the cache.                      *)
LEMMA OneDownload ==
    ASSUME DownloadsInv, NEW d \in Clients, NEW c \in Downloading, To(d, c), Sensible(d, c),
           tofu' \in [Hosts -> Entry], UNCHANGED <<origin, endpointUp, quiet>>
    PROVE  DownloadsInv'
<1>1. client' \in [Clients -> Downloading] /\ \A e \in Clients : Sensible(e, client'[e])
  BY DEF DownloadsInv, To
<1> QED BY <1>1 DEF DownloadsInv, Sensible

LEMMA PersistFacts ==
    ASSUME DownloadsInv, NEW m \in [Hosts -> Entry], Persist(m)
    PROVE  tofu' \in [Hosts -> Entry]
BY DEF DownloadsInv, Persist

LEMMA DownloadStepKeeps ==
    ASSUME DownloadsInv, NEW d \in Clients, DownloadStep(d)
    PROVE  DownloadsInv'
<1>. DEFINE c == client[d]
<1>0. /\ c \in Downloading /\ Sensible(d, c) /\ tofu \in [Hosts -> Entry]
      /\ origin \in [Hosts -> Addresses]
  BY DEF DownloadsInv
<1>1. NoEntry \in Entry /\ MaxAttempts[d] \in Nat BY NobodyDownloads, DownloadsAssumption
<1>2. CASE LookupTOFU(d)
  <2>. DEFINE l == [c EXCEPT !.loaded = TRUE, !.map = IF c.loaded THEN @ ELSE tofu]
              m == [l.map EXCEPT ![l.host] = NoEntry]
  <2>1. /\ l \in Downloading /\ l.host = c.host /\ l.tries = c.tries /\ c.at = "lookup"
        /\ m \in [Hosts -> Entry]
    BY <1>0, <1>1, <1>2 DEF LookupTOFU, Is, Downloading
  <2>2. \/ To(d, [l EXCEPT !.at = "cached"]) /\ UNCHANGED tofu
        \/ To(d, [l EXCEPT !.at = "resolve", !.map = m]) /\ (UNCHANGED tofu \/ Persist(m))
    BY <1>2 DEF LookupTOFU
  <2>. HIDE DEF l, m
  <2>3. CASE To(d, [l EXCEPT !.at = "cached"]) /\ UNCHANGED tofu
    <3>1. [l EXCEPT !.at = "cached"] \in Downloading /\ Sensible(d, [l EXCEPT !.at = "cached"])
      BY <1>0, <2>1 DEF Downloading, Sensible
    <3> QED BY <1>0, <1>2, <2>3, <3>1, OneDownload DEF LookupTOFU
  <2>4. CASE To(d, [l EXCEPT !.at = "resolve", !.map = m]) /\ (UNCHANGED tofu \/ Persist(m))
    <3>1. /\ [l EXCEPT !.at = "resolve", !.map = m] \in Downloading
          /\ Sensible(d, [l EXCEPT !.at = "resolve", !.map = m])
      BY <1>0, <2>1 DEF Downloading, Sensible
    <3>2. tofu' \in [Hosts -> Entry] BY <1>0, <2>1, <2>4, PersistFacts
    <3> QED BY <1>2, <2>4, <3>1, <3>2, OneDownload DEF LookupTOFU
  <2> QED BY <2>2, <2>3, <2>4
<1>3. CASE DialCached(d)
  <2>. DEFINE m == Invalidate(c.map, c.host)
              s == [c EXCEPT !.at = "tls", !.ip = c.map[c.host].ip]
              f == [c EXCEPT !.at = "resolve", !.map = m]
  <2>1. c.at = "cached" /\ c.host \in Hosts BY <1>0, <1>3 DEF DialCached, Is, Sensible
  <2>2. m \in [Hosts -> Entry] BY <1>0, <1>1, <2>1 DEF Invalidate, Downloading
  <2>3. c.map[c.host].ip \in Addresses \cup {"none"}
    BY <1>0, <2>1 DEF Downloading, Entry, NoEntry
  <2>4. s \in Downloading /\ Sensible(d, s) BY <1>0, <2>1, <2>3 DEF Downloading, Sensible
  <2>5. f \in Downloading /\ Sensible(d, f) BY <1>0, <2>1, <2>2 DEF Downloading, Sensible
  <2>6. (To(d, s) /\ UNCHANGED tofu) \/ (To(d, f) /\ Persist(m)) BY <1>3 DEF DialCached
  <2>7. tofu' \in [Hosts -> Entry] BY <1>0, <2>2, <2>6, PersistFacts
  <2>8. UNCHANGED <<origin, endpointUp, quiet>> BY <1>3 DEF DialCached
  <2>. HIDE DEF s, f, m
  <2> QED BY <2>4, <2>5, <2>6, <2>7, <2>8, OneDownload
<1>4. CASE Resolve(d)
  <2>1. c.at = "resolve" /\ c.host \in Hosts BY <1>0, <1>4 DEF Resolve, Is, Sensible
  <2>2. origin[c.host] \in Addresses BY <1>0, <2>1
  <2>3. PICK at \in {"dial", "tls", "failed"}, parked \in SUBSET Endpoints :
          To(d, [c EXCEPT !.at = at, !.ip = origin[c.host], !.parked = parked])
    <3>1. c.parked \subseteq Endpoints /\ Asked(c) \subseteq Endpoints
      BY <1>0 DEF Downloading, Asked
    <3>2. CASE Answers(c) BY <1>4, <3>1, <3>2 DEF Resolve
    <3>3. CASE ~Answers(c)
      <4>. DEFINE rest == IF AllParked(c) THEN {} ELSE Endpoints
      <4>1. \E ok \in BOOLEAN :
              To(d, [c EXCEPT !.at = IF ok THEN "tls" ELSE "failed", !.ip = origin[c.host],
                              !.parked = rest])
        BY <1>4, <3>3 DEF Resolve
      <4>2. rest \in SUBSET Endpoints OBVIOUS
      <4>. HIDE DEF rest
      <4> QED BY <4>1, <4>2
    <3> QED BY <3>2, <3>3
  <2>. DEFINE n == [c EXCEPT !.at = at, !.ip = origin[c.host], !.parked = parked]
  <2>4. n \in Downloading /\ Sensible(d, n)
    BY <1>0, <2>1, <2>2 DEF Downloading, Sensible
  <2>5. tofu' \in [Hosts -> Entry] /\ UNCHANGED <<origin, endpointUp, quiet>>
    BY <1>0, <1>4 DEF Resolve
  <2> QED BY <2>3, <2>4, <2>5, OneDownload
<1>5. CASE Dial(d)
  <2>. DEFINE m == [c.map EXCEPT ![c.host] = [ip |-> c.ip, old |-> FALSE]]
              s == [c EXCEPT !.at = "tls", !.map = m]
              f == [c EXCEPT !.at = "failed"]
  <2>1. c.at = "dial" /\ c.host \in Hosts /\ c.ip \in Addresses
    BY <1>0, <1>5 DEF Dial, Is, Sensible
  <2>2. m \in [Hosts -> Entry] BY <1>0, <2>1 DEF Downloading, Entry
  <2>3. s \in Downloading /\ Sensible(d, s) BY <1>0, <2>1, <2>2 DEF Downloading, Sensible
  <2>4. f \in Downloading /\ Sensible(d, f) BY <1>0, <2>1 DEF Downloading, Sensible
  <2>5. (To(d, s) /\ Persist(m)) \/ (To(d, f) /\ UNCHANGED tofu) BY <1>5 DEF Dial
  <2>6. tofu' \in [Hosts -> Entry] BY <1>0, <2>2, <2>5, PersistFacts
  <2>7. UNCHANGED <<origin, endpointUp, quiet>> BY <1>5 DEF Dial
  <2>. HIDE DEF s, f, m
  <2> QED BY <2>3, <2>4, <2>5, <2>6, <2>7, OneDownload
<1>6. CASE Handshake(d)
  <2>. DEFINE f == [c EXCEPT !.at = "failed"]
  <2>1. c.at = "tls" BY <1>6 DEF Handshake, Is
  <2>2. f \in Downloading /\ Sensible(d, f) BY <1>0, <2>1 DEF Downloading, Sensible
  <2>3. To(d, NoClient) \/ To(d, f) BY <1>6 DEF Handshake
  <2>4. tofu' \in [Hosts -> Entry] /\ UNCHANGED <<origin, endpointUp, quiet>>
    BY <1>0, <1>6 DEF Handshake
  <2>. HIDE DEF f
  <2> QED BY <2>2, <2>3, <2>4, NobodyDownloads, OneDownload
<1>7. CASE RetryDownload(d)
  <2>. DEFINE n == [c EXCEPT !.at = "lookup", !.tries = @ + 1]
  <2>1. c.at = "failed" /\ c.tries < MaxAttempts[d]
    BY <1>7 DEF RetryDownload, Is, AttemptsLeft
  <2>2. c.tries \in Nat /\ c.tries + 1 \in Nat /\ c.tries + 1 <= MaxAttempts[d]
    BY <1>0, <1>1, <2>1 DEF Downloading
  <2>3. n \in Downloading BY <1>0, <2>2 DEF Downloading
  <2>4. n.tries = c.tries + 1 /\ n.at = "lookup" /\ n.host = c.host
    BY <1>0 DEF Downloading
  <2>5. Sensible(d, n) BY <1>0, <2>1, <2>2, <2>4 DEF Sensible
  <2>6. To(d, n) /\ tofu' \in [Hosts -> Entry] /\ UNCHANGED <<origin, endpointUp, quiet>>
    BY <1>0, <1>7 DEF RetryDownload
  <2>. HIDE DEF n
  <2> QED BY <2>3, <2>5, <2>6, OneDownload
<1> QED BY <1>2, <1>3, <1>4, <1>5, <1>6, <1>7 DEF DownloadStep

LEMMA DownloadsStep == DownloadsInv /\ [BootstrapNext]_bfVars => DownloadsInv'
<1> SUFFICES ASSUME DownloadsInv, [BootstrapNext]_bfVars PROVE DownloadsInv' OBVIOUS
<1>1. ASSUME NEW d \in Clients, StartDownload(d) PROVE DownloadsInv'
  <2>. DEFINE n == [NoClient EXCEPT !.at = "lookup", !.host = From[d], !.tries = 1]
  <2>1. From[d] \in Hosts /\ MaxAttempts[d] \in Nat \ {0} BY DownloadsAssumption
  <2>2. n \in Downloading BY <2>1, NobodyDownloads DEF Downloading
  <2>3. Sensible(d, n) BY <2>1, NobodyDownloads DEF Downloading, Sensible
  <2> QED BY <1>1, <2>2, <2>3, OneDownload DEF StartDownload, DownloadsInv
<1>2. ASSUME NEW d \in Clients, EndDownload(d) PROVE DownloadsInv'
  BY <1>2, NobodyDownloads, OneDownload DEF EndDownload, DownloadsInv
<1>3. ASSUME NEW d \in Clients, NEW e \in Endpoints, Unpark(d, e) PROVE DownloadsInv'
  <2>. DEFINE n == [client[d] EXCEPT !.parked = @ \ {e}]
  <2>1. client[d] \in Downloading /\ Sensible(d, client[d]) BY DEF DownloadsInv
  <2>2. n \in Downloading /\ Sensible(d, n) BY <2>1 DEF Downloading, Sensible
  <2> QED BY <1>3, <2>2, OneDownload DEF Unpark, DownloadsInv
<1>4. CASE TTLPasses
  <2>1. \A m \in [Hosts -> Entry] : OlderEntries(m) \in [Hosts -> Entry]
    BY NobodyDownloads DEF OlderEntries, Entry
  <2>2. /\ tofu' \in [Hosts -> Entry] /\ UNCHANGED <<origin, endpointUp, quiet>>
        /\ client' = [d \in Clients |-> [client[d] EXCEPT !.map = OlderEntries(@)]]
    BY <1>4, <2>1 DEF TTLPasses, DownloadsInv
  <2>3. ASSUME NEW d \in Clients
        PROVE  client'[d] \in Downloading /\ Sensible(d, client'[d])
    <3>1. client[d] \in Downloading /\ Sensible(d, client[d]) BY DEF DownloadsInv
    <3>2. OlderEntries(client[d].map) \in [Hosts -> Entry] BY <2>1, <3>1 DEF Downloading
    <3>3. client'[d] = [client[d] EXCEPT !.map = OlderEntries(client[d].map)] BY <2>2
    <3> QED BY <3>1, <3>2, <3>3 DEF Downloading, Sensible
  <2>4. client' \in [Clients -> Downloading] BY <2>2, <2>3
  <2> QED BY <2>2, <2>3, <2>4 DEF DownloadsInv, Sensible
<1>5. ASSUME NEW h \in Movers, Moves(h) PROVE DownloadsInv'
  BY <1>5 DEF Moves, DownloadsInv, Sensible
<1>6. ASSUME NEW e \in Endpoints, Block(e) PROVE DownloadsInv'
  BY <1>6 DEF Block, DownloadsInv, Sensible
<1>7. CASE Quieten BY <1>7 DEF Quieten, DownloadsInv, Sensible
<1>8. CASE UNCHANGED bfVars BY <1>8 DEF bfVars, DownloadsInv, Sensible
<1> QED BY <1>1, <1>2, <1>3, <1>4, <1>5, <1>6, <1>7, <1>8, DownloadStepKeeps DEF BootstrapNext

LEMMA DownloadTypes == DownloadsInv => BootstrapTypeOK
BY DownloadsAssumption DEF DownloadsInv, Downloading, Sensible, BootstrapTypeOK

-----------------------------------------------------------------------------
(* The services together                                                   *)

ServicesInv == MeshInv /\ SessionInv /\ InstallInv /\ DownloadsInv

LEMMA ServicesStart == Init => ServicesInv
BY MeshInitInv, SessionInit, InstallInit, DownloadsStart DEF Init, ServicesInv

LEMMA ServicesStep ==
    ServicesInv /\ [Next]_vars => ServicesInv' /\ [MeshNext]_meshVars
<1> SUFFICES ASSUME ServicesInv, [Next]_vars
             PROVE  ServicesInv' /\ [MeshNext]_meshVars
  OBVIOUS
<1>1. /\ [MeshNext]_meshVars /\ [ZctNext]_zctVars
      /\ [InsNext]_insVars /\ [BootstrapNext]_bfVars
  BY DEF Next, vars
<1> QED BY <1>1, MeshStep, SessionStep, InstallStep, DownloadsStep DEF ServicesInv

LEMMA ServicesAlways == Spec => []ServicesInv /\ [][MeshNext]_meshVars
BY ServicesStart, ServicesStep, PTL DEF Spec

(* TypeOK: the four services keep their types side by side, downloads      *)
(* included: no attempt goes beyond the limit, no entry of the TOFU cache  *)
(* is without its address (dns_tofu.go).                                   *)
THEOREM ServicesTypes == Spec => []TypeOK
<1>1. ServicesInv => TypeOK
  BY MeshInvTypes, DownloadTypes DEF ServicesInv, SessionInv, InstallInv, TypeOK
<1> QED BY <1>1, ServicesAlways, PTL

(* What the services promise one by one, they promise together.            *)
THEOREM ServicesAreSafe ==
    Spec => [](StrategyAskedFor /\ StoppedIsClean /\ ReleaseCannotBrick) /\ OnlyAbsentDropped
<1>1. ServicesInv => StrategyAskedFor /\ StoppedIsClean /\ ReleaseCannotBrick
  BY AskedFor, StoppedClean DEF ServicesInv, InstallInv
<1>2. MeshInv /\ [MeshNext]_meshVars
        => [\A r \in Routers : \A h \in Dropped(r) : met[r][h] >= TTL]_meshVars
  BY MeshStep DEF Forgets, Dropped
<1>3. ServicesInv => MeshInv BY DEF ServicesInv
<1> QED BY <1>1, <1>2, <1>3, ServicesAlways, PTL DEF OnlyAbsentDropped
=============================================================================
