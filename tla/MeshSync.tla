------------------------------ MODULE MeshSync ------------------------------
(***************************************************************************)
(* The friend mesh (internal/manager/mesh.go, mesh_sync.go, mesh_api.go,   *)
(* internal/mesh): routers joined by an EasyTier overlay.  Each runs       *)
(* mesh-sync from cron: it lists the overlay, probes the HMAC-protected    *)
(* API of every member, records what it learned in its configuration, ages *)
(* out the absent, and applies when something changed.                     *)
(*                                                                         *)
(* Data abstraction: the group's secrets are a number (0: not in a mesh);  *)
(* an authenticated probe succeeds iff both ends hold the same.  A peer's  *)
(* record is its overlay address and the age, in days, of its last_seen    *)
(* stamp; ages stop counting at TTL + 2.  Every command runs under the     *)
(* operation lock (see OperationLock), routers run concurrently.           *)
(***************************************************************************)
EXTENDS Naturals, FiniteSets

CONSTANTS
    Casts,    \* the instances, see Cast
    TTL       \* peer_ttl_days, > 0

(* Who there is, who syncs, who comes and goes, who changes membership,    *)
(* the addresses of the overlay, the number of secrets, who runs at first. *)
Cast(R) == [members : SUBSET R, syncing : SUBSET R, moving : SUBSET R,
            joining : SUBSET R, ips : SUBSET (Nat \ {0}), keys : Nat,
            start : [R -> Nat]]

ASSUME TTLAssumption == TTL \in Nat \ {0}
ASSUME CastsAssumption ==
    \A c \in Casts : /\ c \in Cast(c.members) /\ c.keys # 0
                     /\ \A r \in c.members : c.start[r] \in {0} \cup c.ips

VARIABLES
    cast,    \* the instance this history is about
    key,     \* the secrets in each router's configuration
    run,     \* the secrets its EasyTier daemon runs with, 0 when it is down
    addr,    \* its overlay address, 0 when the daemon is down
    peers,   \* its mesh_peer sections
    live,    \* the friends its mihomo runs with: address and secrets
    sync,    \* the mesh-sync in progress
    met,     \* observation: days since a completed sync had an answer
    calm     \* from now on nobody moves, joins, leaves or fails

meshVars == <<cast, key, run, addr, peers, live, sync, met, calm>>

Routers == cast.members
Never == TTL + 2
Age == 0..Never
Older(a) == IF a = Never THEN a ELSE a + 1

NoPeer == [ip |-> 0, seen |-> 0]
Known(r, h) == peers[r][h] # NoPeer
NoFriend == <<0, 0>>
NoSync == [on |-> FALSE, peers |-> [h \in Routers |-> NoPeer], rows |-> {},
           todo |-> {}, seen |-> {}, late |-> 0]

Peer == [ip : cast.ips, seen : Age] \cup {NoPeer}

MeshTypeOK ==
    /\ cast \in Casts
    /\ key \in [Routers -> 0..cast.keys]
    /\ run \in [Routers -> 0..cast.keys]
    /\ addr \in [Routers -> {0} \cup cast.ips]
    /\ peers \in [Routers -> [Routers -> Peer]]
    /\ live \in [Routers -> [Routers -> ({0} \cup cast.ips) \X (0..cast.keys)]]
    /\ \A r \in Routers : /\ sync[r].on \in BOOLEAN
                          /\ sync[r].peers \in [Routers -> Peer]
                          /\ sync[r].todo \subseteq sync[r].rows
                          /\ sync[r].rows \subseteq cast.ips
                          /\ sync[r].seen \subseteq Routers
                          /\ sync[r].late \in 0..1   \* midnights since it began
    /\ met \in [Routers -> [Routers -> Age]]
    /\ calm \in BOOLEAN

(* Everybody has joined, nobody knows anybody yet.                         *)
MeshInit ==
    /\ cast \in Casts
    /\ key = [r \in Routers |-> 1]
    /\ addr = cast.start
    /\ run = [r \in Routers |-> IF addr[r] = 0 THEN 0 ELSE 1]
    /\ peers = [r \in Routers |-> [h \in Routers |-> NoPeer]]
    /\ live = [r \in Routers |-> [h \in Routers |-> NoFriend]]
    /\ sync = [r \in Routers |-> NoSync]
    /\ met = [r \in Routers |-> [h \in Routers |-> Never]]
    /\ calm = FALSE

-----------------------------------------------------------------------------
(* The overlay                                                             *)

(* CLI.Peers: the other daemons on the same network.                       *)
Overlay(r) == {h \in Routers \ {r} : run[r] # 0 /\ run[h] = run[r]}

(* EasyTier's DHCP hands out an address nobody holds; a restart may get    *)
(* another one.                                                            *)
FreeIPs(r) == {ip \in cast.ips : \A h \in Routers \ {r} : run[h] # 0 => addr[h] # ip}

-----------------------------------------------------------------------------
(* Apply, as far as the mesh is concerned                                  *)

(* meshFriends: the consumable peers of the configuration.                 *)
Friends(k, ps) == [h \in Routers |-> IF k = 0 \/ ps[h] = NoPeer THEN NoFriend
                                     ELSE <<ps[h].ip, k>>]

(* The daemon is restarted only when what it reads changed (the Easytier   *)
(* group), not when peers did.                                             *)
BroadDirty(r, k) == TRUE     \* variant: the Mesh group
DaemonDirty(r, k) == run[r] # k

Loads(r, k, ps) ==
    /\ live' = [live EXCEPT ![r] = Friends(k, ps)]
    /\ run' = [run EXCEPT ![r] = k]
    /\ \E ip \in IF k = 0 THEN {0}
                 ELSE IF DaemonDirty(r, k) THEN FreeIPs(r) ELSE {addr[r]} :
         addr' = [addr EXCEPT ![r] = ip]

(* meshSaveApply: the configuration is saved first; a failed apply leaves  *)
(* it saved.                                                               *)
SaveApply(r, k, ps) ==
    \/ /\ key' = [key EXCEPT ![r] = k] /\ peers' = [peers EXCEPT ![r] = ps]
       /\ \/ Loads(r, k, ps)
          \/ ~calm /\ UNCHANGED <<live, run, addr>>
    \/ ~calm /\ UNCHANGED <<key, peers, live, run, addr>>

(* An apply for another reason: cron, boot, a user's retry.                *)
ApplyAgain(r) ==
    /\ ~calm /\ r \in cast.joining /\ ~sync[r].on
    /\ Loads(r, key[r], peers[r])
    /\ UNCHANGED <<cast, key, peers, sync, met, calm>>

-----------------------------------------------------------------------------
(* mesh-sync                                                               *)

SyncStart(r) ==
    /\ r \in cast.syncing /\ ~sync[r].on /\ key[r] # 0
    /\ LET rows == {addr[h] : h \in Overlay(r)} IN
       sync' = [sync EXCEPT ![r] = [on |-> TRUE, peers |-> peers[r], rows |-> rows,
                                    todo |-> rows, seen |-> {}, late |-> 0]]
    /\ UNCHANGED <<cast, key, run, addr, peers, live, met, calm>>

(* meshProbe of one row: whoever holds that address by now answers, if it  *)
(* has the same secrets.  An unanswered probe is only reported.            *)
Holder(r, ip) == {h \in Overlay(r) : addr[h] = ip}

Learned(ps, h, ip) ==
    [ps EXCEPT ![h] = [ip |-> ip, seen |-> IF @ = NoPeer THEN Never ELSE @.seen]]
Answer(s, h, ip) == [s EXCEPT !.seen = @ \cup {h}, !.peers = Learned(@, h, ip)]

Probe(r, ip) ==
    /\ sync[r].on /\ ip \in sync[r].todo
    /\ \E ok \in BOOLEAN :
         /\ ok => \E h \in Holder(r, ip) : key[h] = key[r]
         /\ calm /\ (\E h \in Holder(r, ip) : key[h] = key[r]) => ok
         /\ LET s == [sync[r] EXCEPT !.todo = @ \ {ip}]
                h == CHOOSE h \in Holder(r, ip) : TRUE
            IN sync' = [sync EXCEPT ![r] = IF ok THEN Answer(s, h, ip) ELSE s]
    /\ UNCHANGED <<cast, key, run, addr, peers, live, met, calm>>

(* meshGCPeers: whoever answered, or whose address is on the overlay, is   *)
(* stamped with the day the sync began.  Who is absent goes when more than *)
(* TTL * 24 hours have passed, when it began, since the MIDNIGHT its stamp *)
(* stands for: on the day the stamp is TTL days old, but for that midnight *)
(* itself.  (A peer without a stamp is one just learned, and so present.)  *)
Present(s, h) == h \in s.seen \/ s.peers[h].ip \in s.rows
StampOnce(s, p) ==     \* variant: a stamp is never renewed
    [p EXCEPT !.seen = IF @ = Never THEN s.late ELSE @]
Stamp(s, p) == [p EXCEPT !.seen = s.late]

Collected(s) ==
    [h \in Routers |->
       CASE s.peers[h] = NoPeer -> NoPeer
         [] s.peers[h] # NoPeer /\ Present(s, h) -> Stamp(s, s.peers[h])
         [] s.peers[h] # NoPeer /\ ~Present(s, h) ->
              IF s.peers[h].seen >= TTL + s.late THEN NoPeer ELSE s.peers[h]]

(* Nothing is saved, and nothing applied, unless a record changed.         *)
SyncDone(r) ==
    /\ sync[r].on /\ sync[r].todo = {}
    /\ LET ps == Collected(sync[r]) IN
         /\ IF ps # peers[r] THEN SaveApply(r, key[r], ps)
                             ELSE UNCHANGED <<key, peers, live, run, addr>>
         /\ met' = [met EXCEPT ![r] = [h \in Routers |->
                      IF ps[h] = NoPeer THEN Never
                      ELSE IF h \in sync[r].seen /\ peers'[r] = ps
                        THEN sync[r].late ELSE @[h]]]
    /\ sync' = [sync EXCEPT ![r] = NoSync]
    /\ UNCHANGED <<cast, calm>>

(* mesh-sync dies, or the overlay list fails.                              *)
SyncAbort(r) ==
    /\ ~calm /\ sync[r].on /\ sync[r].todo = {}
    /\ sync' = [sync EXCEPT ![r] = NoSync]
    /\ UNCHANGED <<cast, key, run, addr, peers, live, met, calm>>

-----------------------------------------------------------------------------
(* What users and the world do                                             *)

Command(r, k, ps) ==
    /\ r \in cast.joining /\ ~calm /\ ~sync[r].on
    /\ SaveApply(r, k, ps)
    /\ UNCHANGED <<cast, sync, met, calm>>

Nobody == [h \in Routers |-> NoPeer]

MeshLeave(r) == key[r] # 0 /\ Command(r, 0, Nobody)
MeshJoin(r) ==
    /\ key[r] = 0
    /\ \E h \in Routers \ {r} : key[h] # 0 /\ Command(r, key[h], peers[r])
MeshRotate(r) == key[r] # 0 /\ key[r] < cast.keys /\ Command(r, key[r] + 1, peers[r])

(* A router loses power, or comes back and takes any free address.         *)
PowerOff(r) ==
    /\ ~calm /\ r \in cast.moving /\ run[r] # 0
    /\ run' = [run EXCEPT ![r] = 0] /\ addr' = [addr EXCEPT ![r] = 0]
    /\ sync' = [sync EXCEPT ![r] = NoSync]
    /\ UNCHANGED <<cast, key, peers, live, met, calm>>
PowerOn(r) ==
    /\ ~calm /\ r \in cast.moving /\ run[r] = 0 /\ key[r] # 0 /\ ~sync[r].on
    /\ run' = [run EXCEPT ![r] = key[r]]
    /\ \E ip \in FreeIPs(r) : addr' = [addr EXCEPT ![r] = ip]
    /\ UNCHANGED <<cast, key, peers, live, sync, met, calm>>

(* Midnight; a sync takes less than a day.                                 *)
Aged(ps) == [h \in Routers |-> IF ps[h] = NoPeer THEN NoPeer
                               ELSE [ps[h] EXCEPT !.seen = Older(@)]]
Day ==
    /\ \A r \in Routers : sync[r].late = 0
    /\ peers' = [r \in Routers |-> Aged(peers[r])]
    /\ sync' = [r \in Routers |-> IF sync[r].on
                   THEN [sync[r] EXCEPT !.peers = Aged(@), !.late = 1] ELSE NoSync]
    /\ met' = [r \in Routers |-> [h \in Routers |-> Older(met[r][h])]]
    /\ UNCHANGED <<cast, key, run, addr, live, calm>>

(* The users' own commands succeeded (they were told if not) and nothing   *)
(* moves any more.                                                         *)
CalmDown ==
    /\ ~calm /\ calm' = TRUE
    /\ \A r \in Routers : run[r] \in {0, key[r]} /\ (r \in cast.syncing => run[r] = key[r])
    /\ UNCHANGED <<cast, key, run, addr, peers, live, sync, met>>

SyncStep(r) == SyncStart(r) \/ (\E ip \in cast.ips : Probe(r, ip)) \/ SyncDone(r)

MeshNext ==
    \/ \E r \in Routers :
         \/ SyncStep(r) \/ SyncAbort(r) \/ ApplyAgain(r)
         \/ MeshLeave(r) \/ MeshJoin(r) \/ MeshRotate(r) \/ PowerOff(r) \/ PowerOn(r)
    \/ Day \/ CalmDown

MeshSpec == MeshInit /\ [][MeshNext]_meshVars

-----------------------------------------------------------------------------
(* Properties                                                              *)

(* The peers that a step drops while the router stays in the mesh.         *)
Dropped(r) == {h \in Routers : Known(r, h) /\ ~Known(r, h)' /\ key'[r] # 0}

(* The garbage collection drops a peer only when the last completed sync   *)
(* that had an answer from it lies TTL midnights or more behind, whatever  *)
(* addresses it had, however many syncs failed and whoever else came and   *)
(* went.                                                                   *)
OnlyAbsentDropped ==
    [][\A r \in Routers : \A h \in Dropped(r) : met[r][h] >= TTL]_meshVars

(* What the comment of meshGCPeers promises, in its calendar days: a peer  *)
(* is dropped when it is unseen for more than TTL days.  The day before is *)
(* enough for the code.                                                    *)
KeptForTTL ==
    [][\A r \in Routers : \A h \in Dropped(r) : met[r][h] > TTL]_meshVars

(* An address that a present router took over from an absent one.          *)
TakenOver(r, h) == \E g \in Overlay(r) : addr[g] = peers[r][h].ip

Settled(r) ==
    \A h \in Routers \ {r} :
      IF h \in Overlay(r) /\ key[h] = key[r]
        THEN peers[r][h].ip = addr[h] /\ live[r][h] = <<addr[h], key[r]>>
        ELSE Known(r, h) => TakenOver(r, h)

(* Once nothing moves, every router's configuration and its mihomo come to *)
(* know every friend at its present address and forget the absent, and     *)
(* stay that way: a sync's apply does not restart the overlay and start    *)
(* the next round, and an apply that failed after the save is made up for  *)
(* although the next sync finds nothing new.                               *)
MeshSettles ==
    <>[](calm => \A r \in cast.syncing : key[r] # 0 => Settled(r))
=============================================================================
