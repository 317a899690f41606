------------------------------ MODULE MCServices ------------------------------
(***************************************************************************)
(* The services beside the pipeline: the friend mesh, the test of one      *)
(* client's Zapret strategy, the installation of mihomo releases and the   *)
(* lookup of download hosts.  They share no state of their models, so a    *)
(* history is about one of them, and the others stay as they begin.        *)
(***************************************************************************)
EXTENDS MeshSync, ZapretClientTest, MihomoInstall, BootstrapFetch, TLC

CONSTANTS ra, rb, rx, c1, c2, h1, h2

VARIABLE service

vars == <<service, meshVars, zctVars, insVars, bfVars>>

(* One router watches two others come and go over two addresses.           *)
Watcher == [members |-> {ra, rb, rx}, syncing |-> {ra}, moving |-> {rb, rx}, joining |-> {},
            ips |-> {1, 2}, keys |-> 1, start |-> ra :> 1 @@ rb :> 2 @@ rx :> 0]
(* Two routers watch each other.                                           *)
Pair == [members |-> {ra, rb}, syncing |-> {ra, rb}, moving |-> {}, joining |-> {},
         ips |-> {1, 2, 3}, keys |-> 1, start |-> ra :> 1 @@ rb :> 2]
(* They leave, join, and change their secrets.                             *)
Rotation == [members |-> {ra, rb}, syncing |-> {ra}, moving |-> {}, joining |-> {ra, rb},
             ips |-> {1, 2}, keys |-> 2, start |-> ra :> 1 @@ rb :> 2]
(* One comes back at another address.                                      *)
Mover == [members |-> {ra, rb}, syncing |-> {ra}, moving |-> {rb}, joining |-> {},
          ips |-> {1, 2, 3}, keys |-> 1, start |-> ra :> 1 @@ rb :> 2]
MCCasts == {Watcher, Pair, Rotation, Mover}

MCFrom == c1 :> h1 @@ c2 :> h2
MCAttempts == c1 :> 2 @@ c2 :> 1

Init ==
    /\ service \in {"mesh", "client test", "install", "download"}
    /\ MeshInit /\ ZctInit /\ InsInit /\ BootstrapInit
    /\ service # "mesh" => cast = Pair
    /\ service # "install" => latest = CHOOSE r \in Releases : TRUE
    /\ origin[h2] \notin Squatted
    /\ service # "download" => origin[h1] \notin Squatted

Next ==
    /\ UNCHANGED service
    /\ \/ service = "mesh" /\ MeshNext /\ UNCHANGED <<zctVars, insVars, bfVars>>
       \/ service = "client test" /\ ZctNext /\ UNCHANGED <<meshVars, insVars, bfVars>>
       \/ service = "install" /\ InsNext /\ UNCHANGED <<meshVars, zctVars, bfVars>>
       \/ service = "download" /\ BootstrapNext /\ UNCHANGED <<meshVars, zctVars, insVars>>

(* Days pass, also while syncs are under way, and cron goes on syncing.    *)
(* The worker of a client test and the commands that clean up run on; the  *)
(* five minutes pass, and after them the kernel's timed sets and nfqws's   *)
(* watchdog end.  Commands under way and the auto-update cron go on.  The  *)
(* TTL passes; downloads are started (cron), try what they may, and end.   *)
Fairness ==
    /\ WF_meshVars(service = "mesh" /\ Day)
    /\ \A r \in {ra, rb, rx} : WF_meshVars(service = "mesh" /\ r \in Routers /\ SyncStep(r))
    /\ WF_zctVars(service = "client test" /\ WorkerStep)
    /\ WF_zctVars(service = "client test" /\ StopClean)
    /\ WF_zctVars(service = "client test" /\ Polled)
    /\ WF_zctVars(service = "client test" /\ TimeUp)
    /\ WF_zctVars(service = "client test" /\ Expire)
    /\ \A q \in Queues : WF_zctVars(service = "client test" /\ Exit(q))
    /\ \A j \in Installers : /\ WF_insVars(service = "install" /\ Work(j))
                             /\ WF_insVars(service = "install" /\ AutoUpdate(j))
    /\ WF_bfVars(service = "download" /\ TTLPasses)
    /\ \A d \in Clients : /\ WF_bfVars(service = "download" /\ DownloadStep(d))
                          /\ WF_bfVars(service = "download" /\ EndDownload(d))
                          /\ WF_bfVars(service = "download" /\ StartDownload(d))

Spec == Init /\ [][Next]_vars /\ Fairness

(* The types of the four, with who holds the session lock, and a peer      *)
(* never being recorded without its address.                               *)
TypeOK == MeshTypeOK /\ ZctTypeOK /\ InsTypeOK /\ BootstrapTypeOK
=============================================================================
