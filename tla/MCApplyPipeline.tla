-------------------------- MODULE MCApplyPipeline ---------------------------
(* Small instances of ApplyPipeline.                                       *)
EXTENDS ApplyPipeline

(* Edits, updates and reboots around applies that fail on the way forward. *)
Updating ==
    [editable |-> {"mihomo", "bundle", "zapret"}, rejected |-> {}, large |-> {},
     fresh |-> FALSE, env |-> {"update", "reboot"}, faults |-> {"cmd", "disk", "kill"}]

(* A rejected version, drift of the kernel's state, forced applies.        *)
Drifting ==
    [editable |-> {"mihomo", "bundle", "policy"}, rejected |-> {2}, large |-> {},
     fresh |-> FALSE, env |-> {"force", "drift", "reboot"}, faults |-> {"cmd", "disk"}]

(* From a fresh install, with every fault, also during the rollback.       *)
Installing ==
    [editable |-> {}, rejected |-> {}, large |-> {"sets"}, fresh |-> TRUE,
     env |-> {"rules", "generate", "disable", "reboot"},
     faults |-> {"cmd", "disk", "kill", "undo"}]

(* Service restarts that time out, going forward and rolling back.         *)
Restarting ==
    [editable |-> {"mihomo", "bundle"}, rejected |-> {}, large |-> {},
     fresh |-> FALSE, env |-> {"reboot"}, faults |-> {"cmd", "slow"}]

(* The same where mihomo's init script has to generate first.              *)
Starting ==
    [editable |-> {"zapret"}, rejected |-> {}, large |-> {}, fresh |-> TRUE,
     env |-> {"reboot"}, faults |-> {"cmd", "slow"}]

MCScenarios == {Updating, Drifting, Installing, Restarting, Starting}
=============================================================================
