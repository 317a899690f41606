-------------------------- MODULE WholesaleService --------------------------
(***************************************************************************)
(* What the coalescing operation lock promises its callers, without locks, *)
(* marker files or loops.                                                  *)
(*                                                                         *)
(* A caller submits a ticket.  Runs of the wholesale operation exclude one *)
(* another, and the start of a run covers every ticket submitted before    *)
(* it.  A caller may be told "ok" only once its ticket is covered, whether *)
(* it ran the operation itself or was caught up by another caller's run.   *)
(* A caller may also give up (a timeout, an error, a death).               *)
(***************************************************************************)
CONSTANTS Callers,   \* the processes that submit tickets
          NoOne      \* the absence of a caller

VARIABLES ticket,    \* [Callers -> Tickets]
          runner     \* the caller whose run is under way, or NoOne

serviceVars == <<ticket, runner>>

Tickets == {"none", "waiting", "covered", "ok"}

ServiceInit ==
    /\ ticket = [c \in Callers |-> "none"]
    /\ runner = NoOne

(* A caller asks for a run that starts after now. *)
Submit(c) ==
    /\ ticket[c] = "none"
    /\ ticket' = [ticket EXCEPT ![c] = "waiting"]
    /\ UNCHANGED runner

(* A run starts; every waiting ticket is covered by it. *)
StartRun(c) ==
    /\ runner = NoOne
    /\ runner' = c
    /\ ticket' = [d \in Callers |->
                    IF ticket[d] = "waiting" THEN "covered" ELSE ticket[d]]

(* The run of c ends and c survives it. *)
EndRun(c) ==
    /\ runner = c
    /\ runner' = NoOne
    /\ UNCHANGED ticket

(* Only a covered ticket is answered "ok". *)
Answer(c) ==
    /\ ticket[c] = "covered"
    /\ ticket' = [ticket EXCEPT ![c] = "ok"]
    /\ UNCHANGED runner

(* The caller leaves: after an answer, or without one.  If its run was     *)
(* under way, the run ends with it.                                        *)
Leave(c) ==
    /\ ticket' = [ticket EXCEPT ![c] = "none"]
    /\ runner' = IF runner = c THEN NoOne ELSE runner

ServiceNext ==
    \E c \in Callers : Submit(c) \/ StartRun(c) \/ EndRun(c) \/ Answer(c) \/ Leave(c)

ServiceSpec == ServiceInit /\ [][ServiceNext]_serviceVars
=============================================================================
