--------------------------- MODULE OperationLock ----------------------------
(***************************************************************************)
(* The global operation lock of the purewrt command line program           *)
(* (cmd/purewrt/main.go, internal/system/lock.go) and the LuCI dispatcher  *)
(* that starts `purewrt update` in the background (rpcd).                  *)
(*                                                                         *)
(* Three kinds of command meet at the lock:                                *)
(*   wholesale  withOperationLockCoalesce: touch the dirty marker, wait    *)
(*              for the lock, run only if the marker is still there;       *)
(*   named      withOperationLock: wait for the lock, run once;            *)
(*   observer   withOperationTryLock: run now or skip.                     *)
(* A process that dies, or whose operation ends in fatal() (os.Exit),      *)
(* loses its flock; the marker stays as it was.                            *)
(*                                                                         *)
(* covered, covering and served are observations: they record, for the     *)
(* request a caller has outstanding, which runs started after it and which *)
(* of these completed.  No guard reads them.                               *)
(***************************************************************************)
EXTENDS Naturals

CONSTANTS
    Callers,      \* the processes
    NoOne,        \* the absence of a process
    Wholesale,    \* commands run through withOperationLockCoalesce
    Named,        \* commands run through withOperationLock
    Observers,    \* commands run through withOperationTryLock
    BgCommand,    \* the wholesale command update_start launches
    NoCommand,    \* the command of an idle process
    CoalesceCap,  \* operationCoalesceCap
    MaxPolls,     \* busy polls that fit in operationLockMaxWait
    Faults        \* which of "fn", "kill", "touch" may happen

ASSUME NoOneAssumption == NoOne \notin Callers
ASSUME CommandAssumption ==
    /\ BgCommand \in Wholesale
    /\ Wholesale \cap Named = {} /\ Wholesale \cap Observers = {}
    /\ Named \cap Observers = {}
    /\ NoCommand \notin Wholesale \cup Named \cup Observers
ASSUME BoundAssumption == CoalesceCap \in Nat \ {0} /\ MaxPolls \in Nat

VARIABLES
    lock,      \* the holder of /var/run/purewrt.lock, or NoOne
    dirty,     \* /var/run/purewrt.dirty exists
    bgLock,    \* the owner of /tmp/purewrt-update.lock, or NoOne
    pc,        \* where each process is
    cmd,       \* the command each process runs
    iter,      \* catch-up iterations the holder has finished
    waited,    \* busy polls of the process so far
    covered,   \* requests after which a wholesale run started
    covering,  \* requests the run under way covers
    served     \* commands completed by a run that started after the request

vars == <<lock, dirty, bgLock, pc, cmd, iter, waited, covered, covering, served>>

Commands == Wholesale \cup Named \cup Observers

(* "ok", "error", "skipped" and "busy" are how a command can end.          *)
Ended == {"ok", "error", "skipped", "busy"}
Holding == {"acquired", "loop", "running", "check", "release"}
Alive == {"start", "queued"} \cup Holding
Places == {"idle", "rpc"} \cup Alive \cup Ended

TypeOK ==
    /\ lock \in Callers \cup {NoOne}
    /\ dirty \in BOOLEAN
    /\ bgLock \in Callers \cup {NoOne}
    /\ pc \in [Callers -> Places]
    /\ cmd \in [Callers -> Commands \cup {NoCommand}]
    /\ iter \in [Callers -> 0..CoalesceCap]
    /\ waited \in [Callers -> 0..MaxPolls]
    /\ covered \in SUBSET Callers
    /\ covering \in SUBSET Callers
    /\ served \in [Callers -> SUBSET Wholesale]

Init ==
    /\ lock = NoOne /\ dirty = FALSE /\ bgLock = NoOne
    /\ pc = [c \in Callers |-> "idle"]
    /\ cmd = [c \in Callers |-> NoCommand]
    /\ iter = [c \in Callers |-> 0]
    /\ waited = [c \in Callers |-> 0]
    /\ covered = {} /\ covering = {}
    /\ served = [c \in Callers |-> {}]

-----------------------------------------------------------------------------
(* Requests                                                                *)

Move(c, place) == pc' = [pc EXCEPT ![c] = place]

(* A request of c starts now: nothing covers it yet.                       *)
NewRequest(c) ==
    /\ covered' = covered \ {c}
    /\ covering' = covering \ {c}
    /\ served' = [served EXCEPT ![c] = {}]

observations == <<covered, covering, served>>

(* The error of the marker's WriteFile is discarded.                       *)
TouchDirty == dirty' = TRUE \/ ("touch" \in Faults /\ UNCHANGED dirty)

(* Variant: a command that does not announce itself.                       *)
CallUnannounced(c, w) ==
    /\ pc[c] = "idle"
    /\ Move(c, "queued")
    /\ cmd' = [cmd EXCEPT ![c] = w]
    /\ NewRequest(c)
    /\ UNCHANGED <<lock, dirty, bgLock, iter, waited>>

CallWholesale(c, w) ==
    /\ pc[c] = "idle"
    /\ Move(c, "queued")
    /\ cmd' = [cmd EXCEPT ![c] = w]
    /\ TouchDirty
    /\ NewRequest(c)
    /\ UNCHANGED <<lock, bgLock, iter, waited>>

CallNamed(c, n) ==
    /\ pc[c] = "idle"
    /\ Move(c, "queued")
    /\ cmd' = [cmd EXCEPT ![c] = n]
    /\ UNCHANGED <<lock, dirty, bgLock, iter, waited, observations>>

(* An observer takes a free lock at once and skips a busy one.             *)
CallObserver(c, o) ==
    /\ pc[c] = "idle"
    /\ cmd' = [cmd EXCEPT ![c] = o]
    /\ \/ lock = NoOne /\ lock' = c /\ Move(c, "running")
       \/ lock # NoOne /\ Move(c, "skipped") /\ UNCHANGED lock
    /\ UNCHANGED <<dirty, bgLock, iter, waited, observations>>

(* rpcd update_start: the shell touches the marker ...                     *)
RpcTouch(c) ==
    /\ pc[c] = "idle"
    /\ Move(c, "rpc")
    /\ dirty' = TRUE
    /\ NewRequest(c)
    /\ UNCHANGED <<lock, bgLock, cmd, iter, waited>>

(* ... then forks a worker unless one is still there.                      *)
RpcStart(c) ==
    /\ pc[c] = "rpc"
    /\ \/ /\ bgLock = NoOne
          /\ bgLock' = c
          /\ Move(c, "start")
          /\ cmd' = [cmd EXCEPT ![c] = BgCommand]
       \/ /\ bgLock # NoOne
          /\ Move(c, "busy")
          /\ UNCHANGED <<bgLock, cmd>>
    /\ UNCHANGED <<lock, dirty, iter, waited, observations>>

(* The worker enters withOperationLockCoalesce.                            *)
WorkerTouch(c) ==
    /\ pc[c] = "start"
    /\ Move(c, "queued")
    /\ TouchDirty
    /\ UNCHANGED <<lock, bgLock, cmd, iter, waited, observations>>

-----------------------------------------------------------------------------
(* The lock                                                                *)

(* Variants: a lock that does not exclude, and a wait without a deadline.  *)
PollShared(c) ==
    /\ pc[c] = "queued"
    /\ lock' = c
    /\ Move(c, IF cmd[c] \in Wholesale THEN "acquired" ELSE "running")
    /\ waited' = [waited EXCEPT ![c] = 0]
    /\ UNCHANGED <<dirty, bgLock, cmd, iter, observations>>

PollForever(c) ==
    /\ pc[c] = "queued" /\ lock = NoOne
    /\ lock' = c
    /\ Move(c, IF cmd[c] \in Wholesale THEN "acquired" ELSE "running")
    /\ UNCHANGED <<waited, dirty, bgLock, cmd, iter, observations>>

(* acquireBlocking: TryAcquire, then the deadline, then sleep 500 ms.      *)
Poll(c) ==
    /\ pc[c] = "queued"
    /\ \/ /\ lock = NoOne
          /\ lock' = c
          /\ Move(c, IF cmd[c] \in Wholesale THEN "acquired" ELSE "running")
          /\ waited' = [waited EXCEPT ![c] = 0]
       \/ /\ lock # NoOne /\ waited[c] < MaxPolls
          /\ waited' = [waited EXCEPT ![c] = @ + 1]
          /\ UNCHANGED <<lock, pc>>
       \/ /\ lock # NoOne /\ waited[c] = MaxPolls
          /\ Move(c, "error")
          /\ UNCHANGED <<lock, waited>>
    /\ UNCHANGED <<dirty, bgLock, cmd, iter, observations>>

(* With the lock, a wholesale command first looks whether it was caught up.*)
CheckCaughtUp(c) ==
    /\ pc[c] = "acquired"
    /\ Move(c, IF dirty THEN "loop" ELSE "release")
    /\ UNCHANGED <<lock, dirty, bgLock, cmd, iter, waited, observations>>

(* The requests a run that starts now comes after.                         *)
Outstanding == {c \in Callers : pc[c] \in {"rpc", "busy"}
                                \/ (pc[c] \in Alive /\ cmd[c] \in Wholesale)}

(* Clear the marker, then run fn().                                        *)
StartRun(c) ==
    /\ pc[c] = "loop"
    /\ Move(c, "running")
    /\ dirty' = FALSE
    /\ covered' = covered \cup Outstanding
    /\ covering' = Outstanding
    /\ UNCHANGED <<lock, bgLock, cmd, iter, waited, served>>

(* Variants: the marker is cleared after the run, runs are not counted.    *)
RunDoneClearing(c) ==
    /\ pc[c] = "running"
    /\ dirty' = FALSE
    /\ Move(c, IF cmd[c] \in Wholesale THEN "check" ELSE "release")
    /\ UNCHANGED <<lock, bgLock, cmd, iter, waited, observations>>

RunDoneUncounted(c) ==
    /\ pc[c] = "running"
    /\ Move(c, IF cmd[c] \in Wholesale THEN "check" ELSE "release")
    /\ UNCHANGED <<lock, dirty, bgLock, cmd, iter, waited, observations>>

(* fn() returns.                                                           *)
RunDone(c) ==
    /\ pc[c] = "running"
    /\ IF cmd[c] \in Wholesale
         THEN /\ Move(c, "check")
              /\ iter' = [iter EXCEPT ![c] = @ + 1]
              /\ served' = [d \in Callers |-> IF d \in covering
                                                THEN served[d] \cup {cmd[c]}
                                                ELSE served[d]]
              /\ covering' = {}
         ELSE /\ Move(c, "release")
              /\ UNCHANGED <<iter, served, covering>>
    /\ UNCHANGED <<lock, dirty, bgLock, cmd, waited, covered>>

(* Variant: no cap on the catch-up runs.                                   *)
CheckDirtyUncapped(c) ==
    /\ pc[c] = "check"
    /\ Move(c, IF dirty THEN "loop" ELSE "release")
    /\ UNCHANGED <<lock, dirty, bgLock, cmd, iter, waited, observations>>

(* Run again on behalf of a newer request, at most CoalesceCap runs.       *)
CheckDirty(c) ==
    /\ pc[c] = "check"
    /\ Move(c, IF dirty /\ iter[c] < CoalesceCap THEN "loop" ELSE "release")
    /\ UNCHANGED <<lock, dirty, bgLock, cmd, iter, waited, observations>>

(* The deferred lock.Close and the exit with rc 0.                         *)
Release(c) ==
    /\ pc[c] = "release"
    /\ lock' = NoOne
    /\ Move(c, "ok")
    /\ UNCHANGED <<dirty, bgLock, cmd, iter, waited, observations>>

(* fn() ends in fatal(), or the process dies: the kernel drops its flock.  *)
Die(c) ==
    /\ \/ "fn" \in Faults /\ pc[c] = "running"
       \/ "kill" \in Faults /\ pc[c] \in Alive
    /\ lock' = IF lock = c THEN NoOne ELSE lock
    /\ covering' = IF pc[c] = "running" /\ cmd[c] \in Wholesale THEN {} ELSE covering
    /\ Move(c, "error")
    /\ UNCHANGED <<dirty, bgLock, cmd, iter, waited, covered, served>>

(* The worker's subshell stores the exit code and drops its lock file.     *)
WorkerExit(c) ==
    /\ bgLock = c /\ pc[c] \in Ended
    /\ bgLock' = NoOne
    /\ UNCHANGED <<lock, dirty, pc, cmd, iter, waited, observations>>

(* The process is gone; the same identity may call again later.            *)
Forget(c) ==
    /\ pc[c] \in Ended /\ bgLock # c
    /\ Move(c, "idle")
    /\ cmd' = [cmd EXCEPT ![c] = NoCommand]
    /\ iter' = [iter EXCEPT ![c] = 0]
    /\ waited' = [waited EXCEPT ![c] = 0]
    /\ NewRequest(c)
    /\ UNCHANGED <<lock, dirty, bgLock>>

HolderStep(c) == CheckCaughtUp(c) \/ StartRun(c) \/ RunDone(c) \/ CheckDirty(c) \/ Release(c)

Next ==
    \E c \in Callers :
        \/ \E w \in Wholesale : CallWholesale(c, w)
        \/ \E n \in Named : CallNamed(c, n)
        \/ \E o \in Observers : CallObserver(c, o)
        \/ RpcTouch(c) \/ RpcStart(c) \/ WorkerTouch(c)
        \/ Poll(c) \/ HolderStep(c) \/ Die(c) \/ WorkerExit(c) \/ Forget(c)

Spec == Init /\ [][Next]_vars

(* A waiter polls on its own clock, whatever the holder does.              *)
PollingSpec == Spec /\ \A c \in Callers : WF_vars(Poll(c))

-----------------------------------------------------------------------------
(* Properties                                                              *)

(* No lost wake-up: a wholesale request that has not been answered is      *)
(* either still announced by the dirty marker or was followed by the start *)
(* of a run (the marker is cleared before fn(), never after).              *)
RequestIsRemembered ==
    \A c \in Outstanding : ~dirty => c \in covered

(* withOperationLockCoalesce returns 0 only to a caller after whose touch  *)
(* a run of fn() started, its own or the previous holder's.                *)
OkMeansCovered ==
    \A c \in Callers :
        pc[c] \in {"release", "ok"} /\ cmd[c] \in Wholesale => c \in covered

(* "A previous holder caught us up -- work is done": rc 0 means that the   *)
(* command the caller asked for was completed by a run that started after  *)
(* the call.                                                               *)
OkMeansServed ==
    \A c \in Callers :
        pc[c] = "ok" /\ cmd[c] \in Wholesale => cmd[c] \in served[c]

(* acquireBlocking ends for every waiter, even when the holder never does. *)
QueueIsLeft ==
    \A c \in Callers : pc[c] = "queued" ~> pc[c] # "queued"

(* A holder whose operation ends (each external command it runs has a      *)
(* timeout) lets the lock go although requests keep arriving: the number   *)
(* of catch-up runs is capped.                                             *)
HolderRuns == \A c \in Callers : WF_vars(HolderStep(c))
HolderLetsGo ==
    HolderRuns => \A c \in Callers : lock = c ~> lock # c

(* The lock implements the service: see WholesaleService.                  *)
ticketOf == [c \in Callers |->
    IF pc[c] = "ok" /\ cmd[c] \in Wholesale THEN "ok"
    ELSE IF c \notin Outstanding THEN "none"
    ELSE IF c \in covered THEN "covered" ELSE "waiting"]
runnerOf == IF lock # NoOne /\ pc[lock] = "running" /\ cmd[lock] \in Wholesale
              THEN lock ELSE NoOne

Service == INSTANCE WholesaleService WITH ticket <- ticketOf, runner <- runnerOf

ImplementsService == Service!ServiceSpec
=============================================================================
