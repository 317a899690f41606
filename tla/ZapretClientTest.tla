--------------------------- MODULE ZapretClientTest ---------------------------
(***************************************************************************)
(* The Zapret test of one LAN client (zapret_client_test_session.go,       *)
(* zapret_client_switch.go, zapret_client_offload.go): a worker, alone     *)
(* under a file lock, sends the client's packets to an nfqws on a queue,   *)
(* for five minutes or until it is stopped; other processes ask it through *)
(* files to stop or to change the strategy, poll its state, and clean up   *)
(* after a worker that was killed.                                         *)
(*                                                                         *)
(* Data abstraction: a strategy is a model value, the queues 9908 and 9910 *)
(* are 1 and 2, a session's Expires is its number.  The five minutes end   *)
(* at some moment; then the context, the watchdogs and the kernel's timed  *)
(* sets end one after the other.  Flow offloading is configured.           *)
(***************************************************************************)
EXTENDS Naturals

CONSTANTS Strategies, MaxSessions, MaxSwitches

ASSUME ClientTestAssumption == MaxSessions \in Nat /\ MaxSwitches \in Nat

VARIABLES
    worker,    \* the session's process: where it is, its queue and request
    holder,    \* who holds the session lock
    state,     \* the state file
    stopFile,  \* .stop exists
    request,   \* .switch
    result,    \* .switch-result
    kernel,    \* what the session has put into the kernel
    snapshot,  \* .offload.json exists
    nfqws,     \* the strategy of the process on each queue
    over,      \* the session's five minutes have passed
    caller,    \* the switch command under way
    session, switches,   \* how many there have been
    asked      \* observation: the strategies asked for in this session

zctVars == <<worker, holder, state, stopFile, request, result, kernel, snapshot,
             nfqws, over, caller, session, switches, asked>>
disk == <<stopFile, request, result, snapshot>>
count == <<session, switches, asked>>

Queues == {1, 2}
Spare(q) == 3 - q
NoStrategy == "none"
Asking == [id : 0..MaxSwitches, session : 0..MaxSessions, strategy : Strategies \cup {NoStrategy}]
Nothing == [id |-> 0, session |-> 0, strategy |-> NoStrategy]
Idle == [at |-> "none", queue |-> 1, req |-> Nothing]

(* queue: where the client's packets go (0: no table); route: the rules    *)
(* and the table of the test mark; bypass: the set in the production       *)
(* table; guard: fw4's offload rule is replaced; timed: the elements of    *)
(* the timed sets are still there.                                         *)
Clean == [queue |-> 0, route |-> FALSE, bypass |-> FALSE, guard |-> FALSE, timed |-> FALSE]

Workers == [at : {"none", "locked", "preparing", "started", "routed", "testing",
                  "starting", "swapping", "swapped", "replying", "ending", "ended"},
            queue : Queues, req : Asking]
StateFiles == [running : BOOLEAN, phase : {"none", "preparing", "testing", "stopped"},
               strategy : Strategies \cup {NoStrategy}, error : BOOLEAN,
               session : 0..MaxSessions, process : {0} \cup Queues]
Kernels == [queue : {0} \cup Queues, route : BOOLEAN, bypass : BOOLEAN,
            guard : BOOLEAN, timed : BOOLEAN]

ZctTypeOK ==
    /\ worker \in Workers /\ state \in StateFiles /\ kernel \in Kernels
    /\ holder \in {"none", "worker", "stop", "status"}
    /\ worker.at # "none" <=> holder = "worker"
    /\ stopFile \in BOOLEAN /\ snapshot \in BOOLEAN /\ over \in BOOLEAN
    /\ request \in Asking
    /\ result \in [id : 0..MaxSwitches, ok : BOOLEAN]
    /\ nfqws \in [Queues -> Strategies \cup {NoStrategy}]
    /\ caller \in [at : {"none", "checked", "waiting", "told"}, req : Asking]
    /\ session \in 0..MaxSessions /\ switches \in 0..MaxSwitches
    /\ asked \subseteq Strategies

ZctInit ==
    /\ worker = Idle /\ holder = "none"
    /\ state = [running |-> FALSE, phase |-> "none", strategy |-> NoStrategy, error |-> FALSE,
                session |-> 0, process |-> 0]
    /\ stopFile = FALSE /\ request = Nothing /\ result = [id |-> 0, ok |-> FALSE]
    /\ kernel = Clean /\ snapshot = FALSE
    /\ nfqws = [q \in Queues |-> NoStrategy]
    /\ over = FALSE /\ caller = [at |-> "none", req |-> Nothing]
    /\ session = 0 /\ switches = 0 /\ asked = {}

StaleLock == worker' = Idle /\ UNCHANGED holder     \* variant: a lock that outlives its process
Release == worker' = Idle /\ holder' = "none"
Goto(place) == worker' = [worker EXCEPT !.at = place]
Kill(q) == nfqws' = [nfqws EXCEPT ![q] = NoStrategy]

(* Everything of the session leaves the kernel, or some of it stays and    *)
(* that is an error.  The offload rule is put back from its snapshot.      *)
LeavesRoute(k) == [k EXCEPT !.queue = 0, !.bypass = FALSE]   \* variant: forgets them
Cleaned(k) == [Clean EXCEPT !.guard = k.guard /\ ~snapshot]
Cleanup(failed) ==
    \/ failed = FALSE /\ kernel' = Cleaned(kernel) /\ snapshot' = FALSE
    \/ failed = TRUE /\ UNCHANGED <<kernel, snapshot>>

-----------------------------------------------------------------------------
(* The worker, up to the test                                              *)

RunLock ==
    /\ holder = "none" /\ session < MaxSessions
    /\ holder' = "worker" /\ session' = session + 1
    /\ worker' = [Idle EXCEPT !.at = "locked"]
    /\ UNCHANGED <<state, disk, kernel, nfqws, over, caller, switches, asked>>

(* Requests left for an earlier session are dropped.                       *)
RunPrepare(s) ==
    /\ worker.at = "locked"
    /\ Goto("preparing")
    /\ stopFile' = FALSE /\ request' = Nothing /\ over' = FALSE /\ asked' = {s}
    /\ state' = [running |-> TRUE, phase |-> "preparing", strategy |-> s, error |-> FALSE,
                 session |-> session, process |-> 0]
    /\ UNCHANGED <<holder, result, snapshot, kernel, nfqws, caller, session, switches>>

(* The checks, and nfqws on the first queue.                               *)
RunStart ==
    /\ worker.at = "preparing" /\ ~kernel.route /\ nfqws[1] = NoStrategy
    /\ nfqws' = [nfqws EXCEPT ![1] = state.strategy]
    /\ Goto("started")
    /\ UNCHANGED <<holder, state, disk, kernel, over, caller, count>>

RunRoute ==
    /\ worker.at = "started"
    /\ kernel' = [kernel EXCEPT !.route = TRUE]
    /\ Goto(IF stopFile THEN "ending" ELSE "routed")
    /\ UNCHANGED <<holder, state, disk, nfqws, over, caller, count>>

(* The snapshot, then all the rules in one transaction, then the state.    *)
RunInstall ==
    /\ worker.at = "routed" /\ ~kernel.guard
    /\ snapshot' = TRUE
    /\ kernel' = [queue |-> 1, route |-> TRUE, bypass |-> TRUE, guard |-> TRUE, timed |-> TRUE]
    /\ state' = [state EXCEPT !.phase = "testing", !.process = 1]
    /\ Goto("testing")
    /\ UNCHANGED <<holder, stopFile, request, result, nfqws, over, caller, count>>

(* A check that fails, an nfqws that does not start, rules that are        *)
(* refused, a state that cannot be saved: before nfqws runs there is       *)
(* nothing to clean.                                                       *)
RunFail ==
    /\ worker.at \in {"locked", "preparing", "started", "routed", "testing", "replying"}
    /\ state' = [state EXCEPT !.error = TRUE]
    /\ snapshot' \in IF worker.at = "routed" THEN {snapshot, TRUE} ELSE {snapshot}
    /\ Goto(IF worker.at \in {"locked", "preparing"} THEN "ended" ELSE "ending")
    /\ UNCHANGED <<holder, stopFile, request, result, kernel, nfqws, over, caller, count>>

-----------------------------------------------------------------------------
(* The worker, testing                                                     *)

(* Time is up, .stop, or something the test needs has gone.                *)
MustEnd == over \/ stopFile \/ nfqws[worker.queue] = NoStrategy
Changed == ~kernel.guard \/ ~kernel.bypass

TestEnds ==
    /\ worker.at = "testing" /\ (MustEnd \/ Changed)
    /\ state' = [state EXCEPT !.error = ~(over \/ stopFile)]
    /\ Goto("ending")
    /\ UNCHANGED <<holder, disk, kernel, nfqws, over, caller, count>>

(* The request is read and removed; one for another session is ignored,    *)
(* a busy spare queue or a strategy that does not start refused.           *)
AnySession(req) == TRUE            \* variant: Expires is not compared
Applies(req) == req.session = session

SwitchRead ==
    /\ worker.at = "testing" /\ ~stopFile /\ request # Nothing
    /\ request' = Nothing
    /\ worker' = IF Applies(request) THEN [worker EXCEPT !.at = "starting", !.req = request]
                                     ELSE worker
    /\ UNCHANGED <<holder, state, stopFile, result, snapshot, kernel, nfqws, over, caller, count>>

SwitchStart ==
    /\ worker.at = "starting"
    /\ \/ /\ nfqws[Spare(worker.queue)] = NoStrategy /\ ~over
          /\ nfqws' = [nfqws EXCEPT ![Spare(worker.queue)] = worker.req.strategy]
          /\ Goto("swapping") /\ UNCHANGED state
       \/ /\ state' = [state EXCEPT !.error = TRUE]
          /\ Goto("replying") /\ UNCHANGED nfqws
    /\ UNCHANGED <<holder, disk, kernel, over, caller, count>>

(* One nft transaction; not when the test is ending or the replacement is  *)
(* already gone.  What was started for nothing is stopped.                 *)
SwitchRules ==
    /\ worker.at = "swapping"
    /\ LET q == Spare(worker.queue) IN
       \/ /\ ~over /\ ~stopFile /\ nfqws[q] # NoStrategy /\ kernel.queue # 0
          /\ kernel' = [kernel EXCEPT !.queue = q]
          /\ Goto("swapped") /\ UNCHANGED <<state, nfqws>>
       \/ /\ Kill(q) /\ state' = [state EXCEPT !.error = TRUE]
          /\ Goto("replying") /\ UNCHANGED kernel
    /\ UNCHANGED <<holder, disk, over, caller, count>>

(* The old nfqws is stopped and the state saved, before the answer.        *)
SwitchDone ==
    /\ worker.at = "swapped"
    /\ Kill(worker.queue)
    /\ worker' = [worker EXCEPT !.at = "replying", !.queue = Spare(@)]
    /\ state' = [state EXCEPT !.strategy = worker.req.strategy,
                              !.process = Spare(worker.queue), !.error = FALSE]
    /\ UNCHANGED <<holder, disk, kernel, over, caller, count>>

SwitchReply ==
    /\ worker.at = "replying"
    /\ result' = [id |-> worker.req.id, ok |-> ~state.error]
    /\ worker' = [worker EXCEPT !.at = "testing", !.req = Nothing]
    /\ UNCHANGED <<holder, state, stopFile, request, snapshot, kernel, nfqws, over, caller, count>>

-----------------------------------------------------------------------------
(* The worker's end: rules first, then nfqws, then the state, then the lock *)

RunCleanup ==
    /\ worker.at = "ending"
    /\ \E failed \in BOOLEAN :
         /\ Cleanup(failed)
         /\ state' = [state EXCEPT !.error = @ \/ failed]
    /\ nfqws' = [nfqws EXCEPT ![worker.queue] = NoStrategy]
    /\ Goto("ended")
    /\ UNCHANGED <<holder, stopFile, request, result, over, caller, count>>

RunEnd ==
    /\ worker.at = "ended"
    /\ state' = [state EXCEPT !.running = FALSE, !.phase = "stopped", !.process = 0]
    /\ Release
    /\ UNCHANGED <<disk, kernel, nfqws, over, caller, count>>

(* The worker is killed: its lock is free, all else stays.                 *)
RunKilled ==
    /\ worker.at # "none"
    /\ Release
    /\ UNCHANGED <<state, disk, kernel, nfqws, over, caller, count>>

-----------------------------------------------------------------------------
(* The other commands                                                      *)

(* ZapretClientStop leaves its file; without a worker it cleans up itself  *)
(* and kills the nfqws that the state names.                               *)
StopAsk ==
    /\ ~stopFile /\ stopFile' = TRUE
    /\ holder' = IF holder = "none" THEN "stop" ELSE holder
    /\ UNCHANGED <<worker, state, request, result, snapshot, kernel, nfqws, over, caller, count>>

StopClean ==
    /\ holder = "stop" /\ holder' = "none"
    /\ nfqws' = [q \in Queues |-> IF q = state.process THEN NoStrategy ELSE nfqws[q]]
    /\ IF state.session = 0 THEN UNCHANGED <<kernel, snapshot, state>>
       ELSE \E failed \in BOOLEAN :
              /\ Cleanup(failed)
              /\ state' = [state EXCEPT !.running = FALSE, !.phase = "stopped",
                                        !.process = 0, !.error = failed]
    /\ UNCHANGED <<worker, stopFile, request, result, over, caller, count>>

(* ZapretClientStatus tries the lock to see whether a worker lives, and so *)
(* holds it for a moment itself.                                           *)
Poll == /\ state.running /\ holder = "none" /\ holder' = "status"
        /\ UNCHANGED <<worker, state, disk, kernel, nfqws, over, caller, count>>
Polled == /\ holder = "status" /\ holder' = "none"
          /\ UNCHANGED <<worker, state, disk, kernel, nfqws, over, caller, count>>

(* ZapretClientSwitch, one at a time: checks the state, leaves a request,  *)
(* waits ten seconds for its answer.                                       *)
SwitchCheck(s) ==
    /\ caller.at = "none" /\ switches < MaxSwitches
    /\ state.running /\ state.phase = "testing" /\ holder \in {"worker", "stop", "status"}
    /\ switches' = switches + 1
    /\ caller' = [at |-> "checked",
                  req |-> [id |-> switches + 1, session |-> state.session, strategy |-> s]]
    /\ asked' = IF state.session = session THEN asked \cup {s} ELSE asked
    /\ UNCHANGED <<worker, holder, state, disk, kernel, nfqws, over, session>>

SwitchWrite ==
    /\ caller.at = "checked" /\ caller' = [caller EXCEPT !.at = "waiting"]
    /\ request' = caller.req
    /\ UNCHANGED <<worker, holder, state, stopFile, result, snapshot, kernel, nfqws, over, count>>

Answered == caller.at = "waiting" /\ result.id = caller.req.id
SwitchTold ==
    /\ Answered /\ result.ok /\ caller' = [caller EXCEPT !.at = "told"]
    /\ UNCHANGED <<worker, holder, state, disk, kernel, nfqws, over, count>>
SwitchReturn ==        \* refused, timed out, or told and now gone
    /\ caller.at = "told" \/ (caller.at = "waiting" /\ ~(Answered /\ result.ok))
    /\ caller' = [at |-> "none", req |-> Nothing]
    /\ UNCHANGED <<worker, holder, state, disk, kernel, nfqws, over, count>>

-----------------------------------------------------------------------------
(* The world                                                               *)

TimeUp == /\ session > 0 /\ ~over /\ over' = TRUE
          /\ UNCHANGED <<worker, holder, state, disk, kernel, nfqws, caller, count>>
Expire == /\ over /\ kernel.timed /\ kernel' = [kernel EXCEPT !.timed = FALSE]
          /\ UNCHANGED <<worker, holder, state, disk, nfqws, over, caller, count>>
(* nfqws ends: by itself at any time, by its watchdog in the end.          *)
NoWatchdog(q) == worker.at # "none" /\ nfqws[q] # NoStrategy   \* variant: dies with the worker
Mortal(q) == nfqws[q] # NoStrategy
Exit(q) == /\ Mortal(q) /\ Kill(q)
           /\ UNCHANGED <<worker, holder, state, disk, kernel, over, caller, count>>
(* A firewall reload rebuilds fw4, an apply the production table.          *)
Reload == /\ kernel.guard \/ kernel.bypass
          /\ \/ kernel.guard /\ kernel' = [kernel EXCEPT !.guard = FALSE]
             \/ kernel.bypass /\ kernel' = [kernel EXCEPT !.bypass = FALSE]
          /\ UNCHANGED <<worker, holder, state, disk, nfqws, over, caller, count>>

WorkerStep ==
    \/ (\E s \in Strategies : RunPrepare(s))
    \/ RunStart \/ RunRoute \/ RunInstall \/ RunFail \/ TestEnds
    \/ SwitchRead \/ SwitchStart \/ SwitchRules \/ SwitchDone \/ SwitchReply
    \/ RunCleanup \/ RunEnd

ZctNext ==
    \/ RunLock \/ WorkerStep \/ RunKilled
    \/ StopAsk \/ StopClean \/ Poll \/ Polled
    \/ (\E s \in Strategies : SwitchCheck(s)) \/ SwitchWrite \/ SwitchTold \/ SwitchReturn
    \/ TimeUp \/ Expire \/ (\E q \in Queues : Exit(q)) \/ Reload

ZctSpec == ZctInit /\ [][ZctNext]_zctVars

-----------------------------------------------------------------------------
(* Properties                                                              *)

(* While a test runs, the client's packets meet a strategy somebody asked  *)
(* for in this session, the one the state file names and the last caller   *)
(* was told of, or none (nfqws has died): whatever requests, timeouts and  *)
(* leftovers of killed sessions there are.                                 *)
StrategyAskedFor ==
    worker.at \in {"testing", "starting", "swapping"} =>
      LET inForce == nfqws[kernel.queue] IN
      kernel.queue # 0 /\ inForce # NoStrategy =>
        /\ inForce = state.strategy /\ inForce \in asked
        /\ caller.at = "told" /\ caller.req.session = session =>
             inForce = caller.req.strategy

(* A session that is said to have stopped without an error has left        *)
(* nothing in the kernel: not its rules or routes, and fw4 has its own     *)
(* offload rule again, although the session, its killed predecessors and   *)
(* firewall reloads may have touched it in any order.                      *)
StoppedIsClean ==
    state.phase = "stopped" /\ ~state.error /\ holder \in {"none", "status"} => kernel = Clean

(* A session ends without anybody's help: even when its worker is killed   *)
(* no client stays diverted and no nfqws stays behind.                     *)
SessionEnds ==
    <>[](session = MaxSessions =>
         worker.at = "none" /\ ~kernel.timed /\ \A q \in Queues : nfqws[q] = NoStrategy)
=============================================================================
