------------------------- MODULE OperationLockProofs -------------------------
(***************************************************************************)
(* Proofs about OperationLock, for any number of callers, any commands,    *)
(* any CoalesceCap and any MaxPolls.                                       *)
(***************************************************************************)
EXTENDS OperationLock, TLAPS

(* The marker's WriteFile succeeds.  Without it a caller may find no marker *)
(* although nobody served it.                                              *)
TouchWorks == "touch" \notin Faults

(* Who holds the lock, and what the places inside it say of the command.   *)
LockInv ==
    \A c \in Callers :
        /\ pc[c] \in Holding <=> lock = c
        /\ pc[c] \in {"start", "acquired", "loop", "check"} => cmd[c] \in Wholesale
        /\ pc[c] \in {"idle", "rpc", "start", "queued", "acquired"} => iter[c] = 0
        /\ pc[c] \in {"loop", "running"} => iter[c] < CoalesceCap
        /\ pc[c] \in {"idle", "rpc", "busy"} => cmd[c] = NoCommand
        /\ pc[c] \in Alive => cmd[c] \in Commands

(* A wholesale run under way covers its own caller, and so does every place *)
(* that comes after it.                                                    *)
CoverInv ==
    \A c \in Callers :
        pc[c] \in {"running", "check", "release", "ok"} /\ cmd[c] \in Wholesale
            => c \in covered

IInv == TypeOK /\ LockInv /\ RequestIsRemembered /\ CoverInv

USE NoOneAssumption, CommandAssumption, BoundAssumption

(* Nothing is running or requested at first.                                *)
LEMMA InitIInv == Init => IInv
<1> SUFFICES ASSUME Init PROVE IInv
  OBVIOUS
<1> USE DEF Init, Places, Holding, Alive, Ended, Commands
<1>1. TypeOK
  <2>1. served \in [Callers -> SUBSET Wholesale]
    <3>1. \A c \in Callers : {} \in SUBSET Wholesale
      OBVIOUS
    <3>2. QED
      BY <3>1
  <2>2. covered \in SUBSET Callers /\ covering \in SUBSET Callers
    OBVIOUS
  <2>3. iter \in [Callers -> 0..CoalesceCap] /\ waited \in [Callers -> 0..MaxPolls]
    OBVIOUS
  <2>4. pc \in [Callers -> Places] /\ cmd \in [Callers -> Commands \cup {NoCommand}]
    OBVIOUS
  <2>5. QED
    BY <2>1, <2>2, <2>3, <2>4, Zenon DEF TypeOK
<1>2. LockInv
  BY DEF LockInv
<1>3. RequestIsRemembered /\ CoverInv
  BY DEF RequestIsRemembered, CoverInv, Outstanding
<1>4. QED
  BY <1>1, <1>2, <1>3 DEF IInv

(* Every step keeps the types and the ownership of the lock. *)
LEMMA StepLock == TypeOK /\ LockInv /\ [Next]_vars => TypeOK' /\ LockInv'
<1> SUFFICES ASSUME TypeOK, LockInv, [Next]_vars PROVE TypeOK' /\ LockInv'
  OBVIOUS
<1> USE DEF TypeOK, LockInv, Places, Holding, Alive, Ended, Commands, Move,
            NewRequest, observations
<1>1. CASE UNCHANGED vars
  BY <1>1 DEF vars
<1>2. ASSUME NEW c \in Callers, NEW w \in Wholesale, CallWholesale(c, w)
      PROVE  TypeOK' /\ LockInv'
  BY <1>2 DEF CallWholesale, TouchDirty
<1>3. ASSUME NEW c \in Callers, NEW n \in Named, CallNamed(c, n)
      PROVE  TypeOK' /\ LockInv'
  BY <1>3 DEF CallNamed
<1>4. ASSUME NEW c \in Callers, NEW o \in Observers, CallObserver(c, o)
      PROVE  TypeOK' /\ LockInv'
  BY <1>4 DEF CallObserver
<1>5. ASSUME NEW c \in Callers, RpcTouch(c) PROVE TypeOK' /\ LockInv'
  BY <1>5 DEF RpcTouch
<1>6. ASSUME NEW c \in Callers, RpcStart(c) PROVE TypeOK' /\ LockInv'
  BY <1>6 DEF RpcStart
<1>7. ASSUME NEW c \in Callers, WorkerTouch(c) PROVE TypeOK' /\ LockInv'
  BY <1>7 DEF WorkerTouch, TouchDirty
<1>8. ASSUME NEW c \in Callers, Poll(c) PROVE TypeOK' /\ LockInv'
  BY <1>8 DEF Poll
<1>9. ASSUME NEW c \in Callers, CheckCaughtUp(c) PROVE TypeOK' /\ LockInv'
  BY <1>9 DEF CheckCaughtUp
<1>10. ASSUME NEW c \in Callers, StartRun(c) PROVE TypeOK' /\ LockInv'
  BY <1>10 DEF StartRun, Outstanding
<1>11. ASSUME NEW c \in Callers, RunDone(c) PROVE TypeOK' /\ LockInv'
  <2>1. CASE cmd[c] \in Wholesale
    <3>1. iter' = [iter EXCEPT ![c] = @ + 1] /\ iter[c] + 1 \in 0..CoalesceCap
      BY <1>11, <2>1 DEF RunDone
    <3>2. served' \in [Callers -> SUBSET Wholesale]
      <4>1. \A d \in Callers : served[d] \cup {cmd[c]} \in SUBSET Wholesale
        BY <2>1
      <4>2. \A d \in Callers : served[d] \in SUBSET Wholesale
        OBVIOUS
      <4>3. served' = [d \in Callers |-> IF d \in covering
                                           THEN served[d] \cup {cmd[c]} ELSE served[d]]
        BY <1>11, <2>1 DEF RunDone
      <4>4. QED
        BY <4>1, <4>2, <4>3
    <3>3. iter' \in [Callers -> 0..CoalesceCap]
      BY <3>1
    <3>4. TypeOK'
      BY <1>11, <2>1, <3>2, <3>3 DEF RunDone
    <3>5. LockInv'
      BY <1>11, <2>1, <3>1 DEF RunDone
    <3>6. QED
      BY <3>4, <3>5
  <2>2. CASE cmd[c] \notin Wholesale
    BY <1>11, <2>2 DEF RunDone
  <2>3. QED
    BY <2>1, <2>2
<1>12. ASSUME NEW c \in Callers, CheckDirty(c) PROVE TypeOK' /\ LockInv'
  BY <1>12 DEF CheckDirty
<1>13. ASSUME NEW c \in Callers, Release(c) PROVE TypeOK' /\ LockInv'
  BY <1>13 DEF Release
<1>14. ASSUME NEW c \in Callers, Die(c) PROVE TypeOK' /\ LockInv'
  BY <1>14 DEF Die
<1>15. ASSUME NEW c \in Callers, WorkerExit(c) PROVE TypeOK' /\ LockInv'
  BY <1>15 DEF WorkerExit
<1>16. ASSUME NEW c \in Callers, Forget(c) PROVE TypeOK' /\ LockInv'
  BY <1>16 DEF Forget
<1>17. QED
  BY <1>1, <1>2, <1>3, <1>4, <1>5, <1>6, <1>7, <1>8, <1>9, <1>10, <1>11, <1>12,
     <1>13, <1>14, <1>15, <1>16 DEF Next, HolderStep

(* Every step keeps what is known of requests: a request is announced by   *)
(* the marker or covered by a run, and who has run is covered.             *)
LEMMA StepCover ==
  ASSUME TouchWorks
  PROVE  IInv /\ [Next]_vars => RequestIsRemembered' /\ CoverInv'
<1> SUFFICES ASSUME IInv, [Next]_vars PROVE RequestIsRemembered' /\ CoverInv'
  OBVIOUS
<1> USE TouchWorks DEF TouchWorks, IInv, TypeOK, LockInv, RequestIsRemembered, CoverInv,
            Outstanding, Places, Holding, Alive, Ended, Commands, Move, NewRequest,
            observations
<1>1. CASE UNCHANGED vars
  BY <1>1 DEF vars
<1>2. ASSUME NEW c \in Callers, NEW w \in Wholesale, CallWholesale(c, w)
      PROVE  RequestIsRemembered' /\ CoverInv'
  BY <1>2 DEF CallWholesale, TouchDirty
<1>3. ASSUME NEW c \in Callers, NEW n \in Named, CallNamed(c, n)
      PROVE  RequestIsRemembered' /\ CoverInv'
  BY <1>3 DEF CallNamed
<1>4. ASSUME NEW c \in Callers, NEW o \in Observers, CallObserver(c, o)
      PROVE  RequestIsRemembered' /\ CoverInv'
  BY <1>4 DEF CallObserver
<1>5. ASSUME NEW c \in Callers, RpcTouch(c) PROVE RequestIsRemembered' /\ CoverInv'
  BY <1>5 DEF RpcTouch
<1>6. ASSUME NEW c \in Callers, RpcStart(c) PROVE RequestIsRemembered' /\ CoverInv'
  BY <1>6 DEF RpcStart
<1>7. ASSUME NEW c \in Callers, WorkerTouch(c) PROVE RequestIsRemembered' /\ CoverInv'
  BY <1>7 DEF WorkerTouch, TouchDirty
<1>8. ASSUME NEW c \in Callers, Poll(c) PROVE RequestIsRemembered' /\ CoverInv'
  BY <1>8 DEF Poll
<1>9. ASSUME NEW c \in Callers, CheckCaughtUp(c) PROVE RequestIsRemembered' /\ CoverInv'
  BY <1>9 DEF CheckCaughtUp
<1>10. ASSUME NEW c \in Callers, StartRun(c) PROVE RequestIsRemembered' /\ CoverInv'
  BY <1>10 DEF StartRun
<1>11. ASSUME NEW c \in Callers, RunDone(c) PROVE RequestIsRemembered' /\ CoverInv'
  BY <1>11 DEF RunDone
<1>12. ASSUME NEW c \in Callers, CheckDirty(c) PROVE RequestIsRemembered' /\ CoverInv'
  BY <1>12 DEF CheckDirty
<1>13. ASSUME NEW c \in Callers, Release(c) PROVE RequestIsRemembered' /\ CoverInv'
  BY <1>13 DEF Release
<1>14. ASSUME NEW c \in Callers, Die(c) PROVE RequestIsRemembered' /\ CoverInv'
  BY <1>14 DEF Die
<1>15. ASSUME NEW c \in Callers, WorkerExit(c) PROVE RequestIsRemembered' /\ CoverInv'
  BY <1>15 DEF WorkerExit
<1>16. ASSUME NEW c \in Callers, Forget(c) PROVE RequestIsRemembered' /\ CoverInv'
  BY <1>16 DEF Forget
<1>17. QED
  BY <1>1, <1>2, <1>3, <1>4, <1>5, <1>6, <1>7, <1>8, <1>9, <1>10, <1>11, <1>12,
     <1>13, <1>14, <1>15, <1>16 DEF Next, HolderStep

(* Type correctness, and the ownership of the lock, of the whole protocol. *)
THEOREM LockCorrect == Spec => [](TypeOK /\ LockInv)
<1>1. Init => TypeOK /\ LockInv
  BY InitIInv DEF IInv
<1>2. QED
  BY <1>1, StepLock, PTL DEF Spec

(* The inductive invariant, where the marker can be written.               *)
LEMMA IndInv == ASSUME TouchWorks PROVE Spec => []IInv
<1>1. IInv /\ [Next]_vars => IInv'
  BY StepLock, StepCover DEF IInv
<1>2. QED
  BY InitIInv, <1>1, PTL DEF Spec

(* No wholesale request is lost: until it is answered, the dirty marker    *)
(* announces it or a run of fn() has started after it.                     *)
THEOREM NoRequestIsLost == ASSUME TouchWorks PROVE Spec => []RequestIsRemembered
<1>1. IInv => RequestIsRemembered
  BY DEF IInv
<1>2. QED
  BY IndInv, <1>1, PTL

(* rc 0 of withOperationLockCoalesce: a run started after the caller's     *)
(* touch of the marker.                                                    *)
THEOREM OkIsCovered == ASSUME TouchWorks PROVE Spec => []OkMeansCovered
<1>1. IInv => OkMeansCovered
  BY DEF IInv, CoverInv, OkMeansCovered
<1>2. QED
  BY IndInv, <1>1, PTL

-----------------------------------------------------------------------------
(* One wholesale command and no failure: then rc 0 means that the command  *)
(* was completed after the call.                                           *)

SoleCommand == Faults = {} /\ Wholesale = {BgCommand}

ServedInv ==
    \A c \in Callers :
        /\ c \in covering => lock # NoOne /\ pc[lock] = "running" /\ cmd[lock] \in Wholesale
        /\ c \in covered /\ c \in Outstanding
               => BgCommand \in served[c] \/ c \in covering
        /\ pc[c] = "ok" /\ cmd[c] \in Wholesale => BgCommand \in served[c]

(* With a sole command that does not fail, a covered request is served or  *)
(* under way.                                                              *)
LEMMA StepServed ==
  ASSUME SoleCommand
  PROVE  IInv /\ ServedInv /\ [Next]_vars => ServedInv'
<1> SUFFICES ASSUME IInv, ServedInv, [Next]_vars PROVE ServedInv'
  OBVIOUS
<1> USE SoleCommand DEF SoleCommand, IInv, TypeOK, LockInv, CoverInv, ServedInv,
        Outstanding, Places, Holding, Alive, Ended, Commands, Move, NewRequest, observations
<1>1. CASE UNCHANGED vars
  BY <1>1 DEF vars
<1>2. ASSUME NEW c \in Callers, NEW w \in Wholesale, CallWholesale(c, w) PROVE ServedInv'
  BY <1>2 DEF CallWholesale, TouchDirty
<1>3. ASSUME NEW c \in Callers, NEW n \in Named, CallNamed(c, n) PROVE ServedInv'
  BY <1>3 DEF CallNamed
<1>4. ASSUME NEW c \in Callers, NEW o \in Observers, CallObserver(c, o) PROVE ServedInv'
  BY <1>4 DEF CallObserver
<1>5. ASSUME NEW c \in Callers, RpcTouch(c) PROVE ServedInv'
  BY <1>5 DEF RpcTouch
<1>6. ASSUME NEW c \in Callers, RpcStart(c) PROVE ServedInv'
  BY <1>6 DEF RpcStart
<1>7. ASSUME NEW c \in Callers, WorkerTouch(c) PROVE ServedInv'
  BY <1>7 DEF WorkerTouch, TouchDirty
<1>8. ASSUME NEW c \in Callers, Poll(c) PROVE ServedInv'
  BY <1>8 DEF Poll
<1>9. ASSUME NEW c \in Callers, CheckCaughtUp(c) PROVE ServedInv'
  BY <1>9 DEF CheckCaughtUp
<1>10. ASSUME NEW c \in Callers, StartRun(c) PROVE ServedInv'
  BY <1>10 DEF StartRun
<1>11. ASSUME NEW c \in Callers, RunDone(c) PROVE ServedInv'
  BY <1>11 DEF RunDone
<1>12. ASSUME NEW c \in Callers, CheckDirty(c) PROVE ServedInv'
  BY <1>12 DEF CheckDirty
<1>13. ASSUME NEW c \in Callers, Release(c) PROVE ServedInv'
  BY <1>13 DEF Release
<1>14. ASSUME NEW c \in Callers, Die(c) PROVE ServedInv'
  BY <1>14 DEF Die
<1>15. ASSUME NEW c \in Callers, WorkerExit(c) PROVE ServedInv'
  BY <1>15 DEF WorkerExit
<1>16. ASSUME NEW c \in Callers, Forget(c) PROVE ServedInv'
  BY <1>16 DEF Forget
<1>17. QED
  BY <1>1, <1>2, <1>3, <1>4, <1>5, <1>6, <1>7, <1>8, <1>9, <1>10, <1>11, <1>12,
     <1>13, <1>14, <1>15, <1>16 DEF Next, HolderStep

(* "A previous holder caught us up -- work is done" is true when all the    *)
(* callers run the same command and no run fails.                          *)
THEOREM SoleCommandIsServed == ASSUME SoleCommand PROVE Spec => []OkMeansServed
<1>1. TouchWorks
  BY DEF SoleCommand, TouchWorks
<1>2. Init => ServedInv
  BY DEF Init, ServedInv, Outstanding
<1>3. IInv /\ ServedInv => OkMeansServed
  BY DEF ServedInv, OkMeansServed, SoleCommand
<1>4. Spec => []IInv
  BY <1>1, IndInv
<1>5. QED
  BY <1>2, <1>3, <1>4, StepServed, PTL DEF Spec

-----------------------------------------------------------------------------
(* The lock implements the service.                                        *)

(* A step that changes the ticket of one caller only. *)
LEMMA TicketUpdate ==
  ASSUME NEW c \in Callers, NEW t, ticketOf'[c] = t,
         \A d \in Callers \ {c} : ticketOf'[d] = ticketOf[d]
  PROVE  ticketOf' = [ticketOf EXCEPT ![c] = t]
<1>1. DOMAIN ticketOf = Callers /\ DOMAIN ticketOf' = Callers
  BY DEF ticketOf
<1>2. ticketOf = [d \in Callers |-> ticketOf[d]] /\ ticketOf' = [d \in Callers |-> ticketOf'[d]]
  BY DEF ticketOf
<1> HIDE DEF ticketOf
<1>3. QED
  BY <1>1, <1>2

(* Each action of the lock is an action of the service or leaves its        *)
(* tickets alone.                                                          *)
LEMMA StepImplements ==
  ASSUME TouchWorks
  PROVE  IInv /\ [Next]_vars => [Service!ServiceNext]_(Service!serviceVars)
<1> SUFFICES ASSUME IInv, [Next]_vars
             PROVE  [Service!ServiceNext]_(Service!serviceVars)
  OBVIOUS
<1> DEFINE Goal == [Service!ServiceNext]_(Service!serviceVars)
<1> USE TouchWorks DEF TouchWorks, IInv, TypeOK, LockInv, CoverInv, RequestIsRemembered,
        Outstanding, Places, Holding, Alive, Ended, Commands, Move, NewRequest, observations,
        ticketOf, runnerOf, Service!serviceVars
<1>1. CASE UNCHANGED vars
  BY <1>1 DEF vars
<1>2. ASSUME NEW c \in Callers, NEW w \in Wholesale, CallWholesale(c, w) PROVE Goal
  <2>1. Service!Submit(c)
    BY <1>2 DEF CallWholesale, TouchDirty, Service!Submit
  <2>2. QED
    BY <2>1 DEF Service!ServiceNext
<1>3. ASSUME NEW c \in Callers, NEW n \in Named, CallNamed(c, n) PROVE Goal
  BY <1>3 DEF CallNamed
<1>4. ASSUME NEW c \in Callers, NEW o \in Observers, CallObserver(c, o) PROVE Goal
  BY <1>4 DEF CallObserver
<1>5. ASSUME NEW c \in Callers, RpcTouch(c) PROVE Goal
  <2>1. Service!Submit(c)
    BY <1>5 DEF RpcTouch, Service!Submit
  <2>2. QED
    BY <2>1 DEF Service!ServiceNext
<1>6. ASSUME NEW c \in Callers, RpcStart(c) PROVE Goal
  BY <1>6 DEF RpcStart
<1>7. ASSUME NEW c \in Callers, WorkerTouch(c) PROVE Goal
  BY <1>7 DEF WorkerTouch
<1>8. ASSUME NEW c \in Callers, Poll(c) PROVE Goal
  <2>1. CASE lock # NoOne /\ waited[c] = MaxPolls
    <3>1. Service!Leave(c)
      <4>1. runnerOf # c /\ runnerOf' = runnerOf
        BY <1>8, <2>1 DEF Poll
      <4>2. ticketOf'[c] = "none"
        BY <1>8, <2>1 DEF Poll
      <4>3. \A d \in Callers \ {c} : ticketOf'[d] = ticketOf[d]
        BY <1>8, <2>1 DEF Poll
      <4>4. ticketOf' = [ticketOf EXCEPT ![c] = "none"]
        BY <4>2, <4>3, TicketUpdate
      <4>5. QED
        BY <4>1, <4>4 DEF Service!Leave
    <3>2. QED
      BY <3>1 DEF Service!ServiceNext
  <2>2. CASE ~(lock # NoOne /\ waited[c] = MaxPolls)
    BY <1>8, <2>2 DEF Poll
  <2>3. QED
    BY <2>1, <2>2
<1>9. ASSUME NEW c \in Callers, CheckCaughtUp(c) PROVE Goal
  BY <1>9 DEF CheckCaughtUp
<1>10. ASSUME NEW c \in Callers, StartRun(c) PROVE Goal
  <2>1. Service!StartRun(c)
    BY <1>10 DEF StartRun, Service!StartRun
  <2>2. QED
    BY <2>1 DEF Service!ServiceNext
<1>11. ASSUME NEW c \in Callers, RunDone(c) PROVE Goal
  <2>1. CASE cmd[c] \in Wholesale
    <3>1. Service!EndRun(c)
      BY <1>11, <2>1 DEF RunDone, Service!EndRun
    <3>2. QED
      BY <3>1 DEF Service!ServiceNext
  <2>2. CASE cmd[c] \notin Wholesale
    BY <1>11, <2>2 DEF RunDone
  <2>3. QED
    BY <2>1, <2>2
<1>12. ASSUME NEW c \in Callers, CheckDirty(c) PROVE Goal
  BY <1>12 DEF CheckDirty
<1>13. ASSUME NEW c \in Callers, Release(c) PROVE Goal
  <2>1. CASE cmd[c] \in Wholesale
    <3>1. Service!Answer(c)
      BY <1>13, <2>1 DEF Release, Service!Answer
    <3>2. QED
      BY <3>1 DEF Service!ServiceNext
  <2>2. CASE cmd[c] \notin Wholesale
    BY <1>13, <2>2 DEF Release
  <2>3. QED
    BY <2>1, <2>2
<1>14. ASSUME NEW c \in Callers, Die(c) PROVE Goal
  <2>1. Service!Leave(c)
    BY <1>14 DEF Die, Service!Leave
  <2>2. QED
    BY <2>1 DEF Service!ServiceNext
<1>15. ASSUME NEW c \in Callers, WorkerExit(c) PROVE Goal
  BY <1>15 DEF WorkerExit
<1>16. ASSUME NEW c \in Callers, Forget(c) PROVE Goal
  <2>1. Service!Leave(c)
    <3>1. runnerOf # c /\ runnerOf' = runnerOf
      BY <1>16 DEF Forget
    <3>2. ticketOf'[c] = "none"
      BY <1>16 DEF Forget
    <3>3. \A d \in Callers \ {c} : ticketOf'[d] = ticketOf[d]
      BY <1>16 DEF Forget
    <3>4. ticketOf' = [ticketOf EXCEPT ![c] = "none"]
      BY <3>2, <3>3, TicketUpdate
    <3>5. QED
      BY <3>1, <3>4 DEF Service!Leave
  <2>2. QED
    BY <2>1 DEF Service!ServiceNext
<1>17. QED
  BY <1>1, <1>2, <1>3, <1>4, <1>5, <1>6, <1>7, <1>8, <1>9, <1>10, <1>11, <1>12,
     <1>13, <1>14, <1>15, <1>16 DEF Next, HolderStep

(* The flock, the marker and the catch-up loop implement WholesaleService: *)
(* runs exclude one another, and "ok" is answered to covered tickets only. *)
THEOREM LockImplementsService == ASSUME TouchWorks PROVE Spec => ImplementsService
<1>1. Init => Service!ServiceInit
  BY DEF Init, Service!ServiceInit, ticketOf, runnerOf, Outstanding, Alive, Holding
<1>2. Spec => []IInv
  BY IndInv
<1>3. QED
  BY <1>1, <1>2, StepImplements, PTL DEF Spec, ImplementsService, Service!ServiceSpec
=============================================================================
