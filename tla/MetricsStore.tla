----------------------------- MODULE MetricsStore -----------------------------
(***************************************************************************)
(* The metrics shared by short-lived commands and the API daemon           *)
(* (internal/metrics, internal/manager/notify.go, cmd/purewrt/api.go):     *)
(* every command adds what it observed to metrics-state.json under a lock, *)
(* and a scrape composes that file with the daemon's own observations.     *)
(*                                                                         *)
(* A registry is one counter (the counts of the histograms behave alike)   *)
(* and the statuses of one layer of the net-check; a status is a label, so *)
(* that nothing but the reconciliation keeps an old one from staying.      *)
(***************************************************************************)
EXTENDS Naturals, FiniteSets

CONSTANTS
    Commands,     \* CLI processes
    Statuses,     \* ok, warn, fail
    MaxEvents     \* bound on what is counted in a history

Daemon == "api"
Processes == Commands \cup {Daemon}
(* The daemon is not one of the commands.                                  *)
ASSUME DaemonAssumption == Daemon \notin Commands /\ MaxEvents \in Nat

NoSamples == [hits |-> 0, status |-> {}]
Corrupt == [hits |-> 0, status |-> {"corrupt"}]

VARIABLES
    msFile,      \* metrics-state.json: a registry, or damaged
    msLocal,     \* what each process observed and has not reset
    msKeep,      \* the labels it keeps, {} when it does not reconcile
    msAt,        \* where each command is
    msNext,      \* the merge it is about to write
    msLock,      \* the holders of metrics.lock
    msCounted    \* observation: every event counted, less those of killed processes and lost files

msVars == <<msFile, msLocal, msKeep, msAt, msNext, msLock, msCounted>>

MetricsTypeOK ==
    /\ msFile \in [hits : 0..MaxEvents, status : SUBSET Statuses] \cup {Corrupt}
    /\ msLocal \in [Processes -> [hits : 0..MaxEvents, status : SUBSET Statuses]]
    /\ msKeep \in [Processes -> SUBSET Statuses]
    /\ msAt \in [Processes -> {"run", "read", "write", "write anew", "reset"}]
    /\ msNext \in [Processes -> [hits : 0..MaxEvents, status : SUBSET Statuses]]
    /\ msLock \subseteq Commands /\ Cardinality(msLock) <= 1
    /\ msCounted \in 0..MaxEvents

MetricsInit ==
    /\ msFile = NoSamples
    /\ msLocal = [p \in Processes |-> NoSamples] /\ msKeep = [p \in Processes |-> {}]
    /\ msAt = [p \in Processes |-> "run"] /\ msNext = [p \in Processes |-> NoSamples]
    /\ msLock = {} /\ msCounted = 0

(* Counter.AddLabels, Histogram.Observe.                                   *)
Observe(p) ==
    /\ msAt[p] = "run" /\ msCounted < MaxEvents
    /\ msLocal' = [msLocal EXCEPT ![p].hits = @ + 1] /\ msCounted' = msCounted + 1
    /\ UNCHANGED <<msFile, msKeep, msAt, msNext, msLock>>

(* recordMetrics of a net-check: Gauge.Set, then KeepOnlyLabelValues.      *)
SetAndKeep(local, s) == [local EXCEPT !.status = {s}]
RecordStatus(p, s) ==
    /\ msAt[p] = "run"
    /\ msLocal' = [msLocal EXCEPT ![p] = SetAndKeep(@, s)]
    /\ msKeep' = [msKeep EXCEPT ![p] = {s}]
    /\ UNCHANGED <<msFile, msAt, msNext, msLock, msCounted>>

(* MergePersistent: counters add up, retained samples stay, the process's  *)
(* own gauges win.                                                         *)
MergePersistent(prior, local, keep) ==
    [hits |-> prior.hits + local.hits,
     status |-> (IF keep = {} THEN prior.status ELSE prior.status \cap keep)
                  \cup local.status]

(* dumpMetrics: lock, read and merge (nothing when the file cannot be      *)
(* read or understood), write, reset.                                      *)
Pass(holders) == TRUE                \* variant: no lock
CanLock(holders) == holders = {}
DumpLock(p) ==
    /\ msAt[p] = "run" /\ CanLock(msLock)
    /\ msLock' = msLock \cup {p} /\ msAt' = [msAt EXCEPT ![p] = "read"]
    /\ UNCHANGED <<msFile, msLocal, msKeep, msNext, msCounted>>

DumpRead(p) ==
    /\ msAt[p] = "read"
    /\ \E readable \in BOOLEAN :
         LET anew == ~readable \/ msFile = Corrupt
             prior == IF anew THEN NoSamples ELSE msFile IN
         /\ msNext' = [msNext EXCEPT ![p] = MergePersistent(prior, msLocal[p], msKeep[p])]
         /\ msAt' = [msAt EXCEPT ![p] = IF anew THEN "write anew" ELSE "write"]
    /\ UNCHANGED <<msFile, msLocal, msKeep, msLock, msCounted>>

(* A failed write leaves the observations for the next dump; one that      *)
(* read nothing usable replaces what was there.                            *)
DumpWrite(p) ==
    /\ msAt[p] \in {"write", "write anew"}
    /\ \/ /\ msFile' = msNext[p] /\ msAt' = [msAt EXCEPT ![p] = "reset"]
          /\ msCounted' = IF msAt[p] = "write" THEN msCounted ELSE msCounted - msFile.hits
          /\ UNCHANGED msLock
       \/ /\ msAt' = [msAt EXCEPT ![p] = "run"] /\ msLock' = msLock \ {p}
          /\ UNCHANGED <<msFile, msCounted>>
    /\ UNCHANGED <<msLocal, msKeep, msNext>>

ResetObservations(local) == NoSamples
DumpReset(p) ==
    /\ msAt[p] = "reset"
    /\ msLocal' = [msLocal EXCEPT ![p] = ResetObservations(@)]
    /\ msKeep' = [msKeep EXCEPT ![p] = {}]
    /\ msAt' = [msAt EXCEPT ![p] = "run"] /\ msLock' = msLock \ {p}
    /\ UNCHANGED <<msFile, msNext, msCounted>>

(* The command ends, also killed: what it had not written is lost, its     *)
(* flock is released.  Another one takes its place.                        *)
Unwritten(p) == IF msAt[p] = "reset" THEN 0 ELSE msLocal[p].hits
EndProcess(p) ==
    /\ msLocal' = [msLocal EXCEPT ![p] = NoSamples] /\ msKeep' = [msKeep EXCEPT ![p] = {}]
    /\ msAt' = [msAt EXCEPT ![p] = "run"] /\ msLock' = msLock \ {p}
    /\ msCounted' = msCounted - Unwritten(p)
    /\ UNCHANGED <<msFile, msNext>>

(* A file this version does not understand.                                *)
Damage ==
    /\ msFile # Corrupt /\ msLock = {}
    /\ msFile' = Corrupt /\ msCounted' = msCounted - msFile.hits
    /\ UNCHANGED <<msLocal, msKeep, msAt, msNext, msLock>>

(* GET /metrics, without a lock: the daemon's own observations are merged  *)
(* and neither written nor reset.                                          *)
Composed == IF msFile = Corrupt THEN msLocal[Daemon]
            ELSE MergePersistent(msFile, msLocal[Daemon], msKeep[Daemon])

MetricsNext ==
    \/ \E p \in Processes : Observe(p) \/ EndProcess(p)
    \/ \E p \in Commands :
         \/ \E s \in Statuses : RecordStatus(p, s)
         \/ DumpLock(p) \/ DumpRead(p) \/ DumpWrite(p) \/ DumpReset(p)
    \/ Damage

MetricsSpec == MetricsInit /\ [][MetricsNext]_msVars

-----------------------------------------------------------------------------
(* Properties                                                              *)

AllUnwritten == UNION {{p} \X (1..Unwritten(p)) : p \in Processes}

(* notify.go:40: commands that finish together do not lose each other's    *)
(* observations, a dump that fails or a second one of the same process     *)
(* counts nothing twice: file and unwritten observations add up to what    *)
(* was observed.                                                           *)
CountersAddUp == msCounted = msFile.hits + Cardinality(AllUnwritten)

(* vars.go:62: a layer has one current status, in the file and in every    *)
(* scrape, although a status is a label and each command adds its own.     *)
OneStatus == Cardinality(msFile.status) <= 1 /\ Cardinality(Composed.status) <= 1

(* So what is written and served is what was observed (persist.go:62).     *)
ReportIsRight == CountersAddUp /\ OneStatus
=============================================================================
