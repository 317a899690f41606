------------------------ MODULE ProviderUpdateProofs ------------------------
(***************************************************************************)
(* Theorems about ProviderUpdate, for any providers, bounds and commands.  *)
(***************************************************************************)
EXTENDS ProviderUpdate, TLAPS

(* The boot loop runs only while it has attempts left.                     *)
BootHasTries == cmd = "boot" => tries > 0

Bounds == TypeOK /\ BootHasTries

(* What the resets leave is well typed.                                    *)
LEMMA EmptyTyped == Nothing \in Versions /\ NoJobs \in [Providers -> Jobs]
  BY BoundAssumption DEF Nothing, Versions, NoJobs, Jobs

Phases == {"idle", "subscribe", "proxies", "rules", "collect", "apply", "exit"}

Flags == /\ changed \in BOOLEAN /\ failed \in BOOLEAN
         /\ geoChanged \in BOOLEAN /\ geoFailed \in BOOLEAN

(* What TypeOK says of the running command.                                *)
RunTyped == /\ cmd \in Commands \cup {"none"} /\ pc \in Phases
            /\ snap \in 0..MaxEdits
            /\ job \in [Providers -> Jobs] /\ got \in Versions
            /\ Flags /\ rc \in {0, 1, 3}

StoredTyped == /\ server \in [Providers -> 1..MaxVersion]
               /\ file \in Versions /\ etag \in Versions /\ loaded \in Versions
               /\ uci \in 0..MaxEdits

(* The types in parts: what is stored, what runs, what is left to try.     *)
LEMMA TypeOKParts == TypeOK <=> StoredTyped /\ RunTyped /\ tries \in 0..MaxAttempts
  BY DEF TypeOK, StoredTyped, RunTyped, Flags, Phases

(* The end of a command leaves its variables typed, and no boot attempt    *)
(* running.                                                                *)
LEMMA SilenceTyped == Silence => RunTyped' /\ cmd' = "none"
<1> SUFFICES ASSUME Silence PROVE RunTyped' /\ cmd' = "none"
  OBVIOUS
<1>1. Flags'
  BY DEF Silence, Flags
<1>2. job' \in [Providers -> Jobs] /\ got' \in Versions
  BY EmptyTyped DEF Silence
<1>3. /\ cmd' \in Commands \cup {"none"} /\ pc' \in Phases
      /\ snap' \in 0..MaxEdits /\ rc' \in {0, 1, 3} /\ cmd' = "none"
  BY BoundAssumption DEF Silence, Phases
<1> QED
  BY <1>1, <1>2, <1>3 DEF RunTyped

(* Every action keeps the types: the boot loop's counter never passes      *)
(* zero, because only a boot attempt takes from it.                        *)
LEMMA StepBounds == Bounds /\ [Next]_vars => Bounds'
<1> SUFFICES ASSUME Bounds, [Next]_vars PROVE Bounds'
  OBVIOUS
<1> USE BoundAssumption, KindAssumption
     DEF Bounds, TypeOK, BootHasTries, Jobs, Versions
<1>1. ASSUME NEW c \in Commands, NEW elapsed \in SUBSET Providers, Begin(c, elapsed) PROVE Bounds'
  BY <1>1 DEF Begin, Due, vars, stored, run, geos
<1>2. ASSUME Subscribe PROVE Bounds'
  BY <1>2 DEF Subscribe, vars, stored, run, geos
<1>3. ASSUME SubscribeFails PROVE Bounds'
  BY <1>3 DEF SubscribeFails, Stop, vars, stored, run, geos
<1>4. ASSUME NEW p \in Providers, Fetch(p) PROVE Bounds'
  BY <1>4 DEF Fetch, MayFetch, Answer, vars, stored, run, geos
<1>5. ASSUME NEW p \in Providers, FetchFromMirror(p) PROVE Bounds'
  BY <1>5 DEF FetchFromMirror, MayFetch, Answer, vars, stored, run, geos
<1>6. ASSUME NEW p \in Providers, FetchFails(p) PROVE Bounds'
  BY <1>6 DEF FetchFails, MayFetch, vars, stored, run, geos
<1>7. ASSUME NEW p \in Providers, Materialize(p) PROVE Bounds'
  <2>1. geoChanged' \in BOOLEAN /\ geoFailed' \in BOOLEAN
    BY <1>7, Zenon DEF Materialize
  <2>2. file' \in Versions /\ job' \in [Providers -> Jobs]
    BY <1>7 DEF Materialize
  <2>3. /\ UNCHANGED <<server, etag, loaded, uci, cmd, pc, snap, got, changed,
                       failed, rc, tries>>
    BY <1>7 DEF Materialize
  <2> QED
    BY <2>1, <2>2, <2>3
<1>8. ASSUME NEW p \in Providers, Store(p) PROVE Bounds'
  BY <1>8 DEF Store, MayStore, vars, stored, run, geos
<1>9. ASSUME NEW p \in Providers, StoreFails(p) PROVE Bounds'
  BY <1>9 DEF StoreFails, MayStore, Stop, vars, stored, run, geos
<1>10. ASSUME NEW p \in Providers, Record(p) PROVE Bounds'
  BY <1>10 DEF Record, MayStore, vars, stored, run, geos
<1>11. ASSUME NEW p \in Providers, RecordFails(p) PROVE Bounds'
  BY <1>11 DEF RecordFails, MayStore, Stop, vars, stored, run, geos
<1>12. ASSUME ProxiesDone PROVE Bounds'
  BY <1>12 DEF ProxiesDone, vars, stored, run, geos
<1>13. ASSUME RulesFetched PROVE Bounds'
  BY <1>13 DEF RulesFetched, vars, stored, run, geos
<1>14. ASSUME Finish PROVE Bounds'
  BY <1>14 DEF Finish, Changed, Failed, Stop, vars, stored, run, geos
<1>15. ASSUME Apply PROVE Bounds'
  BY <1>15 DEF Apply, Stop, vars, stored, run, geos
<1>16. ASSUME ApplyFails PROVE Bounds'
  BY <1>16 DEF ApplyFails, Stop, vars, stored, run, geos
<1>17. ASSUME Return PROVE Bounds'
  <2>1. RunTyped' /\ cmd' = "none"
    BY <1>17, SilenceTyped DEF Return
  <2>2. StoredTyped'
    BY <1>17, TypeOKParts DEF Return, StoredTyped, stored
  <2>3. tries' \in 0..MaxAttempts
    BY <1>17 DEF Return, Retries
  <2> QED
    BY <2>1, <2>2, <2>3 DEF RunTyped, StoredTyped, Flags, Phases
<1>18. ASSUME Kill PROVE Bounds'
  <2>1. RunTyped' /\ cmd' = "none"
    BY <1>18, SilenceTyped DEF Kill
  <2>2. StoredTyped'
    BY <1>18, TypeOKParts DEF Kill, StoredTyped, stored
  <2>3. tries' \in 0..MaxAttempts
    BY <1>18 DEF Kill, Retries
  <2> QED
    BY <2>1, <2>2, <2>3 DEF RunTyped, StoredTyped, Flags, Phases
<1>19. ASSUME Reboot PROVE Bounds'
  <2>1. RunTyped' /\ cmd' = "none"
    BY <1>19, SilenceTyped DEF Reboot
  <2>2. StoredTyped'
    BY <1>19, EmptyTyped DEF Reboot, StoredTyped
  <2>3. tries' \in 0..MaxAttempts
    BY <1>19 DEF Reboot
  <2> QED
    BY <2>1, <2>2, <2>3 DEF RunTyped, StoredTyped, Flags, Phases
<1>20. ASSUME NEW p \in Providers, ServerChanges(p) PROVE Bounds'
  BY <1>20 DEF ServerChanges, vars, stored, run, geos
<1>21. ASSUME UserEdit PROVE Bounds'
  BY <1>21 DEF UserEdit, vars, stored, run, geos
<1>22. CASE UNCHANGED vars
  BY <1>22 DEF vars, stored, run, geos
<1> QED
  BY <1>1, <1>2, <1>3, <1>4, <1>5, <1>6, <1>7, <1>8, <1>9, <1>10, <1>11, <1>12,
     <1>13, <1>14, <1>15, <1>16, <1>17, <1>18, <1>19, <1>20, <1>21, <1>22
  DEF Next, Steps

(* A fresh start is within the bounds.                                     *)
LEMMA InitBounds == Init => Bounds
<1> SUFFICES ASSUME Init PROVE Bounds
  OBVIOUS
<1>1. Flags
  BY DEF Init, Quiet, Flags
<1>2. RunTyped
  BY <1>1, EmptyTyped, BoundAssumption DEF Init, Quiet, RunTyped, Phases
<1>3. StoredTyped
  BY EmptyTyped, BoundAssumption DEF Init, StoredTyped
<1>4. tries \in 0..MaxAttempts /\ BootHasTries
  BY BoundAssumption DEF Init, Quiet, BootHasTries
<1> QED
  BY <1>2, <1>3, <1>4, TypeOKParts DEF Bounds

(* Types and the boot loop's bound, for every configuration.               *)
THEOREM TypesHold == Spec => []TypeOK
<1>1. Bounds => TypeOK
  BY DEF Bounds
<1> QED
  BY <1>1, InitBounds, StepBounds, PTL DEF Spec

-----------------------------------------------------------------------------
(* What a running update knows of its own past: with an auto-apply         *)
(* subscription it has either re-imported it, which counts as a change, or *)
(* failed to.                                                              *)
Underway == pc \in {"proxies", "rules", "collect", "apply"} /\ cmd \notin Rule
SubscriptionTried == Underway => changed \/ failed

Reported == ReportedIsLoaded /\ SubscriptionTried

(* Only Finish and Apply exit 0.  Finish does so without a change and      *)
(* without a failure, which SubscriptionTried excludes.                    *)
LEMMA StepReported ==
  ASSUME AutoApply = TRUE
  PROVE  Reported /\ [Next]_vars => Reported'
<1> SUFFICES ASSUME Reported, [Next]_vars PROVE Reported'
  OBVIOUS
<1> USE DEF Reported, ReportedIsLoaded, SubscriptionTried, Underway
<1>1. ASSUME NEW c \in Commands, NEW elapsed \in SUBSET Providers, Begin(c, elapsed) PROVE Reported'
  BY <1>1 DEF Begin, Due, stored, run, geos
<1>2. ASSUME Subscribe PROVE Reported'
  BY <1>2 DEF Subscribe, stored, run, geos
<1>3. ASSUME SubscribeFails PROVE Reported'
  BY <1>3 DEF SubscribeFails, Stop, stored, run, geos
<1>4. ASSUME NEW p \in Providers, Fetch(p) PROVE Reported'
  BY <1>4 DEF Fetch, MayFetch, Answer, stored, run, geos
<1>5. ASSUME NEW p \in Providers, FetchFromMirror(p) PROVE Reported'
  BY <1>5 DEF FetchFromMirror, MayFetch, Answer, stored, run, geos
<1>6. ASSUME NEW p \in Providers, FetchFails(p) PROVE Reported'
  BY <1>6 DEF FetchFails, MayFetch, stored, run, geos
<1>7. ASSUME NEW p \in Providers, Materialize(p) PROVE Reported'
  BY <1>7 DEF Materialize, stored, run, geos
<1>8. ASSUME NEW p \in Providers, Store(p) PROVE Reported'
  BY <1>8 DEF Store, MayStore, stored, run, geos
<1>9. ASSUME NEW p \in Providers, StoreFails(p) PROVE Reported'
  BY <1>9 DEF StoreFails, MayStore, Stop, stored, run, geos
<1>10. ASSUME NEW p \in Providers, Record(p) PROVE Reported'
  BY <1>10 DEF Record, MayStore, stored, run, geos
<1>11. ASSUME NEW p \in Providers, RecordFails(p) PROVE Reported'
  BY <1>11 DEF RecordFails, MayStore, Stop, stored, run, geos
<1>12. ASSUME ProxiesDone PROVE Reported'
  BY <1>12 DEF ProxiesDone, stored, run, geos
<1>13. ASSUME RulesFetched PROVE Reported'
  BY <1>13 DEF RulesFetched, stored, run, geos
<1>14. ASSUME Finish PROVE Reported'
  BY <1>14 DEF Finish, Changed, Failed, Stop, stored, run, geos
<1>15. ASSUME Apply PROVE Reported'
  BY <1>15 DEF Apply, Stop, stored, run, geos
<1>16. ASSUME ApplyFails PROVE Reported'
  BY <1>16 DEF ApplyFails, Stop, stored, run, geos
<1>17. ASSUME Return PROVE Reported'
  BY <1>17 DEF Return, Silence, Retries, stored, run, geos
<1>18. ASSUME Kill PROVE Reported'
  BY <1>18 DEF Kill, Silence, Retries, stored, run, geos
<1>19. ASSUME Reboot PROVE Reported'
  BY <1>19 DEF Reboot, Silence, stored, run, geos
<1>20. ASSUME NEW p \in Providers, ServerChanges(p) PROVE Reported'
  BY <1>20 DEF ServerChanges, stored, run, geos
<1>21. ASSUME UserEdit PROVE Reported'
  BY <1>21 DEF UserEdit, stored, run, geos
<1>22. CASE UNCHANGED vars
  BY <1>22 DEF vars, stored, run, geos
<1> QED
  BY <1>1, <1>2, <1>3, <1>4, <1>5, <1>6, <1>7, <1>8, <1>9, <1>10, <1>11, <1>12,
     <1>13, <1>14, <1>15, <1>16, <1>17, <1>18, <1>19, <1>20, <1>21, <1>22 DEF Next, Steps

(* With an auto-apply subscription, update-if-needed never exits 0 while   *)
(* something stored is not loaded: not after a failed apply, a kill or a   *)
(* partial update, for any providers and any faults.                       *)
THEOREM ReportedUpdatesAreLoaded ==
  ASSUME AutoApply = TRUE
  PROVE  Spec => []ReportedIsLoaded
<1>1. Init => Reported
  BY DEF Init, Quiet, Reported, ReportedIsLoaded, SubscriptionTried, Underway
<1>2. Reported /\ [Next]_vars => Reported'
  BY StepReported
<1>3. Reported => ReportedIsLoaded
  BY DEF Reported
<1> QED
  BY <1>1, <1>2, <1>3, PTL DEF Spec

-----------------------------------------------------------------------------
(* What is stored lies between what the ETag says and what is served, and  *)
(* an answer waiting to be stored or recorded is at least what is stored.  *)
Ordered ==
    \A p \in Proxy \cup Rule :
        /\ etag[p] <= file[p] /\ file[p] <= server[p]
        /\ job[p] = "new" => file[p] <= got[p] /\ got[p] <= server[p]
        /\ job[p] \in {"same", "stored"} => got[p] = file[p]

(* The file is written before its ETag, and a provider without mirrors     *)
(* never goes back.                                                        *)
LEMMA StepOrdered ==
  ASSUME "write" \notin Faults, "mirror" \notin Faults
  PROVE  TypeOK /\ Ordered /\ [Next]_vars => Ordered'
<1> SUFFICES ASSUME TypeOK, Ordered, [Next]_vars PROVE Ordered'
  OBVIOUS
<1> USE BoundAssumption, KindAssumption
     DEF Ordered, TypeOK, Versions, Providers
<1>1. ASSUME NEW c \in Commands, NEW elapsed \in SUBSET Providers, Begin(c, elapsed) PROVE Ordered'
  BY <1>1 DEF Begin, Due, stored, run, geos
<1>2. ASSUME Subscribe PROVE Ordered'
  BY <1>2 DEF Subscribe, stored, run, geos
<1>3. ASSUME SubscribeFails PROVE Ordered'
  BY <1>3 DEF SubscribeFails, Stop, stored, run, geos
<1>4. ASSUME NEW p \in Providers, Fetch(p) PROVE Ordered'
  BY <1>4 DEF Fetch, MayFetch, Answer, stored, run, geos
<1>5. ASSUME NEW p \in Providers, FetchFromMirror(p) PROVE Ordered'
  BY <1>5 DEF FetchFromMirror, MayFetch, Answer, stored, run, geos
<1>6. ASSUME NEW p \in Providers, FetchFails(p) PROVE Ordered'
  BY <1>6 DEF FetchFails, MayFetch, stored, run, geos
<1>7. ASSUME NEW p \in Providers, Materialize(p) PROVE Ordered'
  BY <1>7 DEF Materialize, stored, run, geos
<1>8. ASSUME NEW p \in Providers, Store(p) PROVE Ordered'
  BY <1>8 DEF Store, MayStore, stored, run, geos
<1>9. ASSUME NEW p \in Providers, StoreFails(p) PROVE Ordered'
  BY <1>9 DEF StoreFails, MayStore, Stop, stored, run, geos
<1>10. ASSUME NEW p \in Providers, Record(p) PROVE Ordered'
  BY <1>10 DEF Record, MayStore, stored, run, geos
<1>11. ASSUME NEW p \in Providers, RecordFails(p) PROVE Ordered'
  BY <1>11 DEF RecordFails, MayStore, Stop, stored, run, geos
<1>12. ASSUME ProxiesDone PROVE Ordered'
  BY <1>12 DEF ProxiesDone, stored, run, geos
<1>13. ASSUME RulesFetched PROVE Ordered'
  BY <1>13 DEF RulesFetched, stored, run, geos
<1>14. ASSUME Finish PROVE Ordered'
  BY <1>14 DEF Finish, Changed, Failed, Stop, stored, run, geos
<1>15. ASSUME Apply PROVE Ordered'
  BY <1>15 DEF Apply, Stop, stored, run, geos
<1>16. ASSUME ApplyFails PROVE Ordered'
  BY <1>16 DEF ApplyFails, Stop, stored, run, geos
<1>17. ASSUME Return PROVE Ordered'
  BY <1>17 DEF Return, Silence, Retries, NoJobs, Nothing, stored, run, geos
<1>18. ASSUME Kill PROVE Ordered'
  BY <1>18 DEF Kill, Silence, Retries, NoJobs, Nothing, stored, run, geos
<1>19. ASSUME Reboot PROVE Ordered'
  BY <1>19 DEF Reboot, Silence, NoJobs, Nothing, stored, run, geos
<1>20. ASSUME NEW p \in Providers, ServerChanges(p) PROVE Ordered'
  BY <1>20 DEF ServerChanges, stored, run, geos
<1>21. ASSUME UserEdit PROVE Ordered'
  BY <1>21 DEF UserEdit, stored, run, geos
<1>22. CASE UNCHANGED vars
  BY <1>22 DEF vars, stored, run, geos
<1> QED
  BY <1>1, <1>2, <1>3, <1>4, <1>5, <1>6, <1>7, <1>8, <1>9, <1>10, <1>11, <1>12,
     <1>13, <1>14, <1>15, <1>16, <1>17, <1>18, <1>19, <1>20, <1>21, <1>22 DEF Next, Steps

(* When writes do not fail and no mirror lags, a 304 answers about content *)
(* that is stored, wherever the process dies between file and metadata.    *)
THEOREM NotModifiedIsSafe ==
  ASSUME "write" \notin Faults, "mirror" \notin Faults
  PROVE  Spec => []NotModifiedIsCurrent
<1>1. Init => Bounds /\ Ordered
  BY InitBounds, BoundAssumption
     DEF Init, Quiet, Ordered, Nothing, NoJobs, Providers
<1>2. Bounds /\ Ordered /\ [Next]_vars => Bounds' /\ Ordered'
  BY StepBounds, StepOrdered DEF Bounds
<1>3. Bounds /\ Ordered => NotModifiedIsCurrent
  BY DEF Bounds, TypeOK, Versions, Ordered, NotModifiedIsCurrent, Providers
<1> QED
  BY <1>1, <1>2, <1>3, PTL DEF Spec
=============================================================================
