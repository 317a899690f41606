--------------------------- MODULE ProviderUpdate ---------------------------
(***************************************************************************)
(* Refreshing what the subscriptions and providers serve                   *)
(* (internal/manager/manager.go, internal/provider/download.go, the retry  *)
(* loop of openwrt/files/etc/init.d/purewrt): `update-if-needed` from cron *)
(* and boot, and `update-rule-provider`.                                   *)
(*                                                                         *)
(* A run re-imports the auto-apply subscriptions, downloads the proxy      *)
(* providers one by one and the rule providers in parallel with            *)
(* conditional requests, stores what changed, records the server's ETag    *)
(* beside each file, and applies if it saw a change.  It holds the         *)
(* operation lock throughout (OperationLock); an apply that succeeds loads *)
(* every file (ApplyPipeline).                                             *)
(*                                                                         *)
(* Data abstraction: the content a provider serves is a version, which is  *)
(* its ETag and its checksum too; 0 is no content.                         *)
(***************************************************************************)
EXTENDS Naturals, FiniteSets

CONSTANTS
    Proxy,        \* the proxy providers
    Rule,         \* the rule providers with a URL
    Geo,          \* the rule providers made from the local geo data
    AutoApply,    \* TRUE: a subscription with auto_apply is enabled
    Commands,     \* which of "boot", "cron", "forced" and the rule providers
                  \* updated by name are run
    MaxVersion,   \* bound: versions a provider's content goes through
    MaxEdits,     \* bound: commits to /etc/config/purewrt by others
    MaxAttempts,  \* attempts of the boot loop (3)
    Faults        \* which of "net", "write", "apply", "kill" and "mirror" (a
                  \* mirror serves an older version) happen

Providers == Proxy \cup Rule \cup Geo

ASSUME BoundAssumption ==
    MaxVersion \in Nat \ {0} /\ MaxEdits \in Nat /\ MaxAttempts \in Nat \ {0}
ASSUME KindAssumption ==
    /\ Proxy \cap Rule = {} /\ Proxy \cap Geo = {} /\ Rule \cap Geo = {}
    /\ Commands \subseteq {"boot", "cron", "forced"} \cup Rule
    /\ AutoApply \in BOOLEAN

VARIABLES
    server,   \* what each provider serves (for Geo, what the geo data holds)
    file,     \* what is stored
    etag,     \* the ETag in the file's metadata
    loaded,   \* what the last successful apply loaded
    uci,      \* the last commit by others that /etc/config/purewrt contains
    cmd,      \* the running command, "none" when the lock is free
    pc,       \* its phase
    snap,     \* the commit it has read
    job,      \* each provider's download
    got,      \* the version it answered with
    changed,  \* something new was stored
    failed,   \* something failed softly
    geoChanged, \* the same two, of the geo providers
    geoFailed,
    rc,       \* the exit code
    tries     \* attempts the boot loop has left

stored == <<server, file, etag, loaded, uci>>
geos == <<geoChanged, geoFailed>>
run == <<cmd, pc, snap, job, got, changed, failed, geos, rc>>
vars == <<stored, run, tries>>

Jobs == {"none", "queued", "same", "new", "stored", "failed", "done"}

Versions == [Providers -> 0..MaxVersion]

TypeOK ==
    /\ server \in [Providers -> 1..MaxVersion]
    /\ file \in Versions /\ etag \in Versions
    /\ loaded \in Versions /\ got \in Versions
    /\ uci \in 0..MaxEdits /\ snap \in 0..MaxEdits
    /\ cmd \in Commands \cup {"none"}
    /\ pc \in {"idle", "subscribe", "proxies", "rules", "collect", "apply", "exit"}
    /\ job \in [Providers -> Jobs]
    /\ changed \in BOOLEAN /\ failed \in BOOLEAN
    /\ geoChanged \in BOOLEAN /\ geoFailed \in BOOLEAN
    /\ rc \in {0, 1, 3}
    /\ tries \in 0..MaxAttempts

NoJobs == [p \in Providers |-> "none"]
Nothing == [p \in Providers |-> 0]

Quiet == /\ cmd = "none" /\ pc = "idle" /\ snap = 0 /\ job = NoJobs
         /\ got = Nothing /\ changed = FALSE /\ failed = FALSE
         /\ geoChanged = FALSE /\ geoFailed = FALSE /\ rc = 0
Silence == /\ cmd' = "none" /\ pc' = "idle" /\ snap' = 0 /\ job' = NoJobs
           /\ got' = Nothing /\ changed' = FALSE /\ failed' = FALSE
           /\ geoChanged' = FALSE /\ geoFailed' = FALSE /\ rc' = 0

(* Freshly imported providers: configured, nothing downloaded yet.         *)
Init ==
    /\ server = [p \in Providers |-> 1]
    /\ file = Nothing /\ etag = Nothing /\ loaded = Nothing
    /\ uci = 0 /\ Quiet
    /\ tries = IF "boot" \in Commands THEN MaxAttempts ELSE 0

-----------------------------------------------------------------------------
(* Starting                                                                *)

(* Variant: a provider is downloaded once.                                 *)
OnceDue(elapsed) == {p \in Proxy \cup Rule : file[p] = 0}

(* shouldUpdate: a missing file is always due.                             *)
Due(elapsed) == {p \in Proxy \cup Rule : p \in elapsed \/ file[p] = 0}

(* A command takes the lock and loads the configuration.  `elapsed` is     *)
(* where the update interval has passed since the file was written; forced *)
(* and named updates do not ask.                                           *)
Begin(c, elapsed) ==
    /\ pc = "idle"
    /\ c = "boot" => tries > 0
    /\ c \notin {"boot", "cron"} => elapsed = Providers
    /\ cmd' = c /\ snap' = uci
    /\ LET queued == IF c \in Rule THEN {c} ELSE Due(elapsed) IN
         job' = [p \in Providers |-> IF p \in queued THEN "queued" ELSE "none"]
    /\ pc' = IF c \in Rule THEN "rules"
             ELSE IF AutoApply THEN "subscribe" ELSE "proxies"
    /\ UNCHANGED <<stored, got, changed, failed, geos, rc, tries>>

Stop(code) == pc' = "exit" /\ rc' = code

-----------------------------------------------------------------------------
(* The update                                                              *)

(* UpdateDetailedWithOptions: the subscription is re-imported and the      *)
(* whole configuration saved as it was loaded at the start.                *)
Subscribe ==
    /\ pc = "subscribe" /\ pc' = "proxies"
    /\ changed' = TRUE /\ uci' = snap
    /\ UNCHANGED <<server, file, etag, loaded, cmd, snap, job, got, failed, geos,
                   rc, tries>>

SubscribeFails ==
    /\ pc = "subscribe"
    /\ \/ "net" \in Faults /\ failed' = TRUE /\ pc' = "proxies" /\ UNCHANGED rc
       \/ "write" \in Faults /\ Stop(1) /\ UNCHANGED failed
    /\ UNCHANGED <<stored, cmd, snap, job, got, changed, geos, tries>>

Waiting(ps) == \E p \in ps : job[p] \in {"queued", "same", "new", "stored"}

(* Proxy providers are finished one by one before the rule providers;      *)
(* those are downloaded by concurrent workers that share nothing, and      *)
(* stored once all are back.                                               *)
MayFetch(p) ==
    /\ job[p] = "queued"
    /\ \/ pc = "proxies" /\ p \in Proxy
          /\ \A q \in Proxy : job[q] \notin {"same", "new", "stored"}
       \/ pc = "rules" /\ p \in Rule

(* doOnce with the ETag read from the metadata: 304 when the server still  *)
(* has that version, otherwise the content, compared with the file.        *)
Answer(p, v) ==
    /\ got' = [got EXCEPT ![p] = v]
    /\ job' = [job EXCEPT ![p] = IF v = etag[p] \/ v = file[p] THEN "same" ELSE "new"]
    /\ UNCHANGED <<stored, cmd, pc, snap, changed, failed, geos, rc, tries>>

Fetch(p) == MayFetch(p) /\ Answer(p, server[p])

(* downloadAttempt: the first candidate that answers wins.                 *)
FetchFromMirror(p) ==
    /\ "mirror" \in Faults /\ MayFetch(p)
    /\ \E v \in 1..server[p] : Answer(p, v)

(* Every candidate failed in every round, or the budget ran out.           *)
FetchFails(p) ==
    /\ "net" \in Faults /\ MayFetch(p)
    /\ job' = [job EXCEPT ![p] = "failed"] /\ failed' = TRUE
    /\ UNCHANGED <<stored, cmd, pc, snap, got, changed, geos, rc, tries>>

(* materializeGeoProvider, before the downloads; no ETag is involved.  The *)
(* metadata can fail to be written after the file was.                     *)
Materialize(p) ==
    /\ pc = "rules" /\ cmd \notin Rule /\ p \in Geo /\ job[p] = "none"
    /\ \/ /\ file' = [file EXCEPT ![p] = server[p]]
          /\ geoChanged' = (geoChanged \/ file[p] # server[p])
          /\ job' = [job EXCEPT ![p] = "stored"]
          /\ UNCHANGED geoFailed
       \/ /\ "write" \in Faults
          /\ file' \in {file, [file EXCEPT ![p] = server[p]]}
          /\ geoFailed' = TRUE
          /\ job' = [job EXCEPT ![p] = "failed"]
          /\ UNCHANGED geoChanged
    /\ UNCHANGED <<server, etag, loaded, uci, cmd, pc, snap, got, changed,
                   failed, rc, tries>>

MayStore(p) == \/ pc = "proxies" /\ p \in Proxy
               \/ pc = "collect" /\ p \in Rule

Store(p) ==
    /\ MayStore(p) /\ job[p] = "new"
    /\ file' = [file EXCEPT ![p] = got[p]]
    /\ job' = [job EXCEPT ![p] = "stored"]
    /\ UNCHANGED <<server, etag, loaded, uci, cmd, pc, snap, got, changed,
                   failed, geos, rc, tries>>

(* AtomicWrite fails: providerAttemptMetadata keeps the new ETag beside    *)
(* the old file.  For a proxy provider the command ends here.              *)
StoreFails(p) ==
    /\ "write" \in Faults /\ MayStore(p) /\ job[p] = "new"
    /\ etag' = [etag EXCEPT ![p] = got[p]]
    /\ job' = [job EXCEPT ![p] = "failed"]
    /\ IF p \in Proxy THEN Stop(1) /\ UNCHANGED failed
                      ELSE failed' = TRUE /\ UNCHANGED <<pc, rc>>
    /\ UNCHANGED <<server, file, loaded, uci, cmd, snap, got, changed, geos, tries>>

(* Variant: the metadata is written before the file.                       *)
RecordEarly(p) ==
    /\ MayStore(p) /\ job[p] \in {"same", "new", "stored"}
    /\ etag' = [etag EXCEPT ![p] = got[p]]
    /\ job' = [job EXCEPT ![p] = IF @ = "new" THEN "new" ELSE "done"]
    /\ changed' = (changed \/ job[p] = "stored")
    /\ UNCHANGED <<server, file, loaded, uci, cmd, pc, snap, got, failed, geos,
                   rc, tries>>

(* WriteMetadata after the file is in place.                               *)
Record(p) ==
    /\ MayStore(p) /\ job[p] \in {"same", "stored"}
    /\ etag' = [etag EXCEPT ![p] = got[p]]
    /\ job' = [job EXCEPT ![p] = "done"]
    /\ changed' = (changed \/ job[p] = "stored")
    /\ UNCHANGED <<server, file, loaded, uci, cmd, pc, snap, got, failed, geos,
                   rc, tries>>

RecordFails(p) ==
    /\ "write" \in Faults /\ MayStore(p) /\ job[p] \in {"same", "stored"}
    /\ job' = [job EXCEPT ![p] = "failed"]
    /\ IF p \in Proxy
         THEN Stop(1) /\ UNCHANGED <<changed, failed>>
         ELSE /\ failed' = TRUE /\ changed' = (changed \/ job[p] = "stored")
              /\ UNCHANGED <<pc, rc>>
    /\ UNCHANGED <<stored, cmd, snap, got, geos, tries>>

ProxiesDone ==
    /\ pc = "proxies" /\ ~Waiting(Proxy) /\ pc' = "rules"
    /\ UNCHANGED <<stored, cmd, snap, job, got, changed, failed, geos, rc, tries>>

(* wg.Wait.                                                                *)
RulesFetched ==
    /\ pc = "rules"
    /\ cmd \in Rule \/ \A p \in Geo : job[p] # "none"
    /\ \A p \in Rule : job[p] # "queued"
    /\ pc' = "collect"
    /\ UNCHANGED <<stored, cmd, snap, job, got, changed, failed, geos, rc, tries>>

(* Without a download updateRuleProvidersAsync returns "nothing changed,   *)
(* nothing failed", whatever the geo providers did.                        *)
Downloads == \E p \in Rule : job[p] # "none"
Changed == changed \/ (Downloads /\ geoChanged)
Failed == failed \/ (Downloads /\ geoFailed)

(* Variant: failures do not end the command.                               *)
FinishLenient ==
    /\ pc = "collect" /\ ~Waiting(Rule)
    /\ IF Changed \/ cmd = "forced" THEN pc' = "apply" /\ UNCHANGED rc ELSE Stop(0)
    /\ UNCHANGED <<stored, cmd, snap, job, got, changed, failed, geos, tries>>

(* The end of the update: live outputs are rewritten; a failure ends the   *)
(* command, and without a change there is nothing to apply.                *)
Finish ==
    /\ pc = "collect" /\ ~Waiting(Rule)
    /\ \/ IF Failed THEN Stop(IF cmd \in Rule THEN 1 ELSE 3)
          ELSE IF Changed \/ cmd = "forced" THEN pc' = "apply" /\ UNCHANGED rc
          ELSE Stop(0)
       \/ "write" \in Faults /\ (Changed \/ Proxy # {}) /\ Stop(1)
    /\ UNCHANGED <<stored, cmd, snap, job, got, changed, failed, geos, tries>>

Apply ==
    /\ pc = "apply" /\ loaded' = file /\ Stop(0)
    /\ UNCHANGED <<server, file, etag, uci, cmd, snap, job, got, changed,
                   failed, geos, tries>>

ApplyFails ==
    /\ "apply" \in Faults /\ pc = "apply" /\ Stop(1)
    /\ UNCHANGED <<stored, cmd, snap, job, got, changed, failed, geos, tries>>

(* Variant: every command uses up an attempt.                              *)
RetriesOfAll(code) == IF code = 0 THEN 0 ELSE tries - 1

(* run_bg_with_retries: the boot loop stops at rc 0 or its last attempt.   *)
Retries(code) == IF cmd # "boot" THEN tries
                 ELSE IF code = 0 THEN 0 ELSE tries - 1

Return == pc = "exit" /\ Silence /\ tries' = Retries(rc) /\ UNCHANGED stored

Kill == /\ "kill" \in Faults /\ pc \notin {"idle", "exit"}
        /\ Silence /\ tries' = Retries(1) /\ UNCHANGED stored

-----------------------------------------------------------------------------
(* Around it                                                               *)

(* A restart of the router: boot applies by force what is stored.          *)
Reboot ==
    /\ "kill" \in Faults /\ "boot" \in Commands
    /\ loaded' = file \/ ("apply" \in Faults /\ loaded' = Nothing)
    /\ Silence /\ tries' = MaxAttempts
    /\ UNCHANGED <<server, file, etag, uci>>

ServerChanges(p) ==
    /\ server[p] < MaxVersion /\ server' = [server EXCEPT ![p] = @ + 1]
    /\ UNCHANGED <<file, etag, loaded, uci, run, tries>>

(* LuCI or a command commits /etc/config/purewrt.                          *)
UserEdit ==
    /\ uci < MaxEdits /\ uci' = uci + 1
    /\ UNCHANGED <<server, file, etag, loaded, run, tries>>

Steps(p) == \/ Fetch(p) \/ FetchFromMirror(p) \/ FetchFails(p) \/ Materialize(p)
            \/ Store(p) \/ StoreFails(p) \/ Record(p) \/ RecordFails(p)

Next ==
    \/ \E c \in Commands, elapsed \in SUBSET Providers : Begin(c, elapsed)
    \/ Subscribe \/ SubscribeFails
    \/ \E p \in Providers : Steps(p)
    \/ ProxiesDone \/ RulesFetched \/ Finish \/ Apply \/ ApplyFails
    \/ Return \/ Kill \/ Reboot
    \/ \E p \in Providers : ServerChanges(p)
    \/ UserEdit

Spec == Init /\ [][Next]_vars

(* Cron keeps ticking, intervals elapse now and then, a running command    *)
(* gets on.                                                                *)
Progress == \/ Subscribe \/ SubscribeFails \/ \E p \in Providers : Steps(p)
            \/ ProxiesDone \/ RulesFetched \/ Finish \/ Apply \/ ApplyFails
            \/ Return
Fairness == WF_vars(Progress) /\ SF_vars(Begin("cron", Providers))

LiveSpec == Spec /\ Fairness

-----------------------------------------------------------------------------
(* Properties                                                              *)

(* The server is only told an ETag whose content is stored: a 304 cannot   *)
(* leave an old or a missing file behind (the order of AtomicWrite and     *)
(* WriteMetadata, with the process dying between them).                    *)
NotModifiedIsCurrent ==
    \A p \in Proxy \cup Rule : etag[p] = server[p] => file[p] = server[p]

(* An update-if-needed that exits 0, having applied or found no change,    *)
(* leaves what is stored loaded, whatever earlier runs left half done.     *)
ReportedIsLoaded ==
    pc = "exit" /\ rc = 0 /\ cmd \notin Rule => \A p \in Providers : loaded[p] = file[p]

(* "Retry will heal": once nothing fails any more, what a provider settles *)
(* on gets loaded.                                                         *)
Failure == \/ SubscribeFails \/ ApplyFails \/ Kill \/ Reboot
           \/ \E p \in Providers : FetchFails(p) \/ StoreFails(p) \/ RecordFails(p)
RetryHeals ==
    <>[][~Failure]_vars =>
        \A p \in Providers : <>[](loaded[p] = server[p])

(* The re-import's config.Save never takes back a commit made while the    *)
(* subscriptions were downloading.                                         *)
EditsSurvive == [][uci' >= uci]_vars
=============================================================================
