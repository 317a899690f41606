# PureWRT: a TLA+ development

PureWRT is a routing manager for OpenWrt. It renders `/etc/config/purewrt` into
a mihomo configuration, nftables files, dnsmasq fragments, firewall includes and
a Zapret environment, loads them, and keeps them fresh from subscriptions, rule
providers, a mesh of peers and a guard that watches the proxies. These modules
model the parts in which steps of several actors, failures and restarts meet,
and the transformations on which a packet's fate depends.

## Inventory

| component | state | operations | interacts with | what makes it correct | modules |
|---|---|---|---|---|---|
| operation lock (`cmd/purewrt/main.go`, `internal/system/lock.go`) | the flock `/var/run/purewrt.lock`, the marker `/var/run/purewrt.dirty` | blocking, coalescing and try acquisition; catch-up loop; `fatal` | every CLI command, cron, rpcd, init scripts | one holder; no request forgotten; rc 0 means the request was covered; nobody waits forever | `OperationLock`, `WholesaleService` |
| rpcd background jobs (`openwrt/luci/root/usr/libexec/rpcd/purewrt`) | pid, status and lock files under `/tmp` | `*_start`, `*_status`, `*_cancel` | the CLI, LuCI | one worker per job; a busy answer means somebody will do the work | `OperationLock` (update job) |
| apply pipeline (`internal/manager/manager.go`) | stage directory, backups, generated files, live kernel/daemon state | apply, generate, update, disable, rollback | nft, ip, uci, dnsmasq, mihomo, Zapret | success means everything runs on the applied configuration; a failure restores what ran before | `ApplyPipeline` |
| generation fingerprint (`internal/generator/fingerprint.go`, `service.go`) | `generation.json` on tmpfs, group hashes | dirty groups, promote, commit | apply, generate, update, init.d/mihomo | a clean group is really live | `ApplyPipeline` |
| provider update (`manager.go`, `internal/provider`) | rule files, `*.meta` (ETag, checksum), `provider-status.json` | download with mirrors and conditional requests, retry rounds, parallel workers | remote servers, apply | a failed provider is retried; a changed file gets applied | `ProviderUpdate` |
| subscription import (`profile_decompose.go`, `import_plan.go`, `native_list.go`, `prune.go`) | entries and groups in UCI, profile files | import, refresh, prune, native lists | config, provider update, the panels | the user's decisions survive; an unchanged answer changes nothing | `ProviderImport` |
| proxy guard (`proxy_guard.go`, `internal/proxyguard`, `internal/generator/mihomo_guard.go`) | `proxy-guard.json`: per-member streaks and quarantine | probe, classify, quarantine, recover, apply to routing | mihomo API, apply | nobody is quarantined without a witness; a group keeps its floor; routing agrees with the state; slow members do get quarantined | `ProxyGuard`, `MihomoConfig` |
| mesh (`mesh.go`, `mesh_sync.go`, `internal/mesh`) | peers in UCI, EasyTier instance | join, leave, rotate, sync, garbage collection | config, apply | present peers are kept, absent ones go; sync does not loop with apply | `MeshSync` |
| Zapret client test (`zapret_client_*.go`) | session, switch, stop and offload files; nft table, routes, nfqws | run, switch, stop, status | nft, LuCI | the strategy asked for is the one in force; nothing outlives the session | `ZapretClientTest` |
| mihomo install (`mihomo_install.go`, `updater.go`) | binaries, UCI | install, auto-update, revert | downloads, init script | a release that does not work cannot take the proxy down; updates arrive | `MihomoInstall` |
| download, DoH, TOFU (`internal/provider`) | `dns-tofu.json`, parked endpoints | lookup, resolve, dial, retry | every download | a host that moved is found again | `BootstrapFetch` |
| artifact cache and rule outputs (`artifact_cache.go`, `internal/rules`, `internal/generator/stream.go`) | artifacts and metadata | parse, cache, clean, stream | update, generate | outputs are what the files say | `RuleStream`, `MrsSet` |
| configuration (`internal/config`) | `/etc/config/purewrt`, the strategy catalog and library | load, save, export, import, reset | everything, LuCI | a rewrite keeps what it does not mean to change; what is written loads | `ConfigStore` |
| renderers (`internal/generator`) | none | nftables, mihomo | apply | each packet is decided by one section; every name resolves; exits are one's own | `NetRules`, `MihomoConfig` |
| metrics (`internal/metrics`, `notify.go`) | `metrics-state.json` | observe, merge, reset | every command, the API daemon | counts are neither lost nor doubled | `MetricsStore` |
| client traffic, statistics, net-check, OONI, checker, diag | none that lasts | probes and reports | network | pure reports | - |
| geo and IP databases, logging, API daemon, LuCI pages, init scripts, packaging | UCI edits, procd instances | pages, start/stop | rpcd | see the components they call | - |

How they interact: the CLI is the only writer of live state, and every command
that changes it takes the operation lock (`disable`, `generate`,
`add-native-list`, `geo-refresh` and the mihomo install do not). cron starts
`update-if-needed`, `proxy-guard run`, `mesh-sync`, the mihomo auto-update and
the reports; the init script starts a forced apply and an update loop at boot;
LuCI starts commands through rpcd's background jobs and edits UCI and manual
rule files directly. An update may end in an apply; a mesh sync that changed
something ends in one; the guard rewrites mihomo's configuration itself;
mihomo's init script may call `generate`.

What is hard here is the order in which these meet. State is checked and then
used after a download of minutes; several files, a fingerprint, the kernel and
four daemons have to agree although a step in the middle may fail or the process
may die; a marker file stands for a request that another process answers;
decisions are taken from measurements of different ages; two programs rewrite
one file by different rules; chains of rules at four hooks have to cut traffic
the same way.

## Modules

| module | what it is |
|---|---|
| `OperationLock` | the lock, the marker, the three wrappers and rpcd's update job |
| `WholesaleService` | abstract: a request is answered only after a run that started later |
| `OperationLockProofs` | theorems about `OperationLock` |
| `ApplyPipeline` | apply with rollback, and what shares its files |
| `ApplyPipelineProofs` | theorems about `ApplyPipeline`: rejected versions, rollback, and that the fingerprint tells the truth |
| `ProviderUpdate` | one update after another: import, downloads, storing, apply, retries |
| `ProviderUpdateProofs` | theorems about `ProviderUpdate` |
| `ProxyGuard` | runs of the proxy guard and what surrounds them |
| `ProxyGuardProofs` | theorems about what `ProxyGuard` decides and routes |
| `MeshSync` | routers that join, leave, rotate secrets, sync and age each other out |
| `ZapretClientTest` | the session of a client test, its switches, its end and its death |
| `MihomoInstall` | releases downloaded, configured, started, warmed up and reverted |
| `ServicesProofs` | theorems about the four services and their composition `MCServices` |
| `BootstrapFetch` | downloads that look for hosts in the TOFU cache, DoH and the system resolver |
| `ConfigStore` | the UCI file as LuCI and purewrt rewrite it, the strategy library beside it |
| `ProviderImport` | the panels' answers merged into the configuration, with the user's edits |
| `MrsSet` | compiled lists: the trie, its lookup, ranges cut into prefixes |
| `RuleStream` | from rule files through the artifact cache to each section's outputs |
| `RuleStreamProofs` | theorems about `RuleStream` |
| `NetRules` | the verdict of the nftables chains on a packet |
| `ConfigProofs` | theorems about `ConfigStore`, `ProviderImport` and `MihomoConfig` |
| `MihomoConfig` | mihomo's groups, rules and listeners, the mixin, the guard's overlay |
| `MetricsStore` | the counters that concurrent commands add up in one file |
| `DataPathProofs` | theorems about `NetRules` and `MetricsStore` |
| `MCServices` | composes `MeshSync`, `ZapretClientTest`, `MihomoInstall`, `BootstrapFetch` |
| `MCDataPath` | composes `ConfigStore`, `ProviderImport`, `MrsSet`, `RuleStream`, `NetRules`, `MihomoConfig`, `MetricsStore` |
| other `MC...` | the instances TLC checks |

The components are composed through assumptions, each stated at the head of the
module that makes it: `ApplyPipeline`, `ProviderUpdate`, `ProxyGuard` and
`MeshSync` (per router) run one operation at a time because `OperationLock`
gives the lock to one holder (theorem `LockCorrect`); `ProviderUpdate`'s `Apply`
loads every stored file because a successful apply does (`AppliedMeansLoaded`);
`ProxyGuard`'s `Apply` renders the guard's state because that is what
`MihomoConfig`'s `Overlay` does; `MeshSync`'s `Loads` restarts the overlay only
when the daemon's own group is dirty, as `ApplyPipeline`'s groups say.

`MCServices` and `MCDataPath` put models that share no variable side by side: a
variable (`service`, `part`) says which of them a history is about, and the
others stay as they begin. Their states add up instead of multiplying, and one
run checks all of them.

Definitions whose comment begins with "Variant" or "variant", and the ones next
to them that no action uses (for example `AnySlot`, `EverPassed`,
`ReloadingKernel`), are deliberately wrong versions of a definition. Substituting
one for the original must break the property it is listed with in
`PROJECT.json`; no specification uses them.

### OperationLock

A caller is a process. `pc` follows it through `withOperationLockCoalesce`
(`cmd/purewrt/main.go:1643`): `CallWholesale` touches the marker, `Poll` is one
round of `acquireBlocking`, `CheckCaughtUp` the look at the marker on entry,
`StartRun` clears the marker and starts `fn()`, `RunDone` and `CheckDirty` are
the catch-up loop with its cap, `Release` closes the lock. Named commands and
observers use the other two wrappers. `Die` is `fatal()` in `fn()` (an
`os.Exit` that skips the deferred close) or a kill; the kernel drops the flock
and the marker stays as it was. `RpcTouch`, `RpcStart`, `WorkerTouch` and
`WorkerExit` are rpcd's `update_start` with its own job lock. `covered`,
`covering` and `served` only observe.

Time is a number of busy polls; `MaxPolls` of them make `operationLockMaxWait`.

`WholesaleService` says what a caller may rely on: a request is waiting until a
run starts after it, and only then can it be answered with rc 0.
`ImplementsService` maps the lock's state to it.

### ApplyPipeline

What a file, a table or a daemon holds is the pair of versions it was rendered
from: of its group's settings and of the rule files. An apply is `Prepare`,
`Validate`, one `Promote` per file, one load step per part in the order of
`applyWithRunnerPaths` (`LoadTable`, `LoadUCI`, `LoadPolicy`, `RestartServices`,
`LoadNetwork`), `Commit` of the fingerprint; any step may fail into `Restore`
and `Reload`, in which every single restore and reload may fail too. A restart of
dnsmasq, Zapret or mihomo has a third outcome (`TimesOut`): its time is up, which
`runServiceRestart` and the rollback's `runService` take for success. The service
then runs on what it had or not at all, is in `late`, and comes up at any later
moment on the file as it is by then, or never (`LateStart`). `Update`,
`Generate`, `Disable`, `EditRules`, `Edit`, `Reboot` and `Drift` are what else
touches these files. A history belongs to a scenario, which says what may happen
in it (`env`), which faults there are (`faults`), which groups are edited, which
versions mihomo rejects and which files are too large to back up. mihomo's init
script generates its configuration when it is missing (`MihomoGenerates`), which
also writes the fingerprint.

### ProviderUpdate

A version stands for a content, its ETag and its checksum. `Begin` takes the
lock and loads the configuration; `Subscribe` re-imports and saves it; proxy
providers are fetched, stored and recorded one after the other, rule providers
in any order and stored when all are back; `Finish` decides between failure,
nothing to do, and `Apply`; `Return` reports to the boot loop. The file and its
metadata are two steps, and every step can be followed by `Kill`. Early returns
that forget what happened before them (geo providers when no download is due,
proxy providers when a later one cannot be stored) are kept.

### ProxyGuard

Per member: state, bad and recovery streaks, what remains of the cooldown, the
age of the last download and whether it was fast. Streaks stop at two because
the code only compares with two. A latency window is reduced to its verdict
(short, stable, unstable). A run is `Start` (state, members, sweep), `Recover`,
`ProbeActive`, the confirmation loop (`Condemn`, `ProbeAlternative`, `Spare`),
`ProbeFleet`, `Decide` (last resorts), `Route` (validate, write, reload) and
`Save`. `live` is what mihomo's configuration excludes, which `Apply`,
`ResetRouting` and `Reboot` rewrite too. `CutShort` ends a run or a reset at any
point, by a kill or by a state file that cannot be written or removed; `torn`
observes that one was cut between its reload and its save, so that what mihomo
excludes and what the state says have parted. Which members are in use is any subset,
since traffic decides it; the order of alternatives is any order, since
latencies decide it; the fleet's order and the choice among last resorts are any
as well, which allows more than the code does.

### MeshSync

Each router has its secrets (`key`), what its daemon runs with (`run`, `addr`),
its `mesh_peer` sections (`peers`) and the friends its mihomo knows (`live`). A
sync lists the overlay (`SyncStart`), probes one address after the other
(`Probe`, any of which may fail), then stamps the present, drops whoever is
absent with a stamp that is TTL days old (`Collected`), and saves and applies if
a record changed (`SyncDone`). A stamp is a date and the code counts from its
midnight, so an absent peer goes on the day its stamp is TTL days old, not on
the day after; the model leaves out that at midnight itself it would stay. Either of the last two may fail. Between any two steps routers
lose power, come back at another address, leave, join, rotate their secrets, and
midnight passes. Secrets are a number; a probe succeeds if both ends hold the
same. A cast says who takes part in which way; four of them are checked.

### ZapretClientTest

The worker goes from `RunLock` to `RunEnd`; its steps are those between which
the kernel or a file changes: nfqws started, routes and mark rules, the nft
transaction with the offload guard, the state file. A switch starts nfqws on the
spare queue (`SwitchStart`), moves the rules (`SwitchRules`), stops the old one
(`SwitchDone`) and answers (`SwitchReply`). `SwitchCheck`, `SwitchWrite`,
`SwitchTold` and `SwitchReturn` are the command that asks, which may give up
while its request is still there. `StopAsk` and `StopClean` are the stop
command, which cleans up itself when no worker holds the lock; `Poll` is the
status command, which holds it for a moment. The worker can be killed anywhere,
nfqws can exit, a firewall reload or an apply can rebuild fw4's and the
production table under the session.

### MihomoInstall

`Download`, `Save`, `Restart` and `WarmUp`, each with its failure; a failed
warm-up leads to `RevertSave`, a restart and `RevertWipe`, as the revert command
does. The automatic update asks the configured binary for its version and
installs when the answer is not the latest. A download can be damaged without
notice (the checksum is optional); a release outside `Working` starts and never
answers. Kills, reboots and new releases come in between.

### BootstrapFetch

A download has a client of its own, which reads `dns-tofu.json` once and
rewrites the whole file from memory. `LookupTOFU`, `DialCached`, `Resolve`,
`Dial` and `Handshake` are an attempt, `RetryDownload` another one of the same
client. Hosts move, endpoints go and come back and are parked, an address may be
taken over by a server that accepts connections but is not the host, writes fail
unnoticed, the TTL passes.

### ConfigStore

The file has its named sections by type, each type's in order (`Load` takes each
type by itself, so the order between types does not matter), and options of five
kinds by the way they are read and written: a scalar, an optional, a list, a
list whose emptiness is written as one blank option, and those of the mesh,
written only while it is on. A command loads the whole file, changes something
and writes all of it (`Rewrite`, `WizardReset`, `JoinMesh`, `LeaveMesh`,
`ImportConfig`). LuCI changes single sections (`AddObject`, `AddDevice`,
`RetargetDevice`, `RemoveDevice`, `RemoveSection`), or a form's options
(`FillForm`, `ClearForm`). The strategy library and the catalog are other files
to which the applications refer; `CanLoad` is what a command needs to run at all.

A text is in the file as libuci reads it, which undoes what `q` does to an
apostrophe. `Load` reads the lines by itself: it joins words with single spaces,
trims outer quotes and leaves the escape of an apostrophe in the text
(uci.go:49, 74, 123). `Misread` gives what it makes of such texts, `Parsed` reads
with it, and `Serialize` writes what was read. In the instance one text is changed by
three rewrites in turn, after which it stays as it is (the code goes on), and one by
the first only.

### ProviderImport

A panel's answer is a profile (nodes, rule lists with the group each goes to,
groups with the providers they use) or a plain list. `PlanImport` makes of it
what `PlanImportWithOptions` makes, `SectionHints` what the decomposition says
about sections; the `Upsert...` operators merge entries by name or URL as
`write.go` does. `Refresh` folds all subscriptions into the configuration;
`RefreshLost` is one whose files were written and whose save failed.

### MrsSet, RuleStream

`MrsSet` has the succinct trie bit for bit: labels, bitmaps, the counts of zeros
and ones, the walk that lists its names and the lookup that does not, and the
arithmetic in two words that cuts a range into prefixes. Words have `WordBits`
bits instead of 64 and bitmaps words of `BitmapWord` bits, so that carries and
word boundaries occur in small numbers. The encoder is mihomo's and external.

In `RuleStream` the versions of a provider's file are given as lists of lines. A
generation takes one list after the other: it reads it (`ReadStreamed`, or
`ReadData`, `Ensure`, `Seal` and `Open` for one that goes through the cache) and
writes it entry by entry (`EmitEntry`, `EmitEnd`). It may be killed between any
two steps; updates replace files and write artifacts, and a cleaning removes
some. The checksum is the
version itself, the artifact remembers whose rules it holds.

### NetRules

A packet has its origin (a client, the router, mihomo, nfqws), family, protocol,
port, the sets that hold its destination, its source assignment and whether it
answers another. `hook` moves it from OUTPUT or PREROUTING to a listener, to
POSTROUTING and its queue, or to nowhere; each chain is a sequence of rules in
the order `nftables.go` emits them, and `First` is the verdict of the first that
applies. A pass over the sections is one rule as well: the rule of the section
that comes `Ahead` of all others with a rule that applies (`SectionPass`), which
is what a loop over the sorted sections amounts to. `DevicePass`, `SourcePass`,
`DestinationPass` and `QueueRules` are the passes. Port lists are merged and
intersected as `section_match.go` does, an empty text meaning every port.

### MihomoConfig

`Base` renders a router's groups, outbounds, providers, listeners and rules;
`MergeMixin` merges a user's file (lists put in front, values overridden);
`Overlay` prunes the guard's quarantined members from the managed groups and
adds a shadow group through which they are tested. `Render`, `Mix` and `Guard`
are the three stages a file goes through. `Valid` is the part of the hardening
check that decides about groups: a configuration it refuses is not rendered.
Groups and rules are sets, since little depends on their order; a group
carries the section it is for, so that two groups of one name stay two, of which
the overlay finds the last.

### MetricsStore

Commands and the API daemon observe in memory; at its end a command takes the
lock, reads and parses the file, writes the merge and resets its own counts
(`DumpLock`, `DumpRead`, `DumpWrite`, `DumpReset`), and can be killed between
any two steps. A second dump of the same process follows the first. A layer's
status is a gauge with a label per value, of which one may stay.

## Runs

Every run explores its instance completely.

| run | shows | instance |
|---|---|---|
| `lock_safety` | types; no request is forgotten (`RequestIsRemembered`); rc 0 means a run started after the request (`OkMeansCovered`); the lock implements `WholesaleService` | three callers, two wholesale commands, a named one, an observer, rpcd; failures and kills |
| `lock_live` | every waiter leaves the queue (`QueueIsLeft`); a holder that keeps running lets go (`HolderLetsGo`) | two callers; failures, kills, a marker that cannot be written |
| `lock_two_commands` | *violated*: rc 0 means the caller's own command was completed (`OkMeansServed`) | two callers, `update` and `apply`, no faults |
| `apply_pipeline` | a successful apply leaves every part on what it loaded, and a service whose restart timed out with that to start on (`AppliedMeansLoaded`); one with something to do repairs what drifted (`ReloadMeansLoaded`); a clean rollback brings back what ran (`RollbackRestores`); a rejected configuration never runs (`RejectedNeverRuns`) | five scenarios: *Updating* (edits of three groups, updates, reboots; failing commands and writes, kills), *Drifting* (a rejected version, drift, reboots, forced applies; failing commands and writes), *Installing* (from a fresh install; rule edits at any moment, generate, disable, reboot, one file above the backup limit; every fault but timeouts, also during the rollback), *Restarting* (edits of mihomo and of the bundle, reboots; failing commands, service restarts that time out), *Starting* (the same on a fresh install, where mihomo's init script generates) |
| `update_safety` | exit code 0 means what is stored is loaded (`ReportedIsLoaded`) | one provider of each kind, boot with retries, forced and named updates; every fault, lagging mirrors |
| `update_live` | a 304 never leaves an old file (`NotModifiedIsCurrent`); once failures stop everything gets loaded (`RetryHeals`) | one provider of each kind, cron and a named update, user edits; failing downloads and applies, kills |
| `update_partial` | *violated*: `RetryHeals` without an auto-apply subscription | two rule providers, boot and cron, failing downloads |
| `update_lost_edit` | *violated*: a commit is never taken back (`EditsSurvive`) | one provider, one edit |
| `guard_safety` | a group keeps its floor (`FloorKept`); routing agrees with the readable state (`RoutingFollowsState`); a due fleet member is measured (`FleetSlotIsUsed`); nobody is quarantined without a witness (`QuarantineHasWitness`) | three members, one always slow and one always good, the latter coming and going, two downloads a run; failing sweeps and reloads, runs and resets cut short, applies, upgrades, reboots |
| `guard_throttled` | *violated*: a slow member is eventually quarantined (`ThrottledIsQuarantined`) | a slow and a good member with stable latencies |
| `services` | mesh: only peers without an answer since TTL midnights are dropped (`OnlyAbsentDropped`), and once nothing moves everyone knows everyone and nothing is applied any more (`MeshSettles`); client test: the strategy in force is one asked for and the one reported (`StrategyAskedFor`), a session stopped without an error left nothing (`StoppedIsClean`), every session ends (`SessionEnds`); install: a bad release does not take the proxy down (`ReleaseCannotBrick`), a good one arrives (`UpdateArrives`); downloads: a host that moved is found again (`DownloadsRecover`) | four casts of two or three routers, two or three addresses; two sessions, one switch; two releases of which one works; two hosts, one of which moves |
| `data_path` | the file keeps unique ids and every entry its name (`TypeOK`), a command changes only what it means to, and texts as `Load` reads them (`RewriteIsFaithful`), what purewrt writes loads (`OwnWritesLoad`); imports keep the user's decisions (`DecisionsSurvive`) and settle (`RefreshSettles`); both readings of a compiled list say what it says (`ListIsRead`); outputs are what the files hold (`OutputIsCurrent`); one section decides on a packet at every hook (`Dispatched`) and mihomo's traffic never returns to it (`NoProxyLoop`); mihomo's file resolves, leaves by its own exits and honours quarantine (`RoutesAreSound`); counters add up (`ReportIsRight`) | see below |

Why the bounds are enough for what the runs ask:

- *Lock.* Three callers are a holder, one that is caught up and one that
  arrives meanwhile; identities come back (`Forget`), so histories are not
  bounded. A cap of two is the least at which one catch-up happens and a second
  is refused; the code's is ten and only counts. One poll separates a waiter
  that still waits from one that gives up.
- *Apply.* Two versions of the settings are an old and a new one; the parts are
  all there, so every position of a failure is tried. Groups are edited three at
  a time because the remaining two are loaded by the same steps. A second
  version of the rule files is what makes a group dirty without an edit. Timeouts
  have scenarios of their own with two groups: of a service what matters is
  whether it is restarted going forward or back, and after which other failure.
- *Update.* One provider of each kind meets every branch; two rule providers
  appear in `update_partial`, where one has to fail and one to succeed. Two
  versions are an old and a new content; a mirror that lags serves the first.
- *Guard.* Three members are a suspect that is always slow, a witness that is
  always good but comes and goes, and one whose downloads go either way; a floor
  of two makes last resorts necessary. Two downloads a run are the least
  at which the reserved slot competes with an urgent one (the code has more).
  `TTL` below `Fleet` is the order of the code's defaults (an hour, six hours);
  the configuration accepts a fleet interval from five minutes up, which
  `QuarantineHasWitness` allows for and its theorem covers; the run with `Fleet = 1`,
  where a witness may be measured again, passes as well. Three members cannot show starvation in the
  recovery loop, see the limits.
- *Mesh.* A TTL of two days with ages counted to four separates present, absent
  for a day, absent for as long as the code waits and for longer; the code
  compares ages with the TTL only. Two addresses for
  three routers force one to be taken over; three for two let one move.
- *Client test.* Two sessions are one and the leftovers of its predecessor; two
  strategies and one switch are the one in force and another. A request from an
  earlier session can then meet the next one.
- *Install.* A release that works and one that does not, either of which may be
  the latest; two who install. They do not overlap (see the limits).
- *Downloads.* One host moves between two addresses, at one of which somebody
  else answers; the other host's client holds an old copy of the cache. Two
  attempts are the least at which a first failure can be made up for.
- *Config.* An empty file, and one from before the prefixes with repeated and
  unfit names, an anonymous device and two texts that `Load` misreads; two LuCI
  edits, which can bring in misread texts too, among any number of commands. An id
  is shared or free, a reference resolved or not, a text misread again and again,
  once or never; more names repeat these cases.
- *Import.* Two panels of three answers each (a profile with hints, one without
  nodes whose lists clash by name or URL with the first's, a plain list), three
  edits among any number of imports and refreshes.
- *Lists.* Eight names over two labels, up to four together, alone and under
  wildcards; every range of the small address spaces. A bitmap of four-bit words
  has a boundary inside each of these tries.
- *Rules.* A compiled, a repeated, a global and a homeless list of up to two
  versions, one damaged; two settings. Two lists share an entry, a section and a
  value, which is what deduplication and the sections' separation are about.
- *Packets.* Two sections of every kind in both orders of priority under one
  setting, in one order under two more, and the packets at the ports where
  filters begin, end and meet (those of the router, mihomo and nfqws at one of
  them: they differ from the clients' by the hooks they pass, not by the port).
  Rules of a section refer to no other section, so two show every precedence;
  the theorems below are for any number.
- *mihomo.* Every combination of seven lists of sections, three of providers, a
  VPN up or not, three mesh states, three kinds of WANs, five mixins, three
  guard states.
- *Metrics.* Two commands and the daemon, two observations, two statuses.

Deadlock is checked in every run of the lock, apply, update and guard modules:
a system that stops would be one that waits for something that never comes, and
none does. `services` and `data_path` do not check it: a configuration that has
been rendered, a packet that has been decided, sessions and edits used up are
ends of their histories, not waits.

### Fairness

- `PollingSpec` gives each waiter its own polling: `acquireBlocking` is a loop
  with a sleep, it does not depend on the holder. Nothing is assumed of the
  holder in `QueueIsLeft`. `HolderLetsGo` assumes it explicitly (`HolderRuns`):
  it is the claim that a holder whose steps end does not loop forever.
- `LiveSpec` of `ProviderUpdate`: a command that runs gets on (downloads have
  deadlines, external commands timeouts), and cron starts an
  `update-if-needed` again and again with intervals elapsed. Strong fairness is
  needed because other commands hold the lock in between; cron's command waits
  for it. `RetryHeals` is conditional on failures ending.
- `LiveSpec` of `ProxyGuard`: a run gets on, and time passes between runs.
  Strong fairness of `Tick` because it is disabled while a run is under way.
- `MCServices`, all weak: days pass and cron goes on syncing (crontab lines the
  init script installs); a worker's steps end (each command in them has a
  timeout), the five minutes pass, and after them the kernel's timed sets expire
  and nfqws's watchdog, a process of its own, kills it; a command that installs
  gets on and cron goes on updating; the TTL passes, and downloads start, try
  what they may and end. `MeshSettles`, `UpdateArrives` and `DownloadsRecover`
  are conditional on failures ending (`calm`, `settled`, `quiet`); nothing is
  assumed of users.

## Proofs

`OperationLockProofs`, for any set of callers and commands, any cap and any
number of polls:

- `LockCorrect`: `TypeOK` and `LockInv`. `LockInv` ties the places inside the
  critical section to the holder of the lock, which gives mutual exclusion, and
  bounds the catch-up counter before it is incremented; without it the type of
  `iter` is not inductive. No fault is excluded.
- `NoRequestIsLost` and `OkIsCovered`: `RequestIsRemembered` and
  `OkMeansCovered` under `TouchWorks` (writing the marker succeeds; the code
  discards that error). `RequestIsRemembered` alone is not inductive: a step
  that reaches `release` must know that the caller was covered, which is what
  `CoverInv` adds. The strengthening is `IInv`, proved in `IndInv`.
- `SoleCommandIsServed`: with one wholesale command that does not fail, rc 0
  does mean that it was completed. This is the condition under which the
  promise that `lock_two_commands` refutes holds.
- `LockImplementsService`: the refinement. `TicketUpdate` shows how the mapped
  ticket moves when one process does, `StepImplements` goes through the actions.

`ProviderUpdateProofs`, for any providers, versions, attempts and commands:

- `TypesHold`: `TypeOK`; the boot counter needs `BootHasTries`.
- `ReportedUpdatesAreLoaded`: `ReportedIsLoaded` for `AutoApply`, with every
  fault. The re-import counts as a change, so a run under way has a change or a
  failure on record (`SubscriptionTried`) and cannot exit 0 without applying.
- `NotModifiedIsSafe`: `NotModifiedIsCurrent` without write errors and lagging
  mirrors, with kills. It rests on the order of the file and its metadata
  (`StepOrdered`).

`ApplyPipelineProofs`, for any versions, scenarios and faults:

- `ApplyTypes`, `RejectedStaysOut` and `CleanRollbackRestores` follow from
  `FileInv`, which is `TypeOK` and four parts. `AtInv` keeps the index within the
  sequence of its phase. `BaseInv` says that without mihomo's file there is no
  file and no backup at all, which is what makes its init script's `generate`
  harmless to a rollback under way. `RejectedInv` follows a validated version
  from the stage to the disk, the backup and the daemon; the property speaks of
  the daemon only, and a rollback would break it through a backup that never
  passed. `RollbackInv` says which backed-up files are back, by the position of
  the reload.
- `SuccessMeansLoaded` and `WorkRepairsDrift`. What an apply skips it skips on
  the word of the fingerprint, so the invariant `TrustInv` says what that word is
  worth: outside the histories of `Misled`, a group whose fingerprint is the one
  an apply would compute (`Trusted`) has its files, their backups and what runs
  on them at that version. `OrderInv` (versions only grow) is why a fingerprint
  once outdated never becomes true again by an edit; `DiskInv` and `DueInv` carry
  the claim through promotion, rollback and partial updates; `LiveInv` follows
  the loading and reloading step by step and lets a part be `Lost` to drift as
  long as a probe will see it (a flushed set only together with its table);
  `KillInv` is why a killed apply does no harm without force and drift. A part
  whose last restart timed out counts as `Running`, whatever it runs; what the
  theorems say of it, that its file is the one the apply loaded, is `DiskInv`'s.
  Each action has its lemma (`PrepareTrusts` to `LateTrusts`).

`ProxyGuardProofs`, for any members, groups that may
overlap, numbers of downloads, intervals and faults, runs cut short included:

- `GuardTypes`: `TypeOK`; the sweep, the measurements and the choice of the first
  member by name are typed by a lemma each.
- `GroupsKeepFloor`, `RoutingIsTheStates`, `FleetIsReached`, `SomebodyVouched`
  follow from `GuardInv`. `LiveInv` says what mihomo excludes in each phase, and
  needs `Settled`: a quarantined member is listed in every group that admits it,
  so that the signature, which has no members, determines the exclusions.
  `KeepInv` says that the last resorts saved are still enough; `AgeInv` that
  members the run has not touched are as the last run left them; `SlotInv` that
  a download is left for the fleet until one was spent on it; `TriedInv` and
  `WitnessInv` that a suspect is condemned only on the word of a member that is
  itself still in use, or was replaced by another one. If the fleet interval is
  not above the TTL the fleet may measure that member again, and `Retaken` says
  that it had been fast until then. No order of the intervals is assumed.

`ServicesProofs`, first the mesh, for any routers, addresses, secrets and TTL:

- `MeshTypes`: `MeshTypeOK`; a daemon that runs has an address (`WorldOK`),
  without which what a sync lists would not be addresses.
- `FriendsAreKept`: `OnlyAbsentDropped`. A sync decides by the stamps of a copy it
  took before its probes, so the argument is about two clocks: `Followed` says
  that the copy has the configuration's peers with the same stamps, also when a
  router joins or leaves while the sync is probing; `Dated` that midnight in the
  middle of a sync makes an answer a day old and no older; `Stamped` that a
  stamp is never older than the last answer. Then a stamp that has reached the TTL
  means that as many midnights passed without an answer.

Then for any strategies and any number of sessions and switches
(`ZapretClientTest`), and for any releases, any of which work (`MihomoInstall`):

- `ZctTypes`: `ZctTypeOK`.
- `StrategyIsAskedFor`: `StrategyAskedFor`. Requests and answers are matched by
  number only, and files outlive sessions. `Numbered` says that nobody holds the
  caller's number before its request is written; `Pending` where a written
  request is (in the file, with the worker, or done with) and that an answer
  exists in the last case only; `Ordered` that a session finds nothing of its own
  time when it begins, so that what is left of an earlier one cannot be taken
  for a request; `InForce` which strategy runs on which queue at each step of the
  exchange, of which the property sees the ends.
- `StoppedSessionIsClean`: `StoppedIsClean`. `Swept` adds that fw4's rule is
  replaced only with its snapshot on disk, without which the clean-up could not
  put it back, and that a worker that ended well left a clean kernel before the
  state file says so.
- `InstallTypes`: `InsTypeOK`.
- `ReleasesAreSafe`: `ReleaseCannotBrick`. It is not inductive because a command
  under way may be past the point of no return: `Orderly` says that commands do
  not overlap, that the warm-up listens to the configured binary, and that the
  way back has configured and started the package's.

Last for downloads with any hosts, paths and retries, and for the four together:

- `ServicesTypes`: `TypeOK` of the composition. For `BootstrapFetch`,
  `DownloadsInv` adds to the types that a download under way has a host and one
  that dials an address of it, of those the cache or a resolver gave.
- `ServicesAreSafe`: in one history of all four, the safety properties above
  together. A part that is not the history's service stays at its beginning, so
  that each invariant has to hold of the beginnings the composition allows.

`DataPathProofs`, first for any configuration that loads and any packets
(`NetRules`), then for any commands and any number of events (`MetricsStore`):

- `NetTypes`: `NetTypeOK`.
- `ProxyDoesNotLoop`: `NoProxyLoop`; the rules that exempt come before every rule
  that marks, in both chains.
- `OneSectionDecides`: `Dispatched`, with any number of sections. The port lemmas
  say that sorting exists (`Sorting` is a choice, and the code's sort is one of
  its values), that merging keeps the ports covered (`MergedRanges`, by the least
  list for which it would not) and that an intersection has exactly the common
  ones; the chain lemmas that a list of rules is decided by the first that
  applies, and that among the sections that would decide there is a foremost
  one. `WayInv` ties where a packet is to what the chains behind it said. The
  step that matters is a marked packet's: OUTPUT and PREROUTING choose by
  different lists of rules, and it is delivered only because the section that
  marked is the section that PREROUTING finds (`MarkedArrives`); `ClaimedIsQueued`
  is the same for POSTROUTING and the queues.
- `MetricsTypes`, `ReportsAreRight`: `ReportIsRight`. `MetricsInv` says that who is
  in a dump holds the lock, alone (`Exclusion`), that what is about to be written
  is still the file's counts and one's own (`Merged`), that a process records one
  status and keeps it (`Recorded`), and that the file and the set of everybody's
  unwritten observations add up (`Sum`); the last is a cardinality, so each step
  says which elements enter and leave it.

`RuleStreamProofs`, for any providers, versions of their files, sections and
settings:

- `RuleTypes`: `RuleTypeOK`.
- `OutputsAreCurrent`: `OutputIsCurrent`. `UpToDate` says that what a generation
  holds of a list is the version on disk, also when it came out of the cache,
  which needs `CacheIsFaithful`; `Sourced` that nothing is written that no file
  says; `Complete` that all entries of the lists and lines already passed are
  written. Of equal lines the first is an entry (`FirstIsEntry`, by the least
  such line), so leaving repetitions out loses no rule. `CacheIsFaithful` and
  `WrittenOnce` are part of the invariant as they stand.

`ConfigProofs`, for any configurations of the router, mixins, guard states and
providers' nodes, for any panels, answers and native lists, and for any start
files and edits of the UCI file:

- `MihomoTypes`: `MihomoTypeOK`.
- `RoutesSound`: `RoutesAreSound`. The invariant (`FileInv`) only says what the
  file is made of at each stage; the work is about the file. `GroupKinds` says
  which groups there are, `BaseNamesOnce` that no two are called alike if
  `NamesApart`,
  `BaseMembers` that a group refers to outbounds, or to groups that do, or is the
  probe's; this is the order in which nothing leads back to itself (`NoCircle`).
  `MixedRendered`, `OverlayGroups` and `OverlayNamed` carry it over the mixin and
  the overlay: the mixin's groups and the shadows are nobody's members, and a
  guarded group has no more members than it had. That every name exists
  (`NamesExist`) and the types need no names that differ.
- `ImportTypes` and `DecisionsKept`: `ImportTypeOK`, in which proxy providers have
  names of their own and entries without a URL have their files, and
  `DecisionsSurvive`. The invariant (`ImportInv`) adds what a name says: a provider
  is read from a profile's file, and named after its subscription, or from an
  address, and named `main` (`FromProfile`, `FromAddress`). So an entry that is
  replaced because of its name has no URL to lose (`UpsertProxy`); the others
  have names that were free, of which there is one by counting (`FreshNameIs`).
  `PlanFits` is what every plan has, `ApplyPlanKeeps` one merge, `RefreshKeeps`
  all of them: the merges are recursive functions that have a value
  (`ListsExist`, `RefreshExists`), and what each step keeps they all keep
  (`EachStep`).
- `StoreTypes`, `RewriteFaithful` and `OwnWrites`: `CfgTypeOK`, in which no section
  id is in the file twice, `RewriteIsFaithful` and, with `Overlap` false,
  `OwnWritesLoad`. The invariant (`StoreOK`) is that the file and the bundle are
  files (`FileOK`): ids are unique, a section without a name option has a name in
  its id, one called `dev_<mac>` is that device's, and only what can be blank is.
  The last two are what the code relies on without saying so: they make the ids of
  LuCI's devices and those of `Serialize` the same ones. `LoadIs` and `WrittenIs` say
  that `Load` makes of a file a configuration (`ConfigOK`, with one device per MAC)
  and `Serialize` of a configuration a file; `ReadBack`, that the first undoes the
  second but for what `Parsed` does to a text (`ParsedIs`, `ParsedBodyIs`): a header says the name it was given (`HeaderIs`), devices that differ are
  left as they are by the merge (`DistinctStay`), and each kind of option is read as
  it was written (`OptionIs`). What compiled still compiles as it is read again
  (`AgainCompiles`): names of applications, in a configuration that loads, are not
  misread, and references to them and to strategies are either read as they are or
  were no references of anything enabled. Each page of LuCI keeps the lists in order
  (`ListReplaced`, `PagesSave`). For `OwnWrites`, an entry about to be removed is
  used by no application (`Unused`), which with `Overlap` LuCI's edit or an imported
  bundle can make false.

The constants' assumptions are those stated in the modules: `NoOneAssumption`,
`CommandAssumption`, `BoundAssumption`, `KindAssumption`, `ScenarioAssumption`,
`RejectedAssumption` (the configuration a history begins with passed
`mihomo -t`), `GuardAssumption` (positive intervals; finite members),
`ReleaseAssumption`, `TTLAssumption`, `CastsAssumption` (a router starts with an
address of the overlay or none), `RuleAssumption` (providers, versions and lines
are numbered from 1), `ClientTestAssumption`, `DaemonAssumption` (the
daemon is not one of the commands), `ImportAssumption` (addresses are strings, and
none is the mark of having none), `FileAssumption` (the files a router starts from
are ones libuci reads: unique ids, and `dev_<mac>` is that device's; ids, names of
the strategy library and the marks for values that are not there are no texts that
`Load` misreads, and a text misread twice, which has an apostrophe, is no library
name), `NamesAssumption` and `MixinAssumption`, see
below, and `NetAssumption`: of a configuration that `validateConfigHardening` accepts (manager.go:1151), sections have names of their own and one
of four actions, port lists are ordered and the strategies named exist; and the
router's own packets have no hardware address and no source assignment.

Names of groups and outbounds are made by putting strings together, which is
opaque to the provers, so `NamesAssumption` says what strings and the code's
checks make sure of: `_local` and the guard's hash give different names to
different groups, outbounds are not called like a reserved name nor VPNs like
friends, and no group is called like a shadow (manager.go:1204). That a section's
group is not called like another one's `_local` or like an outbound is not refused
(manager.go:1197-1213; `GroupNamesUnique` below). It is no assumption but a condition
(`NamesApart`) of what `RoutesAreSound` says of names that stand for one thing, of
exits and of quarantine; the same goes for a mixin's names (`MixinApart`) and for
what it refers to (`MixinRefers`). `MixinAssumption` is about the shape of a
mixin's groups only. TLC evaluates both assumptions for the configurations of
`data_path`, among which there are routers and mixins that do not meet the
conditions.

Only model-checked, and why:

- all liveness, and that of the refinements: it involves fairness, which the
  prover does not reach;
- `ListIsRead`: `MrsSet` walks its trie with RECURSIVE operators, for which the
  prover has no backend;
- `RefreshSettles`: it does not hold for every answer, see the limits;
- the typing of `MrsSet`, a conjunct of `MCDataPath`'s `TypeOK`, for the same reason
  as `ListIsRead`.

## What the code does otherwise than it says

Each of these is a run whose property is violated; `PROJECT.json` quotes the
lines.

- `lock_two_commands`: the marker does not say what was asked for, so a holder
  that runs `update` catches up a waiting `apply` with a second `update`.
- `update_partial`: a partial failure ends `update-if-needed` before its apply;
  the retry sees nothing changed and what the first attempt stored is not loaded.
- `update_lost_edit`: the import saves the configuration it had loaded before
  the downloads, over a commit made meanwhile.
- `guard_throttled`: with a stable latency each sweep absolves a slow member
  before a second slow download can count against it. With windows of fewer than
  five samples the property holds.

The modules state more properties that the code does not have, which no run
checks. Each fails when it is added to the run of its module, on the instance
given here; the comment above it says which line promises it.

| property | module, instance | what happens |
|---|---|---|
| `TuningKept` | `ProviderImport`, `data_path` | a refresh writes the subscription back without the mirrors, TLS pin and HWID choice that LuCI offers (manager.go:562 against subscriptions.js:254-261) |
| `ListsReachSections` | `ProviderImport`, `data_path` | a section made from a profile's hint is appended disabled and with port 0 (write.go:247), or not at all; lists sent to it are not routed |
| `ReferencedEntriesStay` | `ConfigStore`, `data_path` | a new catalog drops a strategy an application uses, and every command then refuses the configuration |
| `DirectIsGlobal` | `NetRules`, `data_path` | OUTPUT has no pass for the global direct and reject lists: the router's own packet to a direct destination is marked for a proxy section and lost |
| `EveryRuleIsFound` | `MrsSet`, `data_path` | a wildcard entry that stands alone is materialised and not found by the lookup |
| `IPv6ModeDecides` | `RuleStream`, `data_path` | the stream asks the older switch and the profile, not the IPv6 mode |
| `GroupsKeepAnEgress` | `MihomoConfig`, `data_path` | a guard state older than the configuration can empty a group, which mihomo refuses |
| `KeptForTTL` | `MeshSync`, `services` | the age of a peer is counted from the midnight of the day it was last seen (mesh_sync.go:208), so it is dropped when unseen for TTL days, a day before the comment says (mesh_sync.go:188) |
| `GroupNamesUnique` | `MihomoConfig`, `data_path` | the groups `Media` and `Media_local` pass the check of names (manager.go:1209); with a friend in the mesh the first becomes two groups, one of them called `Media_local` as well, and mihomo refuses the file |
| `TextsSurvive` | `ConfigStore`, `data_path` | a text with an apostrophe is written escaped (write.go:249) and read back with the escape (uci.go:123), so each rewrite makes it longer; runs of spaces and outer quotes are lost at the first |
| `FailureForgetsAddress` | `BootstrapFetch`, `services` | an address that accepts but fails the handshake stays in the cache until its TTL (httpclient.go:95 against dns_tofu.go:123) |
| `RestartFindsBinary` | `MihomoInstall`, `Overlaps = {TRUE}` | a revert under way removes the release another command has just configured |

Smaller ones met while modelling, kept in the modules as the code has them:

- a plain subscription's provider is planned as `main` and `main_2` in turn, at
  each refresh;
- `UpsertProxyProvider` switches a disabled provider on again; two rule lists
  can come to share a name when a panel renames one;
- deleting the last section brings the three factory sections back at the next
  load (uci.go:88); a cleared list that has a default gets it back;
- LuCI changes a device by the id `dev_<mac>`: a device an older version wrote
  anonymously it cannot change until purewrt has rewritten the file;
- an excluded device's packets still pass the Zapret queue at POSTROUTING;
- the low-resource profile, documented as writing no artifacts, writes them;
- of a damaged compiled list the entries read before the damage are kept
  (stream.go:180-191); CIDRs of text lists are not validated;
- the lists of a `direct` or `reject` section that is disabled still exclude.

## Limits of the positive results

What the passing properties exclude, and why. Each history here is one the
modules can produce with the named choice added to a scenario's `env` or
`faults`, unless marked as outside the model.

Apply:

- An apply with nothing dirty returns before any probe (`manager.go:1748`), so
  `AppliedMeansLoaded` excludes `"drift"`, although README.md:261 says that apply
  probes live state before honoring the fingerprint.
  `ReloadMeansLoaded` is what holds.
- With `"revert"`: a failed apply leaves the ip rules it installed (its rollback
  does not touch them, nor upstream DNS and network settings); after the
  settings are set back nothing is dirty and the next apply succeeds over them.
- With `"disable"` and `"update"`: disable keeps the fingerprint, the update makes
  the outputs complete, and a plain apply loads nothing.
- With `"generate"`: it commits the fingerprint without loading. The init script
  knows this and applies by force at boot.
- With `"rules"`: a rule file written during the apply is hashed by the commit
  although it was not rendered.
- The last four, with three more, make up `Misled`, the histories that
  `AppliedMeansLoaded` and `ReloadMeansLoaded` leave out. The three are: a
  first apply on a fresh install that fails, after which mihomo's init script
  finds no configuration, generates, and commits the fingerprint of what nobody
  loaded; a rollback that goes wrong (`"undo"`); and an apply of clean groups,
  forced or repairing drift, that is killed after the table replaced its sets and
  before the sets are filled, while the fingerprint still vouches for both.
- `RejectedNeverRuns` also excludes fresh installs, for the same init script's
  sake, and `"update"` and `"generate"`: both write the live
  mihomo configuration unvalidated; the apply that then rejects it has backed up
  the rejected file, and its rollback runs it. The test at apply_test.go:56 says
  the live config must not be promoted on validation failure; the apply indeed
  does not promote it, the update already had.
- A service restart that times out is a success (manager.go:2451, asked for by
  apply_test.go:117-122): the apply that exits 0 has committed the fingerprint, and
  what the service runs on, if it runs, is open until something changes its group,
  an apply is forced or the router reboots. The properties only say that the file
  it would start on is right. A hang of the load steps that are not services (nft,
  ip, uci) is a failure, as in the code.
- A rollback restores backed-up files only: files without a backup stay as
  promoted, and the Zapret environment is not backed up. `RollbackRestores` says
  so by quantifying over the files that were backed up and running.
- Outside the model: disable or generate in the middle of an apply (neither takes
  the lock).

Lock:

- `OkMeansServed` also fails when the holder's operation ends in `fatal()`
  after clearing the marker, as "A previous holder caught us up" (main.go:1648)
  does not consider.
- A LuCI update refused as busy after the worker's last look at the marker
  leaves the marker for the next wholesale command, whenever that comes.
- A marker that cannot be written (main.go:1644 discards the error) is excluded
  from `lock_safety` and by `TouchWorks`: the caller then exits 0 with nothing run.

Update:

- With `"write"`: a failed write leaves the new ETag beside the old content, and
  the server then answers 304 until its content changes.
- With `"mirror"`: a crash between file and metadata can leave a known ETag
  beside an older content.
- Without `AutoApply`, what the geo providers changed is forgotten when no
  download is due (`manager.go:808`), and what a plain `update` stored is not
  applied by a later `update-if-needed`.
- Outside the model: a rule file that disappears while its metadata stays
  (manager.go:842 then asks with the old ETag).

Guard:

- A run or a reset that dies or cannot save after its reload leaves routing and
  state apart (`torn`). The next run compares the signature of its state with
  that of the saved one, not with what mihomo runs, so it does not repair this
  unless its decision changes; an apply does. `FloorKept` and
  `RoutingFollowsState` except that time.
- Outside the model: a quarantined member that a configuration change adds to
  another group is not excluded there until the signature changes: the signature
  has no members.
- Outside the instance: the recovery loop takes the first due member by name;
  with more quarantined members than runs in a cooldown the last ones are never
  retested.

Services:

- `MeshSettles` excepts a peer whose address was taken over by a present one: it
  counts as present for ever (mesh_sync.go:198).
- `StoppedIsClean` is about sessions that report no error; a clean-up that fails
  says so, and `SessionEnds` is what holds then: packets are no longer diverted
  once the timed sets have expired, but rules and the offload guard may stay.
- `ReleaseCannotBrick` excuses a killed command, a failed save or restart and a
  failed download of the very release in use, until the next success.
- Two installs at once (no lock is taken) are excluded by `Overlaps = {FALSE}`.
- `DownloadsRecover` needs a TTL that passes: with two attempts a download that
  meets a taken-over address first can still fail until then.

Data path:

- `RewriteIsFaithful` compares with the texts as `Load` reads them a second time,
  so it says nothing against a text that changes (`TextsSurvive`). Texts that are
  nothing but quotes are left out: they are read as if they were not there.
- `OwnWritesLoad` assumes that LuCI saves nothing between a library command's
  look at the references and its write (`Overlap = FALSE`), and says nothing of
  LuCI's own edits and of new catalogs.
- `RefreshSettles` is about panels that serve profiles, see above, and about the
  answers of the instance, where no profile gives two lists one address. Where one profile gives two lists, a and b, the address 1 and another
  calls its address 2 b, the merges by name and by address take entries from each
  other, and a second refresh adds the entry the first had overwritten
  (TLC finds this with these two answers added to `MCAnswers`).
- `ListIsRead` is for lists in which a wildcard comes with its plain form, which
  is how mihomo writes a `+.` rule.
- `OutputIsCurrent` is about generations under which no file changes; those
  under which one does are explored too, and then no entry is repeated.
- `Dispatched` leaves the verdict on the router's own traffic to global lists
  out (`DirectIsGlobal`).
- `PacketAssumption` keeps the router's own address out of the lists about
  sources. With that address in the bypass list, OUTPUT, which does not look at
  sources, marks the packet, PREROUTING returns it, and it is lost.
- `RoutesAreSound` is about users' mixins that add to lists and leave the
  generated lists alone: a mixin that overrides them is the user's own file. Only
  `NamesExist`, its first part, says something where the user's names collide.

## Not modelled

- Client traffic, statistics, net-check, OONI, the checker and diag: probes and
  reports without lasting state, but for the status they leave in the metrics.
- The geo and IP databases: binary decoding, a download and an atomic rename.
- Firewall includes, upstream DNS and mwan3 files as text: `ApplyPipeline` has
  when they are written and loaded.
- CIDR aggregation, YAML and JSON syntax, user agents and device ids.
- The blocking checks of Zapret strategies and their temporary bypass, which is
  removed at freshly resolved addresses (zapret_check.go:315): what the first
  resolution found and the second did not stays in the set.
- Logging, notifications, package updates, the API daemon's views, packaging.
- LuCI's pages, except for what their edits do to sections, devices,
  subscriptions and lists.
- Cryptography (HMAC, key derivation, TLS) is assumed to work.

## Plan

Done: the lock with its service; apply; update; the guard; the services; the
data path; proofs of every safety property of the runs of the lock, update, apply
and guard modules that hold, of those of `services`, and of those of `data_path`
but the two named above.

1. Compositions that multiply rather than add: boot, cron and the lock with
   `ProviderUpdate`; `ProviderImport` over `ConfigStore`'s file.
2. An abstract atomic apply that `ApplyPipeline` refines up to its rollback.
3. The temporary bypass of the Zapret checks; proxy selection through mihomo's
   API.
