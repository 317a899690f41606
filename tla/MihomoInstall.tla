----------------------------- MODULE MihomoInstall -----------------------------
(***************************************************************************)
(* Installing mihomo releases (internal/manager/mihomo_install.go,         *)
(* internal/mihomoapi/updater.go): by hand, by the auto-update cron, and   *)
(* the way back to the package's binary.  None of these commands takes the *)
(* operation lock.                                                         *)
(*                                                                         *)
(* A binary is the package's or a release, which the file <workdir>/       *)
(* mihomo-bin/mihomo-<tag> holds intact, damaged or not at all; a release  *)
(* outside Working starts but never answers /version.                      *)
(***************************************************************************)
EXTENDS Naturals, FiniteSets

CONSTANTS Releases, Working, Installers, Overlaps

Package == "package"
Outside == "none"

ASSUME ReleaseAssumption ==
    Releases \cap {Package, Outside} = {} /\ Working \subseteq Releases

VARIABLES
    bin,       \* Settings.MihomoBin
    files,     \* <workdir>/mihomo-bin
    daemon,    \* the binary that answers /version, or none
    latest,    \* the release the API names
    job,       \* the commands under way
    mayOverlap,  \* whether two of them run at once in this history
    excused,   \* observation: killed, or a save, restart or download failed, since the last success
    settled    \* from now on nothing fails, and only cron acts

insVars == <<bin, files, daemon, latest, job, mayOverlap, excused, settled>>

Binaries == Releases \cup {Package}
NoJob == [at |-> "idle", release |-> Outside]

InsTypeOK ==
    /\ bin \in Binaries /\ daemon \in Binaries \cup {Outside} /\ latest \in Releases
    /\ files \in [Releases -> {"absent", "intact", "damaged"}]
    /\ job \in [Installers -> [at : {"idle", "download", "save", "restart", "warm",
                                     "revert", "revert restart", "wipe"},
                               release : Releases \cup {Outside}]]
    /\ mayOverlap \in Overlaps /\ excused \in BOOLEAN /\ settled \in BOOLEAN

InsInit ==
    /\ bin = Package /\ daemon = Package /\ latest \in Releases
    /\ files = [r \in Releases |-> "absent"]
    /\ job = [j \in Installers |-> NoJob]
    /\ mayOverlap \in Overlaps /\ excused = FALSE /\ settled = FALSE

Runs(b) == b = Package \/ (b \in Working /\ files[b] = "intact")
Boot(b) == IF Runs(b) THEN b ELSE Outside
Proceed(j, place) == job' = [job EXCEPT ![j].at = place]
Leave(j) == job' = [job EXCEPT ![j] = NoJob]
Free(j) == job[j] = NoJob /\ (mayOverlap \/ \A k \in Installers : job[k] = NoJob)

(* installedMihomoVersion asks the configured executable itself.           *)
RecordedVersion(b) == b              \* variant: what the configuration says
InstalledVersion(b) == IF b = Package \/ files[b] = "intact" THEN b ELSE Outside

(* MihomoCheckUpdateChannel, for the cron only when there is an update.    *)
Install(j) ==
    /\ Free(j) /\ ~settled
    /\ job' = [job EXCEPT ![j] = [at |-> "download", release |-> latest]]
    /\ UNCHANGED <<bin, files, daemon, latest, mayOverlap, excused, settled>>
AutoUpdate(j) ==
    /\ Free(j) /\ InstalledVersion(bin) # latest
    /\ job' = [job EXCEPT ![j] = [at |-> "download", release |-> latest]]
    /\ UNCHANGED <<bin, files, daemon, latest, mayOverlap, excused, settled>>
Revert(j) ==
    /\ Free(j) /\ ~settled
    /\ job' = [job EXCEPT ![j] = [at |-> "revert", release |-> Outside]]
    /\ UNCHANGED <<bin, files, daemon, latest, mayOverlap, excused, settled>>

(* DownloadAndInstall: checked against the checksum when that could be     *)
(* fetched; whatever fails, the destination is removed, also when it was   *)
(* there before.                                                           *)
Download(j) ==
    /\ job[j].at = "download"
    /\ LET r == job[j].release IN
       \/ files' = [files EXCEPT ![r] = "intact"] /\ Proceed(j, "save") /\ UNCHANGED excused
       \/ ~settled /\ files' = [files EXCEPT ![r] = "damaged"] /\ Proceed(j, "save")
          /\ UNCHANGED excused
       \/ ~settled /\ files' = [files EXCEPT ![r] = "absent"] /\ Leave(j)
          /\ excused' = (excused \/ bin = r)
    /\ UNCHANGED <<bin, daemon, latest, mayOverlap, settled>>

Save(j) ==
    /\ job[j].at = "save"
    /\ \/ bin' = job[j].release /\ Proceed(j, "restart") /\ UNCHANGED excused
       \/ ~settled /\ UNCHANGED bin /\ Leave(j) /\ excused' = TRUE
    /\ UNCHANGED <<files, daemon, latest, mayOverlap, settled>>

(* A restart that fails ends the command there.                            *)
Restart(j) ==
    /\ job[j].at \in {"restart", "revert restart"}
    /\ \/ /\ daemon' = Boot(bin) /\ UNCHANGED excused
          /\ Proceed(j, IF job[j].at = "restart" THEN "warm" ELSE "wipe")
       \/ ~settled /\ daemon' \in {daemon, Outside} /\ excused' = TRUE /\ Leave(j)
    /\ UNCHANGED <<bin, files, latest, mayOverlap, settled>>

(* Ten seconds for anybody to answer /version.                             *)
TrustIt(j) == TRUE                   \* variant: no warm-up check
ReportsVersion(j) == daemon # Outside

WarmUp(j) ==
    /\ job[j].at = "warm"
    /\ IF ReportsVersion(j) THEN Leave(j) /\ excused' = FALSE
                     ELSE Proceed(j, "revert") /\ UNCHANGED excused
    /\ UNCHANGED <<bin, files, daemon, latest, mayOverlap, settled>>

(* MihomoRevertToPackage: save, restart, then every release is removed.    *)
RevertTo(j) == Package
RevertSave(j) ==
    /\ job[j].at = "revert"
    /\ \/ bin' = RevertTo(j) /\ Proceed(j, "revert restart") /\ UNCHANGED excused
       \/ ~settled /\ Leave(j) /\ excused' = TRUE /\ UNCHANGED bin
    /\ UNCHANGED <<files, daemon, latest, mayOverlap, settled>>
RevertWipe(j) ==
    /\ job[j].at = "wipe" /\ Leave(j) /\ excused' = FALSE
    /\ \/ files' = [r \in Releases |-> "absent"]
       \/ ~settled /\ UNCHANGED files
    /\ UNCHANGED <<bin, daemon, latest, mayOverlap, settled>>

(* The command is killed; the router reboots; a release is published.      *)
Killed(j) ==
    /\ job[j].at # "idle" /\ ~settled /\ Leave(j)
    /\ excused' = TRUE
    /\ UNCHANGED <<bin, files, daemon, latest, mayOverlap, settled>>
Reboot ==
    /\ ~settled /\ daemon' = Boot(bin)
    /\ excused' = (excused \/ \E j \in Installers : job[j].at # "idle")
    /\ job' = [j \in Installers |-> NoJob]
    /\ UNCHANGED <<bin, files, latest, mayOverlap, settled>>
Publish ==
    /\ ~settled /\ latest' \in Releases \ {latest}
    /\ UNCHANGED <<bin, files, daemon, job, mayOverlap, excused, settled>>
Settle ==
    /\ ~settled /\ settled' = TRUE
    /\ UNCHANGED <<bin, files, daemon, latest, job, mayOverlap, excused>>

Work(j) == Download(j) \/ Save(j) \/ Restart(j) \/ WarmUp(j) \/ RevertSave(j) \/ RevertWipe(j)

InsNext ==
    \/ \E j \in Installers : Install(j) \/ AutoUpdate(j) \/ Revert(j) \/ Work(j) \/ Killed(j)
    \/ Reboot \/ Publish \/ Settle

InsSpec == InsInit /\ [][InsNext]_insVars

-----------------------------------------------------------------------------
(* Properties                                                              *)

(* A release that does not work cannot take the proxy down: but for the    *)
(* time of a warm-up and the way back something answers, and what is       *)
(* configured would also start after the next reboot.  (While commands do  *)
(* not overlap; and unless the last one was killed, or a restart failed,   *)
(* or a failed download removed the very release that was configured.)     *)
Recovering(j) ==
    \/ job[j].at \in {"restart", "warm", "revert", "revert restart"}
    \/ job[j].at = "save" /\ job[j].release = bin   \* installed over itself
ReleaseCannotBrick ==
    ~mayOverlap /\ ~excused /\ (\A j \in Installers : ~Recovering(j)) =>
      daemon # Outside /\ Runs(bin)

(* When the latest release works and nothing fails any more, the cron job  *)
(* ends up with it configured and intact on disk, whatever failed          *)
(* downloads, damaged files, killed commands and reboots left behind.      *)
UpdateArrives ==
    ~mayOverlap => <>[](settled /\ latest \in Working => bin = latest /\ files[bin] = "intact")

(* mihomo_install.go:16: the daemon is restarted only when the binary is   *)
(* in place and the configuration saved.  Not so when a revert that was    *)
(* under way removes the releases after another command's save.            *)
RestartFindsBinary ==
    [][\A j \in Installers : job[j].at = "restart" /\ job'[j].at = "warm" =>
         bin = Package \/ files[bin] # "absent"]_insVars
=============================================================================
