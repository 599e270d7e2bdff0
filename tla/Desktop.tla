------------------------------- MODULE Desktop -------------------------------
(***************************************************************************)
(* The desktop application (apps/desktop/src-tauri/src/lib.rs) and the     *)
(* daemons it may talk to: the one the service manager runs and the child  *)
(* the desktop starts when no daemon of its own binary answers.  They share*)
(* daemon.json: each daemon writes it when it binds and removes it when it *)
(* ends (service lib.rs, BoundServer).  Onboarding writes headless.json    *)
(* and makes the daemon that daemon.json names load it.                    *)
(***************************************************************************)
EXTENDS Naturals

CONSTANTS
  MaxConfigs,   \* onboardings that write headless.json (a bound)
  MaxStarts,    \* daemons started (a bound)
  MaxReleases   \* desktop releases published (a bound)

VARIABLES
  dkDaemon,     \* the managed daemon and the child: stage, loaded configuration, own binary
  dkFile,       \* daemon.json: the daemon it names
  dkDisk,       \* the version of headless.json
  dkApp,        \* the desktop process
  dkOwned,      \* the child slot of ServiceSupervisor is filled
  dkOnboard,    \* onboarding_initialize: stage and the version it wrote
  dkReported,   \* the last version reported as initialised
  dkStarts,
  dkUpdate,     \* release published, releases the user confirmed, the one in work, the one installed
  dkLifecycle   \* the automated update: stage, the release its report names, the one installed

dkVars == <<dkDaemon, dkFile, dkDisk, dkApp, dkOwned, dkOnboard, dkReported, dkStarts, dkUpdate, dkLifecycle>>
dkDaemons == <<dkDaemon, dkFile, dkStarts>>
dkUpdates == <<dkUpdate, dkLifecycle>>

Daemons == {"managed", "child"}
NotRunning == [at |-> "off", cfg |-> 0, same |-> TRUE]

DesktopInit ==
  /\ dkDaemon \in [Daemons -> {NotRunning, [at |-> "serving", cfg |-> 0, same |-> FALSE]}]
  /\ dkDaemon["child"] = NotRunning
  /\ dkFile = IF dkDaemon["managed"].at = "serving" THEN "managed" ELSE "none"
  /\ dkDisk = 0 /\ dkApp = "off" /\ dkOwned = FALSE
  /\ dkOnboard = [at |-> "idle", wrote |-> 0] /\ dkReported = 0
  /\ dkStarts = 0
  /\ dkUpdate = [published |-> 0, shown |-> {}, confirmed |-> 0, checked |-> 0, installed |-> 0]
  /\ dkLifecycle = [at |-> "idle", report |-> 0, installed |-> 0]

(***************************************************************************)
(* A daemon: bind_inner and run_until.                                     *)
(***************************************************************************)
Stage(d, at) == [dkDaemon EXCEPT ![d].at = at]
Spawned(d, same) == [dkDaemon EXCEPT ![d] = [at |-> "binding", cfg |-> 0, same |-> same]]

\* DaemonDiscovery::persist: the file is replaced by a rename.
PersistDiscovery(d) ==
  /\ dkDaemon[d].at = "binding"
  /\ dkDaemon' = Stage(d, "named")
  /\ dkFile' = d
  /\ UNCHANGED <<dkDisk, dkApp, dkOwned, dkOnboard, dkReported, dkStarts, dkUpdates>>
\* load_optional_with_relay_endpoint and the rest of bind_inner; an error ends the
\* process and leaves daemon.json.
LoadDomains(d) ==
  /\ dkDaemon[d].at = "named"
  /\ \/ dkDaemon' = [dkDaemon EXCEPT ![d].at = "loaded", ![d].cfg = dkDisk]
     \/ dkDaemon' = [dkDaemon EXCEPT ![d] = NotRunning]
  /\ UNCHANGED <<dkFile, dkDisk, dkApp, dkOwned, dkOnboard, dkReported, dkStarts, dkUpdates>>
BeginServing(d) ==
  /\ dkDaemon[d].at = "loaded"
  /\ dkDaemon' = Stage(d, "serving")
  /\ UNCHANGED <<dkFile, dkDisk, dkApp, dkOwned, dkOnboard, dkReported, dkStarts, dkUpdates>>
\* The end of run_until removes daemon.json, whichever daemon it names.
EndServing(d) ==
  /\ dkDaemon[d].at = "serving"
  /\ dkDaemon' = [dkDaemon EXCEPT ![d] = NotRunning]
  /\ dkFile' = "none"
  /\ UNCHANGED <<dkDisk, dkApp, dkOwned, dkOnboard, dkReported, dkStarts, dkUpdates>>
DaemonCrash(d) ==
  /\ dkDaemon[d].at # "off"
  /\ dkDaemon' = [dkDaemon EXCEPT ![d] = NotRunning]
  /\ UNCHANGED <<dkFile, dkDisk, dkApp, dkOwned, dkOnboard, dkReported, dkStarts, dkUpdates>>
\* The service manager starts the daemon its definition names: an installed
\* definition names the binary of the desktop.
ManagerStarts ==
  /\ dkDaemon["managed"].at = "off" /\ dkStarts < MaxStarts
  /\ dkStarts' = dkStarts + 1
  /\ dkDaemon' = Spawned("managed", TRUE)
  /\ UNCHANGED <<dkFile, dkDisk, dkApp, dkOwned, dkOnboard, dkReported, dkUpdates>>

(***************************************************************************)
(* The desktop process.                                                    *)
(***************************************************************************)
\* request: read daemon.json, connect to its port.
Reached == IF dkFile = "none" THEN "none" ELSE IF dkDaemon[dkFile].at = "serving" THEN dkFile ELSE "none"
\* service_is_authenticated: a daemon answers and it is the bundled binary.
DaemonAuthenticated == Reached # "none" /\ dkDaemon[Reached].same

\* run, ensure_started up to install_managed_daemon.
StartDesktop ==
  /\ dkApp = "off"
  /\ dkApp' = IF DaemonAuthenticated THEN "up" ELSE "installing"
  /\ dkOwned' = FALSE
  /\ UNCHANGED <<dkDaemons, dkDisk, dkOnboard, dkReported, dkUpdates>>
\* commonkit daemon install.
InstallManaged ==
  /\ dkApp = "installing"
  /\ dkApp' \in {"waiting", "off"}
  /\ UNCHANGED <<dkDaemons, dkDisk, dkOwned, dkOnboard, dkReported, dkUpdates>>
\* The managed daemon answers within ten seconds, or the child is started.
AwaitManaged ==
  /\ dkApp = "waiting"
  /\ \/ /\ DaemonAuthenticated
        /\ dkApp' = "up"
        /\ UNCHANGED <<dkDaemon, dkOwned, dkStarts>>
     \/ /\ dkDaemon["child"].at = "off" /\ dkStarts < MaxStarts
        /\ dkStarts' = dkStarts + 1
        /\ dkDaemon' = Spawned("child", TRUE)
        /\ dkOwned' = TRUE /\ dkApp' = "childwait"
  /\ UNCHANGED <<dkFile, dkDisk, dkOnboard, dkReported, dkUpdates>>
\* stop: the child is killed, and daemon.json stays.
DaemonStopped == IF dkOwned THEN [dkDaemon EXCEPT !["child"] = NotRunning] ELSE dkDaemon
\* child_exited, the deadline.
AwaitChild ==
  /\ dkApp = "childwait"
  /\ \/ DaemonAuthenticated /\ dkApp' = "up" /\ UNCHANGED <<dkDaemon, dkOwned>>
     \/ ~ DaemonAuthenticated /\ dkApp' = "off" /\ dkDaemon' = DaemonStopped /\ dkOwned' = FALSE
  /\ UNCHANGED <<dkFile, dkDisk, dkOnboard, dkReported, dkStarts, dkUpdates>>
\* quit_commonkit, the tray's quit: a command that waits for its answer ends too.
Quit ==
  /\ dkApp = "up"
  /\ dkApp' = "off" /\ dkDaemon' = DaemonStopped /\ dkOwned' = FALSE
  /\ dkOnboard' = [dkOnboard EXCEPT !.at = "idle"]
  /\ dkUpdate' = [dkUpdate EXCEPT !.confirmed = 0, !.checked = 0]
  /\ UNCHANGED <<dkFile, dkDisk, dkReported, dkStarts, dkLifecycle>>

(***************************************************************************)
(* onboarding_initialize.                                                  *)
(***************************************************************************)
\* onboarding_arguments, authorize_github_repository and the GET of /domains/reload.
BeginOnboarding ==
  /\ dkApp = "up" /\ dkOnboard.at = "idle" /\ dkDisk < MaxConfigs /\ dkUpdate.published = 0
  /\ Reached # "none"
  /\ dkOnboard' = [dkOnboard EXCEPT !.at = "checked"]
  /\ UNCHANGED <<dkDaemons, dkDisk, dkApp, dkOwned, dkReported, dkUpdates>>
\* initialize replaces headless.json, or fails and leaves it.
Initialize ==
  /\ dkOnboard.at = "checked"
  /\ \/ dkDisk' = dkDisk + 1 /\ dkOnboard' = [at |-> "written", wrote |-> dkDisk + 1]
     \/ dkOnboard' = [dkOnboard EXCEPT !.at = "idle"] /\ UNCHANGED dkDisk
  /\ UNCHANGED <<dkDaemons, dkApp, dkOwned, dkReported, dkUpdates>>
\* POST /domains/reload: the daemon replaces its domains or keeps the ones it has
\* (ProductionRuntimeReloader), and an answer can be lost after four seconds.
AdoptDomains ==
  /\ dkOnboard.at = "written"
  /\ dkOnboard' = [dkOnboard EXCEPT !.at = "idle"]
  /\ \/ /\ Reached # "none"
        /\ dkDaemon' = [dkDaemon EXCEPT ![Reached].cfg = dkDisk]
        /\ dkReported' \in {dkReported, dkOnboard.wrote}
     \/ UNCHANGED <<dkDaemon, dkReported>>
  /\ UNCHANGED <<dkFile, dkDisk, dkApp, dkOwned, dkStarts, dkUpdates>>

(***************************************************************************)
(* Updates of the desktop.                                                 *)
(***************************************************************************)
\* A bound: releases are published while nobody has onboarded.
PublishRelease ==
  /\ dkUpdate.published < MaxReleases /\ dkOnboard.at = "idle" /\ dkDisk = 0
  /\ dkUpdate' = [dkUpdate EXCEPT !.published = @ + 1]
  /\ UNCHANGED <<dkDaemons, dkDisk, dkApp, dkOwned, dkOnboard, dkReported, dkLifecycle>>
\* check_for_update, and the user confirms the version shown.
ConfirmUpdate ==
  /\ dkApp = "up" /\ dkUpdate.confirmed = 0 /\ dkUpdate.published > dkUpdate.installed
  /\ dkUpdate' = [dkUpdate EXCEPT !.confirmed = dkUpdate.published, !.shown = @ \cup {dkUpdate.published}]
  /\ UNCHANGED <<dkDaemons, dkDisk, dkApp, dkOwned, dkOnboard, dkReported, dkLifecycle>>
AuthorizeUpdateInstall(expected, available) == expected # 0 /\ expected = available
\* install_update checks again; what it downloads is what that check returned.
CheckAgain ==
  /\ dkApp = "up" /\ dkUpdate.confirmed # 0 /\ dkUpdate.checked = 0
  /\ dkUpdate' = IF AuthorizeUpdateInstall(dkUpdate.confirmed, dkUpdate.published)
                 THEN [dkUpdate EXCEPT !.checked = dkUpdate.published]
                 ELSE [dkUpdate EXCEPT !.confirmed = 0]
  /\ UNCHANGED <<dkDaemons, dkDisk, dkApp, dkOwned, dkOnboard, dkReported, dkLifecycle>>
InstallUpdate ==
  /\ dkApp = "up" /\ dkUpdate.checked # 0
  /\ dkUpdate' = [dkUpdate EXCEPT !.installed = dkUpdate.checked, !.confirmed = 0, !.checked = 0]
  /\ UNCHANGED <<dkDaemons, dkDisk, dkApp, dkOwned, dkOnboard, dkReported, dkLifecycle>>

\* run_automated_update_lifecycle on Windows: the release expected is 1.
LifecycleChecks ==
  /\ dkApp = "up" /\ dkLifecycle.at = "idle"
  /\ dkLifecycle' = [dkLifecycle EXCEPT !.at =
       IF AuthorizeUpdateInstall(1, dkUpdate.published) THEN "downloaded" ELSE "failed"]
  /\ UNCHANGED <<dkDaemons, dkDisk, dkApp, dkOwned, dkOnboard, dkReported, dkUpdate>>
\* write_update_report and install_after_durable_handoff: an installer that
\* starts ends the desktop.
PersistHandoff ==
  /\ dkLifecycle.at = "downloaded"
  /\ dkLifecycle' \in {[dkLifecycle EXCEPT !.at = "handed", !.report = 1], [dkLifecycle EXCEPT !.at = "failed"]}
  /\ UNCHANGED <<dkDaemons, dkDisk, dkApp, dkOwned, dkOnboard, dkReported, dkUpdate>>
LifecycleInstalls ==
  /\ dkLifecycle.at = "handed"
  /\ \/ dkLifecycle' = [dkLifecycle EXCEPT !.at = "ended", !.installed = 1]
     \/ dkLifecycle' = [dkLifecycle EXCEPT !.at = "failed"]
  /\ UNCHANGED <<dkDaemons, dkDisk, dkApp, dkOwned, dkOnboard, dkReported, dkUpdate>>

DesktopNext ==
  \/ \E d \in Daemons :
       PersistDiscovery(d) \/ LoadDomains(d) \/ BeginServing(d) \/ EndServing(d) \/ DaemonCrash(d)
  \/ ManagerStarts
  \/ StartDesktop \/ InstallManaged \/ AwaitManaged \/ AwaitChild \/ Quit
  \/ BeginOnboarding \/ Initialize \/ AdoptDomains
  \/ PublishRelease \/ ConfirmUpdate \/ CheckAgain \/ InstallUpdate
  \/ LifecycleChecks \/ PersistHandoff \/ LifecycleInstalls

(***************************************************************************)
(* Properties.                                                             *)
(***************************************************************************)
\* What onboarding reported as initialised is what the daemon that daemon.json names
\* has loaded: a daemon names itself before it reads headless.json, so one that read
\* the old file is the one the reload is sent to (bind_inner, onboarding_initialize).
OnboardedIsServed == Reached # "none" => dkDaemon[Reached].cfg >= dkReported

\* Only a release the user was shown and confirmed is installed, though another one
\* may be published before install_update looks again (authorize_update_install).
InstalledWasConfirmed == dkUpdate.installed # 0 => dkUpdate.installed \in dkUpdate.shown

\* An installation the automated update started is named by a report that outlives
\* the desktop, which the installer ends (install_after_durable_handoff).
InstallationReported == dkLifecycle.installed # 0 => dkLifecycle.report = dkLifecycle.installed
=============================================================================
