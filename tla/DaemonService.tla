---------------------------- MODULE DaemonService ----------------------------
(***************************************************************************)
(* commonkit daemon install, start, restart and uninstall                  *)
(* (daemon_lifecycle.rs) with the process backend: the pid file names the  *)
(* process by its pid and the token of its birth.  Commands of several     *)
(* shells overlap, daemons end, and the system gives a pid to another      *)
(* process once it is free.                                                *)
(***************************************************************************)
EXTENDS Naturals, FiniteSets

CONSTANTS
  Shells,       \* shells that run a command at a time
  Pids,         \* process ids of the system
  MaxBirths     \* processes started (a bound)

VARIABLES
  dsDefined,    \* the service definition is installed
  dsPidFile,    \* commonkitd.pid
  dsProcs,      \* the processes of the system
  dsShell,      \* the command of each shell
  dsBirths,     \* processes started so far
  dsStruck,     \* a process other than a daemon was sent a signal
  dsOverlap     \* commands have overlapped, or a start was interrupted

dsVars == <<dsDefined, dsPidFile, dsProcs, dsShell, dsBirths, dsStruck, dsOverlap>>

FreePid == [kind |-> "free", birth |-> 0]
NoIdentity == [pid |-> "none", birth |-> 0]
AtPrompt == [at |-> "idle", goal |-> "none", pid |-> "none", birth |-> 0]

DaemonServiceInit ==
  /\ dsDefined = FALSE
  /\ dsPidFile = NoIdentity
  /\ dsProcs = [p \in Pids |-> FreePid]
  /\ dsShell = [s \in Shells |-> AtPrompt]
  /\ dsBirths = 0 /\ dsStruck = FALSE /\ dsOverlap = FALSE

\* observe_process_identity: what a pid is now.
ObservedAs(i) == \E p \in Pids : i.pid = p /\ dsProcs[p].kind # "free" /\ dsProcs[p].birth = i.birth
\* process_identity_matches.
IdentityMatches(i) == i # NoIdentity /\ ObservedAs(i)
\* is_running: no pid file, or one of another process, is not running.
DaemonRunning == IdentityMatches(dsPidFile)

\* write_atomic_private and remove_if_file: readers see one whole identity.
WritesPidFile(i) == dsPidFile' = i
DaemonBecomes(s, at) == dsShell' = [dsShell EXCEPT ![s].at = at]
DaemonEnds(s) == dsShell' = [dsShell EXCEPT ![s] = AtPrompt]

InstallService(s) ==
  /\ dsShell[s].at = "idle"
  /\ dsDefined' = TRUE
  /\ UNCHANGED <<dsPidFile, dsProcs, dsShell, dsBirths, dsStruck, dsOverlap>>

\* start, restart and uninstall; restart and uninstall stop first.
BeginCommand(s) ==
  /\ dsShell[s].at = "idle"
  /\ \E goal \in {"start", "restart", "uninstall"} :
       dsShell' = [dsShell EXCEPT ![s] = [AtPrompt EXCEPT
         !.goal = goal, !.at = IF goal = "start" THEN "start" ELSE "stop"]]
  /\ dsOverlap' = (dsOverlap \/ \E t \in Shells \ {s} : dsShell[t].at # "idle")
  /\ UNCHANGED <<dsDefined, dsPidFile, dsProcs, dsBirths, dsStruck>>

AfterStop(s) == IF dsShell[s].goal = "restart" THEN "start" ELSE "remove"

\* stop_if_running: the identity is compared and the process signalled.
StopUserDaemon(s) ==
  /\ dsShell[s].at = "stop"
  /\ IF DaemonRunning
     THEN /\ dsStruck' = (dsStruck \/ dsProcs[dsPidFile.pid].kind \notin {"daemon", "serving", "ending"})
          /\ dsProcs' = [dsProcs EXCEPT ![dsPidFile.pid].kind = "ending"]
          /\ DaemonBecomes(s, "stopped")
     ELSE DaemonBecomes(s, AfterStop(s)) /\ UNCHANGED <<dsProcs, dsStruck>>
  /\ UNCHANGED <<dsDefined, dsPidFile, dsBirths, dsOverlap>>
\* The pid file goes at once: nobody waits for the process to end.
ForgetPid(s) ==
  /\ dsShell[s].at = "stopped"
  /\ WritesPidFile(NoIdentity)
  /\ DaemonBecomes(s, AfterStop(s))
  /\ UNCHANGED <<dsDefined, dsProcs, dsBirths, dsStruck, dsOverlap>>

RemoveService(s) ==
  /\ dsShell[s].at = "remove"
  /\ dsDefined' = FALSE /\ WritesPidFile(NoIdentity)
  /\ DaemonEnds(s)
  /\ UNCHANGED <<dsProcs, dsBirths, dsStruck, dsOverlap>>

\* start, then start_fallback up to the spawn.
StartFallback(s) ==
  /\ dsShell[s].at = "start"
  /\ IF dsDefined /\ ~ DaemonRunning THEN DaemonBecomes(s, "spawn") ELSE DaemonEnds(s)
  /\ UNCHANGED <<dsDefined, dsPidFile, dsProcs, dsBirths, dsStruck, dsOverlap>>

SpawnDaemon(s) ==
  /\ dsShell[s].at = "spawn" /\ dsBirths < MaxBirths
  /\ dsBirths' = dsBirths + 1
  /\ WritesPidFile(NoIdentity)
  /\ \E p \in Pids :
       /\ dsProcs[p].kind = "free"
       /\ dsProcs' = [dsProcs EXCEPT ![p] = [kind |-> "daemon", birth |-> dsBirths + 1]]
       /\ dsShell' = [dsShell EXCEPT ![s].at = "spawned", ![s].pid = p, ![s].birth = dsBirths + 1]
  /\ UNCHANGED <<dsDefined, dsStruck, dsOverlap>>

\* wait_for_started_identity: a child that ended first is an error; the
\* identity of one that runs is written.
SpawnedBy(s) == [pid |-> dsShell[s].pid, birth |-> dsShell[s].birth]
StartedIdentity(s) == IF ObservedAs(SpawnedBy(s)) THEN SpawnedBy(s) ELSE dsPidFile
RecordPid(s) ==
  /\ dsShell[s].at = "spawned"
  /\ WritesPidFile(StartedIdentity(s))
  /\ DaemonEnds(s)
  /\ UNCHANGED <<dsDefined, dsProcs, dsBirths, dsStruck, dsOverlap>>

ShellDies(s) ==
  /\ dsShell[s].at \in {"spawned", "stopped"}
  /\ DaemonEnds(s)
  /\ dsOverlap' = (dsOverlap \/ dsShell[s].at = "spawned")
  /\ UNCHANGED <<dsDefined, dsPidFile, dsProcs, dsBirths, dsStruck>>

(***************************************************************************)
(* The processes.                                                          *)
(***************************************************************************)
\* A daemon that cannot bind the endpoint of another one ends.
DaemonBinds(p) ==
  /\ dsProcs[p].kind = "daemon"
  /\ dsProcs' = [dsProcs EXCEPT ![p] =
       IF \E q \in Pids \ {p} : dsProcs[q].kind = "serving" THEN FreePid ELSE [@ EXCEPT !.kind = "serving"]]
  /\ UNCHANGED <<dsDefined, dsPidFile, dsShell, dsBirths, dsStruck, dsOverlap>>

ProcessEnds(p) ==
  /\ dsProcs[p].kind \in {"ending", "serving", "foreign"}
  /\ dsProcs' = [dsProcs EXCEPT ![p] = FreePid]
  /\ UNCHANGED <<dsDefined, dsPidFile, dsShell, dsBirths, dsStruck, dsOverlap>>

ForeignStarts(p) ==
  /\ dsProcs[p].kind = "free" /\ dsBirths < MaxBirths
  /\ dsBirths' = dsBirths + 1
  /\ dsProcs' = [dsProcs EXCEPT ![p] = [kind |-> "foreign", birth |-> dsBirths + 1]]
  /\ UNCHANGED <<dsDefined, dsPidFile, dsShell, dsStruck, dsOverlap>>

DaemonServiceNext ==
  \/ \E s \in Shells :
       \/ InstallService(s) \/ BeginCommand(s) \/ StopUserDaemon(s) \/ ForgetPid(s) \/ RemoveService(s)
       \/ StartFallback(s) \/ SpawnDaemon(s) \/ RecordPid(s) \/ ShellDies(s)
  \/ \E p \in Pids : DaemonBinds(p) \/ ProcessEnds(p) \/ ForeignStarts(p)

(***************************************************************************)
(* Properties.                                                             *)
(***************************************************************************)
\* A stop never signals a process that took the pid of a daemon that ended
\* (daemon_lifecycle.rs process_identity_matches).
OnlyDaemonsSignalled == ~ dsStruck

\* Unless commands overlapped or a start was interrupted, a daemon that serves can
\* be stopped: the pid file names it or the start that spawned it will write
\* it (daemon_lifecycle.rs start_fallback, stop_if_running).
ServingIsKnown ==
  ~ dsOverlap =>
    \A p \in Pids : dsProcs[p].kind = "serving" =>
      LET i == [pid |-> p, birth |-> dsProcs[p].birth] IN
      \/ dsPidFile = i
      \/ \E s \in Shells : dsShell[s].at = "spawned" /\ SpawnedBy(s) = i
=============================================================================
