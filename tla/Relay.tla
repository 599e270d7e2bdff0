------------------------------- MODULE Relay --------------------------------
(***************************************************************************)
(* The relay of the daemon: its configuration file under the plan          *)
(* executor, and the catalog of tools it serves.                           *)
(***************************************************************************)
EXTENDS FiniteSets, Integers

(***************************************************************************)
(* The relay adapter (commonkit-relay/transaction.rs) under the plan       *)
(* executor, and the relay runtime of the daemon.  A run backs up          *)
(* relay.json, replaces it, reloads the runtime and verifies the file;     *)
(* rollback restores the file and restarts the runtime from it.  A reload  *)
(* asks every enabled upstream for its tools, so it succeeds only while    *)
(* they all answer, and it takes up to 30 s: the file is read long before  *)
(* the new runtime is installed.  The restart request of the API takes no  *)
(* lock that a run holds.                                                  *)
(*                                                                         *)
(* A configuration is a model value; the engine around the adapter is the  *)
(* one Reconcile models, for a plan of one exact operation.                *)
(***************************************************************************)
CONSTANTS RelayConfigs,   \* configurations that plans and owners write
          MaxRelayRuns    \* bound: runs

ASSUME RelayBounds == MaxRelayRuns \in Nat

VARIABLES relayFile,           \* relay.json, or NoFile
          installed,      \* configuration of the runtime, or NoFile
          onDisk,         \* history: what relay.json ever held
          answering,      \* configurations whose upstreams all answer
          reviewed,       \* the approved operation, and what rollback reread
          backup,         \* its backup record
          relayRun,       \* where the run is
          relayRuns,      \* runs so far
          restart         \* the restart request: what it read, or "none"

relayVars == <<relayFile, installed, onDisk, answering, reviewed, backup, relayRun,
               relayRuns, restart>>

NoFile == "nofile"
NoOperation == [before |-> NoFile, after |-> NoFile, reread |-> NoFile]
RunEnded == {"idle", "succeeded", "rolled_back", "rollback_failed", "canceled"}
Mutating == {"apply", "reload", "verify", "rollback", "reread", "reinstall", "lost"}

RelayInit ==
    /\ relayFile \in {NoFile} \cup RelayConfigs
    /\ onDisk = {relayFile}
    /\ installed = NoFile
    /\ answering = RelayConfigs
    /\ reviewed = NoOperation /\ backup = "none"
    /\ relayRun = "idle" /\ relayRuns = 0 /\ restart = "none"

\* read_optional_regular, digest_bytes: a file is known by its digest.
WriteLive(c) == relayFile' = c /\ onDisk' = onDisk \cup {c}

\* HttpUpstreamManager::discover, for every enabled server.
Answers(c) == c \in answering

\* RelayRuntime::new and the swap; the old runtime stays when it fails.
ReloadWith(c, good, bad) ==
    \/ Answers(c) /\ installed' = c /\ relayRun' = good
    \/ ~Answers(c) /\ relayRun' = bad /\ UNCHANGED installed

-----------------------------------------------------------------------------
(* A run.                                                                  *)

\* plan_relay_operation: nothing to do when the file is as desired.
PlanRelay(c) ==
    /\ relayRun \in RunEnded /\ relayRuns < MaxRelayRuns /\ c # relayFile
    /\ reviewed' = [before |-> relayFile, after |-> c, reread |-> NoFile]
    /\ backup' = "none"
    /\ relayRun' = "planned" /\ relayRuns' = relayRuns + 1
    /\ UNCHANGED <<relayFile, installed, onDisk, answering, restart>>

PrepareRelay ==
    /\ relayRun = "planned"
    /\ \/ relayFile = reviewed.before /\ backup' = relayFile /\ relayRun' = "apply"
       \/ relayFile # reviewed.before /\ relayRun' = "canceled" /\ UNCHANGED backup
    /\ UNCHANGED <<relayFile, installed, onDisk, answering, reviewed, relayRuns, restart>>

\* Mutant: the runtime is reloaded first, and the file replaced after it.
ReplaceFileLater ==
    /\ relayRun = "apply" /\ relayRun' = "reload"
    /\ UNCHANGED <<relayFile, onDisk, installed, answering, reviewed, backup, relayRuns, restart>>

\* apply_bound, first half: the rename, or an error before it.
ReplaceFile ==
    /\ relayRun = "apply"
    /\ \/ WriteLive(reviewed.after) /\ relayRun' = "reload"
       \/ relayRun' = "rollback" /\ UNCHANGED <<relayFile, onDisk>>
    /\ UNCHANGED <<installed, answering, reviewed, backup, relayRuns, restart>>

\* apply_bound, second half.
ReloadRuntime ==
    /\ relayRun = "reload"
    /\ ReloadWith(reviewed.after, "verify", "rollback")
    /\ UNCHANGED <<relayFile, onDisk, answering, reviewed, backup, relayRuns, restart>>

VerifyRelay ==
    /\ relayRun = "verify"
    /\ relayRun' = IF relayFile = reviewed.after THEN "succeeded" ELSE "rollback"
    /\ UNCHANGED <<relayFile, onDisk, installed, answering, reviewed, backup, relayRuns, restart>>

\* rollback: the bytes of the backup, or no file.
RestoreLive ==
    /\ relayRun = "rollback"
    /\ \/ WriteLive(backup) /\ relayRun' = "reread"
       \/ relayRun' = "rollback_failed" /\ UNCHANGED <<relayFile, onDisk>>
    /\ UNCHANGED <<installed, answering, reviewed, backup, relayRuns, restart>>

\* lifecycle.restart: it reads relay.json, which a rolled back creation has
\* just removed.
RereadLive ==
    /\ relayRun = "reread"
    /\ relayRun' = IF relayFile = NoFile THEN "rollback_failed" ELSE "reinstall"
    /\ reviewed' = [reviewed EXCEPT !.reread = relayFile]
    /\ UNCHANGED <<relayFile, onDisk, installed, answering, backup, relayRuns, restart>>

ReinstallRuntime ==
    /\ relayRun = "reinstall"
    /\ ReloadWith(reviewed.reread, "rolled_back", "rollback_failed")
    /\ UNCHANGED <<relayFile, onDisk, answering, reviewed, backup, relayRuns, restart>>

-----------------------------------------------------------------------------
(* The restart request.                                                    *)

RestartReads ==
    /\ restart = "none" /\ relayRun # "lost" /\ relayFile # NoFile
    /\ restart' = relayFile
    /\ UNCHANGED <<relayFile, installed, onDisk, answering, reviewed, backup, relayRun, relayRuns>>

RestartInstalls ==
    /\ restart # "none"
    /\ installed' = IF Answers(restart) THEN restart ELSE installed
    /\ restart' = "none"
    /\ UNCHANGED <<relayFile, onDisk, answering, reviewed, backup, relayRun, relayRuns>>

-----------------------------------------------------------------------------
(* Faults.                                                                 *)

\* The new process has no runtime: relay.json is not loaded at the start.
RelayDaemonDies ==
    /\ relayRun # "lost"
    /\ installed' = NoFile /\ restart' = "none"
    /\ relayRun' = IF relayRun \in Mutating THEN "lost"
                   ELSE IF relayRun = "planned" THEN "canceled" ELSE relayRun
    /\ UNCHANGED <<relayFile, onDisk, answering, reviewed, backup, relayRuns>>

\* recover_run: an exact operation that was started is rolled back.
RecoverRelay ==
    /\ relayRun = "lost" /\ relayRun' = "rollback"
    /\ UNCHANGED <<relayFile, installed, onDisk, answering, reviewed, backup, relayRuns, restart>>

OwnerEditsRelay(c) ==
    /\ relayRun # "lost" /\ c # relayFile
    /\ WriteLive(c)
    /\ UNCHANGED <<installed, answering, reviewed, backup, relayRun, relayRuns, restart>>

UpstreamChanges(c) ==
    /\ answering' = IF Answers(c) THEN answering \ {c} ELSE answering \cup {c}
    /\ UNCHANGED <<relayFile, installed, onDisk, reviewed, backup, relayRun, relayRuns, restart>>

RelayStep ==
    \/ PrepareRelay \/ ReplaceFile \/ ReloadRuntime \/ VerifyRelay
    \/ RestoreLive \/ RereadLive \/ ReinstallRuntime \/ RecoverRelay

RelayNext ==
    \/ RelayStep \/ RestartReads \/ RestartInstalls \/ RelayDaemonDies
    \/ \E c \in RelayConfigs : PlanRelay(c) \/ OwnerEditsRelay(c) \/ UpstreamChanges(c)

RelaySpec == RelayInit /\ [][RelayNext]_relayVars

-----------------------------------------------------------------------------
(* Properties.                                                             *)

(* The runtime never serves a configuration that relay.json has not held:  *)
(* whatever fails or crashes after the rename, the file came first.        *)
RuntimeWasFile == installed = NoFile \/ installed \in onDisk

(* A run that may have touched the file can still put back exactly what    *)
(* its plan was reviewed against.                                          *)
RelayRecoverable == relayRun \in Mutating => backup = reviewed.before

-----------------------------------------------------------------------------
(***************************************************************************)
(* The catalog of the relay runtime (commonkit-relay/lib.rs, runtime.rs):  *)
(* the servers with the tools they last reported, reconciled with desired  *)
(* configurations and refreshed in the background.  Clients see tools      *)
(* under localized names; characters outside [A-Za-z0-9_-] become "_" and  *)
(* the server id is put in front, so distinct tools can get one name.      *)
(*                                                                         *)
(* Local(s, t) stands for the localized name of tool t of server s.        *)
(***************************************************************************)
CONSTANTS Servers, Local(_, _),
          Offers         \* tool sets that upstreams report

ASSUME CatalogBounds == IsFiniteSet(Servers) /\ \A o \in Offers : IsFiniteSet(o)

VARIABLES catalog,       \* server -> [managed, enabled, tools]
          offer,         \* tools an upstream reports now; "down" when it does not
          upHealth,      \* health as the runtime knows it
          toolNotice,    \* is a ToolsListChanged notification pending
          clientList     \* localized tools when the client last took notice

catalogVars == <<catalog, offer, upHealth, toolNotice, clientList>>

Entries == [managed : BOOLEAN, enabled : BOOLEAN]
Down == {"down"}    \* not a set of tools

\* The names of the enabled servers, with the pair each stands for.
Pairs(c) == UNION {{<<s, t>> : t \in c[s].tools} : s \in {r \in DOMAIN c : c[r].enabled}}
LocalizedTools(c) == {Local(p[1], p[2]) : p \in Pairs(c)}
Collides(c) == Cardinality(LocalizedTools(c)) # Cardinality(Pairs(c))

NoticeIf(changed) == toolNotice' = (toolNotice \/ changed)

CatalogInit ==
    /\ catalog = <<>> /\ upHealth = <<>>
    /\ offer \in [Servers -> {Down}]
    /\ toolNotice = TRUE /\ clientList = {}

-----------------------------------------------------------------------------
\* An unmanaged server is not taken over by CommonKit.
OwnershipConflict(desired) ==
    \E s \in DOMAIN desired \cap DOMAIN catalog :
        ~catalog[s].managed /\ desired[s].managed

\* discover is asked of enabled servers only; the others stay as they are.
Prepared(desired) ==
    [s \in DOMAIN desired \cup DOMAIN catalog |->
        IF s \notin DOMAIN desired THEN catalog[s]
        ELSE [managed |-> desired[s].managed, enabled |-> desired[s].enabled,
              tools |-> IF desired[s].enabled THEN offer[s] ELSE {}]]

Pruned(c, desired, prune) ==
    IF prune THEN [s \in {r \in DOMAIN c : c[r].managed => r \in DOMAIN desired} |-> c[s]] ELSE c

NoticeList(next) == NoticeIf(LocalizedTools(catalog) # LocalizedTools(next))

\* RelayCatalog::reconcile and RelayRuntime::reconcile; all or nothing.
ReconcileCatalog(desired, prune) ==
    LET candidate == Pruned(Prepared(desired), desired, prune) IN
    /\ ~OwnershipConflict(desired)
    /\ \A s \in DOMAIN desired : desired[s].enabled => offer[s] # Down
    /\ ~Collides(candidate)
    /\ catalog' = candidate
    /\ upHealth' = [s \in DOMAIN candidate |-> "healthy"]
    /\ NoticeList(candidate)
    /\ UNCHANGED <<offer, clientList>>

Acceptable(candidate) == ~Collides(candidate)

\* refresh_due for one server that is due: the last tools are kept when the
\* upstream does not answer, or when the new ones would collide.
RefreshServer(s) ==
    LET candidate == [catalog EXCEPT ![s].tools = offer[s]] IN
    /\ s \in DOMAIN catalog
    /\ upHealth' = [upHealth EXCEPT ![s] = IF offer[s] = Down THEN "unavailable" ELSE "healthy"]
    /\ IF offer[s] = Down \/ ~Acceptable(candidate)
       THEN UNCHANGED <<catalog, toolNotice>>
       ELSE catalog' = candidate /\ NoticeIf(catalog[s].tools # offer[s])
    /\ UNCHANGED <<offer, clientList>>

TakeNotifications ==
    /\ toolNotice /\ toolNotice' = FALSE
    /\ clientList' = LocalizedTools(catalog)
    /\ UNCHANGED <<catalog, offer, upHealth>>

OfferChanges(s, o) ==
    /\ offer' = [offer EXCEPT ![s] = o]
    /\ UNCHANGED <<catalog, upHealth, toolNotice, clientList>>

\* resolve_tool: the pairs a localized name can mean.
Resolves(name) == {p \in Pairs(catalog) : Local(p[1], p[2]) = name}

CatalogNext ==
    \/ \E D \in SUBSET Servers : \E desired \in [D -> Entries], prune \in BOOLEAN :
          ReconcileCatalog(desired, prune)
    \/ \E s \in Servers : RefreshServer(s)
    \/ TakeNotifications
    \/ \E s \in Servers, o \in Offers \cup {Down} : OfferChanges(s, o)

CatalogSpec == CatalogInit /\ [][CatalogNext]_catalogVars

-----------------------------------------------------------------------------
(* Properties.                                                             *)

(* A name in the tool list means one tool of one server, whatever sequence *)
(* of reconciles and refreshes led here: a call cannot reach another one.  *)
OneTool == \A name \in LocalizedTools(catalog) : Cardinality(Resolves(name)) = 1

(* A client that has not been told of a change still has the tools it saw. *)
ClientsTold == ~toolNotice => clientList = LocalizedTools(catalog)

(* A reconcile removes no server that CommonKit does not manage.           *)
UnmanagedKept ==
    [\A s \in DOMAIN catalog : ~catalog[s].managed => s \in DOMAIN catalog']_catalogVars
=============================================================================
