-------------------------- MODULE PackageMutation ---------------------------
(***************************************************************************)
(* Applying resolved packages, and the consent and the receipt this needs. *)
(***************************************************************************)
EXTENDS Naturals, FiniteSets, Sequences

(***************************************************************************)
(* The offline package adapter (adapters/src/package_mutation.rs) driven   *)
(* by the forward-only part of the engine (reconcile/src/lib.rs): a        *)
(* resolution made earlier is prepared, applied by dpkg or nvm, verified,  *)
(* and after a crash recovered by observation alone.  The owner changes    *)
(* the target between any two steps.  Packages, keys and metadata are      *)
(* abstract; a digest is the value it is the digest of.                    *)
(***************************************************************************)
CONSTANTS AptPackages,     \* the closure of an apt resolution
          NodeVersion,     \* the closure of an nvm resolution
          MaxPackageMoves  \* bound on the changes made by the owner

VARIABLES
  pkgInstalled,  \* of each package: "none", "rc" (removed, configuration
                 \* files left), "half" (unpacked), "ok"
  pkgOther,      \* version of a package no resolution names
  pkgForeign,    \* a package of a foreign architecture is installed
  pkgConfig,     \* the target's package_resolution configuration
  pkgLive,       \* what probing the live manager returns
  pkgKeyFile,    \* the key or keyring on disk
  pkgRes,        \* the persisted resolution of the operation
  pkgPhase,      \* the engine's last step for the operation
  pkgStarted,    \* the durable record says ApplyStarted
  pkgMoves

pkgVars == <<pkgInstalled, pkgOther, pkgForeign, pkgConfig, pkgLive,
             pkgKeyFile, pkgRes, pkgPhase, pkgStarted, pkgMoves>>
pkgTarget == <<pkgInstalled, pkgOther, pkgForeign, pkgConfig, pkgLive,
               pkgKeyFile, pkgMoves>>

NoResolution == [mgr |-> "none"]
Running == {"installing", "converging"}
Finished == {"succeeded", "recovered"}

PackageInit ==
  /\ pkgInstalled = [p \in AptPackages \cup {NodeVersion} |-> "none"]
  /\ pkgOther = 0 /\ pkgForeign = FALSE
  /\ pkgConfig = [key |-> 0, meta |-> 0, manager |-> 0]
  /\ pkgLive = 0 /\ pkgKeyFile = 0
  /\ pkgRes = NoResolution /\ pkgPhase = "none" /\ pkgStarted = FALSE
  /\ pkgMoves = 0
-----------------------------------------------------------------------------
Closure(r) == IF r.mgr = "apt" THEN AptPackages ELSE {NodeVersion}

\* What dpkg-query -W or nvm ls prints: every package with a version, removed,
\* unpacked or configured, and the packages no resolution names.
Observed(r) ==
  [names |-> {p \in Closure(r) : pkgInstalled[p] # "none"}, other |-> pkgOther]

\* The resolver, unlike the adapter, reads the states: only configured packages
\* are installed (parse_status_installed_packages).
InstalledBefore(r) ==
  [names |-> {p \in Closure(r) : pkgInstalled[p] = "ok"}, other |-> pkgOther]

\* An apt listing with a package of another architecture is not canonical.
CanonicalObservation(r) == r.mgr = "nvm" \/ ~pkgForeign

\* Only a legacy apt resolution may come without signed evidence.
AnchorValid(r) ==
  IF ~r.signed THEN r.mgr = "apt"
  ELSE r.mgr = "apt" => /\ r.key = pkgConfig.key
                        /\ r.meta = pkgConfig.meta

\* The evidence against the key on disk and the configured anchors.  The nvm
\* keyring verifies the signature that was made under the resolved key.
EvidenceValid(r) ==
  /\ AnchorValid(r)
  /\ r.signed => IF r.mgr = "apt"
                 THEN /\ pkgKeyFile = pkgConfig.key
                      /\ r.key = pkgKeyFile
                      /\ r.meta = pkgConfig.meta
                 ELSE /\ pkgKeyFile = pkgConfig.key
                      /\ r.key = pkgKeyFile

\* The manager probed on the target is the one the resolution was made for.
ManagerBound(r) ==
  /\ pkgConfig.manager = r.manager
  /\ r.mgr = "apt" => AnchorValid(r)
  /\ pkgLive = r.manager

\* Every package of the closure is listed.
AfterResolution(r) == Closure(r) \subseteq Observed(r).names

\* nvm's listing names a version whose binary may not run: it is executed.
NvmRuns(r) == r.mgr = "nvm" => pkgInstalled[NodeVersion] = "ok"

\* The target still looks as it did when the resolution was made.
IsBefore(r) == Observed(r) = r.before
-----------------------------------------------------------------------------
\* Where the recovery of the engine goes from what the target looks like.
\* An apt resolution without its live-safety marker has no usable preimage.
ObserveRecovery(r) ==
  IF ~(ManagerBound(r) /\ CanonicalObservation(r)) THEN "error"
  ELSE IF r.mgr = "apt" /\ ~r.marker THEN "other"
  ELSE IF IsBefore(r) THEN "before"
  ELSE IF AfterResolution(r)
       THEN IF r.mgr = "nvm" /\ ~(EvidenceValid(r) /\ NvmRuns(r)) THEN "error"
            ELSE "after"
  ELSE "other"

\* A plan is made: the resolution binds the manager, the source evidence and
\* the observation, and is persisted with its artifacts.
RegisterPackage(mgr, signed, marker) ==
  /\ pkgPhase = "none"
  /\ ~pkgForeign
  /\ pkgLive = pkgConfig.manager /\ pkgKeyFile = pkgConfig.key
  /\ mgr = "nvm" => signed /\ ~marker
  /\ pkgRes' = [mgr |-> mgr, signed |-> signed,
                key |-> pkgConfig.key, meta |-> pkgConfig.meta,
                manager |-> pkgConfig.manager, marker |-> marker,
                before |-> InstalledBefore([mgr |-> mgr])]
  /\ pkgPhase' = "planned"
  /\ UNCHANGED <<pkgTarget, pkgStarted>>

\* Every phase starts by probing the manager and validating the evidence.
PhaseAllowed(r) == ManagerBound(r) /\ EvidenceValid(r)

PreparePackage ==
  /\ pkgPhase = "planned"
  /\ pkgPhase' = IF PhaseAllowed(pkgRes) THEN "prepared" ELSE "canceled"
  /\ UNCHANGED <<pkgTarget, pkgRes, pkgStarted>>

\* The one-way barrier is durable before the manager is started.
ApplyPackage ==
  /\ pkgPhase = "prepared"
  /\ pkgStarted' = TRUE
  /\ pkgPhase' = IF PhaseAllowed(pkgRes) THEN "installing" ELSE "required"
  /\ UNCHANGED <<pkgTarget, pkgRes>>

\* dpkg unpacks every archive, then configures; nvm extracts, then is usable.
InstallSteps(r) ==
  LET none == {p \in Closure(r) : pkgInstalled[p] \in {"none", "rc"}}
  IN IF none # {} THEN {[pkgInstalled EXCEPT ![p] = "half"] : p \in none}
     ELSE {[pkgInstalled EXCEPT ![p] = "ok"] :
             p \in {q \in Closure(r) : pkgInstalled[q] = "half"}}

ManagerInstalls ==
  /\ pkgPhase \in Running
  /\ pkgInstalled' \in InstallSteps(pkgRes)
  /\ UNCHANGED <<pkgOther, pkgForeign, pkgConfig, pkgLive, pkgKeyFile,
                 pkgMoves, pkgRes, pkgPhase, pkgStarted>>

ManagerFails ==
  /\ pkgPhase \in Running
  /\ pkgPhase' = IF pkgPhase = "installing" THEN "required" ELSE "recoveryFailed"
  /\ UNCHANGED <<pkgTarget, pkgRes, pkgStarted>>

ManagerSucceeds ==
  /\ pkgPhase \in Running
  /\ \A p \in Closure(pkgRes) : pkgInstalled[p] = "ok"
  /\ pkgPhase' = IF pkgPhase = "installing" THEN "applied" ELSE "converged"
  /\ UNCHANGED <<pkgTarget, pkgRes, pkgStarted>>

VerifyPackage ==
  /\ pkgPhase = "applied"
  /\ pkgPhase' = IF /\ PhaseAllowed(pkgRes) /\ CanonicalObservation(pkgRes)
                    /\ AfterResolution(pkgRes) /\ NvmRuns(pkgRes)
                 THEN "verified" ELSE "required"
  /\ UNCHANGED <<pkgTarget, pkgRes, pkgStarted>>

\* The final digest needs one more canonical observation; without it the run
\* ends with an error and is left for recovery.
RecordPackageSuccess ==
  /\ pkgPhase = "verified"
  /\ pkgPhase' = IF ManagerBound(pkgRes) /\ CanonicalObservation(pkgRes)
                 THEN "succeeded" ELSE "required"
  /\ UNCHANGED <<pkgTarget, pkgRes, pkgStarted>>

\* A forward operation is recovered from what the target shows: already there,
\* untouched (and then applied again), or ambiguous.
RecoverPackage ==
  /\ pkgPhase \in {"required", "recoveryFailed"}
  /\ pkgPhase' =
       LET seen == ObserveRecovery(pkgRes)
       IN CASE seen = "after" -> "recovered"
            [] seen = "before" -> IF PhaseAllowed(pkgRes) THEN "converging"
                                  ELSE "recoveryFailed"
            [] OTHER -> "recoveryFailed"
  /\ UNCHANGED <<pkgTarget, pkgRes, pkgStarted>>

ObserveConverged ==
  /\ pkgPhase = "converged"
  /\ pkgPhase' = IF ObserveRecovery(pkgRes) = "after" THEN "recovered"
                 ELSE "recoveryFailed"
  /\ UNCHANGED <<pkgTarget, pkgRes, pkgStarted>>

\* The process and its manager end between any two steps; start-up recovery
\* cancels what never reached the barrier.
PackageCrash ==
  /\ pkgPhase \in Running \cup {"planned", "prepared", "applied", "verified", "converged"}
  /\ pkgPhase' = IF pkgStarted THEN "required" ELSE "canceled"
  /\ UNCHANGED <<pkgTarget, pkgRes, pkgStarted>>

\* The owner rotates the key, accepts new metadata, upgrades the manager, the
\* configuration follows or does not, and installs other packages.
PackageOwnerMoves ==
  /\ pkgMoves < MaxPackageMoves
  /\ pkgMoves' = pkgMoves + 1
  /\ \/ /\ \E f \in DOMAIN pkgConfig :
             pkgConfig' = [pkgConfig EXCEPT ![f] = 1 - @]
        /\ UNCHANGED <<pkgLive, pkgKeyFile, pkgOther, pkgForeign, pkgInstalled>>
     \/ /\ \E p \in AptPackages :
             /\ pkgInstalled[p] = "none" /\ pkgPhase \notin Running
             /\ pkgInstalled' = [pkgInstalled EXCEPT ![p] = "rc"]
        /\ UNCHANGED <<pkgConfig, pkgLive, pkgKeyFile, pkgOther, pkgForeign>>
     \/ /\ pkgLive' = 1 - pkgLive
        /\ UNCHANGED <<pkgConfig, pkgKeyFile, pkgOther, pkgForeign, pkgInstalled>>
     \/ /\ pkgKeyFile' = 1 - pkgKeyFile
        /\ UNCHANGED <<pkgConfig, pkgLive, pkgOther, pkgForeign, pkgInstalled>>
     \/ /\ pkgOther' = 1 - pkgOther
        /\ UNCHANGED <<pkgConfig, pkgLive, pkgKeyFile, pkgForeign, pkgInstalled>>
     \/ /\ pkgForeign' = ~pkgForeign
        /\ UNCHANGED <<pkgConfig, pkgLive, pkgKeyFile, pkgOther, pkgInstalled>>
  /\ UNCHANGED <<pkgRes, pkgPhase, pkgStarted>>

PackageNext ==
  \/ \E mgr \in {"apt", "nvm"}, signed \in BOOLEAN, marker \in BOOLEAN :
       RegisterPackage(mgr, signed, marker)
  \/ PreparePackage \/ ApplyPackage
  \/ ManagerInstalls \/ ManagerFails \/ ManagerSucceeds
  \/ VerifyPackage \/ RecordPackageSuccess
  \/ RecoverPackage \/ ObserveConverged
  \/ PackageCrash \/ PackageOwnerMoves
-----------------------------------------------------------------------------
\* A run that is reported done left every package of its closure on the
\* target, and a node version that runs.  apt's listing counts a package that
\* dpkg unpacked and never configured, or removed and not purged, so nothing
\* more holds there (after_resolution, verify_offline).
DoneMeansListed ==
  pkgPhase \in Finished =>
    \A p \in Closure(pkgRes) :
       pkgInstalled[p] \in (IF pkgRes.mgr = "apt" THEN {"rc", "half", "ok"} ELSE {"ok"})

\* dpkg or nvm is started only under the trust the resolution was made with,
\* whatever the owner changed after the plan or after the preparation
\* (prepare_offline and apply_offline both validate).
StartedUnderTrust ==
  [pkgPhase \notin Running /\ pkgPhase' \in Running =>
       /\ pkgLive = pkgRes.manager /\ pkgConfig.manager = pkgRes.manager
       /\ pkgRes.signed => /\ pkgKeyFile = pkgRes.key
                           /\ pkgRes.mgr = "apt" => pkgConfig.meta = pkgRes.meta]_pkgVars

\* Recovery never installs over what an interrupted installation left: it
\* starts the manager again only when no package of the closure was touched
\* since the resolution (observe_recovery, RecoveryObservation::Before).
NeverOverPartial ==
  [pkgPhase' = "converging" /\ pkgPhase # "converging" =>
       {p \in Closure(pkgRes) : pkgInstalled[p] # "none"} = pkgRes.before.names]_pkgVars

-----------------------------------------------------------------------------
(***************************************************************************)
(* The consent a package run needs, the receipt that carries it, and the   *)
(* admission of that receipt after a stop (commonkit-reconcile).           *)
(*                                                                         *)
(* Consent is given for one plan's package operations.  The plan may be    *)
(* replaced and the adapter may resolve anew before the run starts, and    *)
(* again before it is recovered; the receipt read back may be a mixture of *)
(* several of the snapshots that were written.                             *)
(***************************************************************************)
CONSTANTS
  ConsentPlans,        \* plans: [id, resolution, authority]
  PackageResolutions,  \* digests of package resolutions
  MaxReplans,          \* plans and resolutions replaced (a bound)
  MaxRunStops          \* stops of the run (a bound)

VARIABLES
  pcPlan,       \* the plan as it is stored now
  pcConsent,    \* the operation set the user consented to
  pcAdapter,    \* the resolution the package adapter has for the operation
  pcJournal,    \* the receipt of the run
  pcWritten,    \* every snapshot of it that was persisted
  pcDisk,       \* the receipt that is found after the stop
  pcStage,      \* where the run is
  pcInstalled,  \* ghost: the resolutions the adapter was told to install
  pcReplans, pcStops  \* replacements and stops so far

pcVars == <<pcPlan, pcConsent, pcAdapter, pcJournal, pcWritten, pcDisk, pcStage, pcInstalled, pcReplans, pcStops>>

NoConsent == [id |-> "none", resolution |-> "none", authority |-> FALSE]
NoRunReceipt == [plan |-> NoConsent]

ConsentInit ==
  /\ pcPlan = CHOOSE p \in ConsentPlans : p.authority
  /\ pcAdapter = pcPlan.resolution
  /\ pcConsent = NoConsent /\ pcJournal = NoRunReceipt /\ pcWritten = {} /\ pcDisk = NoRunReceipt
  /\ pcStage = "planned" /\ pcInstalled = {} /\ pcReplans = 0 /\ pcStops = 0

\* package_bindings_from_plan and package_operation_set_digest: plan and resolution.
OperationSet(plan) == <<plan.id, plan.resolution>>

GiveConsent ==
  /\ pcStage = "planned"
  /\ pcConsent' = pcPlan
  /\ UNCHANGED <<pcPlan, pcAdapter, pcJournal, pcWritten, pcDisk, pcStage, pcInstalled, pcReplans, pcStops>>

\* The plan is built anew, or the adapter resolves anew.
Replan(plan, resolution) ==
  /\ pcReplans < MaxReplans /\ pcStage \in {"planned", "stopped"}
  /\ pcReplans' = pcReplans + 1
  /\ pcPlan' = IF pcStage = "planned" THEN plan ELSE pcPlan
  /\ pcAdapter' = resolution
  /\ UNCHANGED <<pcConsent, pcJournal, pcWritten, pcDisk, pcStage, pcInstalled, pcStops>>

----------------------------------------------------------------------------
(* The journal *)
\* progress_digest: of a version 3 receipt, the phases and the evidence.
ProgressDigest(r) == <<r.phase, r.evidence>>

\* make_transition_for_schema: an entry is bound to the entry before it.
JournalEntry(sequence, state, previous, progress) ==
  [sequence |-> sequence, state |-> state, previous |-> previous, progress |-> progress,
   entry |-> <<sequence, state, previous, progress>>]

LastEntry(r) == IF r.transitions = <<>> THEN <<>> ELSE r.transitions[Len(r.transitions)].entry

\* append_progress_transition
Appended(r) ==
  LET t == JournalEntry(Len(r.transitions), r.state, LastEntry(r), ProgressDigest(r))
  IN  [r EXCEPT !.transitions = Append(@, t), !.id = t.entry]

ReceiptPersisted(r) ==
  /\ pcJournal' = r /\ pcWritten' = pcWritten \cup {r} /\ pcDisk' = r

\* validate_package_receipt_authorization: the evidence is for the plan's operations.
EvidenceFits(plan, evidence) == plan.authority /\ evidence.resolution = plan.resolution

ConsentValid(plan) == pcConsent # NoConsent /\ OperationSet(pcConsent) = OperationSet(plan)

\* The adapter's binding is compared with the one of the plan that was consented to.
BindingUnchanged(plan) == pcAdapter = plan.resolution

\* execute_with_package_consent
StartWithConsent ==
  /\ pcStage = "planned" /\ pcConsent # NoConsent
  /\ LET evidence == [resolution |-> pcAdapter, exit |-> "NotRun"] IN
     IF ConsentValid(pcPlan) /\ pcPlan.authority /\ BindingUnchanged(pcPlan) /\ EvidenceFits(pcPlan, evidence)
     THEN /\ ReceiptPersisted(Appended([plan |-> pcPlan, state |-> "Prepared", phase |-> "none",
                                 evidence |-> evidence, transitions |-> <<>>, id |-> <<>>]))
          /\ pcStage' = "running"
     ELSE pcStage' = "refused" /\ UNCHANGED <<pcJournal, pcWritten, pcDisk>>
  /\ UNCHANGED <<pcPlan, pcConsent, pcAdapter, pcInstalled, pcReplans, pcStops>>

\* legal_transition, the part a run of one package operation uses.
LegalNext(from, to) ==
  <<from, to>> \in {<<"Prepared", "Applying">>, <<"Applying", "Verifying">>, <<"Verifying", "ApplyingForward">>,
                    <<"ApplyingForward", "Succeeded">>, <<"ApplyingForward", "ForwardRecoveryRequired">>,
                    <<"ForwardRecoveryRequired", "ConvergingForward">>, <<"ConvergingForward", "ForwardRecovered">>}

TransitionTo(state) ==
  /\ pcStage = "running" /\ LegalNext(pcJournal.state, state)
  /\ state = "Verifying" => pcJournal.phase = "Prepared"
  /\ state \in {"Succeeded", "ForwardRecovered"} => pcJournal.evidence.exit = "Succeeded"
  /\ state = "ForwardRecoveryRequired" => pcJournal.evidence.exit = "Failed"
  /\ ReceiptPersisted(Appended([pcJournal EXCEPT !.state = state]))
  /\ UNCHANGED <<pcPlan, pcConsent, pcAdapter, pcStage, pcInstalled, pcReplans, pcStops>>

\* record_operation; the adapter is told to install when the phase was recorded.
RecordPhase(phase) ==
  /\ pcStage = "running"
  /\ \/ phase = "Prepared" /\ pcJournal.state = "Applying" /\ pcJournal.phase = "none"
     \/ phase = "ApplyStarted" /\ pcJournal.state = "ApplyingForward" /\ pcJournal.phase = "Prepared"
     \/ phase = "ForwardRecovered" /\ pcJournal.state = "ConvergingForward" /\ pcJournal.phase # "ForwardRecovered"
  /\ ReceiptPersisted(Appended([pcJournal EXCEPT !.phase = phase]))
  /\ pcInstalled' = IF phase = "Prepared" THEN pcInstalled ELSE pcInstalled \cup {pcAdapter}
  /\ UNCHANGED <<pcPlan, pcConsent, pcAdapter, pcStage, pcReplans, pcStops>>

\* record_package_exit
RecordExit(exit) ==
  /\ pcStage = "running" /\ pcJournal.phase \in {"ApplyStarted", "ForwardRecovered"}
  /\ pcJournal.evidence.exit # "Succeeded" /\ (pcJournal.phase = "ForwardRecovered" => exit = "Succeeded")
  /\ exit # pcJournal.evidence.exit
  /\ ReceiptPersisted(Appended([pcJournal EXCEPT !.evidence.exit = exit]))
  /\ UNCHANGED <<pcPlan, pcConsent, pcAdapter, pcStage, pcInstalled, pcReplans, pcStops>>

----------------------------------------------------------------------------
(* The run stops; what is read back may mix parts of several snapshots.    *)
StopRun ==
  /\ pcStage = "running" /\ pcStops < MaxRunStops
  /\ pcStage' = "stopped" /\ pcStops' = pcStops + 1
  /\ \E other \in pcWritten, parts \in SUBSET {"state", "phase", "evidence", "transitions", "id"} :
       pcDisk' = [f \in DOMAIN pcJournal |-> IF f \in parts THEN other[f] ELSE pcJournal[f]]
  /\ UNCHANGED <<pcPlan, pcConsent, pcAdapter, pcJournal, pcWritten, pcInstalled, pcReplans>>

\* The last entry against the receipt's own progress.
ProgressFits(r) == r.transitions[Len(r.transitions)].progress = ProgressDigest(r)

\* verify_chain
VerifyChain(r) ==
  /\ r.transitions # <<>> /\ r.transitions[1].state = "Prepared"
  /\ \A i \in DOMAIN r.transitions :
       LET t == r.transitions[i]  before == IF i = 1 THEN <<>> ELSE r.transitions[i - 1].entry IN
       /\ t.sequence = i - 1 /\ t.previous = before
       /\ i > 1 => r.transitions[i - 1].state = t.state \/ LegalNext(r.transitions[i - 1].state, t.state)
       /\ t.entry = JournalEntry(t.sequence, t.state, before, t.progress).entry
  /\ LastEntry(r) = r.id
  /\ ProgressFits(r)
  /\ r.transitions[Len(r.transitions)].state = r.state

\* validate_receipt_plan_binding
BoundToPlan(r) == OperationSet(r.plan) = OperationSet(pcPlan) /\ EvidenceFits(pcPlan, r.evidence)

\* validate_package_receipt_evidence: the adapter still has the resolution of the receipt.
EvidenceCurrent(r) == r.evidence.resolution = pcAdapter

\* The receipt is admitted: a run that had reached the barrier converges forward,
\* an earlier one is cancelled or rolled back, an ended one stays as it is.
AdmitReceipt ==
  /\ pcStage = "stopped"
  /\ IF VerifyChain(pcDisk) /\ BoundToPlan(pcDisk) /\ EvidenceCurrent(pcDisk)
     THEN CASE pcDisk.state = "ApplyingForward" ->
                 /\ pcStage' = "running"
                 /\ ReceiptPersisted(Appended([pcDisk EXCEPT !.state = "ForwardRecoveryRequired"]))
            [] pcDisk.state \in {"ForwardRecoveryRequired", "ConvergingForward"} ->
                 pcStage' = "running" /\ ReceiptPersisted(pcDisk)
            [] OTHER -> pcStage' = "undone" /\ UNCHANGED <<pcJournal, pcWritten, pcDisk>>
     ELSE pcStage' = "refused" /\ UNCHANGED <<pcJournal, pcWritten, pcDisk>>
  /\ UNCHANGED <<pcPlan, pcConsent, pcAdapter, pcInstalled, pcReplans, pcStops>>

ConsentNext ==
  \/ GiveConsent \/ StartWithConsent \/ StopRun \/ AdmitReceipt
  \/ \E p \in ConsentPlans, r \in PackageResolutions : Replan(p, r)
  \/ \E s \in {"Applying", "Verifying", "ApplyingForward", "Succeeded", "ForwardRecoveryRequired",
               "ConvergingForward", "ForwardRecovered"} : TransitionTo(s)
  \/ \E p \in {"Prepared", "ApplyStarted", "ForwardRecovered"} : RecordPhase(p)
  \/ \E x \in {"Succeeded", "Failed"} : RecordExit(x)

----------------------------------------------------------------------------
(* Only what the user consented to is installed, by the run and by its     *)
(* recovery, whatever was planned or resolved in between.                  *)
InstalledAsConsented == pcInstalled \subseteq {pcConsent.resolution}

(* A receipt that is read back and admitted is one that was written: a     *)
(* mixture of snapshots is refused, so recovery never starts from a state, *)
(* phase or exit that was not true at one moment of the run.               *)
AdmittedWasWritten ==
  [pcStage = "stopped" /\ pcStage' \in {"running", "undone"} => pcDisk \in pcWritten]_pcVars
=============================================================================
