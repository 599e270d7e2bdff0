---------------------------- MODULE DomainsProofs ----------------------------
(***************************************************************************)
(* What each area of the program promises holds for every value of the     *)
(* constants.  The invariants of the parts come from MachineProofs,        *)
(* DaemonProofs and PlanProofs; a part keeps its invariant when another    *)
(* takes the step.                                                         *)
(***************************************************************************)
EXTENDS MCDomains, MachineProofs, DaemonProofs, PlanProofs, TLAPS

\* A step of the whole is a step of the part, or leaves the part alone.
LEMMA PipelineAlone == ASSUME [Next]_<<part, vars>> PROVE [PipelineNext]_pvVars
BY DEF Next, Standing, vars

\* A step of the whole is a step of the part, or leaves the part alone.
LEMMA SandboxAlone == ASSUME [Next]_<<part, vars>> PROVE [SandboxNext]_sbVars
BY DEF Next, Standing, vars

\* A provider that runs is contained, whatever is edited, changed or reached
\* during the run (pipeline.rs, provider_sandbox.rs).
THEOREM ProvidersStayContained == DomainsSpec => []ProvidersContained
<1>1. Init => PipelineInv /\ SandboxInv
  BY PipelineStart, SandboxStart DEF Init
<1>2. PipelineInv /\ SandboxInv /\ [Next]_<<part, vars>> => (PipelineInv /\ SandboxInv)'
  BY PipelineStep, SandboxStep, PipelineAlone, SandboxAlone
<1>3. PipelineInv /\ SandboxInv => ProvidersContained
  BY SandboxSafe DEF ProvidersContained, PipelineInv, SandboxInv
<1>4. QED
  BY <1>1, <1>2, <1>3, PTL DEF DomainsSpec

\* A step of the whole is a step of the part, or leaves the part alone.
LEMMA ControlAlone == ASSUME [Next]_<<part, vars>> PROVE [ControlNext]_controlVars
BY DEF Next, Standing, vars

\* A step of the whole is a step of the part, or leaves the part alone.
LEMMA HubAlone == ASSUME [Next]_<<part, vars>> PROVE [HubNext]_hubVars
BY DEF Next, Standing, vars

\* A step of the whole is a step of the part, or leaves the part alone.
LEMMA DriftAlone == ASSUME [Next]_<<part, vars>> PROVE [DriftNext]_driftVars
BY DEF Next, Standing, vars

\* The daemon tells the truth about operations, events and checks, whatever
\* requests, timeouts and restarts overlap (control plane, EventHub, SchedulerStore).
THEOREM DaemonsTellTheTruth == DomainsSpec => []OperationsTold
<1> DEFINE Inv == ControlInv /\ HubInv /\ DriftInv
<1>1. Init => Inv
  BY ControlStart, HubStart, DriftStart DEF Init
<1>2. Inv /\ [Next]_<<part, vars>> => Inv'
  BY ControlStep, HubStep, DriftStep, ControlAlone, HubAlone, DriftAlone
<1>3. Inv => OperationsTold
  <2>1. DriftInv => OneWorker
    BY DEF DriftInv, OneWorker
  <2>2. QED
    BY <2>1 DEF OperationsTold, ControlInv, HubInv, DriftInv
<1>4. QED
  BY <1>1, <1>2, <1>3, PTL DEF DomainsSpec

\* A step of the whole is a step of the part, or leaves the part alone.
LEMMA EngramAlone == ASSUME [Next]_<<part, vars>> PROVE [EngramNext]_egVars
BY DEF Next, Standing, vars

\* A step of the whole is a step of the part, or leaves the part alone.
LEMMA ContextAlone == ASSUME [Next]_<<part, vars>> PROVE [ContextNext]_ctVars
BY DEF Next, Standing, vars

\* A step of the whole is a step of the part, or leaves the part alone.
LEMMA RepositoryAlone == ASSUME [Next]_<<part, vars>> PROVE [OnboardingStoreNext]_roVars
BY DEF Next, Standing, vars

\* A step of the whole is a step of the part, or leaves the part alone.
LEMMA CatalogAlone == ASSUME [Next]_<<part, vars>> PROVE [CatalogNext]_catalogVars
BY DEF Next, Standing, vars

\* What is settled is not changed by any later step: terminal runs, servers of
\* others, chunks that manifests name, receipts, and what an attempt is bound to.
THEOREM SettledStaysSettled == DomainsSpec => NothingRewritten
<1> DEFINE Inv == ControlInv /\ EngramTypes /\ ReceiptsNumbered /\ AttemptsInv
           Fixed == /\ part = "control" => AppliedOnce
                    /\ part = "catalog" => UnmanagedKept
                    /\ part = "engram" => EntriesKept
                    /\ part = "context" => ReceiptsKept
                    /\ part = "repository" => NodeBoundOnce /\ RegistrationBoundOnce
<1>1. Init => Inv
  BY ControlStart, EngramStart, ContextStart, AttemptsStart DEF Init
<1>2. Inv /\ [Next]_<<part, vars>> => Inv'
  BY ControlStep, EngramStep, ContextStep, AttemptsStep, ControlAlone, EngramAlone, ContextAlone,
     RepositoryAlone
<1>3. Inv /\ [Next]_<<part, vars>> => [Fixed]_vars
  BY ControlKeeps, EngramKeeps, ContextKeeps, AttemptsKeep, CatalogKeeps, ControlAlone, EngramAlone,
     ContextAlone, RepositoryAlone, CatalogAlone
<1>4. QED
  BY <1>1, <1>2, <1>3, PTL DEF DomainsSpec, NothingRewritten

\* A step of the whole is a step of the part, or leaves the part alone.
LEMMA RelayAlone == ASSUME [Next]_<<part, vars>> PROVE [RelayNext]_relayVars
BY DEF Next, Standing, vars

\* A step of the whole is a step of the part, or leaves the part alone.
LEMMA LocalRelayAlone == ASSUME [Next]_<<part, vars>> PROVE [LocalRelayNext]_lrVars
BY DEF Next, Standing, vars

\* Relays serve what is configured, whatever fails or overlaps
\* (transaction.rs, runtime.rs, relay-manager.ts).
THEOREM RelaysServeTheirFile == DomainsSpec => []RelaysServe
<1> DEFINE Inv == RelayInv /\ CatalogInv /\ LocalRelayInv
<1>1. Init => Inv
  BY RelayStart, CatalogStart, LocalRelayStart DEF Init
<1>2. Inv /\ [Next]_<<part, vars>> => Inv'
  BY RelayKeeps, CatalogStep, LocalRelayKeeps, RelayAlone, CatalogAlone, LocalRelayAlone
<1>3. Inv => RelaysServe
  BY NamesAreUnique, WarmIsKept DEF RelaysServe, RelayInv, CatalogInv, LocalRelayInv
<1>4. QED
  BY <1>1, <1>2, <1>3, PTL DEF DomainsSpec

\* A step of the whole is a step of the part, or leaves the part alone.
LEMMA OnboardingAlone == ASSUME [Next]_<<part, vars>> PROVE [OnboardingNext]_obVars
BY DEF Next, Standing, vars

\* A step of the whole is a step of the part, or leaves the part alone.
LEMMA DaemonServiceAlone == ASSUME [Next]_<<part, vars>> PROVE [DaemonServiceNext]_dsVars
BY DEF Next, Standing, vars

\* A step of the whole is a step of the part, or leaves the part alone.
LEMMA ServiceAlone == ASSUME [Next]_<<part, vars>> PROVE [ServiceNext]_svVars
BY DEF Next, Standing, vars

\* A step of the whole is a step of the part, or leaves the part alone.
LEMMA DesktopAlone == ASSUME [Next]_<<part, vars>> PROVE [DesktopNext]_dkVars
BY DEF Next, Standing, vars

\* Setting up a machine is all or nothing, wherever it dies, fails or overlaps
\* (onboarding.rs, portable_onboarding.rs, daemon_lifecycle.rs,
\* service_lifecycle.rs, the desktop).
THEOREM SetupIsAllOrNothing == DomainsSpec => []MachinesOnboarded
<1> DEFINE Inv == OnboardInv /\ AttemptsInv /\ DaemonServiceInv /\ ServiceInv /\ DesktopInv
<1>1. Init => Inv
  BY OnboardStart, AttemptsStart, DaemonServiceStart, ServiceStart, DesktopStart DEF Init
<1>2. Inv /\ [Next]_<<part, vars>> => Inv'
  BY OnboardStep, AttemptsStep, DaemonServiceStep, ServiceStep, DesktopStep,
     OnboardingAlone, RepositoryAlone, DaemonServiceAlone, ServiceAlone, DesktopAlone
<1>3. Inv => MachinesOnboarded
  <2>1. AttemptsInv => ConnectedIsPrivate /\ OneAttemptPerKey
    BY DEF AttemptsInv
  <2>2. ServiceInv => FailsOnlyDisturbed /\ ServiceUndone
    BY DEF ServiceInv
  <2>3. DaemonServiceInv => OnlyDaemonsSignalled /\ ServingIsKnown
    BY NamedIsKnown DEF DaemonServiceInv
  <2>4. DesktopInv => OnboardedIsServed /\ InstalledWasConfirmed /\ InstallationReported
    BY ServedHasRead DEF DesktopInv, UpdatesConfirmed, HandoffsReported
  <2>5. QED
    BY <2>1, <2>2, <2>3, <2>4, OnboardSafe DEF MachinesOnboarded
<1>4. QED
  BY <1>1, <1>2, <1>3, PTL DEF DomainsSpec

\* A step of the whole is a step of the part, or leaves the part alone.
LEMMA SnapshotAlone == ASSUME [Next]_<<part, vars>> PROVE [SnapshotNext]_snapVars
BY DEF Next, Standing, vars

\* A step of the whole is a step of the part, or leaves the part alone.
LEMMA RestoreAlone == ASSUME [Next]_<<part, vars>> PROVE [RestoreNext]_restoreVars
BY DEF Next, Standing, vars

\* A snapshot that was told, and the database it would replace, survive: the
\* history has one line that the pointer and the anchor follow, and a restore
\* keeps a preimage until it ends, wherever create, list or restore dies
\* (commonkit-snapshots).
THEOREM SnapshotsSurvive == DomainsSpec => []SnapshotsKept
<1> DEFINE Inv == StoreInv /\ RestoreInv
<1>1. Init => Inv
  BY StoreStart, RestoreStart DEF Init
<1>2. Inv /\ [Next]_<<part, vars>> => Inv'
  BY StoreStep, RestoreStep, SnapshotAlone, RestoreAlone
<1>3. Inv => SnapshotsKept
  BY StoreSafe, RestoreSafe DEF SnapshotsKept
<1>4. QED
  BY <1>1, <1>2, <1>3, PTL DEF DomainsSpec

\* A step of the whole is a step of the part, or leaves the part alone.
LEMMA TransferAlone == ASSUME [Next]_<<part, vars>> PROVE [TransferNext]_transferVars
BY DEF Next, Standing, vars

\* A step of the whole is a step of the part, or leaves the part alone.
LEMMA HelperAlone == ASSUME [Next]_<<part, vars>> PROVE [HelperNext]_thVars
BY DEF Next, Standing, vars

\* A target stores only whole artifacts and the helper writes only where it
\* validated, whatever senders overlap, chunks repeat or paths change
\* (remote.rs, remote_helper.rs).
THEOREM TargetsStayGuarded == DomainsSpec => []TargetsGuarded
<1> DEFINE Inv == TransferInv /\ HelperInv
<1>1. Init => Inv
  BY TransferStart, HelperStart DEF Init
<1>2. Inv /\ [Next]_<<part, vars>> => Inv'
  BY TransferStep, HelperStep, TransferAlone, HelperAlone
<1>3. Inv => TargetsGuarded
  <2>1. TransferInv => StoredIsWhole /\ AckedMeansStored
    BY DEF TransferInv
  <2>2. HelperInv => ControlPathsKept /\ WrittenWhereValidated
    BY DEF HelperInv
  <2>3. QED
    BY <2>1, <2>2, InitialisationIsTaken, OneReceipt DEF TargetsGuarded
<1>4. QED
  BY <1>1, <1>2, <1>3, PTL DEF DomainsSpec

\* A step of the whole is a step of the part, or leaves the part alone.
LEMMA SkillAlone == ASSUME [Next]_<<part, vars>> PROVE [SkillNext]_skillVars
BY DEF Next, Standing, vars

\* A step of the whole is a step of the part, or leaves the part alone.
LEMMA UpgradeAlone == ASSUME [Next]_<<part, vars>> PROVE [UpgradeNext]_upgradeVars
BY DEF Next, Standing, vars

\* A step of the whole is a step of the part, or leaves the part alone.
LEMMA CanaryAlone == ASSUME [Next]_<<part, vars>> PROVE [CanaryNext]_canaryVars
BY DEF Next, Standing, vars

\* Only a reviewed skill is promoted, only a tried provider installed, and a
\* deployment receipt names what is deployed, wherever a worker dies
\* (commonkit-skills).
THEOREM OnlyReviewedSkills == DomainsSpec => []SkillsReviewed
<1> DEFINE Inv == SkillInv /\ UpgradeInv /\ CanaryInv
<1>1. Init => Inv
  BY SkillStart, UpgradeStart, CanaryStart DEF Init
<1>2. Inv /\ [Next]_<<part, vars>> => Inv'
  BY SkillStep, UpgradeStep, CanaryStep, SkillAlone, UpgradeAlone, CanaryAlone
<1>3. Inv => SkillsReviewed
  <2>1. SkillInv => HeldOutUnseen /\ PromotedWasApproved /\ PromotionUndoable
    BY DEF SkillInv
  <2>2. UpgradeInv => InstalledTried /\ UpgradeRepeatable
    BY DEF UpgradeInv
  <2>3. QED
    BY <2>1, <2>2, CanarySafe DEF SkillsReviewed
<1>4. QED
  BY <1>1, <1>2, <1>3, PTL DEF DomainsSpec

\* A step of the whole is a step of the part, or leaves the part alone.
LEMMA CredentialAlone == ASSUME [Next]_<<part, vars>> PROVE [CredentialNext]_credVars
BY DEF Next, Standing, vars

\* A step of the whole is a step of the part, or leaves the part alone.
LEMMA RemoteAlone == ASSUME [Next]_<<part, vars>> PROVE [RemoteNext]_remoteVars
BY DEF Next, Standing, vars

\* A step of the whole is a step of the part, or leaves the part alone.
LEMMA FilesAlone == ASSUME [Next]_<<part, vars>> PROVE [FilesNext]_lfVars
BY DEF Next, Standing, vars

\* What is written over can be put back: a credential file has its backup
\* while a set is half applied, a remote file its preimage, and a rollback of a
\* local path that succeeds is exact and keeps what the owner did there
\* (production_domains.rs, remote.rs, files.rs).
THEOREM FilesCanBePutBack == DomainsSpec => []FilesRestorable
<1> DEFINE Inv == CredentialInv /\ RemoteInv /\ FilesInv
<1>1. Init => Inv
  BY CredentialStart, RemoteStart, FilesStart DEF Init
<1>2. Inv /\ [Next]_<<part, vars>> => Inv'
  BY CredentialStep, RemoteStep, FilesStep, CredentialAlone, RemoteAlone, FilesAlone
<1>3. Inv => FilesRestorable
  BY CredentialSafe, RemoteSafe, FilesSafe DEF FilesRestorable
<1>4. QED
  BY <1>1, <1>2, <1>3, PTL DEF DomainsSpec

\* A step of the whole is a step of the part, or leaves the part alone.
LEMMA PackageAlone == ASSUME [Next]_<<part, vars>> PROVE [PackageNext]_pkgVars
BY DEF Next, Standing, vars

\* A step of the whole is a step of the part, or leaves the part alone.
LEMMA ConsentAlone == ASSUME [Next]_<<part, vars>> PROVE [ConsentNext]_pcVars
BY DEF Next, Standing, vars

\* A step that reports something undone, restored or recovered has put back
\* what was there, and recovery goes on from a record that was really written
\* (production_domains.rs, ssh_files.rs, skill_deployment.rs,
\* package_mutation.rs, commonkit-reconcile).
THEOREM UndoneIsExact == DomainsSpec => UndoneExactly
<1> DEFINE Inv == CredentialInv /\ RemoteInv /\ CanaryInv /\ ConsentInv
           Exactly == /\ part = "credentials" => RollbackRestores
                      /\ part = "remote" => RolledBackExactly
                      /\ part = "canary" => RestoredIsSeen
                      /\ part = "packages" => NeverOverPartial
                      /\ part = "consent" => AdmittedWasWritten
<1>1. Init => Inv
  BY CredentialStart, RemoteStart, CanaryStart, ConsentStart DEF Init
<1>2. Inv /\ [Next]_<<part, vars>> => Inv'
  BY CredentialStep, RemoteStep, CanaryStep, ConsentStep, CredentialAlone, RemoteAlone, CanaryAlone, ConsentAlone
<1>3. Inv /\ [Next]_<<part, vars>> => [Exactly]_vars
  BY CredentialKeeps, RemoteKeeps, CanaryKeeps, RecoveryKeeps, AdmissionKeeps,
     CredentialAlone, RemoteAlone, CanaryAlone, PackageAlone, ConsentAlone
<1>4. QED
  BY <1>1, <1>2, <1>3, PTL DEF DomainsSpec, UndoneExactly

\* A step of the whole is a step of the part, or leaves the part alone.
LEMMA ResolutionAlone == ASSUME [Next]_<<part, vars>> PROVE [ResolutionNext]_resVars
BY DEF Next, Standing, vars

\* A step of the whole is a step of the part, or leaves the part alone.
LEMMA FetchAlone == ASSUME [Next]_<<part, vars>> PROVE [FetchNext]_pfVars
BY DEF Next, Standing, vars

\* A step of the whole is a step of the part, or leaves the part alone.
LEMMA NodeAlone == ASSUME [Next]_<<part, vars>> PROVE [NodeNext]_nodeVars
BY DEF Next, Standing, vars

\* A step of the whole is a step of the part, or leaves the part alone.
LEMMA TargetResolutionAlone == ASSUME [Next]_<<part, vars>> PROVE [TargetResolutionNext]_rnVars
BY DEF Next, Standing, vars

\* What is installed is what was resolved and consented to, and was genuine,
\* fresh and fetched from approved public places, whatever is redirected,
\* renamed, revised or moved meanwhile (package_resolution.rs,
\* apt_resolution.rs, node_resolution.rs, remote_helper.rs, production_domains.rs,
\* package_mutation.rs).
THEOREM PackagesStayGenuine == DomainsSpec => []PackagesGenuine
<1> DEFINE Inv == ResolutionInv /\ FetchInv /\ NodeInv /\ TargetInv /\ ConsentedInv /\ PackageInv
<1>1. Init => Inv
  BY ResolutionStart, FetchStart, NodeStart, TargetStart, ConsentedStart, PackageStart DEF Init
<1>2. Inv /\ [Next]_<<part, vars>> => Inv'
  <2>1. ResolutionInv /\ FetchInv /\ NodeInv /\ [Next]_<<part, vars>> => (ResolutionInv /\ FetchInv /\ NodeInv)'
    BY ResolutionStep, FetchStep, NodeStepKeeps, ResolutionAlone, FetchAlone, NodeAlone
  <2>2. TargetInv /\ ConsentedInv /\ PackageInv /\ [Next]_<<part, vars>> => (TargetInv /\ ConsentedInv /\ PackageInv)'
    BY TargetStep, ConsentedStep, PackageStep, TargetResolutionAlone, ConsentAlone, PackageAlone
  <2>3. QED
    BY <2>1, <2>2
<1>3. Inv => PackagesGenuine
  <2>1. ResolutionInv => OnlyApprovedContacted /\ ResolutionMeansArtifacts
    BY DEF ResolutionInv
  <2>2. NodeInv => ResolvedIsGenuine /\ EvidenceDescribes
    BY DEF NodeInv
  <2>3. TargetInv => KeptIsFresh /\ KeptNamesInstalled /\ AppliedAsResolved
    BY DEF TargetInv
  <2>4. ConsentedInv => InstalledAsConsented
    BY DEF ConsentedInv
  <2>5. QED
    BY <2>1, <2>2, <2>3, <2>4, FetchSafe, PackageSafe DEF PackagesGenuine
<1>4. QED
  BY <1>1, <1>2, <1>3, PTL DEF DomainsSpec

\* A step of the whole is a step of the part, or leaves the part alone.
LEMMA AptAlone == ASSUME [Next]_<<part, vars>> PROVE [AptNext]_aptVars
BY DEF Next, Standing, vars

\* A step of the whole is a step of the part, or leaves the part alone.
LEMMA ProfileAlone == ASSUME [Next]_<<part, vars>> PROVE [ProfileNext]_ppVars
BY DEF Next, Standing, vars

\* What a step goes by is what holds when it goes by it: the trust of a package
\* manager, the authority of a resolution, the state of a host, the tried
\* version of a provider, the grant of a section, the answer on the screen
\* (package_mutation.rs, package_resolution.rs, apt_resolution.rs,
\* commonkit-skills, context_resolver.rs, commonkit-personal-context).
THEOREM WhatIsUsedIsCurrent == DomainsSpec => CurrentWhenUsed
<1> DEFINE Inv == ResolutionInv /\ AptInv /\ UpgradeInv /\ ContextInv /\ ProfileInv
           AsUsed == /\ part = "packages" => StartedUnderTrust
                     /\ part = "resolution" => PreparedFirst /\ AcceptedIsCurrent
                     /\ part = "apt" => SettledBeforeNetwork /\ SnapshotIsCurrent
                     /\ part = "upgrade" => ActivatesTried
                     /\ part = "context" => RevokedUntilGranted /\ FoundIsReadable
                     /\ part = "profile" => ConfirmedWasShown
<1>1. Init => Inv
  BY ResolutionStart, AptStart, UpgradeStart, ContextOpens, ProfileStart DEF Init
<1>2. Inv /\ [Next]_<<part, vars>> => Inv'
  BY ResolutionStep, AptStep, UpgradeStep, ContextHolds, ProfileStep,
     ResolutionAlone, AptAlone, UpgradeAlone, ContextAlone, ProfileAlone
<1>3. Inv /\ [Next]_<<part, vars>> => [AsUsed]_vars
  BY PackageTrusted, ResolutionKeeps, AptKeeps, UpgradeKeeps, GivenWasGranted, FoundIsGiven, ProfileKeeps,
     PackageAlone, ResolutionAlone, AptAlone, UpgradeAlone, ContextAlone, ProfileAlone
<1>4. QED
  BY <1>1, <1>2, <1>3, PTL DEF DomainsSpec, CurrentWhenUsed

\* A step of the whole is a step of the part, or leaves the part alone.
LEMMA AboutMeAlone == ASSUME [Next]_<<part, vars>> PROVE [AboutMeNext]_amVars
BY DEF Next, Standing, vars

\* A step of the whole is a step of the part, or leaves the part alone.
LEMMA RevisionsAlone == ASSUME [Next]_<<part, vars>> PROVE [RevisionsNext]_prVars
BY DEF Next, Standing, vars

\* What is personal is neither lost nor shown: the summary, the claims and the
\* rejections of the about-me profile, revisions reported staged and every field
\* that is merged, a deleted profile, what the organisation sees and a session
\* may spend, and the chunks of a memory that two targets share
\* (commonkit-about-me, commonkit-personal-context, context_resolver.rs,
\* portable_context_api.rs, engram.rs).
THEOREM PersonalStaysKept == DomainsSpec => []PersonalKept
<1> DEFINE Inv == AboutMeInv /\ RevisionsInv /\ ProfileInv /\ ContextInv /\ EngramInv
<1>1. Init => Inv
  BY AboutMeStart, RevisionsStart, ProfileStart, ContextOpens, EngramOpens DEF Init
<1>2. Inv /\ [Next]_<<part, vars>> => Inv'
  BY AboutMeStep, RevisionsStep, ProfileStep, ContextHolds, EngramGoesOn,
     AboutMeAlone, RevisionsAlone, ProfileAlone, ContextAlone, EngramAlone
<1>3. Inv => PersonalKept
  BY AboutMeKeeps, RevisionsKeep, ContextSafe, EngramShares DEF PersonalKept, ProfileInv
<1>4. QED
  BY <1>1, <1>2, <1>3, PTL DEF DomainsSpec

\* A step of the whole is a step of the part, or leaves the part alone.
LEMMA PlansAlone == ASSUME [Next]_<<part, vars>> PROVE [PlansNext]_plVars
BY DEF Next, Standing, vars

\* A step of the whole is a step of the part, or leaves the part alone.
LEMMA PlanningAlone == ASSUME [Next]_<<part, vars>> PROVE [PlanBuildingNext]_pbVars
BY DEF Next, Standing, vars

\* A step of the whole is a step of the part, or leaves the part alone.
LEMMA OwnershipAlone == ASSUME [Next]_<<part, vars>> PROVE [ProviderPlanNext]_owVars
BY DEF Next, Standing, vars

\* A step of the whole is a step of the part, or leaves the part alone.
LEMMA CompositionAlone == ASSUME [Next]_<<part, vars>> PROVE [CompositionNext]_coVars
BY DEF Next, Standing, vars

\* What is applied is what was composed, planned and approved: no layer
\* weakens another and the most specific one decides, a plan is a function of
\* its operations and runs them in dependency order with forward-only work
\* last, providers keep apart and to the places they may have, and a stored
\* plan is whole, sealed, and applied only while what was sealed still holds
\* (commonkit-config, commonkit-core, planning.rs, production_domains.rs).
THEOREM WhatIsAppliedWasPlanned == DomainsSpec => []PlansStand
<1> DEFINE Inv == PlansInv /\ PlanningInv /\ OwnershipInv /\ CompositionInv
<1>1. Init => Inv
  BY PlansStart, PlanningStart, OwnershipStart, CompositionStart DEF Init
<1>2. Inv /\ [Next]_<<part, vars>> => Inv'
  BY PlansStep, PlanningStep, OwnershipStep, CompositionStep,
     PlansAlone, PlanningAlone, OwnershipAlone, CompositionAlone
<1>3. Inv => PlansStand
  BY PlansKept, PlanningKeeps, CompositionKeeps DEF PlansStand, OwnershipInv
<1>4. QED
  BY <1>1, <1>2, <1>3, PTL DEF DomainsSpec

=============================================================================
