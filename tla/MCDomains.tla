----------------------------- MODULE MCDomains -----------------------------
(***************************************************************************)
(* The domains of the program that share no state, checked in one run: a   *)
(* behaviour is a behaviour of one part, and the others stay as they       *)
(* started.                                                                *)
(***************************************************************************)
EXTENDS Snapshots, ControlPlane, Credentials, Relay, Skills,
        PackageMutation, PackageResolution, ResolverBackends, RemoteHelper,
        RemoteFiles, LocalRelay, Plans, Onboarding, DaemonService,
        ServiceAdapter, Desktop, Engram, ProviderSandbox, ProviderPipeline,
        RemoteResolution, LocalFiles, AboutMe, PersonalContext, Composition

VARIABLE part   \* the part this behaviour is about

TwoGoals == <<"c1", "c2">>
AdapterSets == [p \in {"p1","p2"} |-> IF p = "p1" THEN {"files", "packages"} ELSE {"files", "ssh-files"}]
PlanTargets == [p \in {"p1","p2"} |-> "local"]
TwoFiles == <<"f1","f2">>
LocalName(s,t) == IF t \in {"a.b","a_b"} THEN <<s,"a_b">> ELSE <<s,t>>
SenderCopies == [s \in {"s1","s2"} |-> IF s = "s1" THEN Whole ELSE [Whole EXCEPT ![2] = 0]]
RemoteStarts == {Nothing, Resource("file", "f1", FALSE), Resource("dir", "m1", TRUE), Resource("dir", "m1", FALSE), Resource("link", "t1", FALSE)}
RemotePlans == {Nothing, Resource("file", "f2", FALSE), Resource("dir", "m2", FALSE), Resource("dir", AnyMode, FALSE), Resource("link", "t2", FALSE)}
PublishedFiles == <<"config", "target">>
TargetRoots == {<<"home">>, <<"tmp", "work">>, <<"private", "tmp">>}
TargetControl == <<"tmp", "state">>
TargetManaged == {<<"work">>, <<"state">>}
PlatformAlias == <<"tmp">>
PlatformTarget == <<"private", "tmp">>
LocalFound == {NoEntry, Entry("file", "old", "0644", FALSE), Entry("dir", "-", "0755", FALSE), Entry("link", "there", "-", FALSE)}
LocalIntents == {[kind |-> "file", value |-> "new", mode |-> AnyFileMode, legacy |-> FALSE],
                 [kind |-> "file", value |-> "new", mode |-> "0755", legacy |-> FALSE],
                 [kind |-> "file", value |-> "new", mode |-> "-", legacy |-> TRUE],
                 [kind |-> "dir", value |-> "-", mode |-> "0700", legacy |-> FALSE],
                 [kind |-> "link", value |-> "here", mode |-> "-", legacy |-> FALSE],
                 [kind |-> "removal", value |-> "-", mode |-> "-", legacy |-> FALSE]}
LocalWork == {Entry("file", "mine", "0644", FALSE), Entry("dir", "-", "0755", TRUE), NoEntry}
SpellingOf(t) == "a"
Section(i, s, t, c, z, p, o) == [id |-> i, scope |-> s, trust |-> t, cost |-> c, size |-> z, priority |-> p, order |-> o]
SomeSections == {Section("me", "personal", 0, 2, 1, 1, 1), Section("project", "project", 0, 1, 2, 1, 2), Section("free", "project", 1, 0, 3, 2, 3)}
SomeSessions == {[id |-> "a", trust |-> 0, from |-> 0, until |-> 2, generation |-> 0], [id |-> "b", trust |-> 1, from |-> 1, until |-> 3, generation |-> 1], [id |-> "c", trust |-> 1, from |-> 0, until |-> 1, generation |-> 0]}
SomeGrants == {[id |-> "g0", context |-> "me", trust |-> 0, from |-> 1, until |-> 3, generation |-> 0], [id |-> "g1", context |-> "me", trust |-> 1, from |-> 0, until |-> 2, generation |-> 1]}
SharedKey(a) == "key"
SomeLists == {<<"ann","bob">>, <<"bob","bob">>}
AskedFields == <<"name", "tone">>
Drafts == {<<1,2,3>>, <<3,2,1>>, <<2,3>>, <<2,1,2>>}
Claimed(k, p) == [kind |-> k, path |-> p, leads |-> <<>>]
Universe == {Claimed("file", <<"r","d">>), Claimed("file", <<"r","D">>), Claimed("file", <<"r","d","f">>), Claimed("exact", <<"r","D">>),
  Claimed("exact", <<"r">>), Claimed("directory", <<"r">>), Claimed("remove", <<"r","p","k">>), Claimed("file", <<"o">>),
  [kind |-> "symlink", path |-> <<"r","s">>, leads |-> <<"r","P">>], Claimed("package", <<"apt","git">>)}
ClaimLists == {<<>>} \cup {<<x>> : x \in Universe} \cup {<<x, Claimed("file", <<"r","d","f">>)>> : x \in Universe} 
LowerOf == [s \in {"r","d","D","f","p","P","k","o","s"} |-> IF s = "D" THEN "d" ELSE IF s = "P" THEN "p" ELSE s]
DeclRoots == {<<"r">>}
ProtRoots == {<<"r","p">>}
Pk(i, s) == [id |-> i, source |-> s]
Specs == [k \in {"base", "organisation", "personal"} |->
  CASE k = "base" -> {[deniedPaths |-> {"x"}, packages |-> <<[id |-> "git", source |-> "apt", selector |-> "git-core"], Pk("node","apt")>>], [packages |-> <<Pk("git","apt"), Pk("git","apt")>>]}
    [] k = "organisation" -> {[deniedPaths |-> {"y"}, packageSources |-> {"apt"}, control |-> "required", maximum |-> 3], [control |-> "optional", minimum |-> 1]}
    [] k = "personal" -> {[deniedPaths |-> {}, packages |-> <<Pk("git","ppa"), Pk("fd","apt")>>, packageSources |-> {"apt","ppa"}, maximum |-> 4],
         [packages |-> <<Pk("git","ppa")>>, packageSources |-> {}, style |-> "s", minimum |-> 2, maximum |-> 2], [control |-> "optional", style |-> "t", minimum |-> 0], [style |-> DeleteMark]}]
Lists == {<<"personal","organisation","base">>, <<"organisation","base">>, <<"base","personal">>, <<"base","organisation","base">>}
PlansConsented == {[id |-> "p", resolution |-> "r1", authority |-> TRUE], [id |-> "q", resolution |-> "r2", authority |-> TRUE], [id |-> "q", resolution |-> "r1", authority |-> FALSE]}

Parts == {"snapshots", "restore", "drift", "events", "control",
          "credentials", "relay", "catalog", "skills", "upgrade",
          "canary", "packages", "resolution", "apt", "node", "transfer",
          "remote", "localrelay", "plans", "onboarding", "daemon",
          "services", "desktop", "engram", "sandbox", "pipeline",
          "targetresolution", "fetch", "helper", "files", "aboutme",
          "context", "repository", "revisions", "profile", "planning",
          "ownership", "composition", "consent"}

\* The other parts do nothing.
Standing(p) ==
  /\ IF p = "snapshots" THEN TRUE ELSE UNCHANGED snapVars
  /\ IF p = "restore" THEN TRUE ELSE UNCHANGED restoreVars
  /\ IF p = "drift" THEN TRUE ELSE UNCHANGED driftVars
  /\ IF p = "events" THEN TRUE ELSE UNCHANGED hubVars
  /\ IF p = "control" THEN TRUE ELSE UNCHANGED controlVars
  /\ IF p = "credentials" THEN TRUE ELSE UNCHANGED credVars
  /\ IF p = "relay" THEN TRUE ELSE UNCHANGED relayVars
  /\ IF p = "catalog" THEN TRUE ELSE UNCHANGED catalogVars
  /\ IF p = "skills" THEN TRUE ELSE UNCHANGED skillVars
  /\ IF p = "upgrade" THEN TRUE ELSE UNCHANGED upgradeVars
  /\ IF p = "canary" THEN TRUE ELSE UNCHANGED canaryVars
  /\ IF p = "packages" THEN TRUE ELSE UNCHANGED pkgVars
  /\ IF p = "resolution" THEN TRUE ELSE UNCHANGED resVars
  /\ IF p = "apt" THEN TRUE ELSE UNCHANGED aptVars
  /\ IF p = "node" THEN TRUE ELSE UNCHANGED nodeVars
  /\ IF p = "transfer" THEN TRUE ELSE UNCHANGED transferVars
  /\ IF p = "remote" THEN TRUE ELSE UNCHANGED remoteVars
  /\ IF p = "localrelay" THEN TRUE ELSE UNCHANGED lrVars
  /\ IF p = "plans" THEN TRUE ELSE UNCHANGED plVars
  /\ IF p = "onboarding" THEN TRUE ELSE UNCHANGED obVars
  /\ IF p = "daemon" THEN TRUE ELSE UNCHANGED dsVars
  /\ IF p = "services" THEN TRUE ELSE UNCHANGED svVars
  /\ IF p = "desktop" THEN TRUE ELSE UNCHANGED dkVars
  /\ IF p = "engram" THEN TRUE ELSE UNCHANGED egVars
  /\ IF p = "sandbox" THEN TRUE ELSE UNCHANGED sbVars
  /\ IF p = "pipeline" THEN TRUE ELSE UNCHANGED pvVars
  /\ IF p = "targetresolution" THEN TRUE ELSE UNCHANGED rnVars
  /\ IF p = "fetch" THEN TRUE ELSE UNCHANGED pfVars
  /\ IF p = "helper" THEN TRUE ELSE UNCHANGED thVars
  /\ IF p = "files" THEN TRUE ELSE UNCHANGED lfVars
  /\ IF p = "aboutme" THEN TRUE ELSE UNCHANGED amVars
  /\ IF p = "context" THEN TRUE ELSE UNCHANGED ctVars
  /\ IF p = "repository" THEN TRUE ELSE UNCHANGED roVars
  /\ IF p = "revisions" THEN TRUE ELSE UNCHANGED prVars
  /\ IF p = "profile" THEN TRUE ELSE UNCHANGED ppVars
  /\ IF p = "planning" THEN TRUE ELSE UNCHANGED pbVars
  /\ IF p = "ownership" THEN TRUE ELSE UNCHANGED owVars
  /\ IF p = "composition" THEN TRUE ELSE UNCHANGED coVars
  /\ IF p = "consent" THEN TRUE ELSE UNCHANGED pcVars

Init ==
  /\ part \in Parts
  /\ SnapshotInit
  /\ part # "snapshots" => image = CHOOSE i \in Images : TRUE
  /\ RestoreInit
  /\ part # "restore" => live = CHOOSE c \in Contents : TRUE
  /\ DriftInit
  /\ HubInit
  /\ ControlInit
  /\ CredentialInit
  /\ RelayInit
  /\ part # "relay" => relayFile = NoFile
  /\ CatalogInit
  /\ SkillInit
  /\ UpgradeInit
  /\ CanaryInit
  /\ PackageInit
  /\ ResolutionInit
  /\ AptInit
  /\ NodeInit
  /\ TransferInit
  /\ RemoteInit
  /\ part # "remote" => rfTarget = Nothing
  /\ LocalRelayInit
  /\ part # "localrelay" => lrConfig = <<>>
  /\ PlansInit
  /\ OnboardingInit
  /\ part # "onboarding" => obMode = "create"
  /\ DaemonServiceInit
  /\ ServiceInit
  /\ part # "services" => svNow = Missing
  /\ DesktopInit
  /\ part # "desktop" => dkFile = "none"
  /\ EngramInit
  /\ SandboxInit
  /\ PipelineInit
  /\ TargetResolutionInit
  /\ FetchInit
  /\ HelperInit
  /\ part # "helper" => thRoot = (CHOOSE p \in RootPaths : TRUE) /\ thAccess = "read"
  /\ FilesInit
  /\ part # "files" => lfTarget = NoEntry
  /\ AboutMeInit
  /\ ContextInit
  /\ OnboardingStoreInit
  /\ RevisionsInit
  /\ ProfileInit
  /\ PlanBuildingInit
  /\ ProviderPlanInit
  /\ CompositionInit
  /\ ConsentInit

Next ==
  /\ UNCHANGED part
  /\ Standing(part)
  /\ \/ part = "snapshots" /\ SnapshotNext
     \/ part = "restore" /\ RestoreNext
     \/ part = "drift" /\ DriftNext
     \/ part = "events" /\ HubNext
     \/ part = "control" /\ ControlNext
     \/ part = "credentials" /\ CredentialNext
     \/ part = "relay" /\ RelayNext
     \/ part = "catalog" /\ CatalogNext
     \/ part = "skills" /\ SkillNext
     \/ part = "upgrade" /\ UpgradeNext
     \/ part = "canary" /\ CanaryNext
     \/ part = "packages" /\ PackageNext
     \/ part = "resolution" /\ ResolutionNext
     \/ part = "apt" /\ AptNext
     \/ part = "node" /\ NodeNext
     \/ part = "transfer" /\ TransferNext
     \/ part = "remote" /\ RemoteNext
     \/ part = "localrelay" /\ LocalRelayNext
     \/ part = "plans" /\ PlansNext
     \/ part = "onboarding" /\ OnboardingNext
     \/ part = "daemon" /\ DaemonServiceNext
     \/ part = "services" /\ ServiceNext
     \/ part = "desktop" /\ DesktopNext
     \/ part = "engram" /\ EngramNext
     \/ part = "sandbox" /\ SandboxNext
     \/ part = "pipeline" /\ PipelineNext
     \/ part = "targetresolution" /\ TargetResolutionNext
     \/ part = "fetch" /\ FetchNext
     \/ part = "helper" /\ HelperNext
     \/ part = "files" /\ FilesNext
     \/ part = "aboutme" /\ AboutMeNext
     \/ part = "context" /\ ContextNext
     \/ part = "repository" /\ OnboardingStoreNext
     \/ part = "revisions" /\ RevisionsNext
     \/ part = "profile" /\ ProfileNext
     \/ part = "planning" /\ PlanBuildingNext
     \/ part = "ownership" /\ ProviderPlanNext
     \/ part = "composition" /\ CompositionNext
     \/ part = "consent" /\ ConsentNext

vars == <<snapVars, restoreVars, driftVars, hubVars, controlVars, credVars,
          relayVars, catalogVars, skillVars, upgradeVars, canaryVars,
          pkgVars, resVars, aptVars, nodeVars, transferVars, remoteVars,
          lrVars, plVars, obVars, dsVars, svVars, dkVars, egVars, sbVars,
          pvVars, rnVars, pfVars, thVars, lfVars, amVars, ctVars, roVars,
          prVars, ppVars, pbVars, owVars, coVars, pcVars>>

DomainsSpec == Init /\ [][Next]_<<part, vars>>

-----------------------------------------------------------------------------
(* What each area of the program promises, as the conjunction of the      *)
(* properties its modules state.                                           *)

\* Snapshots on one machine (SnapshotService, PortableAuthorityStore,
\* DurableRestore): whatever two requests, a crash or a failed service command
\* interrupt, the authority history does not fork, an acknowledged snapshot
\* stays described, and a restore never leaves a running service without a
\* database.
SnapshotsKept ==
  /\ part = "snapshots" =>
       /\ SnapshotTypeOK /\ HistoryUnforked /\ AckedKept
       /\ AcceptedDescribed
  /\ part = "restore" =>
       /\ RestoreTypeOK /\ MissingRecoverable
       /\ RunningHasDatabase /\ ServingHasDatabase

\* The daemon tells the truth about what it does (control plane, EventHub,
\* SchedulerStore): a key means one operation, a poller waits for a job that
\* exists, a client of the event stream is told what it missed, and the saved
\* drift status is the one in use, through reloads, timeouts and restarts.
OperationsTold ==
  /\ part = "control" =>
       /\ ControlTypeOK /\ OperationsTruthful /\ RunningHasJob
       /\ KeyMeansOne
  /\ part = "events" => NothingMissed
  /\ part = "drift" => OneWorker /\ ConfigAgrees /\ StatusPersisted

\* Relays serve what is configured (transaction.rs, runtime.rs, relay-
\* manager.ts): the runtime only ever has a configuration the file has held, a
\* tool name means one tool, clients learn of changes, and the timers of the
\* local relay follow what is enabled, although upstreams fail and management
\* calls overlap.
RelaysServe ==
  /\ part = "relay" => RuntimeWasFile /\ RelayRecoverable
  /\ part = "catalog" => OneTool /\ ClientsTold
  /\ part = "localrelay" =>
       /\ TimerMeansEnabled /\ KeptWarm
       /\ ConfiguredIsServed

\* Only reviewed skills and tried providers are in place (commonkit-skills,
\* skill_deployment.rs): held-out cases stay unseen, a promotion is what was
\* approved and can be undone, an installed provider has passed its trial, and
\* a receipt of the canary vouches for what was verified there, whatever dies
\* in between.
SkillsReviewed ==
  /\ part = "skills" =>
       /\ HeldOutUnseen /\ PromotedWasApproved
       /\ PromotionUndoable
  /\ part = "upgrade" => InstalledTried /\ UpgradeRepeatable
  /\ part = "canary" => ReceiptMeansDeployed /\ ServingSettled

\* Packages are the ones that were asked for, checked and agreed to
\* (package_resolution.rs, node_resolution.rs, remote_helper.rs,
\* package_mutation.rs): from approved servers at checked addresses, signed,
\* complete in the store, answered for this request, and installed only with
\* the user's consent to this resolution, while servers, names, targets and
\* plans change.
PackagesGenuine ==
  /\ part = "resolution" => OnlyApprovedContacted /\ ResolutionMeansArtifacts
  /\ part = "fetch" => ContactedIsPublic /\ OneAddressEach /\ NeverTooMuch
  /\ part = "node" => ResolvedIsGenuine /\ EvidenceDescribes
  /\ part = "targetresolution" =>
       /\ KeptIsFresh /\ KeptNamesInstalled
       /\ AppliedAsResolved
  /\ part = "consent" => InstalledAsConsented
  /\ part = "packages" => DoneMeansListed

\* Files that are replaced can be put back (production_domains.rs on
\* credentials, files.rs, ssh_files.rs): the preimage outlives every
\* interruption, what was rolled back leaves nothing behind, and the owner's
\* work since is not overwritten.
FilesRestorable ==
  /\ part = "credentials" => BackupsKept /\ NoHalfApplied
  /\ part = "remote" => PreimageKept /\ FilesRollBack
  /\ part = "files" => RollbackIsExact /\ OwnerWorkKept /\ KilledIsRecognised

\* The helper of a remote target stores whole artifacts and writes only where
\* it may (remote_helper.rs): two senders, damaged copies, lost answers and
\* repeated requests neither store a wrong artifact, nor lose an acknowledged
\* one, nor lead it to its own control paths.
TargetsGuarded ==
  /\ part = "transfer" =>
       /\ StoredIsWhole /\ AckedMeansStored
       /\ InitialisationRecovers
  /\ part = "helper" =>
       /\ ControlPathsKept /\ WrittenWhereValidated
       /\ OneReceiptEach

\* What is applied is what was composed, planned and approved (commonkit-
\* config, commonkit-core, planning.rs, production_domains.rs): no layer
\* weakens another, a plan runs in dependency order with forward-only work
\* last, providers keep apart, and a stored plan is whole, sealed and judged
\* the same wherever it is read, although inputs, executables and layer files
\* change.
PlansStand ==
  /\ part = "composition" =>
       /\ NothingIsWeakened /\ MostSpecificWins
       /\ PackagesMergedOnce
  /\ part = "planning" =>
       /\ PlanRunsInOrder /\ ForwardOnlyLast
       /\ StoredPlanJudged
  /\ part = "ownership" =>
       /\ ProtectedPlacesKept /\ ProvidersKeepApart
       /\ AppliedAsApproved
  /\ part = "plans" =>
       /\ StoreStaysReadable /\ StoredIsSealed
       /\ AppliedIsCurrent

\* A provider runs on the inputs that were approved and leaves nothing behind
\* (pipeline.rs, provider_sandbox.rs): no process, no access, no truncated
\* output, although inputs are edited, copies are changed and limits are
\* reached during the run.
ProvidersContained ==
  /\ part = "pipeline" => StateMeansInputs /\ ExecutedWasScreened
  /\ part = "sandbox" => NothingOutlives /\ SuccessIsWhole /\ AccessRestored

\* Setting up and running CommonKit on a machine is all or nothing
\* (onboarding.rs, portable_onboarding.rs, daemon_lifecycle.rs,
\* service_lifecycle.rs, the desktop): the owner's files survive, only a
\* private repository is connected, only daemons are signalled, services return
\* to what they were, and the daemon in use has the configuration that was
\* reported.
MachinesOnboarded ==
  /\ part = "onboarding" => OwnerFilesKept /\ AllOrNothing
  /\ part = "repository" => ConnectedIsPrivate /\ OneAttemptPerKey
  /\ part = "daemon" => OnlyDaemonsSignalled /\ ServingIsKnown
  /\ part = "services" => FailsOnlyDisturbed /\ ServiceUndone
  /\ part = "desktop" =>
       /\ OnboardedIsServed /\ InstalledWasConfirmed
       /\ InstallationReported

\* What the user told is neither lost, brought back nor shown to others
\* (commonkit-about-me, commonkit-personal-context, context_resolver.rs,
\* engram.rs): summaries, claims, revisions and memories survive overlapping
\* requests and devices, deleted and rejected ones stay away, and a session
\* sees what it was granted.
PersonalKept ==
  /\ part = "aboutme" =>
       /\ ToldSummaryKept /\ ReplacedOnce /\ RejectedNotOffered
       /\ ConfiguredOpens
  /\ part = "revisions" =>
       /\ AcknowledgedKept /\ RecipientsRead
       /\ MergeKeepsBoth
  /\ part = "profile" => DeletedStaysDeleted
  /\ part = "context" => OrganisationSeesNoPersonal /\ BudgetHeld
  /\ part = "engram" => ManifestIsBacked /\ ResolvedMeansShared

\* No step changes what is settled: a terminal run (control plane), a server
\* CommonKit does not manage (relay), a chunk a manifest names (engram), a
\* context receipt, the repository and the registration of an onboarding
\* attempt.
NothingRewritten ==
  [][ /\ part = "control" => AppliedOnce
      /\ part = "catalog" => UnmanagedKept
      /\ part = "engram" => EntriesKept
      /\ part = "context" => ReceiptsKept
      /\ part = "repository" => NodeBoundOnce /\ RegistrationBoundOnce]_vars

\* A step that reports something undone, restored or recovered has put back
\* exactly what was there, from a record that was really written (credentials,
\* remote files, the canary, package recovery, the admission of a receipt).
UndoneExactly ==
  [][ /\ part = "credentials" => RollbackRestores
      /\ part = "remote" => RolledBackExactly
      /\ part = "canary" => RestoredIsSeen
      /\ part = "packages" => NeverOverPartial
      /\ part = "consent" => AdmittedWasWritten]_vars

\* A step that acts on something checked earlier acts on what still holds:
\* trust, policy and host of a package, the trial of a provider, the grants of
\* a session, the value a user confirmed (the second look of prepare_offline,
\* validate, resolve_apt_on_linux, activate, resolve_context, confirm_pending).
CurrentWhenUsed ==
  [][ /\ part = "packages" => StartedUnderTrust
      /\ part = "resolution" => PreparedFirst /\ AcceptedIsCurrent
      /\ part = "apt" => SettledBeforeNetwork /\ SnapshotIsCurrent
      /\ part = "upgrade" => ActivatesTried
      /\ part = "context" => RevokedUntilGranted /\ FoundIsReadable
      /\ part = "profile" => ConfirmedWasShown]_vars
=============================================================================
