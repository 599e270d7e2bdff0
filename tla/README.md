# TLA+ verification of CommonKit

CommonKit keeps the set-up of developer machines (files, packages, credentials,
MCP relays, agent skills) in line with a reviewed plan, and runs jobs on a remote
worker. This directory holds TLA+ models of its daemons, adapters and companions, the
TLC configurations that check them on small instances, and proofs for TLAPS of what they promise. All paths below are relative
to the repository unless they name a module.

1. [The system](#1-the-system)
2. [Modules and the code they model](#2-modules-and-the-code-they-model)
3. [Runs](#3-runs)
4. [Bounds](#4-bounds)
5. [Fairness](#5-fairness)
6. [Proofs](#6-proofs)
7. [Disagreements found](#7-disagreements-found)
8. [What is not modelled](#8-what-is-not-modelled)
9. [Plan](#9-plan)

## 1. The system

Two daemons carry the logic. The *local daemon* (`commonkit-service`) accepts
plans and confirmations over a loopback API and executes them with the
*reconciliation engine*. The *execution daemon* (`commonkit-execd`) keeps jobs in
SQLite, hands out leases on them and runs them with an embedded worker. The
command line, the MCP tools and the desktop application are clients of the two.

### Reconciliation engine (`crates/commonkit-reconcile`, `Reconciler`)

- State: a `TransactionReceipt` for each run (state of the run, phase of each
  operation, exit evidence of each package), durable in a `ReceiptStore`; the
  locals of the call in progress; the machine the adapters act on.
- Operations: `execute`, `recover_run`, `rollback_succeeded_run`. A plan's file
  operations (`ExactRollback`) are applied and verified first and can be undone;
  its package operations (`ConvergeForwardOnly`) come after a durable barrier,
  behind which a run can only converge forward.
- Interaction: calls adapters (`prepare`, `apply`, `verify`, `rollback`,
  `observe_recovery`), persists the receipt after every change, is called by
  `LocalPlanExecutor` of the service.
- Hard: a stop between any two steps; adapters that fail half-way; recovery from
  the receipt alone, itself interrupted, any number of times.
- Correct when: the barrier is one-way; every change of the machine was announced
  by a durable checkpoint; a committed run is in place and an undone one restored;
  no receipt a stop can leave is a dead end.

### Receipt store (`ReceiptStore` in the same crate)

- State: a directory with one immutable snapshot file for each transition of a
  run, temporary files, and in memory a `recovery_lock` for each opened store.
- Operations: `open`, `load`, `persist` (compare with the newest snapshot, write
  and sync a temporary file, rename), `with_recovery_lock`.
- Interaction: used by the executor, which opens one store for the life of the
  daemon, and by the rollback request of `production_domains.rs`, which opens one
  for each request.
- Hard: concurrent callers between check and rename; crashes between creating and
  renaming; journals that were overtaken.
- Correct when: the snapshots are one chain, what was acknowledged is there, and
  the receipt a caller loads only ever grows.

### Execution scheduler (`crates/commonkit-execution`, `Scheduler`)

- State: SQLite tables of jobs, attempts, leases, checkpoints, artifacts, receipts
  and events.
- Operations: `submit`, `acquire`, `renew`, `transition`, `checkpoint`,
  `commit_artifact`, `complete`, `cancel`, `retry`, `resume`, `recover_expired`;
  each is one transaction.
- Hard: workers that hold expired or replaced leases; cancel and retry while a
  lease lives; recovery that meets attempts which already have an outcome.
- Correct when: fencing tokens are never shared, stale workers write nothing, an
  outcome and its receipt never change, a job has at most one open attempt.

### Execution daemon (`crates/commonkit-execd`)

- State: the scheduler behind a mutex; the locals of `run_once`, the embedded
  worker; what remote workers remember of their leases.
- Operations: the steps of `run_once` (acquire, check, prepare, run, poll, renew,
  publish, complete), the HTTP handlers, recovery at start.
- Hard: the mutex is free between any two scheduler calls of the worker, so every
  handler can come in between; the daemon dies anywhere; leases expire anywhere.
- Correct when: the above holds across all of that, and `run_once` always returns.

### Snapshots and portable publication (`crates/commonkit-snapshots`)

- State: on each machine descriptors, the authority record (pointer, history,
  publish intent, anchor, lock file), the pending publication, promotions, restores;
  shared: a git branch with the authority, and the reference of its anchor.
- Hard: machines publish at the same time and die between push, local reference,
  anchor and cleanup; reads repair interrupted writes; a restore replaces the database
  of a running service.
- Correct when: what a machine trusts is a prefix of what is shared, a receipt stands
  for a change that happened, and an interrupted publication is completed or found to
  be overtaken, never done twice.

### The local daemon around the engine (`crates/commonkit-service`)

- State: operations, idempotency keys, executors and events in memory; sealed plans,
  credentials with their backups, drift status and receipts on disk.
- Hard: reloads replace executors under running jobs; checks time out and leave their
  workers behind; inputs, executables and files move between plan and apply.
- Correct when: clients are told the truth, an apply is what was approved, and what
  was overwritten can be put back.

### Adapters (`crates/commonkit-adapters`)

- Files here and over ssh, packages (resolution through apt or node, fetch, offline
  application), services, engram memory, and providers (apm, chezmoi) that run in a
  sandbox and produce desired state.
- Hard: the owner, the package manager, servers and name servers act between check and
  use; requests to a target are repeated, lost or answered late; a kill leaves half of
  a change.
- Correct when: preimages survive, only approved and genuine packages are installed,
  recovery acts on what it observes, and a provider sees only approved inputs and
  leaves nothing running.

### Skills, relays, personal context, onboarding, desktop

Skills are proposed by optimizers, evaluated on held-out cases, approved, promoted and
deployed to a canary (`commonkit-skills`, `skill_deployment.rs`). The relay of the
daemon (`commonkit-relay`) and the local MCP relay (`packages/mcp-local-relay`) serve
the tools of upstream servers while configurations change. The personal profile
(`commonkit-about-me`, `commonkit-personal-context`, `context_resolver.rs`) is edited,
merged between devices, deleted and shown to sessions. `commonkit init`
(`commonkit-cli`), the connection of a context repository, the daemon's service
commands and the desktop set all of this up. Each has its own state on disk, and its
hazards are a crash or a concurrent request between two of its writes.

`PROJECT.json` lists every component with its sources, and under `hazards` what is
hard to test, by line.

## 2. Modules and the code they model

| Module | Models | Used by |
| --- | --- | --- |
| `Reconcile` | a run of the reconciliation engine with adapters, stops and recovery | `MCReconcile`, `ReconcileProofs` |
| `RunContract` | what a run promises: reversible, then one-way, then committed | refined by `Reconcile` |
| `ReceiptStore` | the snapshots of one run, the lock and the callers | `MCReceiptStore`, `ReceiptStoreProofs` |
| `ReceiptLog` | an append-only history | refined by `ReceiptStore` |
| `Scheduler` | the tables and transactions of the execution scheduler | extended by `Execd` |
| `Execd` | daemon, worker, HTTP clients and sessions around the scheduler | `MCExecd`, `ExecdProofs` |
| `JobContract` | attempts of a job: numbered, one open, outcomes final | refined by `Execd` |
| `Publication` | the snapshot authority shared by machines through git | `MCPublication` |
| `Authority` | one append-only history of writers and accepted heads | refined by `Publication` |
| `ReconcileProofs`, `ReceiptStoreProofs`, `ExecdProofs`, `PublicationProofs` | the theorems about these modules | section 6 |
| `MachineProofs`, `DaemonProofs`, `PlanProofs`, `DomainsProofs` | inductive invariants of the parts below; the theorems about them | section 6 |

The other modules are parts that share no state with each other; `MCDomains` checks
them all. A module holds one part, or several that belong to one component.

| Module | Parts (code) |
| --- | --- |
| `Snapshots` | the authority store of one machine; durable restore (`commonkit-snapshots`) |
| `ControlPlane` | applies, keys, operations, reloads; the event history; the drift check (service `lib.rs`) |
| `Plans` | building, sealing, storing and accepting plans (`production_domains.rs`, plan store); `build_plan` and the judgement of a stored plan (`commonkit-core`); the claims of several providers and their comparison (`planning.rs`, `resources.rs`) |
| `Composition` | layers, merge rules and the policy floor (`commonkit-config`, `commonkit-core`) |
| `Credentials` | credential files (`production_domains.rs`) |
| `LocalFiles` | one path of this machine (`files.rs`) |
| `RemoteFiles` | one path over ssh (`ssh_files.rs`, `target.rs`) |
| `RemoteHelper` | the chunked transfer to a target; the places the helper may write and its receipts (`remote_helper.rs`) |
| `RemoteResolution` | packages resolved and applied on a target (`remote_helper.rs`, `production_domains.rs`) |
| `PackageResolution` | preflight to accepted resolution; the pinned fetch (`package_resolution.rs`, `production_domains.rs`) |
| `ResolverBackends` | apt and node (`apt_resolution.rs`, `node_resolution.rs`) |
| `PackageMutation` | offline application and recovery by observation (`package_mutation.rs`); consent and the admission of a receipt (engine) |
| `ProviderPipeline`, `ProviderSandbox` | materialisation (`pipeline.rs`, `apm.rs`, `chezmoi.rs`); the sandboxed run (`provider_sandbox.rs`) |
| `ServiceAdapter`, `Engram` | a platform service (`service_lifecycle.rs`); engram memory of two targets (`engram.rs`) |
| `Relay` | the relay file and runtime under a run; the tool catalog (`commonkit-relay`) |
| `LocalRelay` | management calls, refreshes and timers at every await (`relay-manager.ts`) |
| `Skills` | candidates to promotion and undo; provider upgrades; the canary (`commonkit-skills`, `skill_deployment.rs`, `skill_canary.rs`) |
| `AboutMe` | the about-me store and its set-up (`commonkit-about-me`) |
| `PersonalContext` | encrypted revisions; interview and deletion; what a session may read (`commonkit-personal-context`, `context_resolver.rs`, `portable_context_api.rs`) |
| `Onboarding` | `commonkit init` (`onboarding.rs`); connecting a repository (`github_onboarding.rs`, `portable_onboarding.rs`) |
| `DaemonService`, `Desktop` | service commands (`daemon_lifecycle.rs`); desktop, daemons and updates (`apps/desktop`) |

`MCReconcile`, `MCReceiptStore`, `MCExecd` and `MCPublication` only add the values of
constants. Definitions whose comment
begins with "Mutant:" are wrong versions of the definition after them; replacing
that definition by the mutant makes a run fail, which shows the property to
depend on it.

### Reconcile

`state`, `phase` and `exit` are the receipt as `load` returns it. The code
persists after every change of its journal, so a running engine's journal and the
durable receipt agree between steps and one copy is enough; that a persist is
atomic is what `ReceiptStore` shows. `target` is each resource as
`RecoveryObservation` can describe it: before, after, or something else. `pc`,
`cur`, `todo` and `rollback_failed` are the locals of the call; `Stop` loses them.

Each persisted checkpoint and each adapter call is an action of its own, so a stop
falls between any two. The journal's own tables (`legal_transition`,
`legal_operation_transition`) are guards: a step that they refuse is disabled, and
`JournalAcceptsEngine` says this never happens to a running engine. An adapter call
either does what it says or faults; a fault of `apply` leaves any of the three
states and any answer. The file adapter's rollback accepts a file in its after
state or an absent one, and refuses everything else, its own preimage included, as
`files.rs:629` does.

`Execute` is `execute_durable` for a run without receipt; `Recover` is
`recover_run` from each receipt that is not terminal; `RollbackSucceeded` is the
explicit rollback. Nothing outside the engine changes the resources during a run.
One call at a time works on a run here; several calls are the subject of
`ReceiptStore`.

### ReceiptStore

A history is the sequence of transitions of a receipt. The name of a snapshot is
its sequence number and the digest of its last entry, and the digest covers all
earlier entries, so a history stands for its own file name. `Loadable` is the
check of `load_unlocked`. A writer is a call in flight: an execution takes the lock
for each persist, a session (recovery, rollback) from load to return. `persist` is
three steps: `Check` (the comparisons, under the lock), `CreateTemporary`
(`create_new`, write, sync) and `Rename`. `StoreOf` says which `ReceiptStore` value,
hence which lock, each writer has. `ExecutionLock` is the mutex of
`LocalPlanExecutor`; the library itself does not require it.

### Scheduler and Execd

Each method of `Scheduler` is one transaction made under the daemon's mutex and is
one step; `CanX` is the test that makes the method return `Ok`. The rows of
`attempts` are functions of job and number; `artifact[j]` and `checkpoint[j]` are the
attempt that owns the row, for manifests with one artifact name and one stage. A
lease has a flag `live` instead of a time: `Expire` clears it, and a renewal that
comes in time is a lease that does not expire. Which queued attempt fits which
target is left open. `Cancel` keeps the lease, as the code does.

`Execd` follows `run_once` call by call, with an action for each piece of code
between two times the mutex is taken. An error of the scheduler ends `run_once` and
leaves everything as it is. Sessions are workers that use the HTTP API under the
same worker identity; they keep, repeat, delay or forget their lease. `Crash` loses
everything but the tables; `Start` selects the expired leases and `StartupRecover`
handles one at a time, as `recover_expired` does, each in a transaction of its own.

### Publication

Each machine has a clone (`head`, `tree`), a trusted anchor, a pending file and the
promotions it prepared. The revision of an authority record is the digest of the
record and its predecessor's revision, so a history stands for the record. A
publication commits in an isolated clone, writes the pending file, pushes without
force together with the anchor reference, moves the local reference, installs the
subtree, advances the anchor and removes the pending file; a machine can crash between
any two. `recover_pending_publication` runs at start. A promotion may be requested
again under the same confirmation: `prepare_promotion` accepts the equal plan in whatever
phase its run is, so that `PreparePromotion` has a second disjunct, and a run that is not
prepared any more is refused only when it is confirmed, after its publication
(`PromotionFails`). `at` is the generation of the revision that the phase `CasConfirmed` or
`Aborted` names. `Authority` is the shared history as the machines promise to change it.

### MCDomains and its parts

The variable `part` names the part a behaviour is about; the others keep their initial
state, so that the reachable states are the sum and not the product of the parts'.
Nothing is lost: the parts share no variables, and where one relies on another (the
control plane on the run, an apply on its plan) it has that contract as a step of its
own. Prefixes of variables (`pl` for plans, `lf` for local files, ...) tell the parts
apart. The header of each part says what is abstract: digests are what they digest,
encryption is a record only its recipients read, contents and packages are model
values. The owner, other programs, servers and platform services are actions of their
own with a named bound and are marked external in `PROJECT.json`.

## 3. Runs

| Run | Instance | Shows |
| --- | --- | --- |
| `reconcile_mixed` | files and packages alternating, N = 4 | `TypeOK`; `NoRollbackPastBarrier`; `MutationsAreCheckpointed`; `CommitMeansApplied`; `EvidenceBeforeRecovered`; `JournalAcceptsEngine`; refinement of `RunContract`; `RunSettles` |
| `reconcile_files` | three files, one of them created | `UndoneMeansRestored` and `ReverseOrder`, with explicit rollback of succeeded runs and rollbacks resumed up to three times |
| `reconcile_forgotten` | the same | violation of `RolledBackRestores` |
| `reconcile_startup` | files and packages | violation of `StartupConverges` |
| `receipts_shared` | three callers, one store, no execution lock | `TypeOK`; `SnapshotsFormChain`; `AckedIsDurable`; `SessionIsCurrent`; refinement of `ReceiptLog` |
| `receipts_own` | an executor and two rollback requests, a store each | violation of `SnapshotsFormChain` |
| `receipts_retry` | one caller that keeps asking | violation of `RunCompletes` |
| `execd_sessions` | worker, two sessions, one job with three attempts | `TypeOK`; `NoSharedFence`; `ReceiptMatches`; `FencedWrites`; refinement of `JobContract`; `WorkerReturns` |
| `execd_startup` | worker only, two attempts | violation of `StartupCommits` |
| `publication_shared` | two machines, two contents, a promotion each, three commits | `TrustShared`; `ReceiptsHappened`; `AbortedOrReversed`; `InterruptedIsPending`; refinement of `Authority` |
| `domains` | the 39 parts of `MCDomains`, one at a time | eleven invariants and three action properties, one for each area below |
| `provider_retry` | `ProviderPipeline` | violation of `RetryProceeds` |

The properties in words:

- `NoRollbackPastBarrier`: a run that is being or has been rolled back or canceled
  never touched a package. Recovery decides this from phases alone.
- `MutationsAreCheckpointed`: no resource differs from its before state without a
  durable phase from which a restart would find it.
- `CommitMeansApplied`, `UndoneMeansRestored`: what a terminal receipt says of the
  machine is so, after any sequence of stops, faults and recoveries. The second
  excepts operations that the receipt itself shows as `RollbackFailed`.
- `EvidenceBeforeRecovered`: no package counts as recovered before its evidence is
  durable and it is installed.
- `ReverseOrder`: no operation is undone while a later one is still applied.
- `JournalAcceptsEngine`: no receipt is a dead end: the journal accepts all that the
  engine writes (`StateWrites`, `PhaseWrites`), a running engine has a step, an apply
  finds the resource in its before state, and recovery has an entry for every receipt
  that is not terminal.
- `RunContract`: files change only before the barrier, packages only after it, and
  nothing is committed that is not in place.
- `SnapshotsFormChain`, `AckedIsDurable`, `SessionIsCurrent`, `ReceiptLog`: the
  history never forks or has a gap; a persist that returned has its journal on disk;
  nobody overtakes a session; what `load` returns grows by one entry at a time.
- `NoSharedFence`: however stale, no two holders of a lease of a job have the same
  token. `FencedWrites`: an artifact, a checkpoint or a receipt appears only for the
  attempt with the newest token, under its live lease.
- `ReceiptMatches`: a job's receipt stays true for ever.
- `JobContract`: attempts are numbered without gaps up to the limit, at most the
  last is open, an outcome never changes, whatever cancel, retry, late workers and
  recovery do.
- `RunSettles`, `WorkerReturns`: see section 5.
- `TrustShared`: the anchor and the worktree of a machine are never on another branch of
  the authority than the shared one. `ReceiptsHappened`: a promotion with a receipt is
  in the shared history. `AbortedOrReversed`: a promotion that start-up aborted had not
  been published by the revision that the abort names, or the writer had gone back by
  then, which recovery cannot tell apart. It does not say that the run is never published
  later: the same request, repeated, does that (section 7).
  `InterruptedIsPending`: a worktree that differs from HEAD always has the pending file
  from which start-up completes it. `Authority`: the shared history is append-only, and
  a record changes the head or the writer, never both.

A property of the run `domains` states one area. Each is a conjunction of what the
parts of the area promise; every conjunct is defined, with a comment that names the
code, at the end of its part.

| Property | States |
| --- | --- |
| `SnapshotsKept` | the authority of a machine does not fork (`HistoryUnforked`), acknowledged snapshots stay described (`AckedKept`, `AcceptedDescribed`), a missing database is recoverable and never served (`MissingRecoverable`, `RunningHasDatabase`, `ServingHasDatabase`) |
| `OperationsTold` | success is reported only for a succeeded run (`OperationsTruthful`), pollers wait for an existing job, a key means one operation, a client is told of missed events (`NothingMissed`), one drift worker, saved status is the one in use |
| `RelaysServe` | the runtime has what the file has held, an interrupted run can be rolled back, a tool name means one tool, clients are told, timers follow what is enabled |
| `SkillsReviewed` | held-out cases stay unseen, promotions were approved and are undoable unless their worker failed or died, providers were tried, a canary receipt means a verified deployment |
| `PackagesGenuine` | approved sources, public and pinned addresses, genuine and complete artifacts, answers of this request, consent to this resolution |
| `FilesRestorable` | backups of unfinished work outlive every interruption, nothing stays half applied (with the exception below), rollbacks are exact, the owner's later work is kept |
| `TargetsGuarded` | artifacts on a target are whole, acknowledged ones stored, control paths kept, one receipt for each run |
| `PlansStand` | no layer weakens another, each field of a package from the most specific layer that sets it, dependency order, forward-only work last, a stored plan is judged the same everywhere, providers keep apart, sealed before visible, applied as approved and as current |
| `ProvidersContained` | the state belongs to the screened inputs, nothing outlives a run whose wait did not fail, success means whole output, access is taken back |
| `MachinesOnboarded` | owner files survive, all or nothing once the journal is gone, only a private repository, only daemons are signalled, services restored, the daemon in use has the reported configuration, updates were confirmed |
| `PersonalKept` | nothing told is lost, rejected and deleted claims stay away, recipients can read, merges keep both sides, sessions see what they may, manifests are backed by chunks |
| `NothingRewritten` | terminal runs, unmanaged servers, shared chunks, context receipts and bound repositories never change |
| `UndoneExactly` | a step that reports something undone or recovered has put back what was there, from a record that was written |
| `CurrentWhenUsed` | trust, policy, host, trials, grants and confirmed values are looked at again when they are used; no server is contacted for a refused package and nothing kept of a state that could not be prepared |

Exceptions are part of a conjunct where the code has them, for example
`StoredIsSealed` (two first requests that race to make the sealing key) and
`AppliedIsCurrent` (inputs that move while the plan is being built). Where an error path of
the code leaves something behind, the conjunct names that path and nothing else:

- `PromotionUndoable` excepts a promotion that is on its way or that ended with an error or
  the death of its worker: after `atomic_replace` (`commonkit-skills/src/lib.rs:1619`) the
  second reading, the sync of the directory or the writing of the receipt may fail, and the
  file stays promoted (`PromotionFails`).
- `NoHalfApplied` excepts attempts in `Doubtful`: their receipt says `succeeded` although
  the write of it reported an error, so that they are being undone, by truncating and
  rewriting each file in place (`MayLeave`), and no recovery looks at them again
  (`production_domains.rs:4880-4885`).
- `OwnerFilesKept` lets the backup of one file go alone when the push of the journal's
  revision did arrive: recovery takes publication after publication
  (`onboarding.rs:919-928`) and may stop at one that a rollback has already undone.
- `NothingOutlives` excepts a run whose wait failed (`provider_sandbox.rs:231-238`).
- `ExecutedWasScreened` excepts a copy that was changed between its last verification and
  its use; of such a run nothing is kept.
- `PackagesMergedOnce` speaks of the fields of a package: `merge_by_id` merges two items of
  one id as maps, so a `selector` of a lower layer stays when the layer above has none.
- `FoundIsReadable` speaks of the sections a search lists and of responses with room for
  the section, since `retrieve` may refuse with `ResponseTooLarge`.

## 4. Bounds

- Plans of three or four operations: rollback order needs two applied operations
  and one between them that fails; the mixed plan has a file before and after a
  package and two packages, so that one can be settled and the other not. Two stops
  (three for files) and two faults let a recovery be interrupted and fail as well.
  `MaxCrashes` and `MaxFaults` are the bounds.
- Receipt store: three callers, so that a third can meet what two have left; four
  transitions: one each before, at and after `Succeeded`, and one more; two distinct
  ordinary values, so that histories of the same length can differ (`MaxLen`,
  `MaxStops`).
- Scheduler: jobs share no rows, so one is enough for what holders of the same job
  do to each other; three attempts let recovery and retry both happen; two sessions
  and the worker give three generations of leases (`MaxAttempts`). The daemon may
  crash and leases expire any number of times.
- Publication: two machines and three commits let one machine's publication be
  overtaken while it is down; one promotion for each machine; contents and machines are
  symmetric (`MaxCommits`). Checkouts of the isolated clone succeed or die with the
  process, and a machine pulls between two operations, not inside one.
- `Domains.cfg` names the bound of each part (`MaxHostMoves`, `MaxFaults`, `MaxParts`,
  ...): two actors where the code allows two, one or two moves of the owner or a server,
  and one more crash than a recovery needs, so that recovery is itself interrupted. Two
  values are enough to tell old from new, three where a third party's must differ from
  both. About 650,000 states over all parts.

The theorems of section 6 hold for every value of the constants.

Deadlock checking is off where the system may stop: a run that is settled with its
bound of stops used up, a store whose callers have all returned, and the parts of
`MCDomains`, most of which end when their requests and bounds are used up. It is on in
`Execd`, where the daemon can always crash and start.

## 5. Fairness

- `FairEngine`: a call that is running goes on (the engine is a loop without
  waiting), and the service manager restarts a dead daemon.
- `FairRecovery`, for `RunSettles`: in addition an interrupted run is taken up
  again. The code leaves this to the caller, who applies the plan with the same
  confirmation again or calls `recover_pending`; `StartupConverges` is the same
  question without that assumption, and fails.
- `FairSpec` of the receipt store: a started call goes on and the caller asks again.
- `LiveSpec` of the execution daemon, for `WorkerReturns`: the worker task runs while
  the daemon does; a process ends (the supervisor kills it at its time limit);
  systemd starts the daemon again (`Restart=on-failure`, `RestartSec=5` in
  `scripts/deploy-execd.sh`); time passes. Clients, sessions, faults and crashes have
  no fairness.

## 6. Proofs

All theorems are of the unrestricted specification: any plan, any set of callers, jobs,
sessions, machines, files and servers, any limit. They do not use fairness.

Assumptions. `PlanAssumption` (a plan has operations, packages are some of them, created
files are some of the others); `AttemptsAssumption` (the limit is a natural number; zero
counts as one, as in the code); `NoJobAssumption`; `HostsAssumption` and `RunsAssumption`
(names that the code reserves are nobody's). The others only say of which form the
constants are: bounds are natural numbers (`BoundAssumption`, `BoundsAssumption`,
`LimitAssumption`, `HubBounds`, `IntervalBounds`, `RelayBounds`, `PipelineBounds`,
`SkillBounds`, `CanaryBounds`, `LocalRelayBounds`), stores, plans and paths are what the
code makes them (`StoreAssumption`, `PlanShapes`, `HelperPaths`, `TransferShape`,
`RestoreRuns`, `OwnedAreFiles`, `UnsafeAreAddresses`), and files and resources have the
fields of their kind (`FileShapes`, `RemoteShapes`). `FetchBounds`, `GenerationsCount` and
`BudgetsCount` say that limits, generations and budgets are natural numbers,
`SectionsNumbered` and `SessionsNamed` that sections and sessions are kept under their
identifiers, as `portable_context_api.rs` keeps them in ordered maps, and
`LocatorsAreOthers` that no root is called like the places of an artifact that was
fetched.
`ClaimsListed`, `LayersKnown` and `OperationsOrdered` say that claims, paths, packages,
lists of layers and drafts are sequences, that the layers are of the kinds `LayerKinds`
names, and that there are finitely many operations, whose digests are ordered;
`InputsGiven` that there are inputs and executables at all.
Three say more: `CatalogBounds`
(configurations name finitely many servers and a server offers finitely many tools),
`CredentialBounds` (a credential set has files; the code refuses an empty one,
`production_domains.rs:1105`) and `LimitBelowBound` (a provider can exceed its limit).

**`ReconcileProofs`**: `TypeCorrect`, `OneWayBarrier`, `WriteAhead`, `CommittedInPlace`,
`EvidenceFirst`, `UndoneRestored`, `RollbackReversed`, `JournalAccepts`,
`WritesAreNamed`, `CallsEnd` and the refinement `Implementation`. The properties speak of the receipt and the machine; none is
inductive, since what a step does depends on where the engine is. `SafetyInv` adds:
`StateAt` (which receipt state goes with which `pc`), `Barrier` (packages are
unstarted in every reversible state), `Locals` (the phase of the current operation at
each step), `Progress` (what the phases of the other operations are in each state and
what they say of the machine), `Checkpoints` (write-ahead for each operation) and
`Rollbacks` (the operations still to undo lie before those already undone). The
refinement takes each action from a state of `SafetyInv` to a step of `RunContract`.

`JournalAccepts` needs `JournalFacts` besides: past `Prepared` every operation has a
phase from which its next one is legal, what a rollback still has to undo was started,
and an operation about to be applied is in its before state. That the loops find their
next operation is `FirstOp` and `LastOp`: a set of operations that is not empty has a
first and a last one. `WritesAreNamed` shows that the engine writes nothing that
`StateWrites` and `PhaseWrites` leave out. `CallsEnd` gives the measure by which each
step of a call goes down: the part of the call (`Stage`), the operations its loop still
has to visit (`Left`, a set that only shrinks), the place in the loop's body (`InBody`);
`MeasureBounded` bounds it by the plan. With `JournalAccepts` it follows that a call
which is not stopped returns.

**`ReceiptStoreProofs`**: `ChainIntact`, `AckedDurable`, `SessionsCurrent`,
`AppendOnly` and typing, under the hypothesis `OneStore` (all callers use one
`ReceiptStore`). The run `receipts_own` shows that the hypothesis is needed.
`StoreInv` adds to the chain who holds the lock (`LockHeld`) and how each journal in
memory relates to the files (`Journals`): past `Check`, a journal is longer than every
snapshot and its prior history is among them, and only the holder of the lock is
there, so the rename adds the next element of the chain.

**`ExecdProofs`**: `ExecdTypeCorrect`, `FencesDistinct`, `ReceiptsTrue`,
`StaleCannotWrite`, `RunOnceAdvances` and the refinement `ContractImplemented`. `IInv` adds: `Rows`
(attempts up to `last` exist and only the last can be open), `TokenOrder` (tokens
grow with attempt numbers, so the maximum plus one is fresh), `LeaseIsNewest` (the
lease belongs to the attempt assigned last, which has no receipt), `Receipts`,
`Holders` (what a worker remembers is what the attempt was given), `Recovering` and
`Decided`. Fencing then follows: a call that passes `assert_fence` is for the newest
token, and the attempt it writes for has no receipt that could become wrong.
`RunOnceAdvances` orders the steps of `run_once` (`Rank`): each worker step goes down or
is a round of the poll while the process lives, and nobody else's step takes it back.

**`PublicationProofs`**: `PublicationInvariant`, `HostsTrustShared`,
`PromotionsHappened`, `AbortsAreSafe`, `CrashesLeavePending` and the refinement
`PublicationRefinesAuthority`. The central fact is `BranchGrows`: no commit takes
anything out of the history of an earlier one, so that an anchor, which is the history of
some commit, is a prefix of the branch. A push keeps it because the clone it was made in
starts at the commit it expects to replace and the push is not forced. `Worktrees` and
`Operations` say what a host has read, committed and pushed at each step, and that only an
interrupted installation, whose commit the pending file names, leaves a worktree that is
not HEAD's. `PromotionRuns` and `PromotionCommits` tie a promotion to its commits; up to
the revision that it was aborted at, a run has none, or its later commit goes back.

**`MachineProofs`**, **`DaemonProofs`**, **`PlanProofs`**, **`DomainsProofs`**: the areas of
`MCDomains`. The first three prove of each part that its invariant holds at first and is
kept by every step, and that it implies what the part promises; the last combines the
parts of an area. A
step of the whole is a step of the part or leaves its variables alone, so each part
keeps its invariant whatever the others do.

| Theorem | Property | Invariants, and why they are needed |
| --- | --- | --- |
| `SnapshotsSurvive` | `SnapshotsKept` | `StoreInv`: pointer, publish intent and history of the disk form one line (`HistoryLine`); what a lister and a creator have read is a stage of that line (`ListerHolds`, `CreatorHolds`). `RestoreInv`: a missing database always has a receipt from which it can be put back |
| `DaemonsTellTheTruth` | `OperationsTold` | `ControlInv`: one job for each operation, so that two reloads cannot both report it. `HubInv`: the ring is consecutive. `DriftInv`: the busy flag counts the worker, also one whose check timed out |
| `RelaysServeTheirFile` | `RelaysServe` | `RelayInv`: the states an interrupted run may resume to were in the file. `CatalogInv`: no two servers offer one name, by counting pairs and names. `LocalRelayInv`: every handler in flight that will arm a timer is counted as one (`Warm`) |
| `OnlyReviewedSkills` | `SkillsReviewed` | `SkillInv`: a worker past its check holds an approved candidate, and a promotion without receipt belongs to a worker that is at it or was cut short. `UpgradeInv`: what was moved was tried. `CanaryInv`: the records of a run appear in order, whichever worker died (`RecordsInOrder`, `CanaryWorkers`) |
| `FilesCanBePutBack` | `FilesRestorable` | `CredentialInv`: the open backup is the newest and backups hold whole files; what an undoing or a recovery has passed is as the backup has it (`ApplyHolds`). `RemoteInv`: the backup projects to what was planned, and is the target's state until something was written. `FilesInv`: the writes that are left lead to the preimage (`LeadsBack`), and the owner's work differs from what was planned or fills a directory that the next write spares (`MineApart`) |
| `TargetsStayGuarded` | `TargetsGuarded` | `TransferInv`: the partial file is a sequence of chunks under one metadata. `HelperInv`: what is held open is what was validated |
| `ProvidersStayContained` | `ProvidersContained` | `PipelineInv`: a copy is what was approved or shows that it changed, until the verification after the run. `SandboxInv`: access belongs to a run that has not ended |
| `PackagesStayGenuine` | `PackagesGenuine` | `ResolutionInv`, `NodeInv`: what is held was checked at the stage it is at. `FetchInv`: a host has one pinned address, which is not private and the only one contacted. `TargetInv`: an answer, a pull and what a target keeps are no older than the request. `ConsentedInv`: plan, consent and the adapter that runs are bound to one resolution. `PackageInv`: the closure was listed before the phases that follow the installation |
| `PersonalStaysKept` | `PersonalKept` | `AboutMeInv`: a request that publishes has read its summary no earlier than its revision (`ReadsInOrder`); claims replace earlier, retired ones (`ClaimsInOrder`); one key is ever made (`KeysInv`). `RevisionsInv`: one process stages an identifier, unless two overlapped, and knows whether the file is in the store. `EngramInv`: a run past its comparison has every chunk it read of on both sides, and alone has written and imported what its stage says (`RunCarries`). `ContextInv` (below), `ProfileInv` |
| `WhatIsAppliedWasPlanned` | `PlansStand` | `PlansInv`: what a request has wanted, observed and sealed at each stage (`BuildStands`), and that a seal was made with a key there has been, for the inputs that were wanted (`SealStands`). `PlanningInv`: the loop's list and what it has left are the drafted operations, each emitted as the least that could come next (`EmittedRight`), so that ordering an emitted list again gives the same list, whatever order its operations are handed over in. `OwnershipInv`: the bindings that were approved are those of the approved claims, and the digests of the states follow from the claims (`DigestsFollow`), so that equal bindings mean equal claims. `CompositionInv`: a result is what `Judge` gives for readable layers; the rest is about the two folds (below) |
| `SetupIsAllOrNothing` | `MachinesOnboarded` | `OnboardInv`: journal and backups tell what each file was (`JournalTells`) and what each step has done (`StepsTell`). `DaemonServiceInv`: births of processes identify them, also across reuse of a pid. `DesktopInv`, `ServiceInv` and `AttemptsInv` say what each step has read or been given |
| `SettledStaysSettled` | `NothingRewritten` | an action property, from `ControlInv`, `EngramTypes`, `ReceiptsNumbered` and `AttemptsInv` |
| `WhatIsUsedIsCurrent` | `CurrentWhenUsed` | an action property, from `ResolutionInv`, `AptInv`, `UpgradeInv`, `ContextInv` and `ProfileInv` |
| `UndoneIsExact` | `UndoneExactly` | an action property, from `CredentialInv`, `RemoteInv`, `CanaryInv` and `ConsentInv`: the last entry of every receipt ever written tells its state, progress and identity, so a mixture of two that verifies is one of them |

Two parts need an induction. `ContextInv`: the selected sections of a session cost no more than its
budget because the remainder, a recursive function over the ranked sections, and the sum,
a fold over a set, add up. The library's induction rules take an operator, which the
provers cannot instantiate; the induction is done instead on the set of the numbers for
which the claim holds (`LeastMember`, `AllBelow`, from `NatLessThanWellFounded`).
`CompositionInv`: layers are folded into a specification, and package lists into one
another. `FoldUnrolls` shows, for both folds at once, that such a function exists and what
it does at each place; `LayersUnroll`, `LastDecides`, `DenialsGrow` and `PackagesStand` go
along the places. `PlanningInv` goes along them for the search of what an operation
depends on (`ReachesDepends`).

Only model-checked:

- `RunSettles` and `WorkerReturns`, and the violations. Both are liveness under
  fairness, which is defined with `ENABLED`. What can be said without it is proved: the
  engine always has a step and each goes down a bounded measure (`JournalAccepts`,
  `CallsEnd`); `run_once` goes forward or round its poll (`RunOnceAdvances`).

## 7. Disagreements found

Six runs end in a counterexample; each property states what a document or comment
of the repository says. `PROJECT.json` quotes the lines.

1. `reconcile_forgotten`: `rollback_failed` is a local. A rollback that is stopped
   after an operation failed to roll back, and then resumed, ends as `RolledBack`
   with that operation still applied.
2. `reconcile_startup`: the threat model describes startup recovery of runs past the
   barrier; `recover_pending` is only called by tests.
3. `receipts_own`: each rollback request opens a store with a lock of its own; two of
   them fork the history and no later `load` accepts it.
4. `receipts_retry`: the temporary file of a crashed persist has the name the retry
   will use, and `create_new` refuses it: the transition can never be recorded.
5. `execd_startup`: cancel, retry and an expired lease make `recover_expired` insert
   an attempt number that exists. The daemon does not start again.
6. `provider_retry`: a provider that failed leaves its diagnostics and runtime files in
   its scratch directory. The pipeline empties the workspace and not the scratch, which
   `ProviderWorkspace::open` refuses when it is not empty: fixing the inputs and
   retrying, as the message says, fails for ever.

Behaviours the models have that no document excludes: an untouched file counts as
`RollbackFailed` (`files.rs:629`); a canceled job is queued again by recovery, which
looks at the lease and the retry limit and not at the state; the logs of a second
attempt are dropped, since artifact names are unique by job; the process of a canceled
attempt runs on after a retry; a quick restart leaves an attempt open. Of error paths
(each is in the models and excepted by name, section 3): a promotion of the snapshot writer
that start-up recorded as aborted is published when the same request comes again, and fails
only then, and start-up passes over aborted runs; a skill stays promoted without a receipt
when a step after the replacement fails; a credential file can stay truncated under a
receipt that says succeeded; an init that lost the answer to its push can delete the
backups of some files and then refuse for ever with `MissingRecoveryArtifact`; an init that
had undone everything before it died reports `initialized` when its push arrived; a wait
that fails leaves the provider's process group running.

## 8. What is not modelled

- Engine: preflight of adapters; receipts written before package evidence existed
  (`legacy_exact_forward_progress`); the branch that repairs a recovered operation
  without evidence (lines 1687-1719 of the engine), which `EvidenceBeforeRecovered`
  shows to be unreachable for runs of this version; two calls on one target at once.
- Store: corrupt or foreign files in the directory, the content of digests.
- Scheduler: the event log and its pruning, placement, targets, audit,
  `correlate_engine_run` (without a caller), backup and the object store; lengths of
  time.
- Execution daemon: authentication, queries, streams, webhooks, GitHub, workspaces
  and secrets, which succeed or fail for the worker model.
- Publication: a checkout that fails after the reference was moved while the process
  lives on; a pull inside a publication; encryption of objects; git itself. The errors
  after a refused push are one step (`PushFails`), and `CreateRead` advances the anchor
  with its verification, before or after which the two callers do it.
- Snapshots of one machine: a write of `InstallSnapshot` that fails while the daemon lives
  (its death at each write is modelled); the repair that the reading of a failing
  compare-and-swap makes (`Loses`), since every other reading makes it too.
- Local daemon: HTTP, authentication, read-only views, parsing of configuration.
- Packages: version ordering, control files, signature algorithms; the adapter of
  `packages.rs` that the resolution replaced.
- Remote targets: the wire format, the ssh process, `remote_provider.rs`.
- Composition: explicit `null` for an optional field of a package; arrays inside a
  component, which are replaced; an overlay that is an empty object, which the code
  traces as the winner although it changes nothing.
- Providers: a copy that is changed and changed back before the verification after the run,
  which compares digests and cannot see it.
- Remote transfer: the bound on all staged bytes (`STAGING_MAX_BYTES`), which refuses as the
  bound on the number of partial files does.
- Local relay: `enabled` of an update that is set again while the update awaits its tools is
  not in the entry the update writes (`ListedTools`).
- Skills: inventory, imported evidence, schedules, the reports of optimizers.
- Personal context: cryptography, rendering of summaries.
- Desktop: windows, tray, requests that only forward.
- Liveness of the parts of `MCDomains`: they are checked for safety; what their callers
  retry is not promised by the code.
- Not at all: webhooks, GitHub and workspaces of the execution daemon; what one kind of
  job does in its process; session board and linear graph (companions with little state
  of their own); platform paths; thin clients; the scripts the daemon replaced.

## 9. Plan

Done: the core (engine, receipt store, scheduler and execution daemon) and publication,
each with its contract, and the domains around them; proofs of all safety properties of
the core, of publication and of all areas of the domains.

Next:

1. Liveness under fair callers for the parts that retry (`RemoteHelper`,
   `ProviderPipeline`, `Onboarding`).
