----------------------------- MODULE Onboarding -----------------------------
(***************************************************************************)
(* Onboarding: commonkit init on a machine, and the connection of a        *)
(* context repository on GitHub.                                           *)
(***************************************************************************)
EXTENDS Naturals, Sequences, FiniteSets

(***************************************************************************)
(* commonkit init (onboarding.rs): the checkout of the kit, the            *)
(* registration of this target in it, the staged runtime files, their      *)
(* publication over the owner's files, the push, and the journal from      *)
(* which the next init finishes or undoes an interrupted one.  Every step  *)
(* may fail, the process may die between any two mutations of the disk,    *)
(* the answer to the push may be lost and others may push.                 *)
(***************************************************************************)
CONSTANTS
  Published,    \* the runtime files, in the order they are published
  OwnedFiles,   \* those of them that existed before
  MaxFaults,    \* failures and crashes (a bound)
  MaxInits      \* starts of init (a bound)

ASSUME OwnedAreFiles ==
  /\ Len(Published) \in Nat
  /\ OwnedFiles \subseteq {Published[k] : k \in 1..Len(Published)}

VARIABLES
  obMode,      \* create or connect
  obCreated,   \* this process has committed the registration
  obAt,        \* what the process does next
  obNext,      \* the publication it is at
  obDest,      \* what each destination holds
  obStaged,    \* the files that lie in the staging directories
  obBackup,    \* the owner's files that were moved aside
  obJournal,   \* onboarding-transaction.json
  obKit,       \* the checkout of the kit: its revision, and local changes
  obRemote,    \* HEAD of the remote
  obFaults, obInits

obDisk == <<obDest, obStaged, obBackup, obJournal, obKit, obRemote>>
obVars == <<obMode, obCreated, obAt, obNext, obDisk, obFaults, obInits>>

OwnerFiles == {Published[k] : k \in 1..Len(Published)}
\* A revision: the commits of others in it, and whether it registers the target.
Revision(n, listed) == [others |-> n, listed |-> listed]
NoRevision == Revision(9, FALSE)
NoKit == [rev |-> NoRevision, changed |-> FALSE]
Clean(r) == [rev |-> r, changed |-> FALSE]
Registered(r) == Revision(r.others, TRUE)
NoJournal == [open |-> FALSE, base |-> NoRevision, intended |-> NoRevision, prepared |-> FALSE]
Before == [f \in OwnerFiles |-> IF f \in OwnedFiles THEN "old" ELSE "none"]
Current == Published[obNext]

OnboardingInit ==
  /\ obMode \in {"create", "connect"}
  /\ obRemote \in IF obMode = "create" THEN {NoRevision} ELSE {Revision(0, l) : l \in BOOLEAN}
  /\ obKit \in {NoKit, Clean(obRemote)}
  /\ obCreated = FALSE
  /\ obAt = "off" /\ obNext = 0
  /\ obDest = Before /\ obStaged = {} /\ obBackup = {}
  /\ obJournal = NoJournal
  /\ obFaults = 0 /\ obInits = 0

Keeps(vs) == UNCHANGED <<obMode, obCreated, vs>>
OnboardGoes(at) == obAt' = at /\ UNCHANGED obNext
GoesTo(at, k) == obAt' = at /\ obNext' = k
Fault == obFaults < MaxFaults /\ obFaults' = obFaults + 1
NoFault == UNCHANGED obFaults
WritesJournal(j) == obJournal' = j
(***************************************************************************)
(* initialize, up to the publication.                                      *)
(***************************************************************************)
StartInit ==
  /\ obAt = "off" /\ obInits < MaxInits
  /\ obInits' = obInits + 1
  /\ OnboardGoes(IF obJournal.open THEN "recover" ELSE "checkout")
  /\ obCreated' = FALSE
  /\ NoFault /\ UNCHANGED <<obMode, obDisk>>

\* checkout_disposition: nothing there is cloned, a clean checkout of this
\* repository is used again in connect mode, anything else is refused.
Disposition ==
  CASE obKit.rev = NoRevision -> "clone"
    [] obMode = "connect" /\ obKit.rev # NoRevision /\ ~ obKit.changed -> "reuse"
    [] OTHER -> "refuse"
PrepareCheckout ==
  /\ obAt = "checkout"
  /\ OnboardGoes(IF Disposition = "refuse" THEN "off" ELSE "build")
  /\ obKit' = IF Disposition # "clone" THEN obKit
              ELSE Clean(IF obMode = "create" THEN Revision(0, FALSE) ELSE obRemote)
  /\ NoFault /\ Keeps(<<obDest, obStaged, obBackup, obJournal, obRemote, obInits>>)

\* A created kit gets the imported provider inputs, its starter layers and
\* the registration, and is committed; a connected one must hold valid
\* layers.  When that fails a created checkout is removed.
KitInputsImported == IF obMode = "create" THEN Clean(Registered(obKit.rev)) ELSE obKit
BuildKit ==
  /\ obAt = "build"
  /\ \/ OnboardGoes("begin") /\ NoFault /\ obKit' = KitInputsImported
     \/ OnboardGoes("off") /\ Fault /\ obKit' = IF obMode = "create" THEN NoKit ELSE obKit
  /\ Keeps(<<obDest, obStaged, obBackup, obJournal, obRemote, obInits>>)

\* OnboardingTransaction::begin.
BeginTransaction ==
  /\ obAt = "begin"
  /\ WritesJournal([open |-> TRUE, prepared |-> FALSE,
       base |-> IF obMode = "create" THEN NoRevision ELSE obKit.rev,
       intended |-> IF obMode = "create" THEN obKit.rev ELSE NoRevision])
  /\ OnboardGoes(IF obMode = "create" THEN "stage" ELSE "register")
  /\ NoFault /\ Keeps(<<obDest, obStaged, obBackup, obKit, obRemote, obInits>>)

\* write_target_registration and git_commit_registration: a registration that
\* is there already is left alone, and nothing will be pushed.
RegisterTarget ==
  /\ obAt = "register"
  /\ obKit' = Clean(Registered(obKit.rev))
  /\ obCreated' = ~ obKit.rev.listed
  /\ OnboardGoes("intend")
  /\ NoFault /\ UNCHANGED <<obMode, obDest, obStaged, obBackup, obJournal, obRemote, obInits>>

RecordIntended ==
  /\ obAt = "intend"
  /\ WritesJournal([obJournal EXCEPT !.intended = obKit.rev])
  /\ OnboardGoes("stage")
  /\ NoFault /\ Keeps(<<obDest, obStaged, obBackup, obKit, obRemote, obInits>>)

\* RuntimeStaging::new and write_runtime_state.
StageRuntime ==
  /\ obAt = "stage"
  /\ obStaged' = OwnerFiles
  /\ OnboardGoes("prepare")
  /\ NoFault /\ Keeps(<<obDest, obBackup, obJournal, obKit, obRemote, obInits>>)

\* set_runtime: the journal names what will be moved before anything moves.
PrepareLate == \* Mutant: the journal does not name the publications.
  /\ obAt = "prepare"
  /\ GoesTo("publish", 1)
  /\ NoFault /\ Keeps(<<obDest, obStaged, obBackup, obJournal, obKit, obRemote, obInits>>)
PreparePublication ==
  /\ obAt = "prepare"
  /\ WritesJournal([obJournal EXCEPT !.prepared = TRUE])
  /\ GoesTo("publish", 1)
  /\ NoFault /\ Keeps(<<obDest, obStaged, obBackup, obKit, obRemote, obInits>>)

(***************************************************************************)
(* Publication, push and commit.                                           *)
(***************************************************************************)
\* publish: the owner's file is moved aside, then the staged one moved in.
\* The sync after a rename may fail although the rename happened.
MoveOver ==
  IF obDest[Current] = "old"
  THEN /\ obDest' = [obDest EXCEPT ![Current] = "none"]
       /\ obBackup' = obBackup \cup {Current} /\ UNCHANGED obStaged
  ELSE /\ obDest' = [obDest EXCEPT ![Current] = "new"]
       /\ obStaged' = obStaged \ {Current} /\ UNCHANGED obBackup
PublishFile ==
  /\ obAt = "publish" /\ obNext <= Len(Published)
  /\ MoveOver
  /\ \/ GoesTo("publish", IF obDest[Current] = "old" THEN obNext ELSE obNext + 1) /\ NoFault
     \/ GoesTo("undo", Len(Published)) /\ Fault
  /\ Keeps(<<obJournal, obKit, obRemote, obInits>>)

\* git_push_created_kit and git_push_registration: refused when others pushed
\* first; the answer may be lost.
FastForward == obRemote = NoRevision \/ (obRemote.others <= obKit.rev.others /\ ~ obRemote.listed)
SkipPush ==
  /\ obAt = "publish" /\ obNext > Len(Published)
  /\ obMode = "connect" /\ ~ obCreated
  /\ OnboardGoes("commit") /\ NoFault /\ Keeps(<<obDisk, obInits>>)
PushKit ==
  /\ obAt = "publish" /\ obNext > Len(Published)
  /\ obMode = "create" \/ obCreated
  /\ \/ /\ FastForward /\ obRemote' = obKit.rev
        /\ (OnboardGoes("commit") /\ NoFault) \/ (GoesTo("undo", Len(Published)) /\ Fault)
     \/ /\ GoesTo("undo", Len(Published)) /\ UNCHANGED obRemote
        /\ IF FastForward THEN Fault ELSE NoFault
  /\ Keeps(<<obDest, obStaged, obBackup, obJournal, obKit, obInits>>)

\* runtime.commit: the backups and the staging directories are removed.
CommitRuntime ==
  /\ obAt = "commit"
  /\ \/ OnboardGoes("plugins") /\ NoFault /\ obBackup' = {} /\ obStaged' = {} /\ UNCHANGED obKit
     \/ /\ OnboardGoes("off") /\ Fault /\ obBackup' \in {obBackup, {}} /\ UNCHANGED obStaged
        /\ obKit' = IF obMode = "create" THEN NoKit ELSE obKit
  /\ Keeps(<<obDest, obJournal, obRemote, obInits>>)

\* register_agent_plugin_marketplace, then finish removes the journal.  When
\* it fails in create mode the checkout is dropped and the journal stays.
FinishInit ==
  /\ obAt = "plugins"
  /\ \/ OnboardGoes("done") /\ NoFault /\ WritesJournal(NoJournal) /\ UNCHANGED obKit
     \/ /\ OnboardGoes("off") /\ Fault /\ UNCHANGED obJournal
        /\ obKit' = IF obMode = "create" THEN NoKit ELSE obKit
  /\ Keeps(<<obDest, obStaged, obBackup, obRemote, obInits>>)

(***************************************************************************)
(* Undoing within the process.                                             *)
(***************************************************************************)
\* One rename that takes back the publication of f; both rollback and the
\* recovery go through it.
TakeBack(f) ==
  \/ /\ f \in obBackup /\ obDest[f] = "new" /\ f \notin obStaged
     /\ obDest' = [obDest EXCEPT ![f] = "none"] /\ obStaged' = obStaged \cup {f} /\ UNCHANGED obBackup
  \/ /\ f \in obBackup /\ ~ (obDest[f] = "new" /\ f \notin obStaged)
     /\ obDest' = [obDest EXCEPT ![f] = "old"] /\ obBackup' = obBackup \ {f} /\ UNCHANGED obStaged
  \/ /\ f \notin OwnedFiles /\ f \notin obStaged /\ obDest[f] = "new"
     /\ obDest' = [obDest EXCEPT ![f] = "none"] /\ obStaged' = obStaged \cup {f} /\ UNCHANGED obBackup
TakenBack(f) == f \notin obBackup /\ ~ (f \notin OwnedFiles /\ f \notin obStaged /\ obDest[f] = "new")

UndoOnboardFile ==
  /\ obAt = "undo" /\ obNext >= 1
  /\ IF TakenBack(Current)
     THEN GoesTo("undo", obNext - 1) /\ NoFault /\ UNCHANGED <<obDest, obStaged, obBackup>>
     ELSE /\ TakeBack(Current)
          /\ (OnboardGoes("undo") /\ NoFault) \/ (OnboardGoes("kept") /\ Fault)
  /\ Keeps(<<obJournal, obKit, obRemote, obInits>>)

\* rollback_registration: reset --hard to the base, then the registration is
\* removed, also one that the base revision holds.
ResetKit == [rev |-> obJournal.base, changed |-> obJournal.base.listed]
ResetRegistration ==
  /\ obAt \in {"reset", "kept"} \/ (obAt = "undo" /\ obNext = 0)
  /\ obKit' = IF obMode = "connect" /\ obKit # NoKit THEN ResetKit ELSE obKit
  /\ OnboardGoes(IF obAt = "kept" THEN "leave" ELSE "drop")
  /\ NoFault /\ Keeps(<<obDest, obStaged, obBackup, obJournal, obRemote, obInits>>)

\* A rollback that failed leaves the journal; a created checkout is dropped.
LeaveJournal ==
  /\ obAt = "leave"
  /\ obKit' = IF obMode = "create" THEN NoKit ELSE obKit
  /\ OnboardGoes("off")
  /\ NoFault /\ Keeps(<<obDest, obStaged, obBackup, obJournal, obRemote, obInits>>)

\* The values are dropped in reverse order: the staging directories, the
\* journal, the created checkout.
DropStaging ==
  /\ obAt = "drop"
  /\ obStaged' = {} /\ OnboardGoes("dropped")
  /\ NoFault /\ Keeps(<<obDest, obBackup, obJournal, obKit, obRemote, obInits>>)
DropTransaction ==
  /\ obAt = "dropped"
  /\ WritesJournal(NoJournal)
  /\ obKit' = IF obMode = "create" THEN NoKit ELSE obKit
  /\ OnboardGoes("off")
  /\ NoFault /\ Keeps(<<obDest, obStaged, obBackup, obRemote, obInits>>)

\* A step before the publication fails.
StepFails ==
  /\ \/ obAt = "register" /\ (OnboardGoes("drop") \/ OnboardGoes("reset"))
     \/ obAt \in {"intend", "stage", "prepare"} /\ OnboardGoes(IF obMode = "connect" /\ obAt # "intend" THEN "reset" ELSE "drop")
  /\ Fault /\ Keeps(<<obDisk, obInits>>)

(***************************************************************************)
(* recover_incomplete_onboarding.                                          *)
(***************************************************************************)
\* What ls-remote answers: it is asked only when the journal has a revision.
SeenRemote == IF obJournal.intended = NoRevision THEN NoRevision ELSE obRemote
KitReadable == obJournal.intended = NoRevision \/ obKit # NoKit
RemoteMatches == obJournal.intended # NoRevision /\ SeenRemote = obJournal.intended
NotPushed == SeenRemote = NoRevision \/ (obMode = "connect" /\ SeenRemote = obJournal.base)

DecideRecovery ==
  /\ obAt = "recover"
  /\ CASE ~ KitReadable -> OnboardGoes("off")
       [] KitReadable /\ RemoteMatches -> IF obJournal.prepared THEN GoesTo("finalize", 1) ELSE OnboardGoes("off")
       [] KitReadable /\ ~ RemoteMatches /\ NotPushed ->
            IF obJournal.prepared THEN GoesTo("restore", Len(Published)) ELSE GoesTo("clear", 0)
       [] OTHER -> OnboardGoes("off")
  /\ NoFault /\ Keeps(<<obDisk, obInits>>)

\* The publications are gone through one by one: a backup is removed before the next
\* publication is looked at, and that one may be missing (MissingRecoveryArtifact).
Installed(f) == f \notin obStaged /\ obDest[f] # "none"
FinalizeFile ==
  /\ obAt = "finalize" /\ obNext <= Len(Published)
  /\ IF Installed(Current)
     THEN GoesTo("finalize", obNext + 1) /\ obBackup' = obBackup \ {Current}
     ELSE OnboardGoes("off") /\ UNCHANGED obBackup
  /\ NoFault /\ Keeps(<<obDest, obStaged, obJournal, obKit, obRemote, obInits>>)
FinalizeRecovery ==
  /\ obAt = "finalize" /\ obNext > Len(Published)
  /\ obStaged' = {} /\ WritesJournal(NoJournal)
  /\ OnboardGoes("done")
  /\ NoFault /\ Keeps(<<obDest, obBackup, obKit, obRemote, obInits>>)

\* An owned file without a backup must lie restored beside its staged one.
ArtifactsMissing(f) == f \in OwnedFiles \ obBackup /\ (f \notin obStaged \/ obDest[f] = "none")
RestoreFile ==
  /\ obAt = "restore" /\ obNext >= 1
  /\ IF ArtifactsMissing(Current) THEN OnboardGoes("off") /\ NoFault /\ UNCHANGED <<obDest, obStaged, obBackup>>
     ELSE IF TakenBack(Current)
     THEN GoesTo("restore", obNext - 1) /\ NoFault /\ UNCHANGED <<obDest, obStaged, obBackup>>
     ELSE TakeBack(Current) /\ OnboardGoes("restore") /\ NoFault
  /\ Keeps(<<obJournal, obKit, obRemote, obInits>>)

ClearRecovered ==
  /\ obAt = "clear" \/ (obAt = "restore" /\ obNext = 0)
  /\ obStaged' = {} /\ OnboardGoes("unregister")
  /\ NoFault /\ Keeps(<<obDest, obBackup, obJournal, obKit, obRemote, obInits>>)
RemoveCheckout ==
  /\ obAt = "unregister"
  /\ obKit' = NoKit /\ OnboardGoes("forget")
  /\ NoFault /\ Keeps(<<obDest, obStaged, obBackup, obJournal, obRemote, obInits>>)
ForgetRecovered ==
  /\ obAt = "forget"
  /\ WritesJournal(NoJournal) /\ OnboardGoes("checkout")
  /\ NoFault /\ Keeps(<<obDest, obStaged, obBackup, obKit, obRemote, obInits>>)

(***************************************************************************)
(* The process and the remote.                                             *)
(***************************************************************************)
ProcessDies ==
  /\ obAt \notin {"off", "done"}
  /\ Fault /\ OnboardGoes("off") /\ Keeps(<<obDisk, obInits>>)

OthersPush ==
  /\ obRemote.others = 0
  /\ obRemote' = [obRemote EXCEPT !.others = 1]
  /\ Fault /\ UNCHANGED <<obAt, obNext>> /\ Keeps(<<obDest, obStaged, obBackup, obJournal, obKit, obInits>>)

OnboardingNext ==
  \/ StartInit \/ PrepareCheckout \/ BuildKit \/ BeginTransaction \/ RegisterTarget \/ RecordIntended
  \/ StageRuntime \/ PreparePublication \/ PublishFile \/ SkipPush \/ PushKit \/ CommitRuntime \/ FinishInit
  \/ UndoOnboardFile \/ ResetRegistration \/ LeaveJournal \/ DropStaging \/ DropTransaction \/ StepFails
  \/ DecideRecovery \/ FinalizeFile \/ FinalizeRecovery \/ RestoreFile \/ ClearRecovered \/ RemoveCheckout \/ ForgetRecovered
  \/ ProcessDies \/ OthersPush

(***************************************************************************)
(* Properties.                                                             *)
(***************************************************************************)
\* Wherever init dies or fails, a file of the owner is in its place, or moved aside with
\* a journal that names it, or replaced together with all others.  Only a push that did
\* arrive lets a recovery remove the backup of a file alone: the new file stands in its
\* place, and the journal stays (onboarding.rs publish, rollback,
\* recover_incomplete_onboarding).
Arrived ==
  /\ obJournal.intended # NoRevision /\ obRemote # NoRevision
  /\ obJournal.intended.others <= obRemote.others
  /\ obJournal.intended.listed => obRemote.listed
OwnerFilesKept == \A f \in OwnedFiles :
  \/ obDest[f] = "old"
  \/ f \in obBackup /\ obJournal.prepared
  \/ \A g \in OwnerFiles : obDest[g] = "new"
  \/ obDest[f] = "new" /\ obJournal.prepared /\ Arrived

\* Without a journal, init has had its whole effect or none: the runtime files
\* are all new or all as before, and no file of the owner is left aside
\* (onboarding.rs initialize, Drop for OnboardingTransaction).
AllOrNothing ==
  ~ obJournal.open =>
    \/ obDest = Before /\ obBackup = {}
    \/ obDest = [f \in OwnerFiles |-> "new"] /\ obBackup = {} /\ obStaged = {}

-----------------------------------------------------------------------------
(***************************************************************************)
(* Connecting a context repository on GitHub: the plan and its application *)
(* (github_onboarding.rs) and the store of onboarding attempts             *)
(* (portable_onboarding.rs), one process.  Other people change what GitHub *)
(* holds between any two calls, answers are lost, a write fails before or  *)
(* after it took effect, and the process ends anywhere.                    *)
(***************************************************************************)
CONSTANTS
  OnboardingAttempts,         \* identifiers of attempts
  KeyOf(_),         \* the idempotency key of an attempt
  Registrations,    \* registration identifiers
  MaxRepositories,  \* repositories of that name that ever exist (a bound)
  MaxWriteFailures  \* failed writes (a bound)

VARIABLES
  roGitHub,    \* the repository of the requested name, or none
  roNodes,     \* node identifiers handed out
  roPlan,      \* the plan in hand
  roResult,    \* what applying it answered
  roFile,      \* the attempts on disk
  roMemory,    \* the attempts in memory
  roFailures,
  roUnsynced   \* ghost: a write took effect although it was reported failed

githubVars == <<roGitHub, roNodes>>
roVars == <<githubVars, roPlan, roResult, roFile, roMemory, roFailures, roUnsynced>>

NoRepository == [node |-> 0, private |-> FALSE, ours |-> FALSE]
NoPlanYet == [at |-> "none", observed |-> NoRepository]
NoResult == [node |-> 0, private |-> FALSE, ours |-> FALSE]
Unknown == [state |-> "unknown", node |-> 0, registration |-> "none"]

OnboardingStoreInit ==
  /\ roGitHub = NoRepository /\ roNodes = 0 /\ roPlan = NoPlanYet /\ roResult = NoResult
  /\ roFile = [a \in OnboardingAttempts |-> Unknown] /\ roMemory = roFile /\ roFailures = 0 /\ roUnsynced = FALSE

----------------------------------------------------------------------------
(* github_onboarding.rs *)

\* validate_observation of a personal repository
ValidObservation(o) == o.ours /\ o.private

\* inspect_and_plan
InspectAndPlan ==
  /\ roPlan.at # "inspected"
  /\ roGitHub # NoRepository => roGitHub.ours /\ roGitHub.private
  /\ roPlan' = [at |-> "planned", observed |-> roGitHub] /\ roResult' = NoResult
  /\ UNCHANGED <<githubVars, roFile, roMemory, roFailures, roUnsynced>>

\* apply looks again: what is there now is connected, whatever the plan saw ...
ApplyConnects ==
  /\ roPlan.at = "planned" /\ roGitHub # NoRepository
  /\ roResult' = IF ValidObservation(roGitHub) THEN roGitHub ELSE NoResult
  /\ roPlan' = NoPlanYet
  /\ UNCHANGED <<githubVars, roFile, roMemory, roFailures, roUnsynced>>

\* ... or nothing is there and a private repository is created ...
ApplyFindsNothing ==
  /\ roPlan.at = "planned" /\ roGitHub = NoRepository
  /\ roPlan' = [roPlan EXCEPT !.at = "inspected"]
  /\ UNCHANGED <<githubVars, roResult, roFile, roMemory, roFailures, roUnsynced>>

NewRepository(private, ours) ==
  /\ roGitHub = NoRepository /\ roNodes < MaxRepositories
  /\ roNodes' = roNodes + 1
  /\ roGitHub' = [node |-> roNodes + 1, private |-> private, ours |-> ours]

\* ... the answer of which may be lost; GitHub refuses a name that exists.
ApplyCreates(answered) ==
  /\ roPlan.at = "inspected"
  /\ IF roGitHub = NoRepository
     THEN NewRepository(TRUE, TRUE) /\ roResult' = IF answered THEN roGitHub' ELSE NoResult
     ELSE roResult' = NoResult /\ UNCHANGED githubVars
  /\ roPlan' = NoPlanYet
  /\ UNCHANGED <<roFile, roMemory, roFailures, roUnsynced>>

\* Others create, delete or open up the repository of that name.
OthersChange ==
  /\ \/ \E private, ours \in BOOLEAN : NewRepository(private, ours)
     \/ roGitHub # NoRepository /\ roGitHub' = NoRepository /\ UNCHANGED roNodes
     \/ roGitHub.private /\ roGitHub' = [roGitHub EXCEPT !.private = FALSE] /\ UNCHANGED roNodes
  /\ UNCHANGED <<roPlan, roResult, roFile, roMemory, roFailures, roUnsynced>>

----------------------------------------------------------------------------
(* portable_onboarding.rs *)

\* persist, then the memory: a write can fail before the rename or after it.
Mutate(attempts) ==
  /\ \/ roFile' = attempts /\ roMemory' = attempts /\ UNCHANGED <<roFailures, roUnsynced>>
     \/ /\ roFailures < MaxWriteFailures /\ roFailures' = roFailures + 1
        /\ \/ UNCHANGED <<roFile, roUnsynced>>
           \/ roFile' = attempts /\ roUnsynced' = TRUE
        /\ UNCHANGED roMemory
  /\ UNCHANGED <<githubVars, roPlan, roResult>>

\* begin: one attempt for an idempotency key.
MayBegin(a) == roMemory[a] = Unknown /\ \A b \in OnboardingAttempts : KeyOf(b) = KeyOf(a) => roMemory[b] = Unknown
BeginAttempt(a) ==
  /\ MayBegin(a)
  /\ \E known \in {0, roResult.node} :
       Mutate([roMemory EXCEPT ![a] = [state |-> "planned", node |-> known, registration |-> "none"]])

\* can_transition_to
CanTransition(from, to) ==
  CASE to = "remote_created" -> from = "planned"
    [] to = "orphaned" -> from \in {"remote_created", "registering"}
    [] to = "registering" -> from \in {"planned", "remote_created", "orphaned"}
    [] to = "registered" -> from = "registering"
    [] to = "verifying" -> from = "registered"
    [] to = "completed" -> from = "verifying"

\* transition: a legal step to an attempt that is still valid (validate).
Transition(a, to, node, registration) ==
  /\ CanTransition(roMemory[a].state, to)
  /\ node # 0
  /\ Mutate([roMemory EXCEPT ![a] = [state |-> to, node |-> node, registration |-> registration]])

\* mark_remote_created refuses to replace a node identifier ...
SameNode(a, node) == roMemory[a].node \in {0, node}
MarkRemoteCreated(a) ==
  /\ roResult.node # 0 /\ SameNode(a, roResult.node)
  /\ Transition(a, "remote_created", roResult.node, roMemory[a].registration)

\* ... and mark_registered to replace a registration.
SameRegistration(a, r) == roMemory[a].registration \in {"none", r}
MarkRegistered(a, r) ==
  /\ SameRegistration(a, r)
  /\ Transition(a, "registered", roMemory[a].node, r)

\* mark_orphaned, mark_registering, mark_verifying
Mark(a, to) == Transition(a, to, roMemory[a].node, roMemory[a].registration)

\* complete names the registration it verified.
Complete(a, r) ==
  /\ roMemory[a].registration = r
  /\ Transition(a, "completed", roMemory[a].node, r)

\* The process ends and the store is opened again.
OpenAgain ==
  /\ roMemory # roFile \/ roPlan # NoPlanYet \/ roResult # NoResult
  /\ roMemory' = roFile /\ roPlan' = NoPlanYet /\ roResult' = NoResult
  /\ UNCHANGED <<githubVars, roFile, roFailures, roUnsynced>>

OnboardingStoreNext ==
  \/ InspectAndPlan \/ ApplyConnects \/ ApplyFindsNothing \/ OthersChange \/ OpenAgain
  \/ \E answered \in BOOLEAN : ApplyCreates(answered)
  \/ \E a \in OnboardingAttempts :
       \/ BeginAttempt(a) \/ MarkRemoteCreated(a)
       \/ \E to \in {"orphaned", "registering", "verifying"} : Mark(a, to)
       \/ \E r \in Registrations : MarkRegistered(a, r) \/ Complete(a, r)

----------------------------------------------------------------------------
\* A repository that others made, made public or replaced between the plan and its application is
\* never connected unless it is the owner's and private (apply, validate_observation).
ConnectedIsPrivate == roResult.node # 0 => roResult.private /\ roResult.ours

\* The repository recorded for an attempt never becomes another, also after the process ended; only
\* a write that took effect although its directory could not be synced is not known to the memory
\* (NodeIdSubstitution).
NodeBoundOnce ==
  [~roUnsynced' => \A a \in OnboardingAttempts : roFile[a].node # 0 => roFile'[a].node = roFile[a].node]_roVars

\* Nor does the registration of an attempt, also when an orphaned one is taken up again
\* (RegistrationSubstitution).
RegistrationBoundOnce ==
  [~roUnsynced' => \A a \in OnboardingAttempts : roFile[a].registration # "none" => roFile'[a].registration = roFile[a].registration]_roVars

\* Two attempts never share an idempotency key, although writes fail and the store is reopened
\* (begin), but for a write that took effect and was reported failed.
OneAttemptPerKey ==
  ~roUnsynced => \A a, b \in OnboardingAttempts : (roFile[a] # Unknown /\ roFile[b] # Unknown /\ KeyOf(a) = KeyOf(b)) => a = b
=============================================================================
