----------------------------- MODULE Snapshots ------------------------------
(***************************************************************************)
(* Snapshots of a database on one machine: the store of descriptors and    *)
(* authority records, and the restore of a snapshot over a live database.  *)
(* The two share no state; Publication has the shared side.                *)
(***************************************************************************)
EXTENDS Naturals, Sequences, FiniteSets

(***************************************************************************)
(* The snapshots of one database on one machine: content-addressed         *)
(* descriptors, the authority record (pointer, immutable history, publish  *)
(* intent, trusted anchor) and the lock file of PortableAuthorityStore.    *)
(* create runs under the domain's mutex; list reads without it, and every  *)
(* read repairs an interrupted publish; the process may crash between any  *)
(* two writes, and the lock file then stays.                               *)
(*                                                                         *)
(* An authority record is the sequence of the descriptors accepted so far; *)
(* its length is the generation.  Sealing uses a fresh nonce, so that two  *)
(* snapshots of one content have different descriptors.                    *)
(***************************************************************************)
CONSTANTS Images,        \* contents the database can have
          MaxSnapshots   \* bound: descriptors ever written

ASSUME SnapshotBounds == MaxSnapshots \in Nat /\ Cardinality(Images) > 1

VARIABLES image,         \* content of the live database
          described,     \* descriptors in portable_state/snapshots
          sealed,        \* how many were ever written
          pointer,       \* authority/<database>.json
          history,       \* authority-history/<database>/
          intent,        \* authority-publish/<database>.json, if any
          guard,         \* the lock file exists
          trust,         \* the trusted anchor
          creator,       \* what create is doing
          lister,        \* what list is doing: the intent it repairs
          acked          \* snapshots whose create reported success

snapVars == <<image, described, sealed, pointer, history, intent, guard,
              trust, creator, lister, acked>>

None       == <<>>     \* an intent names at least one snapshot

Descriptor == [id : 1 .. MaxSnapshots, image : Images]
Resting    == [pc |-> "idle"]
Off        == [pc |-> "down"]

SnapshotInit ==
    /\ image \in Images
    /\ described = {} /\ sealed = 0 /\ acked = {}
    /\ pointer = <<>> /\ history = {<<>>} /\ trust = <<>>
    /\ intent = None /\ guard = FALSE
    /\ creator = Resting /\ lister = Resting

-----------------------------------------------------------------------------
(* Reading.                                                                *)

Tip(h) == h \in history /\ \A k \in history : Len(k) <= Len(h)

\* Mutant: an older record is read back although the history is longer.
ReadsBackOlder(h) ==
    /\ h # <<>> => h[Len(h)] \in described
    /\ IF Len(h) <= Len(trust) THEN h = SubSeq(trust, 1, Len(h)) ELSE TRUE

\* read_unlocked after the repair: the pointer is the only tip, its
\* descriptor is there, and the anchor is not newer.
ReadsBack(h) ==
    /\ Tip(h) /\ \A k \in history \ {h} : Len(k) < Len(h)
    /\ h # <<>> => h[Len(h)] \in described
    /\ Len(trust) < Len(h) \/ trust = h

AcceptedHead(h) == IF h = <<>> THEN {} ELSE {h[Len(h)].image}

\* manifests: a content occurs once among the descriptors, and the accepted
\* ones are all there.
Listed(h) ==
    /\ \A d, e \in described : d.image = e.image => d = e
    /\ \A i \in DOMAIN h : h[i] \in described

\* What repair_interrupted_publish finds: nothing to do, something to
\* complete, or an error.
Repairable ==
    /\ intent # None => /\ intent \in history
                        /\ pointer = intent \/ pointer = SubSeq(intent, 1, Len(intent) - 1)

Settled(h) == IF intent = None THEN h ELSE intent

-----------------------------------------------------------------------------
(* create.                                                                 *)

\* SnapshotService::snapshot: the exported image under a fresh nonce.
Sealed == [id |-> sealed + 1, image |-> image]

\* initialize (behind the lock file, with the repair), manifests, the export
\* and the two objects; then the descriptor.
Create ==
    LET h == Settled(pointer) IN
    /\ creator = Resting /\ ~guard
    /\ Repairable /\ ReadsBack(h) /\ Listed(h)
    /\ sealed < MaxSnapshots
    /\ pointer' = h /\ intent' = None /\ trust' = h
    /\ IF image \in AcceptedHead(h)
       THEN UNCHANGED <<described, sealed, creator>>
       ELSE /\ described' = described \cup {Sealed} /\ sealed' = sealed + 1
            /\ creator' = [pc |-> "described", next |-> Append(h, Sealed)]
    /\ UNCHANGED <<image, history, guard, lister, acked>>

Latest == creator.next[Len(creator.next)]

\* The lock file, the compared revision and the intent.
Intend ==
    /\ creator.pc = "described" /\ ~guard /\ intent = None
    /\ pointer = SubSeq(creator.next, 1, Len(creator.next) - 1)
    /\ ReadsBack(pointer)
    /\ guard' = TRUE /\ intent' = creator.next
    /\ creator' = [creator EXCEPT !.pc = "intended"]
    /\ UNCHANGED <<image, described, sealed, pointer, history, trust, lister, acked>>

WriteHistory ==
    /\ creator.pc = "intended"
    /\ history' = history \cup {creator.next}
    /\ creator' = [creator EXCEPT !.pc = "recorded"]
    /\ UNCHANGED <<image, described, sealed, pointer, intent, guard, trust, lister, acked>>

WritePointer ==
    /\ creator.pc = "recorded"
    /\ pointer' = creator.next
    /\ creator' = [creator EXCEPT !.pc = "pointed"]
    /\ UNCHANGED <<image, described, sealed, history, intent, guard, trust, lister, acked>>

\* advance_trusted_anchor
Advances(h) == Len(trust) < Len(h) \/ trust = h

WriteAnchor ==
    /\ creator.pc = "pointed" /\ Advances(creator.next)
    /\ trust' = creator.next
    /\ creator' = [creator EXCEPT !.pc = "anchored"]
    /\ UNCHANGED <<image, described, sealed, pointer, history, intent, guard, lister, acked>>

\* The intent is removed, the lock file after it; the caller is told.
Created ==
    /\ creator.pc = "anchored" /\ intent # None
    /\ intent' = None /\ guard' = FALSE
    /\ acked' = acked \cup {Latest}
    /\ creator' = Resting
    /\ UNCHANGED <<image, described, sealed, pointer, history, trust, lister>>

\* The losing descriptor is removed, unless the authority accepted it.
Loses ==
    LET h == Settled(pointer) IN
    described' = IF Repairable /\ ReadsBack(h) /\ h[Len(h)] = Latest
                 THEN described ELSE described \ {Latest}

\* The comparison, the anchor or the removal of the intent failed.
CreateFails ==
    /\ \/ /\ creator.pc = "described"
          /\ \/ guard \/ intent # None \/ ~ReadsBack(pointer)
             \/ pointer # SubSeq(creator.next, 1, Len(creator.next) - 1)
       \/ creator.pc = "pointed" /\ ~Advances(creator.next)
       \/ creator.pc = "anchored" /\ intent = None
    /\ guard' = (guard /\ creator.pc = "described")
    /\ Loses
    /\ creator' = Resting
    /\ UNCHANGED <<image, sealed, pointer, history, intent, trust, lister, acked>>

-----------------------------------------------------------------------------
(* list repairs an intent it finds, whoever has written it.                *)

ListFinds ==
    /\ lister = Resting /\ creator # Off /\ intent # None /\ Repairable
    /\ lister' = [pc |-> IF pointer = intent THEN "point" ELSE "found",
                  next |-> intent]
    /\ UNCHANGED <<image, described, sealed, pointer, history, intent, guard,
                   trust, creator, acked>>

ListPoints ==
    /\ lister.pc = "found"
    /\ pointer' = lister.next
    /\ lister' = [lister EXCEPT !.pc = "point"]
    /\ UNCHANGED <<image, described, sealed, history, intent, guard, trust,
                   creator, acked>>

ListAnchors ==
    /\ lister.pc = "point"
    /\ IF Advances(lister.next)
       THEN trust' = lister.next /\ lister' = [lister EXCEPT !.pc = "remove"]
       ELSE lister' = Resting /\ UNCHANGED trust
    /\ UNCHANGED <<image, described, sealed, pointer, history, intent, guard,
                   creator, acked>>

\* A file that is gone already is an error of list only.
ListRemoves ==
    /\ lister.pc = "remove"
    /\ intent' = None /\ lister' = Resting
    /\ UNCHANGED <<image, described, sealed, pointer, history, guard, trust,
                   creator, acked>>

-----------------------------------------------------------------------------
(* Crashes, start-up, and what goes on outside.                            *)

CrashStore ==
    /\ creator # Off
    /\ creator' = Off /\ lister' = Resting
    /\ UNCHANGED <<image, described, sealed, pointer, history, intent, guard,
                   trust, acked>>

\* initialize waits a second for the lock file and gives up.
OpenStore ==
    LET h == Settled(pointer) IN
    /\ creator = Off /\ ~guard
    /\ Repairable /\ ReadsBack(h)
    /\ pointer' = h /\ intent' = None /\ trust' = h
    /\ creator' = Resting
    /\ UNCHANGED <<image, described, sealed, history, guard, lister, acked>>

\* Nothing in the program removes the lock file of a process that is gone.
OperatorRemovesLock ==
    /\ creator = Off /\ guard
    /\ guard' = FALSE
    /\ UNCHANGED <<image, described, sealed, pointer, history, intent, trust,
                   creator, lister, acked>>

ApplicationWrites(i) ==
    /\ image # i /\ image' = i
    /\ UNCHANGED <<described, sealed, pointer, history, intent, guard, trust,
                   creator, lister, acked>>

SnapshotNext ==
    \/ Create \/ Intend \/ WriteHistory \/ WritePointer \/ WriteAnchor
    \/ Created \/ CreateFails
    \/ ListFinds \/ ListPoints \/ ListAnchors \/ ListRemoves
    \/ CrashStore \/ OpenStore \/ OperatorRemovesLock
    \/ \E i \in Images : ApplicationWrites(i)

SnapshotSpec == SnapshotInit /\ [][SnapshotNext]_snapVars

-----------------------------------------------------------------------------
(* Properties.                                                             *)

(* Descriptors, authority records and the two readers' states have their   *)
(* types.                                                                  *)
SnapshotTypeOK ==
    /\ image \in Images /\ sealed \in 0 .. MaxSnapshots
    /\ described \subseteq Descriptor /\ acked \subseteq Descriptor
    /\ pointer \in Seq(Descriptor) /\ trust \in Seq(Descriptor)
    /\ \A h \in history : h \in Seq(Descriptor)
    /\ intent \in Seq(Descriptor)
    /\ guard \in BOOLEAN

(* The authority history never forks: of two records in it one precedes    *)
(* the other, whatever was interrupted and repaired, by whom and when.     *)
HistoryUnforked ==
    \A h, k \in history :
        Len(h) <= Len(k) => h = SubSeq(k, 1, Len(h))

(* A snapshot whose create reported success stays in the latest history    *)
(* record and keeps its descriptor.                                        *)
AckedKept ==
    \A d \in acked :
        /\ d \in described
        /\ \A h \in history : Tip(h) => \E i \in DOMAIN h : h[i] = d

(* A descriptor is never taken back once the pointer accepts it.           *)
AcceptedDescribed ==
    \A i \in DOMAIN pointer : pointer[i] \in described

-----------------------------------------------------------------------------
(***************************************************************************)
(* Restoring a snapshot over a live database (DurableRestore).  A run      *)
(* writes its plan and receipt, keeps a preimage of the database, stops    *)
(* the service that owns it, replaces the file, verifies it and starts the *)
(* service again; whatever interrupts a run, the next start of the daemon  *)
(* rolls it back before it serves a request.  Runs execute under the       *)
(* domain's mutex; the application writes whenever its service runs.       *)
(***************************************************************************)
CONSTANTS Contents,      \* contents the database can have
          Goal           \* what each restore run restores: Goal[r]

Runs == DOMAIN Goal      \* run ids, in the order recovery visits them

\* The markers of a missing file and a missing preimage are no contents.
ASSUME RestoreRuns == Goal \in Seq(Contents) /\ "gone" \notin Contents /\ "none" \notin Contents

VARIABLES live,          \* the database file
          service,       \* the owning service runs
          receipt,       \* state in receipt.json of each run
          preimage,      \* preimage object the receipt names
          restorer       \* what the daemon is doing

restoreVars == <<live, service, receipt, preimage, restorer>>

Gone     == "gone"       \* no file
NoImage  == "none"
Awake    == [pc |-> "idle"]
Stopped  == [pc |-> "off"]
At(pc, r) == [pc |-> pc, run |-> r]

RestoreStates == {"absent", "plan_only", "planned", "prepared", "swapping",
                  "swapped", "verified", "rolled_back"}
Unfinished == {r \in Runs : receipt[r] \notin {"absent", "verified", "rolled_back"}}

RestoreInit ==
    /\ live \in Contents /\ service = TRUE
    /\ receipt = [r \in Runs |-> "absent"]
    /\ preimage = [r \in Runs |-> NoImage]
    /\ restorer = Awake

Write(r, state) == receipt' = [receipt EXCEPT ![r] = state]

-----------------------------------------------------------------------------
(* execute.                                                                *)

\* plan.json; a receipt of an earlier execution with this id still stands.
WritePlan(r) ==
    /\ restorer = Awake
    /\ Write(r, IF receipt[r] = "absent" THEN "plan_only" ELSE receipt[r])
    /\ restorer' = At("planned", r)
    /\ UNCHANGED <<live, service, preimage>>

WritePlanned(r) ==
    /\ restorer = At("planned", r)
    /\ Write(r, "planned") /\ preimage' = [preimage EXCEPT ![r] = NoImage]
    /\ restorer' = At("staged", r)
    /\ UNCHANGED <<live, service>>

\* The file is read while its service still runs.
KeepPreimage(r) ==
    /\ restorer = At("staged", r) /\ live # Gone
    /\ Write(r, "prepared") /\ preimage' = [preimage EXCEPT ![r] = live]
    /\ restorer' = At("prepared", r)
    /\ UNCHANGED <<live, service>>

\* The snapshot does not decrypt or its digest is wrong.
StagingFails(r) ==
    /\ restorer = At("staged", r)
    /\ restorer' = Awake
    /\ UNCHANGED <<live, service, receipt, preimage>>

WriteSwapping(r) ==
    /\ restorer = At("prepared", r)
    /\ Write(r, "swapping")
    /\ restorer' = At("stop", r)
    /\ UNCHANGED <<live, service, preimage>>

StopService(r) ==
    /\ restorer = At("stop", r)
    /\ \/ service' = FALSE /\ restorer' = At("remove", r)
       \/ restorer' = Awake /\ UNCHANGED service
    /\ UNCHANGED <<live, receipt, preimage>>

\* replace_file: rename to a sibling, remove, rename.
RemoveLive(r) ==
    /\ restorer = At("remove", r)
    /\ live' = Gone /\ restorer' = At("install", r)
    /\ UNCHANGED <<service, receipt, preimage>>

InstallSnapshot(r) ==
    /\ restorer = At("install", r)
    /\ live' = Goal[r] /\ restorer' = At("swapped", r)
    /\ UNCHANGED <<service, receipt, preimage>>

WriteSwapped(r) ==
    /\ restorer = At("swapped", r)
    /\ Write(r, "swapped") /\ restorer' = At("verify", r)
    /\ UNCHANGED <<live, service, preimage>>

\* verify_database: a snapshot of the right digest may still not be a valid
\* database.
VerifyLive(r) ==
    /\ restorer = At("verify", r)
    /\ restorer' \in {At("start", r), At("undo", r)}
    /\ UNCHANGED <<live, service, receipt, preimage>>

StartService(r) ==
    /\ restorer = At("start", r)
    /\ \/ service' = TRUE /\ restorer' = At("done", r)
       \/ restorer' = Awake /\ UNCHANGED service
    /\ UNCHANGED <<live, receipt, preimage>>

WriteVerified(r) ==
    /\ restorer = At("done", r)
    /\ Write(r, "verified") /\ restorer' = Awake
    /\ UNCHANGED <<live, service, preimage>>

-----------------------------------------------------------------------------
(* rollback, by the run itself ("undo") or at start-up ("redo").           *)

RollbackStops(r) ==
    /\ restorer \in {At("undo", r), At("redo", r)} /\ preimage[r] # NoImage
    /\ \/ service' = FALSE
          /\ restorer' = At(IF restorer.pc = "undo" THEN "undo_remove" ELSE "redo_remove", r)
       \/ restorer' = (IF restorer.pc = "undo" THEN Awake ELSE Stopped) /\ UNCHANGED service
    /\ UNCHANGED <<live, receipt, preimage>>

RollbackRemoves(r) ==
    /\ restorer \in {At("undo_remove", r), At("redo_remove", r)}
    /\ live' = Gone
    /\ restorer' = At(IF restorer.pc = "undo_remove" THEN "undo_install" ELSE "redo_install", r)
    /\ UNCHANGED <<service, receipt, preimage>>

RollbackInstalls(r) ==
    /\ restorer \in {At("undo_install", r), At("redo_install", r)}
    /\ live' = preimage[r]
    /\ restorer' = At(IF restorer.pc = "undo_install" THEN "undo_start" ELSE "redo_start", r)
    /\ UNCHANGED <<service, receipt, preimage>>

\* The service starts and the receipt is written; a start that fails leaves
\* the receipt as it is.
RollbackStarts(r) ==
    /\ restorer \in {At("undo_start", r), At("redo_start", r)}
    /\ \/ service' = TRUE /\ Write(r, "rolled_back")
          /\ restorer' = (IF restorer.pc = "undo_start" THEN Awake ELSE [pc |-> "recover"])
       \/ restorer' = (IF restorer.pc = "undo_start" THEN Awake ELSE Stopped)
          /\ UNCHANGED <<service, receipt>>
    /\ UNCHANGED <<live, preimage>>

-----------------------------------------------------------------------------
(* Start-up.                                                               *)

DaemonDies ==
    /\ restorer # Stopped
    /\ restorer' = Stopped
    /\ UNCHANGED <<live, service, receipt, preimage>>

\* unfinished_runs refuses a plan without a receipt: the daemon does not
\* start.
DaemonStarts ==
    /\ restorer = Stopped
    /\ \A r \in Runs : receipt[r] # "plan_only"
    /\ restorer' = [pc |-> "recover"]
    /\ UNCHANGED <<live, service, receipt, preimage>>

\* recover, for the first unfinished run.
RecoverRestore(r) ==
    /\ restorer.pc = "recover" /\ Unfinished # {}
    /\ r \in Unfinished /\ \A q \in Unfinished : r <= q
    /\ IF receipt[r] \in {"planned", "prepared"}
       THEN Write(r, "rolled_back") /\ UNCHANGED restorer
       ELSE restorer' = At("redo", r) /\ UNCHANGED receipt
    /\ UNCHANGED <<live, service, preimage>>

Serve ==
    /\ restorer.pc = "recover" /\ Unfinished = {}
    /\ restorer' = Awake
    /\ UNCHANGED <<live, service, receipt, preimage>>

ServiceWrites(c) ==
    /\ service /\ live \notin {Gone, c}
    /\ live' = c
    /\ UNCHANGED <<service, receipt, preimage, restorer>>

RestoreNext ==
    \/ \E r \in Runs :
        \/ WritePlan(r) \/ WritePlanned(r) \/ KeepPreimage(r) \/ StagingFails(r)
        \/ WriteSwapping(r) \/ StopService(r) \/ RemoveLive(r)
        \/ InstallSnapshot(r) \/ WriteSwapped(r) \/ VerifyLive(r)
        \/ StartService(r) \/ WriteVerified(r)
        \/ RollbackStops(r) \/ RollbackRemoves(r) \/ RollbackInstalls(r)
        \/ RollbackStarts(r) \/ RecoverRestore(r)
    \/ DaemonDies \/ DaemonStarts \/ Serve
    \/ \E c \in Contents : ServiceWrites(c)

RestoreSpec == RestoreInit /\ [][RestoreNext]_restoreVars

-----------------------------------------------------------------------------
(* Properties.                                                             *)

(* Every run has a receipt state, a preimage or none, and the daemon works *)
(* on one run at a time.                                                   *)
RestoreTypeOK ==
    /\ live \in Contents \cup {Gone} /\ service \in BOOLEAN
    /\ receipt \in [Runs -> RestoreStates]
    /\ preimage \in [Runs -> Contents \cup {NoImage}]
    /\ restorer.pc \notin {"idle", "off", "recover"} => restorer.run \in Runs

(* When an interruption leaves no database file behind, a run that         *)
(* start-up rolls back still holds a preimage to put there.                *)
MissingRecoverable ==
    live = Gone => \E r \in Unfinished :
        receipt[r] \in {"swapping", "swapped"} /\ preimage[r] # NoImage

(* The service never runs on a database that is being replaced: through    *)
(* crashes, failed commands and recoveries it finds a file.                *)
RunningHasDatabase == service => live # Gone

(* A daemon that serves requests has settled every run its predecessor was *)
(* killed in: only commands that failed under it leave a run unfinished,   *)
(* and none of those is without a database.                                *)
ServingHasDatabase == restorer = Awake => live # Gone
=============================================================================
