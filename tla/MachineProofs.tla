---------------------------- MODULE MachineProofs ----------------------------
(***************************************************************************)
(* The inductive invariants of what changes a machine: the providers, the  *)
(* adapters, the helper on a target, the daemon's own service, the desktop *)
(* and the onboarding, for any number of runs, paths, shells and edits.    *)
(* DomainsProofs takes the theorems from them.                             *)
(***************************************************************************)
EXTENDS ProviderPipeline, ProviderSandbox, Engram, ServiceAdapter, RemoteHelper,
        DaemonService, Desktop, Onboarding, Credentials, RemoteFiles, LocalFiles,
        PackageMutation, SequenceTheorems, TLAPS

-----------------------------------------------------------------------------
(* ProviderPipeline. *)

PipelineSteps == {"idle", "open", "refused", "inspected", "screened", "digested",
                  "program", "copied", "verified", "run", "ran", "staged",
                  "scanned", "finalized", "final"}
Versions == [program : 0 .. MaxEdits, source : 0 .. MaxEdits]

PipelineType ==
    /\ pvAt \in PipelineSteps /\ pvTampered \in PipelineSteps \cup {"never"}
    /\ pvLive \in Versions /\ pvInspected \in Versions /\ pvApproved \in Versions
    /\ pvSnap \in [program : 0 .. Odd, source : 0 .. Odd]

\* A copy nobody has touched is what was approved, and what is about to run has
\* passed preflight unless it was changed after that.
CopiesHonest ==
    /\ pvTampered = "never" =>
         /\ pvAt \in {"program", "copied", "verified", "run", "ran"} =>
              pvSnap.program = pvApproved.program
         /\ pvAt \in {"copied", "verified", "run", "ran"} => pvSnap.source = pvApproved.source
    /\ pvAt \in {"run", "ran"} =>
         /\ pvTampered \notin {"run", "ran"} => Screened(pvSnap.source)
         /\ pvSnap = pvApproved => Screened(pvApproved.source)

\* What the provider was run on in this materialisation.
RanOnApproved ==
    /\ pvAt \in {"open", "inspected", "screened", "digested", "program", "copied",
                "verified"} => pvRan = {}
    /\ pvAt \in {"run", "ran"} /\ pvSnap = pvApproved => \A x \in pvRan : x = pvApproved
    /\ pvAt \in {"staged", "scanned", "finalized", "final"} =>
         \A x \in pvRan : x = pvApproved /\ Screened(x.source)

PipelineInv ==
    /\ PipelineType /\ CopiesHonest /\ RanOnApproved
    /\ StateMeansInputs /\ ExecutedWasScreened

\* Nothing has run and nothing is kept at first.
LEMMA PipelineStart == ASSUME PipelineInit PROVE PipelineInv
<1>1. NoInputs \in Versions /\ NoInputs \in [program : 0 .. Odd, source : 0 .. Odd]
  BY PipelineBounds DEF NoInputs, Versions, Odd
<1>2. PipelineType
  BY <1>1 DEF PipelineInit, PipelineType, PipelineSteps
<1>3. QED
  BY <1>2 DEF PipelineInit, PipelineInv, CopiesHonest, RanOnApproved,
     StateMeansInputs, ExecutedWasScreened

\* Every step of a materialisation, of the owner and of other programs keeps
\* the copies honest and the states true to their inputs.
LEMMA PipelineStep ==
    ASSUME PipelineInv, [PipelineNext]_pvVars
    PROVE  PipelineInv'
<1> USE PipelineBounds DEF PipelineInv, PipelineType, PipelineSteps, CopiesHonest,
        RanOnApproved, StateMeansInputs, ExecutedWasScreened, pvKept, Odd
<1>1. CASE OpenWorkspace
  BY <1>1 DEF OpenWorkspace
<1>2. CASE InspectInputs \/ PreflightLive
  BY <1>2 DEF InspectInputs, PreflightLive, PipelineEnds
<1>3. CASE DigestInputs
  BY <1>3 DEF DigestInputs, PipelineAt
<1>4. CASE SnapshotProgram
  BY <1>4 DEF SnapshotProgram, PipelineEnds, Versions
<1>5. CASE SnapshotSource
  BY <1>5 DEF SnapshotSource, PipelineEnds, Versions
<1>v. CASE VerifyCopies
  BY <1>v DEF VerifyCopies, PipelineEnds
<1>6. CASE PreflightSnapshot
  BY <1>6 DEF PreflightSnapshot, SnapshotScreened, PipelineEnds, Screened
<1>7. CASE RunProvider
  BY <1>7 DEF RunProvider
<1>8. CASE VerifyAfterRun
  BY <1>8 DEF VerifyAfterRun, SnapshotVerified, PipelineEnds
<1>9. CASE ScanOutputs \/ FinalizeState \/ MaterializeAll
  BY <1>9 DEF ScanOutputs, FinalizeState, MaterializeAll
<1>10. CASE PersistState
  BY <1>10 DEF PersistState, PipelineAt
<1>11. ASSUME NEW f \in {"program", "source"}, EditInput(f) PROVE PipelineInv'
  BY <1>11 DEF EditInput, Versions, Screened
<1>12. CASE TamperCopy
  <2>1. PICK f \in {"program", "source"}, v \in {Odd, Unsafe} : pvSnap' = [pvSnap EXCEPT ![f] = v]
    BY <1>12 DEF TamperCopy
  <2>2. pvSnap' \in [program : 0 .. Odd, source : 0 .. Odd]
    BY <2>1 DEF Unsafe
  <2>3. pvAt \in {"run", "ran"} => pvSnap = pvApproved
    BY <1>12 DEF TamperCopy, Versions
  <2>4. QED
    BY <1>12, <2>2, <2>3 DEF TamperCopy
<1>13. CASE PipelineDies
  BY <1>13 DEF PipelineDies
<1>14. CASE RefusalSeen \/ UNCHANGED pvVars
  BY <1>14 DEF RefusalSeen, PipelineAt, pvVars, Screened
<1>15. QED
  BY <1>1, <1>2, <1>3, <1>4, <1>5, <1>6, <1>7, <1>8, <1>9, <1>10, <1>11, <1>12,
     <1>13, <1>14, <1>v DEF PipelineNext

-----------------------------------------------------------------------------
(* ProviderSandbox. *)

Active(r) == sbAt[r] \notin {"new", "ended"}

SandboxType ==
    /\ sbAt \in [SandboxRuns ->
         {"new", "granting", "waiting", "joining", "restoring", "ended"}]
    /\ DOMAIN sbAcl = SandboxPaths
    /\ DOMAIN sbSaved = SandboxRuns /\ sbDisturbed \in BOOLEAN
    /\ sbAlive \in [SandboxRuns -> SUBSET {"provider", "descendant"}]
    /\ sbWritten \in [SandboxRuns -> Nat] /\ sbRead \in [SandboxRuns -> Nat]
    /\ sbOverflow \in [SandboxRuns -> BOOLEAN]
    /\ sbResult \in [SandboxRuns -> {"none", "failed", "success", "unwaited"}]

\* There is no result before the readers are joined.
ResultsLate ==
    \A r \in SandboxRuns :
        sbAt[r] \in {"new", "granting", "waiting", "joining"} => sbResult[r] = "none"

\* While nothing disturbs it, one run is active; it holds the only entries,
\* and the lists it will put back are empty.
GrantsOwned ==
    ~ sbDisturbed =>
        /\ \A r, q \in SandboxRuns : Active(r) /\ Active(q) => r = q
        /\ \A r \in SandboxRuns : Granted(r) # {} => Active(r)
        /\ \A r \in SandboxRuns : \A p \in Granted(r) : sbSaved[r][p] = {}
        /\ \A p \in SandboxPaths : sbAcl[p] # {} =>
              \E r \in SandboxRuns : p \in Granted(r)

SandboxInv ==
    SandboxType /\ ResultsLate /\ GrantsOwned /\ NothingOutlives /\ SuccessIsWhole

\* No run has started at first.
LEMMA SandboxStart == ASSUME SandboxInit PROVE SandboxInv
<1>1. SandboxType
  BY DEF SandboxInit, SandboxType
<1>2. \A r \in SandboxRuns : Granted(r) = {}
  BY DEF SandboxInit, Granted
<1>3. QED
  BY <1>1, <1>2 DEF SandboxInit, SandboxInv, ResultsLate, GrantsOwned, Active,
     NothingOutlives, SuccessIsWhole

\* Every step of a run ends what it started and keeps its results whole.
LEMMA SandboxRunStep ==
    ASSUME SandboxInv, [SandboxNext]_sbVars
    PROVE  SandboxType' /\ ResultsLate' /\ NothingOutlives' /\ SuccessIsWhole'
<1> USE LimitBelowBound DEF SandboxInv, SandboxType, ResultsLate, NothingOutlives,
        SuccessIsWhole, sbPipe, sbAccess, Step, FailsAt, Terminate, Forget
<1> SUFFICES ASSUME SandboxNext
             PROVE  SandboxType' /\ ResultsLate' /\ NothingOutlives' /\ SuccessIsWhole'
  BY DEF sbVars
<1> PICK r \in SandboxRuns :
      \/ OpenSandbox(r) \/ GrantFails(r) \/ LaunchProvider(r)
      \/ ProviderForks(r) \/ ProviderWrites(r) \/ ProviderExits(r) \/ BoundedRead(r)
      \/ LimitReached(r) \/ ProviderDone(r) \/ WaitFails(r) \/ JoinReaders(r)
      \/ CloseSandbox(r) \/ HostDies(r)
      \/ \E p \in SandboxPaths : InstallGrant(r, p) \/ RestoreGrant(r, p)
  BY DEF SandboxNext
<1>o. CASE OpenSandbox(r)
  BY <1>o DEF OpenSandbox
<1>g. CASE GrantFails(r)
  BY <1>g DEF GrantFails
<1>1. CASE CloseSandbox(r)
  BY <1>1 DEF CloseSandbox
<1>2. CASE LaunchProvider(r)
  BY <1>2 DEF LaunchProvider
<1>3. CASE ProviderForks(r) \/ ProviderExits(r)
  BY <1>3 DEF ProviderForks, ProviderExits
<1>4. CASE ProviderWrites(r)
  BY <1>4 DEF ProviderWrites
<1>5. CASE BoundedRead(r)
  <2>1. sbResult[r] # "success"
    BY <1>5 DEF BoundedRead
  <2>2. sbRead' \in [SandboxRuns -> Nat] /\ sbOverflow' \in [SandboxRuns -> BOOLEAN]
    <3>1. CASE sbRead' = [sbRead EXCEPT ![r] = @ + 1] /\ UNCHANGED sbOverflow
      BY <3>1
    <3>2. CASE sbOverflow' = [sbOverflow EXCEPT ![r] = TRUE] /\ UNCHANGED sbRead
      BY <3>2
    <3>3. QED
      BY <1>5, <3>1, <3>2 DEF BoundedRead
  <2>3. \A q \in SandboxRuns \ {r} : sbRead'[q] = sbRead[q]
    BY <1>5 DEF BoundedRead
  <2>4. QED
    BY <1>5, <2>1, <2>2, <2>3 DEF BoundedRead
<1>6. CASE LimitReached(r) \/ ProviderDone(r)
  BY <1>6 DEF LimitReached, ProviderDone
<1>w. CASE WaitFails(r)
  BY <1>w DEF WaitFails
<1>h. CASE HostDies(r)
  <2>1. \A q \in SandboxRuns : sbAt'[q] \in {sbAt[q], "ended"}
    BY <1>h DEF HostDies
  <2>2. SandboxType'
    BY <1>h DEF HostDies
  <2>3. QED
    BY <1>h, <2>1, <2>2 DEF HostDies
<1>7. CASE JoinReaders(r)
  BY <1>7 DEF JoinReaders, ReaderDone, Exceeded
<1>8. ASSUME NEW p \in SandboxPaths, InstallGrant(r, p)
      PROVE  SandboxType' /\ ResultsLate' /\ NothingOutlives' /\ SuccessIsWhole'
  BY <1>8 DEF InstallGrant
<1>9. ASSUME NEW p \in SandboxPaths, RestoreGrant(r, p)
      PROVE  SandboxType' /\ ResultsLate' /\ NothingOutlives' /\ SuccessIsWhole'
  <2>1. /\ sbAt' = sbAt /\ sbAlive' = sbAlive /\ sbWritten' = sbWritten /\ sbRead' = sbRead
        /\ sbOverflow' = sbOverflow /\ sbAt[r] = "restoring"
    BY <1>9 DEF RestoreGrant
  <2>2. DOMAIN sbAcl' = SandboxPaths /\ DOMAIN sbSaved' = SandboxRuns /\ sbDisturbed' \in BOOLEAN
    BY <1>9 DEF RestoreGrant
  <2>3. \/ sbResult' = sbResult
        \/ sbResult' = [sbResult EXCEPT ![r] = "failed"] /\ sbResult[r] # "unwaited"
    <3>1. CASE sbResult[r] = "unwaited"
      BY <1>9, <3>1 DEF RestoreGrant
    <3>2. CASE sbResult[r] # "unwaited"
      BY <1>9, <3>2 DEF RestoreGrant
    <3>3. QED
      BY <3>1, <3>2
  <2>4. QED
    BY <2>1, <2>2, <2>3
<1>10. QED
  BY <1>1, <1>2, <1>3, <1>4, <1>5, <1>6, <1>7, <1>8, <1>9, <1>h, <1>o, <1>g, <1>w

\* A run that is not disturbed takes back exactly the entries it added.
LEMMA SandboxGrantStep ==
    ASSUME SandboxInv, [SandboxNext]_sbVars
    PROVE  GrantsOwned'
<1> USE DEF SandboxInv, SandboxType, GrantsOwned, Active, Granted
<1>1. CASE UNCHANGED <<sbAt, sbAcl, sbSaved, sbDisturbed>>
  BY <1>1
<1>2. ASSUME NEW r \in SandboxRuns, OpenSandbox(r) PROVE GrantsOwned'
  BY <1>2 DEF OpenSandbox, Step, sbAccess
<1>3. ASSUME NEW r \in SandboxRuns, NEW to \in {"waiting", "joining", "restoring"},
             sbAt[r] \in {"granting", "waiting", "joining"},
             sbAt' = [sbAt EXCEPT ![r] = to], UNCHANGED <<sbAcl, sbSaved, sbDisturbed>>
      PROVE  GrantsOwned'
  BY <1>3
<1>4. ASSUME NEW r \in SandboxRuns, CloseSandbox(r) PROVE GrantsOwned'
  BY <1>4 DEF CloseSandbox, Step, sbAccess
<1>5. ASSUME NEW r \in SandboxRuns, HostDies(r) PROVE GrantsOwned'
  BY <1>5 DEF HostDies
<1>6. ASSUME NEW r \in SandboxRuns, NEW p \in SandboxPaths, InstallGrant(r, p)
      PROVE  GrantsOwned'
  <2>1. SUFFICES ASSUME ~ sbDisturbed PROVE GrantsOwned'
    BY <1>6 DEF InstallGrant
  <2>2. sbAcl[p] = {}
    BY <1>6, <2>1 DEF InstallGrant
  <2>3. /\ sbSaved'[r] = [q \in Granted(r) \cup {p} |->
                            IF q = p THEN sbAcl[p] ELSE sbSaved[r][q]]
        /\ \A q \in SandboxRuns \ {r} : sbSaved'[q] = sbSaved[q]
        /\ DOMAIN sbSaved' = SandboxRuns
    BY <1>6 DEF InstallGrant
  <2>4. /\ \A q \in SandboxPaths \ {p} : sbAcl'[q] = sbAcl[q]
        /\ sbAt' = sbAt /\ sbDisturbed' = sbDisturbed /\ Active(r)
    BY <1>6 DEF InstallGrant
  <2>5. QED
    BY <2>1, <2>2, <2>3, <2>4
<1>7. ASSUME NEW r \in SandboxRuns, NEW p \in SandboxPaths, RestoreGrant(r, p)
      PROVE  GrantsOwned'
  <2>1. SUFFICES ASSUME ~ sbDisturbed, ~ sbDisturbed' PROVE GrantsOwned'
    BY <1>7 DEF RestoreGrant
  <2>2. /\ sbSaved'[r] = [q \in Granted(r) \ {p} |-> sbSaved[r][q]]
        /\ \A q \in SandboxRuns \ {r} : sbSaved'[q] = sbSaved[q]
        /\ DOMAIN sbSaved' = SandboxRuns
    BY <1>7 DEF RestoreGrant, Forget
  <2>3. sbAcl'[p] = {} /\ \A q \in SandboxPaths \ {p} : sbAcl'[q] = sbAcl[q]
    BY <1>7, <2>1 DEF RestoreGrant
  <2>4. sbAt' = sbAt /\ Active(r) /\ p \in Granted(r)
    BY <1>7 DEF RestoreGrant
  <2>5. \A q \in SandboxRuns : Granted(q) # {} => q = r
    BY <2>1, <2>4
  <2>6. QED
    BY <2>1, <2>2, <2>3, <2>4, <2>5
<1>8. QED
  BY <1>1, <1>2, <1>3, <1>4, <1>5, <1>6, <1>7 DEF SandboxNext, sbVars, sbAccess,
     GrantFails, FailsAt, Step, LaunchProvider, ProviderForks, ProviderWrites,
     ProviderExits, BoundedRead, LimitReached, ProviderDone, WaitFails, JoinReaders

\* The sandbox keeps its invariant.
LEMMA SandboxStep ==
    ASSUME SandboxInv, [SandboxNext]_sbVars
    PROVE  SandboxInv'
BY SandboxRunStep, SandboxGrantStep DEF SandboxInv

\* When no run is active, an entry that is left belongs to nobody.
LEMMA SandboxSafe == ASSUME SandboxInv PROVE AccessRestored
BY DEF SandboxInv, GrantsOwned, Active, AccessRestored

-----------------------------------------------------------------------------
(* Engram: manifests and runs. *)

\* What a manifest, a run and the targets are.
Manifests == [ChunkIds -> Sides \cup {"none"}]
EngramStages == {"new", "readleft", "readright", "copy", "writeleft", "writeright",
                 "importleft", "importright", "done", "ended"}
EngramTypes ==
  /\ egManifest \in [Sides -> Manifests]
  /\ egRun \in [EngramRuns -> [at : EngramStages, read : [Sides -> Manifests]]]

\* Nothing is named at first.
LEMMA EngramStart == ASSUME EngramInit PROVE EngramTypes
BY DEF EngramInit, EngramTypes, EngramStages, Manifests, NoChunks

\* The merged manifest names what either manifest that was read names.
LEMMA MergeNames ==
    ASSUME EngramTypes, NEW r \in EngramRuns
    PROVE  /\ MergeManifests(r) \in Manifests
           /\ \A t \in Sides : Names(egRun[r].read[t]) \subseteq Names(MergeManifests(r))
<1>1. \A t \in Sides : egRun[r].read[t] \in Manifests
  BY DEF EngramTypes
<1>2. Left \in Sides /\ Right \in Sides /\ Sides = {Left, Right}
  BY DEF Sides
<1>3. \A m \in Manifests : \A c \in ChunkIds : m[c] \in Sides \cup {"none"}
  BY DEF Manifests
<1>4. MergeManifests(r) \in Manifests
  BY <1>1, <1>2, <1>3 DEF MergeManifests, Manifests
<1>5. \A c \in ChunkIds : MergeManifests(r)[c] =
         IF egRun[r].read[Left][c] # "none" THEN egRun[r].read[Left][c] ELSE egRun[r].read[Right][c]
  BY DEF MergeManifests
<1>6. QED
  BY <1>2, <1>4, <1>5 DEF Names

\* Every step of a run, and an export, leaves manifests manifests.
LEMMA EngramStep ==
    ASSUME EngramTypes, [EngramNext]_egVars
    PROVE  EngramTypes'
<1>0. egManifest \in [Sides -> Manifests]
      /\ egRun \in [EngramRuns -> [at : EngramStages, read : [Sides -> Manifests]]]
  BY DEF EngramTypes
<1>r. ASSUME NEW r \in EngramRuns, NEW to \in EngramStages, egRun' = [egRun EXCEPT ![r].at = to]
      PROVE  egRun' \in [EngramRuns -> [at : EngramStages, read : [Sides -> Manifests]]]
  BY <1>0, <1>r
<1>u. ASSUME NEW r \in EngramRuns, NEW at, EndsUnresolved(r, at)
      PROVE  egRun' \in [EngramRuns -> [at : EngramStages, read : [Sides -> Manifests]]]
  BY <1>r, <1>u DEF EndsUnresolved, EngramStages
<1>g. ASSUME NEW r \in EngramRuns, NEW from, NEW to \in EngramStages, RunGoes(r, from, to)
      PROVE  egRun' \in [EngramRuns -> [at : EngramStages, read : [Sides -> Manifests]]]
  BY <1>r, <1>g DEF RunGoes
<1>1. ASSUME NEW t \in Sides, NEW c \in ChunkIds, EngramExport(t, c) PROVE EngramTypes'
  <2>1. [egManifest[t] EXCEPT ![c] = t] \in Manifests
    BY <1>0 DEF Manifests
  <2>2. egManifest' \in [Sides -> Manifests]
    BY <1>0, <1>1, <2>1 DEF EngramExport
  <2>3. QED
    BY <1>0, <1>1, <2>2 DEF EngramExport, EngramTypes
<1>2. ASSUME NEW r \in EngramRuns, OpenTargets(r) \/ CompareChunks(r) \/ PersistReceipt(r)
      PROVE  EngramTypes'
  <2>1. egRun' \in [EngramRuns -> [at : EngramStages, read : [Sides -> Manifests]]]
    BY <1>2, <1>u, <1>g DEF OpenTargets, CompareChunks, PersistReceipt, Unavailable, EngramStages
  <2>2. egManifest' = egManifest
    BY <1>2 DEF OpenTargets, CompareChunks, PersistReceipt, Unavailable, egFiles
  <2>3. QED
    BY <1>0, <2>1, <2>2 DEF EngramTypes
<1>3. ASSUME NEW r \in EngramRuns, NEW t \in Sides, ReadManifest(r, t) PROVE EngramTypes'
  <2>1. egManifest' = egManifest
    BY <1>3 DEF ReadManifest, Unavailable, egFiles
  <2>2. CASE \E from : Unavailable(r, from)
    BY <1>0, <1>u, <2>1, <2>2 DEF EngramTypes, Unavailable
  <2>3. CASE egRun' = [egRun EXCEPT ![r] = [at |-> IF t = Left THEN "readright" ELSE "copy",
                                            read |-> [@.read EXCEPT ![t] = egManifest[t]]]]
    <3>1. [egRun[r].read EXCEPT ![t] = egManifest[t]] \in [Sides -> Manifests]
      BY <1>0
    <3>2. QED
      BY <1>0, <2>1, <2>3, <3>1 DEF EngramTypes, EngramStages
  <2>4. QED
    BY <1>3, <2>2, <2>3 DEF ReadManifest
<1>4. ASSUME NEW r \in EngramRuns, NEW t \in Sides, WriteManifest(r, t) PROVE EngramTypes'
  <2>1. egManifest' = egManifest \/ egManifest' = [egManifest EXCEPT ![t] = MergeManifests(r)]
    BY <1>4 DEF WriteManifest, Unavailable, egFiles
  <2>2. egManifest' \in [Sides -> Manifests]
    BY <1>0, <2>1, MergeNames
  <2>3. egRun' \in [EngramRuns -> [at : EngramStages, read : [Sides -> Manifests]]]
    BY <1>4, <1>u, <1>g DEF WriteManifest, Unavailable, EngramStages
  <2>4. QED
    BY <2>2, <2>3 DEF EngramTypes
<1>5. ASSUME NEW r \in EngramRuns, NEW t \in Sides, ImportChunks(r, t) PROVE EngramTypes'
  <2>1. egManifest' = egManifest
    BY <1>5 DEF ImportChunks, Unavailable, egFiles
  <2>2. egRun' \in [EngramRuns -> [at : EngramStages, read : [Sides -> Manifests]]]
    BY <1>5, <1>u, <1>g DEF ImportChunks, Unavailable, EngramStages
  <2>3. QED
    BY <1>0, <2>1, <2>2 DEF EngramTypes
<1>6. ASSUME NEW r \in EngramRuns, NEW t \in Sides, NEW c \in ChunkIds, CopyTargetChunk(r, t, c)
      PROVE  EngramTypes'
  BY <1>0, <1>6 DEF CopyTargetChunk, EngramTypes
<1>7. CASE UNCHANGED egVars
  BY <1>0, <1>7 DEF egVars, EngramTypes
<1>8. QED
  BY <1>1, <1>2, <1>3, <1>4, <1>5, <1>6, <1>7 DEF EngramNext

\* Only the manifest a run writes loses an entry, and the run had not read it.
LEMMA EngramKeeps ==
    ASSUME EngramTypes, [EngramNext]_egVars
    PROVE  EntriesKept
<1>1. SUFFICES ASSUME EngramNext, NEW t \in Sides, NEW c \in Names(egManifest[t]) \ Names(egManifest'[t])
               PROVE  \E r \in EngramRuns : egRun[r].at # egRun'[r].at /\ c \notin Names(egRun[r].read[t])
  BY DEF EntriesKept
<1>0. egManifest \in [Sides -> Manifests]
      /\ egRun \in [EngramRuns -> [at : EngramStages, read : [Sides -> Manifests]]]
  BY DEF EngramTypes
<1>2. egManifest' # egManifest
  BY <1>1
<1>3. ASSUME NEW u \in Sides, NEW d \in ChunkIds, EngramExport(u, d) PROVE FALSE
  <2>1. egManifest'[t] = egManifest[t] \/ egManifest'[t] = [egManifest[t] EXCEPT ![d] = t]
    BY <1>0, <1>3 DEF EngramExport
  <2>2. Left # "none" /\ Right # "none"
    BY DEF Left, Right
  <2>3. t # "none"
    BY <2>2 DEF Sides
  <2>4. QED
    BY <1>0, <1>1, <2>1, <2>3 DEF Names, Manifests
<1>4. ASSUME NEW r \in EngramRuns, NEW u \in Sides, WriteManifest(r, u)
      PROVE  egRun[r].at # egRun'[r].at /\ c \notin Names(egRun[r].read[t])
  <2>1. egManifest' = [egManifest EXCEPT ![u] = MergeManifests(r)]
        /\ \E from, to : RunGoes(r, from, to) /\ from # to
    BY <1>2, <1>4 DEF WriteManifest, Unavailable, egFiles
  <2>2. egRun[r].at # egRun'[r].at
    BY <1>0, <2>1 DEF RunGoes
  <2>3. u = t /\ egManifest'[t] = MergeManifests(r)
    BY <1>0, <1>1, <2>1
  <2>4. QED
    BY <1>1, <2>2, <2>3, MergeNames
<1>5. QED
  BY <1>1, <1>2, <1>3, <1>4 DEF EngramNext, OpenTargets, CompareChunks, PersistReceipt, ReadManifest,
     ImportChunks, CopyTargetChunk, Unavailable, egFiles

-----------------------------------------------------------------------------
(* ServiceAdapter: commands that lead from the state seen to the one desired. *)

Wished == {"absent", "stopped", "running"}
ServiceIntents == [spec : Definitions, desired : Wished, before : States]
Brings(desired) == IF desired = "running" THEN "start" ELSE "halt"
Returns == IF svIntent.before.running THEN "start" ELSE "stop"

\* The commands left of an apply end in the desired state.
OnTrack ==
  \/ svTodo = <<>> /\ svNow = DesiredObserved(svIntent.spec, svIntent.desired)
  \/ svIntent.desired = "absent" /\ svTodo \in {<<"stop", "remove">>, <<"remove">>}
  \/ svIntent.desired # "absent" /\ svTodo = <<"install", Brings(svIntent.desired)>>
  \/ /\ svIntent.desired # "absent" /\ svTodo = <<Brings(svIntent.desired)>>
     /\ svNow.installed /\ svNow.definition = svIntent.spec
\* The commands left of a rollback end in the state before.
OnWayBack ==
  IF ~ svIntent.before.installed
  THEN svTodo \in {<<"stop", "remove">>, <<"remove">>} \/ (svTodo = <<>> /\ svNow = Missing)
  ELSE \/ svTodo = <<"install", Returns>>
       \/ svTodo = <<Returns>> /\ svNow.installed /\ svNow.definition = svIntent.spec
       \/ svTodo = <<>> /\ svNow = [svIntent.before EXCEPT !.definition = svIntent.spec]
Todos == {<<>>, <<"stop", "remove">>, <<"remove">>, <<"install", "start">>, <<"install", "halt">>,
          <<"install", "stop">>, <<"start">>, <<"halt">>, <<"stop">>}

ServiceInv ==
  /\ svNow \in States /\ svTodo \in Todos
  /\ svAt # "idle" => svIntent \in ServiceIntents
  /\ svAt = "planned" => svIntent.before # DesiredObserved(svIntent.spec, svIntent.desired)
  /\ svAt = "apply" => OnTrack \/ svMet
  /\ svAt = "rollback" => OnWayBack
  /\ FailsOnlyDisturbed /\ ServiceUndone

\* Nothing is asked of the service at first.
LEMMA ServiceStart == ASSUME ServiceInit PROVE ServiceInv
BY DEF ServiceInit, ServiceInv, Todos, FailsOnlyDisturbed, ServiceUndone

\* What a command leaves behind is a state of the platform.
LEMMA CommandsAct ==
    ASSUME svIntent \in ServiceIntents, svNow \in States,
           NEW c \in {"install", "start", "stop", "remove", "halt"}, Does(c)
    PROVE  /\ svNow' \in States
           /\ c = "remove" => svNow' = Missing
           /\ c = "install" => svNow' = [installed |-> TRUE, running |-> svNow.running, definition |-> svIntent.spec]
           /\ c = "start" /\ svNow.installed => svNow' = [installed |-> TRUE, running |-> TRUE, definition |-> svNow.definition]
           /\ c \in {"stop", "halt"} /\ svNow.installed => svNow' = [installed |-> TRUE, running |-> FALSE, definition |-> svNow.definition]
<1>1. svIntent.spec \in Definitions
  BY DEF ServiceIntents
<1>2. svNow \in [installed : {TRUE}, running : BOOLEAN, definition : Definitions] \/ svNow = Missing
  BY DEF States
<1>3. CASE svNow = Missing
  BY <1>1, <1>3 DEF Does, Ran, Missing, States
<1>4. CASE svNow \in [installed : {TRUE}, running : BOOLEAN, definition : Definitions]
  BY <1>1, <1>4 DEF Does, Ran, Missing, States
<1>5. QED
  BY <1>2, <1>3, <1>4

\* Two commands one after the other.
LEMMA PairOfSingles == ASSUME NEW a, NEW b PROVE <<a>> \o <<b>> = <<a,b>>
<1> DEFINE S == {a, b}
<1>1. <<a>> \in Seq(S) /\ <<b>> \in Seq(S) /\ <<a,b>> \in Seq(S)
  OBVIOUS
<1>2. Len(<<a>>) = 1 /\ Len(<<b>>) = 1 /\ Len(<<a,b>>) = 2
  OBVIOUS
<1>3. Len(<<a>> \o <<b>>) = 2 /\ <<a>> \o <<b>> \in Seq(S)
  BY <1>1, <1>2, ConcatProperties
<1>4. (<<a>> \o <<b>>)[1] = a /\ (<<a>> \o <<b>>)[2] = b
  BY <1>1, <1>2
<1> DEFINE c == <<a>> \o <<b>>
           d == <<a, b>>
<1>5. d[1] = a /\ d[2] = b
  OBVIOUS
<1> HIDE DEF c, d
<1>6. \A i \in 1 .. Len(c) : c[i] = d[i]
  BY <1>3, <1>4, <1>5 DEF c
<1>7. c = d
  BY <1>1, <1>2, <1>3, <1>6, SeqEqual, Zenon DEF c, d
<1>8. QED
  BY <1>7 DEF c, d

\* A service is what its three fields are.
LEMMA SameRecord ==
    ASSUME NEW D, NEW x \in [installed : {TRUE}, running : BOOLEAN, definition : D],
           NEW y \in [installed : {TRUE}, running : BOOLEAN, definition : D],
           x.installed = y.installed, x.running = y.running, x.definition = y.definition
    PROVE  x = y
OBVIOUS

\* The commands that may be left, taken one by one.
LEMMA TodoParts ==
    ASSUME svTodo \in Todos, svTodo # <<>>
    PROVE  /\ Head(svTodo) \in {"install", "start", "stop", "remove", "halt"}
           /\ Tail(svTodo) \in Todos
           /\ svTodo = <<"stop", "remove">> => Head(svTodo) = "stop" /\ Tail(svTodo) = <<"remove">>
           /\ \A c \in {"install", "start", "stop", "remove", "halt"} : svTodo = <<c>> => Head(svTodo) = c /\ Tail(svTodo) = <<>>
           /\ \A c \in {"start", "stop", "halt"} : svTodo = <<"install", c>> => Head(svTodo) = "install" /\ Tail(svTodo) = <<c>>
<1>1. \A a : Tail(<<a>>) = <<>> /\ Head(<<a>>) = a
  OBVIOUS
<1>2. \A a, b : Tail(<<a, b>>) = <<b>> /\ Head(<<a, b>>) = a
  OBVIOUS
<1>3. \/ svTodo \in {<<"remove">>, <<"start">>, <<"halt">>, <<"stop">>}
      \/ svTodo \in {<<"stop", "remove">>, <<"install", "start">>, <<"install", "halt">>, <<"install", "stop">>}
  BY DEF Todos
<1>4. /\ Head(svTodo) \in {"install", "start", "stop", "remove", "halt"}
      /\ Tail(svTodo) \in {<<>>, <<"remove">>, <<"start">>, <<"halt">>, <<"stop">>}
  <2>1. CASE svTodo \in {<<"remove">>, <<"start">>, <<"halt">>, <<"stop">>}
    BY <1>1, <2>1, Zenon
  <2>2. CASE svTodo \in {<<"stop", "remove">>, <<"install", "start">>, <<"install", "halt">>, <<"install", "stop">>}
    BY <1>2, <2>2, Zenon
  <2>3. QED
    BY <1>3, <2>1, <2>2, Zenon
<1>5. QED
  BY <1>1, <1>2, <1>4, Zenon DEF Todos

\* A plan that passed prepare starts with commands that lead to its goal.
LEMMA ApplyCommandsLead ==
    ASSUME svIntent \in ServiceIntents,
           svIntent.before # DesiredObserved(svIntent.spec, svIntent.desired)
    PROVE  /\ ApplyCommands \in Todos
           /\ svIntent.desired = "absent" => ApplyCommands \in {<<"stop", "remove">>, <<"remove">>}
           /\ svIntent.desired # "absent" =>
                \/ ApplyCommands = <<"install", Brings(svIntent.desired)>>
                \/ /\ ApplyCommands = <<Brings(svIntent.desired)>>
                   /\ svIntent.before.installed /\ svIntent.before.definition = svIntent.spec
<1> DEFINE b == svIntent.before
<1>1. b \in States /\ svIntent.desired \in Wished
  BY DEF ServiceIntents
<1>2. b = Missing \/ (b.installed /\ b.running \in BOOLEAN)
  BY <1>1 DEF States
<1>3. \A x : <<>> \o <<x>> = <<x>>
  OBVIOUS
<1>4. CASE svIntent.desired = "absent"
  <2>1. b.installed /\ b.running \in BOOLEAN
    BY <1>2, <1>4 DEF DesiredObserved
  <2>2. ApplyCommands = (IF b.running THEN <<"stop">> ELSE <<>>) \o <<"remove">>
    BY <1>4, <2>1 DEF ApplyCommands
  <2>3. CASE b.running
    BY <1>4, <2>2, <2>3, PairOfSingles DEF Todos
  <2>4. CASE ~ b.running
    BY <1>4, <1>3, <2>2, <2>4 DEF Todos
  <2>5. QED
    BY <2>3, <2>4
<1>5. CASE svIntent.desired # "absent"
  <2>1. ApplyCommands = (IF ~ b.installed \/ b.definition # svIntent.spec THEN <<"install">> ELSE <<>>)
                        \o <<Brings(svIntent.desired)>>
    BY <1>5 DEF ApplyCommands, Brings
  <2>2. Brings(svIntent.desired) \in {"start", "halt"}
    BY DEF Brings
  <2>3. CASE ~ b.installed \/ b.definition # svIntent.spec
    <3>1. ApplyCommands = <<"install", Brings(svIntent.desired)>>
      BY <2>1, <2>3, PairOfSingles
    <3>2. QED
      BY <1>5, <2>2, <3>1 DEF Todos
  <2>4. CASE ~ (~ b.installed \/ b.definition # svIntent.spec)
    <3>1. ApplyCommands = <<Brings(svIntent.desired)>>
      BY <2>1, <2>4, <1>3
    <3>2. QED
      BY <1>5, <2>2, <2>4, <3>1 DEF Todos
  <2>5. QED
    BY <2>3, <2>4
<1>6. QED
  BY <1>4, <1>5

\* A rollback starts with commands that lead back.
LEMMA RollbackCommandsLead ==
    ASSUME svIntent \in ServiceIntents, svNow \in States
    PROVE  /\ RollbackCommands \in Todos
           /\ ~ svIntent.before.installed =>
                RollbackCommands \in {<<"stop", "remove">>, <<"remove">>} \/ (RollbackCommands = <<>> /\ svNow = Missing)
           /\ svIntent.before.installed => RollbackCommands = <<"install", Returns>>
<1>2. svNow = Missing \/ (svNow.installed /\ svNow.running \in BOOLEAN)
  BY DEF States
<1>3. \A x : <<>> \o <<x>> = <<x>>
  OBVIOUS
<1>4. CASE svIntent.before.installed
  BY <1>4 DEF RollbackCommands, Returns, Todos
<1>5. CASE ~ svIntent.before.installed /\ svNow = Missing
  <2>1. RollbackCommands = <<>> \o <<>>
    BY <1>5 DEF RollbackCommands, Missing
  <2>2. RollbackCommands = <<>>
    BY <2>1
  <2>3. QED
    BY <1>5, <2>2 DEF Todos
<1>6. CASE ~ svIntent.before.installed /\ svNow.installed /\ svNow.running \in BOOLEAN
  <2>1. RollbackCommands = (IF svNow.running THEN <<"stop">> ELSE <<>>) \o <<"remove">>
    BY <1>6 DEF RollbackCommands
  <2>2. RollbackCommands \in {<<"stop", "remove">>, <<"remove">>}
    BY <1>3, <2>1, PairOfSingles
  <2>3. QED
    BY <1>6, <2>2 DEF Todos
<1>7. QED
  BY <1>2, <1>4, <1>5, <1>6

\* Commands, failures and the owner keep the operation on its way.
LEMMA ServiceStep ==
    ASSUME ServiceInv, [ServiceNext]_svVars
    PROVE  ServiceInv'
<1>0. svNow \in States /\ svTodo \in Todos
  BY DEF ServiceInv
<1>1. CASE RegisterService
  <2>1. svIntent' \in ServiceIntents /\ svIntent'.before # DesiredObserved(svIntent'.spec, svIntent'.desired)
    BY <1>0, <1>1 DEF RegisterService, ServiceIntents, Wished
  <2>2. svAt' = "planned" /\ svNow' \in States /\ svTodo' \in Todos
    BY <1>0, <1>1 DEF RegisterService
  <2>3. svAt' # "apply" /\ svAt' # "rollback" /\ svAt' # "failed" /\ svAt' # "undone"
    BY <2>2
  <2>4. QED
    BY <2>1, <2>2, <2>3 DEF ServiceInv, FailsOnlyDisturbed, ServiceUndone, DesiredObserved
<1>2. CASE PrepareService
  <2>1. /\ svIntent \in ServiceIntents /\ svIntent' = svIntent /\ svNow' = svNow
        /\ svIntent.before # DesiredObserved(svIntent.spec, svIntent.desired)
        /\ svTodo' = ApplyCommands /\ svAt' \in {"apply", "refused"}
        /\ svAt' = "apply" => svNow = svIntent.before
    BY <1>2 DEF PrepareService, ServiceInv, PreparedAsSeen
  <2>2. svTodo' \in Todos
    BY <2>1, ApplyCommandsLead
  <2>3. svAt' = "apply" => OnTrack'
    BY <2>1, ApplyCommandsLead DEF OnTrack
  <2>4. svAt' # "planned" /\ svAt' # "rollback" /\ svAt' # "failed" /\ svAt' # "undone"
    BY <2>1
  <2>5. QED
    BY <1>0, <2>1, <2>2, <2>3, <2>4 DEF ServiceInv, FailsOnlyDisturbed, ServiceUndone
<1>3. CASE ApplyService
  <2>1. /\ svIntent \in ServiceIntents /\ svIntent' = svIntent /\ svAt = "apply" /\ svAt' = "apply"
        /\ svTodo # <<>> /\ svTodo' = Tail(svTodo) /\ Does(Head(svTodo)) /\ svMet' = svMet
        /\ OnTrack \/ svMet
    BY <1>3 DEF ApplyService, ServiceInv
  <2>2. /\ Head(svTodo) \in {"install", "start", "stop", "remove", "halt"} /\ svTodo' \in Todos
    BY <1>0, <2>1, TodoParts
  <2>3. svNow' \in States
    BY <1>0, <2>1, <2>2, CommandsAct
  <2>4. ASSUME OnTrack PROVE OnTrack'
    <3>1. CASE svTodo = <<"stop", "remove">> /\ svIntent.desired = "absent"
      BY <1>0, <2>1, <3>1, TodoParts DEF OnTrack
    <3>2. CASE svTodo = <<"remove">> /\ svIntent.desired = "absent"
      <4>1. Head(svTodo) = "remove" /\ svTodo' = <<>>
        BY <1>0, <2>1, <3>2, TodoParts
      <4>2. svNow' = Missing
        BY <1>0, <2>1, <4>1, CommandsAct
      <4>3. QED
        BY <2>1, <3>2, <4>1, <4>2 DEF OnTrack, DesiredObserved
    <3>3. CASE svIntent.desired # "absent" /\ svTodo = <<"install", Brings(svIntent.desired)>>
      <4>0. Brings(svIntent.desired) \in {"start", "stop", "halt"}
        BY DEF Brings
      <4>1. Head(svTodo) = "install" /\ svTodo' = <<Brings(svIntent.desired)>>
        BY <1>0, <2>1, <3>3, <4>0, TodoParts
      <4>2. svNow' = [installed |-> TRUE, running |-> svNow.running, definition |-> svIntent.spec]
        BY <1>0, <2>1, <4>1, CommandsAct
      <4>3. QED
        BY <2>1, <3>3, <4>1, <4>2 DEF OnTrack
    <3>4. CASE /\ svIntent.desired # "absent" /\ svTodo = <<Brings(svIntent.desired)>>
               /\ svNow.installed /\ svNow.definition = svIntent.spec
      <4>0. Brings(svIntent.desired) \in {"start", "halt"}
        BY DEF Brings
      <4>1. Head(svTodo) = Brings(svIntent.desired) /\ svTodo' = <<>>
        BY <1>0, <2>1, <3>4, <4>0, TodoParts
      <4>2. svNow' = [installed |-> TRUE, running |-> svIntent.desired = "running", definition |-> svIntent.spec]
        BY <1>0, <2>1, <3>4, <4>0, <4>1, CommandsAct DEF Brings
      <4>3. QED
        BY <2>1, <3>4, <4>1, <4>2 DEF OnTrack, DesiredObserved
    <3>5. QED
      BY <2>1, <2>4, <3>1, <3>2, <3>3, <3>4 DEF OnTrack
  <2>5. QED
    BY <2>1, <2>2, <2>3, <2>4 DEF ServiceInv, FailsOnlyDisturbed, ServiceUndone
<1>4. CASE CommandFails
  <2>1. /\ svAt \in {"apply", "rollback"} /\ svAt' = IF svAt = "apply" THEN "failed" ELSE "stuck"
        /\ svBroken' = (svBroken \/ svAt = "apply") /\ svIntent' = svIntent
        /\ svTodo # <<>> /\ svTodo' = <<>> /\ (svNow' = svNow \/ Does(Head(svTodo)))
    BY <1>4 DEF CommandFails
  <2>2. svIntent \in ServiceIntents
    BY <2>1 DEF ServiceInv
  <2>3. svNow' \in States
    BY <1>0, <2>1, <2>2, CommandsAct, TodoParts
  <2>4. svAt' \in {"failed", "stuck"} /\ (svAt' = "failed" => svBroken')
    BY <2>1
  <2>5. QED
    BY <2>1, <2>2, <2>3, <2>4 DEF ServiceInv, Todos, FailsOnlyDisturbed, ServiceUndone
<1>5. CASE VerifyService
  <2>1. /\ svAt = "apply" /\ svTodo = <<>> /\ svIntent' = svIntent /\ svNow' = svNow /\ svTodo' = svTodo
        /\ svMet' = svMet /\ svAt' = IF VerifiesAs THEN "verified" ELSE "failed"
        /\ OnTrack \/ svMet
    BY <1>5 DEF VerifyService, ServiceInv
  <2>2. OnTrack => VerifiesAs
    BY <2>1 DEF OnTrack, VerifiesAs
  <2>3. svAt' \in {"verified", "failed"} /\ (svAt' = "failed" => svMet')
    BY <2>1, <2>2
  <2>4. QED
    BY <1>0, <2>1, <2>3 DEF ServiceInv, FailsOnlyDisturbed, ServiceUndone
<1>6. CASE RollbackService
  <2>1. /\ svAt = "failed" /\ svAt' = "rollback" /\ svTodo' = RollbackCommands
        /\ svIntent' = svIntent /\ svNow' = svNow /\ svIntent \in ServiceIntents
    BY <1>6 DEF RollbackService, ServiceInv
  <2>2. svTodo' \in Todos /\ OnWayBack'
    BY <1>0, <2>1, RollbackCommandsLead DEF OnWayBack, Returns
  <2>3. QED
    BY <1>0, <2>1, <2>2 DEF ServiceInv, FailsOnlyDisturbed, ServiceUndone
<1>7. CASE RollbackStep
  <2>1. /\ svAt = "rollback" /\ svIntent' = svIntent /\ svIntent \in ServiceIntents /\ OnWayBack
    BY <1>7 DEF RollbackStep, ServiceInv
  <2>2. CASE svTodo = <<>>
    <3>1. svAt' = "undone" /\ svNow' = svNow /\ svTodo' = svTodo
      BY <1>7, <2>2 DEF RollbackStep
    <3>2. svNow = IF svIntent.before.installed
                  THEN [svIntent.before EXCEPT !.definition = svIntent.spec] ELSE svIntent.before
      <4>1. svIntent.before.installed \/ svIntent.before = Missing
        BY <2>1 DEF ServiceIntents, States
      <4>2. \A a, b : svTodo # <<a, b>> /\ svTodo # <<a>>
        BY <2>2
      <4>3. QED
        BY <2>1, <4>1, <4>2 DEF OnWayBack
    <3>3. QED
      BY <1>0, <2>1, <3>1, <3>2 DEF ServiceInv, FailsOnlyDisturbed, ServiceUndone
  <2>3. CASE svTodo # <<>>
    <3>1. /\ svAt' = "rollback" /\ svTodo' = Tail(svTodo) /\ Does(Head(svTodo))
      BY <1>7, <2>1, <2>3 DEF RollbackStep
    <3>2. /\ Head(svTodo) \in {"install", "start", "stop", "remove", "halt"} /\ svTodo' \in Todos
      BY <1>0, <2>3, <3>1, TodoParts
    <3>3. svNow' \in States
      BY <1>0, <2>1, <3>1, <3>2, CommandsAct
    <3>0. svIntent.before.installed =>
            svIntent.before \in [installed : {TRUE}, running : BOOLEAN, definition : Definitions]
      <4>1. svIntent.before \in States
        BY <2>1 DEF ServiceIntents
      <4>2. ~ Missing.installed
        BY DEF Missing
      <4>3. QED
        BY <4>1, <4>2 DEF States
    <3>4. ASSUME ~ svIntent.before.installed PROVE OnWayBack'
      <4>1. CASE svTodo = <<"stop", "remove">>
        BY <1>0, <2>1, <2>3, <3>1, <3>4, <4>1, TodoParts DEF OnWayBack
      <4>2. CASE svTodo = <<"remove">>
        <5>1. Head(svTodo) = "remove" /\ svTodo' = <<>>
          BY <1>0, <2>3, <3>1, <4>2, TodoParts
        <5>2. svNow' = Missing
          BY <1>0, <2>1, <3>1, <5>1, CommandsAct
        <5>3. QED
          BY <2>1, <3>4, <5>1, <5>2 DEF OnWayBack
      <4>3. QED
        BY <2>1, <2>3, <3>4, <4>1, <4>2 DEF OnWayBack
    <3>5. ASSUME svIntent.before.installed PROVE OnWayBack'
      <4>0. Returns \in {"start", "stop"} /\ Returns' = Returns
        BY <2>1 DEF Returns
      <4>1. CASE svTodo = <<"install", Returns>>
        <5>1. Head(svTodo) = "install" /\ svTodo' = <<Returns>>
          BY <1>0, <2>3, <3>1, <4>0, <4>1, TodoParts
        <5>2. svNow' = [installed |-> TRUE, running |-> svNow.running, definition |-> svIntent.spec]
          BY <1>0, <2>1, <3>1, <5>1, CommandsAct
        <5>3. QED
          BY <2>1, <3>5, <4>0, <5>1, <5>2 DEF OnWayBack
      <4>2. CASE svTodo = <<Returns>> /\ svNow.installed /\ svNow.definition = svIntent.spec
        <5>1. Head(svTodo) = Returns /\ svTodo' = <<>>
          BY <1>0, <2>3, <3>1, <4>0, <4>2, TodoParts
        <5>2. svNow' = [installed |-> TRUE, running |-> svIntent.before.running, definition |-> svIntent.spec]
          <6>1. svIntent.before.running \in BOOLEAN
            BY <3>0, <3>5
          <6>2. QED
            BY <1>0, <2>1, <3>1, <4>0, <4>2, <5>1, <6>1, CommandsAct DEF Returns
        <5>3. svNow' = [svIntent.before EXCEPT !.definition = svIntent.spec]
          <6> DEFINE b == svIntent.before
                     n == [b EXCEPT !.definition = svIntent.spec]
                     m == [installed |-> TRUE, running |-> b.running, definition |-> svIntent.spec]
          <6>1. b \in [installed : {TRUE}, running : BOOLEAN, definition : Definitions]
            BY <3>0, <3>5
          <6>2. svIntent.spec \in Definitions
            BY <2>1 DEF ServiceIntents
          <6>3. n \in [installed : {TRUE}, running : BOOLEAN, definition : Definitions]
            BY <6>1, <6>2
          <6>4. m \in [installed : {TRUE}, running : BOOLEAN, definition : Definitions]
            BY <6>1, <6>2
          <6>5. n.installed = m.installed /\ n.running = m.running /\ n.definition = m.definition
            BY <6>1
          <6> HIDE DEF n, m
          <6>6. n = m
            BY <6>3, <6>4, <6>5, SameRecord
          <6>7. QED
            BY <5>2, <6>6 DEF n, m
        <5>4. QED
          BY <2>1, <3>5, <5>1, <5>3 DEF OnWayBack
      <4>3. QED
        BY <2>1, <2>3, <3>5, <4>1, <4>2 DEF OnWayBack
    <3>6. QED
      BY <2>1, <3>1, <3>2, <3>3, <3>4, <3>5 DEF ServiceInv, FailsOnlyDisturbed, ServiceUndone
  <2>4. QED
    BY <2>2, <2>3
<1>8. CASE OwnerUses
  <2>1. /\ svAt \in {"planned", "apply", "failed"} /\ svAt' = svAt /\ svMet' /\ svNow' \in States
        /\ svIntent' = svIntent /\ svTodo' = svTodo
    BY <1>8 DEF OwnerUses
  <2>2. svAt' # "rollback" /\ svAt' # "undone"
    BY <2>1
  <2>3. QED
    BY <1>0, <2>1, <2>2 DEF ServiceInv, FailsOnlyDisturbed, ServiceUndone, DesiredObserved
<1>9. CASE UNCHANGED svVars
  BY <1>9 DEF svVars, ServiceInv, OnTrack, OnWayBack, Returns, FailsOnlyDisturbed, ServiceUndone
<1>10. QED
  BY <1>1, <1>2, <1>3, <1>4, <1>5, <1>6, <1>7, <1>8, <1>9 DEF ServiceNext

-----------------------------------------------------------------------------
(* RemoteHelper: the chunks of an artifact. *)

DiskMetas == {"absent", "bare", "blank", "touched"}
\* What a request may leave on the disk: the stored artifact is the one that
\* was there, or the whole one.
Disks == [part : Seq(Nat), meta : DiskMetas, blob : {tBlob, Whole}]

TransferInv ==
  /\ tPart \in Seq(Nat) /\ tMeta \in DiskMetas
  /\ tOthers \in 0 .. MaxParts
  /\ tSender \in [Senders -> 0 .. TotalChunks + 2]
  /\ StoredIsWhole /\ AckedMeansStored

\* Nothing is stored or sent at first.
LEMMA TransferStart == ASSUME TransferInit PROVE TransferInv
<1>1. NoFileYet \in Seq(Nat)
  BY DEF NoFileYet
<1>2. NotSending \in 0 .. TotalChunks + 2 /\ NotSending \notin {AllAcked, Sent} /\ 0 \in 0 .. MaxParts
  BY TransferShape DEF NotSending, AllAcked, Sent
<1>3. QED
  BY <1>1, <1>2 DEF TransferInit, TransferInv, StoredIsWhole, AckedMeansStored, DiskMetas

\* Chunk 0 is refused only for want of room, unless the transfer is under way.
LEMMA InitialisationIsTaken == ASSUME TransferInv PROVE InitialisationRecovers
BY TransferShape DEF TransferInv, InitialisationRecovers, Refused, NoRoom, StartsOver, MetadataMatches

\* The content of a chunk.
LEMMA ChunkUnits == ASSUME NEW s \in Senders, NEW k \in Sending
  PROVE ChunkOf(CopyOf[s], k) \in Seq(Nat) /\ Len(ChunkOf(CopyOf[s], k)) = 2
        /\ ChunkOf(CopyOf[s], k)[1] \in Nat
<1>1. k \in Nat /\ k + 1 <= TotalChunks
  BY TransferShape DEF Sending
<1>2. Whole \in Seq(Nat) /\ Len(Whole) = 2 * TotalChunks
  BY TransferShape DEF Whole
<1>3. CopyOf[s] \in Seq(Nat) /\ Len(CopyOf[s]) = 2 * TotalChunks
  BY <1>2, TransferShape
<1>5. ASSUME NEW c \in Seq(Nat), NEW m \in 1 .. Len(c), NEW n \in 1 .. Len(c), n = m + 1
      PROVE SubSeq(c, m, n) \in Seq(Nat) /\ Len(SubSeq(c, m, n)) = 2 /\ SubSeq(c, m, n)[1] \in Nat
  <2>1. Len(SubSeq(c, m, n)) = 2
    BY <1>5
  <2>2. SubSeq(c, m, n) \in Seq(Nat)
    BY <1>5
  <2>3. QED
    BY <2>1, <2>2
<1>6. 2 * k + 1 \in 1 .. Len(CopyOf[s]) /\ 2 * k + 2 \in 1 .. Len(CopyOf[s]) /\ 2 * k + 2 = (2 * k + 1) + 1
  BY <1>1, <1>3, TransferShape
<1>7. QED
  BY <1>3, <1>5, <1>6 DEF ChunkOf

\* Starting over touches no artifact.
LEMMA ResetDisks == ASSUME TransferInv, NEW k
  PROVE Reset(k) \in Seq(Disks) /\ Len(Reset(k)) \in Nat \ {0} /\ Reset(k)[Len(Reset(k))] \in Disks
<1>1. Disk \in Disks
  BY DEF Disk, Disks, TransferInv
<1>2. NoFileYet \in Seq(Nat)
  BY DEF NoFileYet
<1> DEFINE d1 == [Disk EXCEPT !.part = NoFileYet]
           d2 == [Disk EXCEPT !.part = NoFileYet, !.meta = "absent"]
<1>3. d1 \in Disks /\ d2 \in Disks
  BY <1>1, <1>2 DEF Disks, DiskMetas
<1>4. CASE StartsOver(k)
  <2>1. Reset(k) = <<d1, d2>>
    BY <1>4 DEF Reset
  <2> HIDE DEF d1, d2
  <2>2. QED
    BY <1>3, <2>1
<1>5. CASE ~StartsOver(k)
  <2>1. Reset(k) = <<Disk>>
    BY <1>5 DEF Reset
  <2>2. QED
    BY <1>1, <2>1
<1>6. QED
  BY <1>4, <1>5

\* The writes of a chunk touch no artifact.
LEMMA WrittenDisks == ASSUME TransferInv, NEW s \in Senders, NEW k \in Sending
  PROVE /\ Written(k, CopyOf[s]) \in Seq(Disks) /\ Len(Written(k, CopyOf[s])) \in Nat \ {0}
        /\ Written(k, CopyOf[s])[Len(Written(k, CopyOf[s]))] \in Disks
<1> DEFINE c == CopyOf[s]
           base == Reset(k)[Len(Reset(k))]
           old == IF base.part = NoFileYet THEN <<>> ELSE base.part
           p1 == Append(old, ChunkOf(c, k)[1])
           p2 == old \o ChunkOf(c, k)
           half == [base EXCEPT !.part = p1]
           full == [base EXCEPT !.part = p2]
           bare == [full EXCEPT !.meta = "bare"]
<1>1. base \in Disks /\ Disk \in Disks
  BY ResetDisks DEF Disk, Disks, TransferInv
<1>2. old \in Seq(Nat)
  BY <1>1 DEF Disks
<1>3. p1 \in Seq(Nat) /\ p2 \in Seq(Nat)
  BY <1>2, ChunkUnits
<1>4. /\ Written(k, c) = IF StartsOver(k) THEN <<half, full, bare>>
                         ELSE IF Len(tPart) = 2 * k THEN <<half, full>> ELSE <<Disk>>
  BY DEF Written
<1> HIDE DEF p1, p2, base, old
<1>5. half \in Disks /\ full \in Disks
  BY <1>1, <1>3 DEF Disks
<1>6. bare \in Disks
  <2> HIDE DEF full
  <2>1. QED
    BY <1>5 DEF Disks, DiskMetas
<1> HIDE DEF half, full, bare, c
<1>7. QED
  BY <1>1, <1>4, <1>5, <1>6 DEF c

\* Only the whole artifact is moved to the store.
LEMMA KeptDisks == ASSUME NEW d \in Disks, NEW k
  PROVE Kept(k, d) \in Seq(Disks) /\ Len(Kept(k, d)) \in Nat \ {0} /\ Kept(k, d)[Len(Kept(k, d))] \in Disks
<1> DEFINE d1 == [d EXCEPT !.blob = d.part]
           d2 == [d EXCEPT !.blob = d.part, !.part = NoFileYet]
           d3 == [d EXCEPT !.blob = d.part, !.part = NoFileYet, !.meta = "absent"]
<1>1. CASE k = TotalChunks - 1 /\ Stores(d.part)
  <2>1. NoFileYet \in Seq(Nat) /\ d.part = Whole
    BY <1>1 DEF NoFileYet, Stores
  <2>2. d1 \in Disks /\ d2 \in Disks /\ d3 \in Disks
    BY <2>1 DEF Disks, DiskMetas
  <2>3. Kept(k, d) = <<d1, d2, d3>>
    BY <1>1 DEF Kept
  <2> HIDE DEF d1, d2, d3
  <2>4. QED
    BY <2>2, <2>3
<1>2. CASE ~(k = TotalChunks - 1 /\ Stores(d.part))
  <2>1. Kept(k, d) = <<d>>
    BY <1>2 DEF Kept
  <2>2. QED
    BY <2>1
<1>3. QED
  BY <1>1, <1>2

\* Neither does the touch of the metadata.
LEMMA TouchedDisks == ASSUME NEW d \in Disks
  PROVE Touched(d) \in Seq(Disks) /\ Len(Touched(d)) = 2 /\ Touched(d)[2] \in Disks
<1> DEFINE d1 == [d EXCEPT !.meta = "blank"]
           d2 == [d EXCEPT !.meta = "touched"]
<1>1. d1 \in Disks /\ d2 \in Disks
  BY DEF Disks, DiskMetas
<1>2. Touched(d) = <<d1, d2>>
  BY DEF Touched
<1> HIDE DEF d1, d2
<1>3. QED
  BY <1>1, <1>2

\* So wherever a request stops, the store has what it had, or the whole artifact.
LEMMA WritesDisks == ASSUME TransferInv, NEW s \in Senders, NEW k \in Sending
  PROVE /\ WritesOf(k, CopyOf[s]) \in Seq(Disks) /\ Len(WritesOf(k, CopyOf[s])) \in Nat \ {0}
        /\ \A i \in DOMAIN WritesOf(k, CopyOf[s]) : WritesOf(k, CopyOf[s])[i] \in Disks
        /\ WritesOf(k, CopyOf[s])[Len(WritesOf(k, CopyOf[s]))] \in Disks
<1> DEFINE w == Written(k, CopyOf[s])
           t == Touched(w[Len(w)])
           m == Kept(k, t[Len(t)])
           r == Reset(k)
<1>1. w \in Seq(Disks) /\ w[Len(w)] \in Disks
  BY WrittenDisks
<1>2. t \in Seq(Disks) /\ t[Len(t)] \in Disks
  BY <1>1, TouchedDisks
<1>3. m \in Seq(Disks) /\ Len(m) \in Nat \ {0}
  BY <1>2, KeptDisks
<1>4. r \in Seq(Disks)
  BY ResetDisks
<1>5. WritesOf(k, CopyOf[s]) = r \o w \o t \o m
  BY DEF WritesOf
<1> HIDE DEF r, w, t, m
<1>6. r \o w \in Seq(Disks)
  BY <1>1, <1>4
<1>7. r \o w \o t \in Seq(Disks)
  BY <1>2, <1>6
<1>8. r \o w \o t \o m \in Seq(Disks) /\ Len(r \o w \o t \o m) = Len(r \o w \o t) + Len(m)
  BY <1>3, <1>7
<1>9. Len(r \o w \o t \o m) \in Nat \ {0}
  BY <1>3, <1>7, <1>8
<1>10. ASSUME NEW q \in Seq(Disks), Len(q) \in Nat \ {0}
       PROVE q[Len(q)] \in Disks /\ \A i \in DOMAIN q : q[i] \in Disks
  BY <1>10
<1>11. QED
  BY <1>5, <1>8, <1>9, <1>10

\* A disk as it is after a request.
LEMMA DiskKeeps == ASSUME TransferInv, NEW d \in Disks, Becomes(d)
  PROVE /\ tPart' \in Seq(Nat) /\ tMeta' \in DiskMetas
        /\ StoredIsWhole' /\ (tBlob = Whole => tBlob' = Whole)
BY DEF TransferInv, Disks, Becomes, StoredIsWhole

\* Each request, its interruption, the cleanup and the other transfers keep it.
LEMMA TransferStep == ASSUME TransferInv, [TransferNext]_transferVars PROVE TransferInv'
<1>0. /\ NotSending \in 0 .. TotalChunks + 2 /\ NotSending \notin {AllAcked, Sent}
      /\ Sent \in 0 .. TotalChunks + 2 /\ 0 \notin {AllAcked, Sent} /\ 0 \in 0 .. TotalChunks + 2
  BY TransferShape DEF NotSending, AllAcked, Sent
<1>1. ASSUME NEW s \in Senders, StartTransfer(s) PROVE TransferInv'
  BY <1>0, <1>1 DEF StartTransfer, TransferInv, StoredIsWhole, AckedMeansStored
<1>2. ASSUME NEW s \in Senders, VerifyArtifact(s) PROVE TransferInv'
  BY <1>0, <1>2 DEF VerifyArtifact, TransferInv, StoredIsWhole, AckedMeansStored
<1>3. ASSUME NEW s \in Senders, NEW k \in Sending, StageChunk(s, k) PROVE TransferInv'
  <2>1. k + 1 \in 0 .. TotalChunks + 2 /\ (k + 1 \in {AllAcked, Sent} => k = TotalChunks - 1)
    BY TransferShape DEF Sending, AllAcked, Sent
  <2>2. UNCHANGED tOthers
    BY <1>3 DEF StageChunk
  <2>3. CASE AlreadyStored(k)
    <3>1. Becomes(Disk) /\ Acknowledge(s, k)
      BY <1>3, <2>3 DEF StageChunk
    <3>2. UNCHANGED <<tPart, tMeta, tBlob>>
      BY <3>1 DEF Becomes, Disk
    <3>3. tBlob = Whole
      BY <2>3 DEF AlreadyStored
    <3>4. QED
      BY <2>1, <2>2, <3>1, <3>2, <3>3 DEF Acknowledge, TransferInv, StoredIsWhole, AckedMeansStored
  <2>4. CASE ~AlreadyStored(k) /\ Refused(k, CopyOf[s])
    <3>1. Becomes(Reset(k)[Len(Reset(k))]) /\ tSender' = [tSender EXCEPT ![s] = NotSending]
      BY <1>3, <2>4 DEF StageChunk
    <3>2. Reset(k)[Len(Reset(k))] \in Disks
      BY ResetDisks
    <3>3. /\ tPart' \in Seq(Nat) /\ tMeta' \in DiskMetas
          /\ StoredIsWhole' /\ (tBlob = Whole => tBlob' = Whole)
      BY <3>1, <3>2, DiskKeeps
    <3>4. QED
      BY <1>0, <2>2, <3>1, <3>3 DEF TransferInv, AckedMeansStored
  <2>5. CASE ~AlreadyStored(k) /\ ~Refused(k, CopyOf[s])
    <3> DEFINE w == WritesOf(k, CopyOf[s])
    <3>1. Becomes(w[Len(w)])
      BY <1>3, <2>5 DEF StageChunk
    <3>2. w[Len(w)] \in Disks
      BY WritesDisks
    <3>3. /\ tPart' \in Seq(Nat) /\ tMeta' \in DiskMetas
          /\ StoredIsWhole' /\ (tBlob = Whole => tBlob' = Whole)
      BY <3>1, <3>2, DiskKeeps
    <3>4. CASE Accepted(k, CopyOf[s])
      <4>1. Acknowledge(s, k)
        BY <1>3, <2>5, <3>4 DEF StageChunk
      <4>2. k = TotalChunks - 1 => tBlob' = Whole
        BY <3>1, <3>4 DEF Accepted, Becomes
      <4>3. QED
        BY <2>1, <2>2, <3>3, <4>1, <4>2 DEF Acknowledge, TransferInv, AckedMeansStored
    <3>5. CASE ~Accepted(k, CopyOf[s])
      <4>1. tSender' = [tSender EXCEPT ![s] = NotSending]
        BY <1>3, <2>5, <3>5 DEF StageChunk
      <4>2. QED
        BY <1>0, <2>2, <3>3, <4>1 DEF TransferInv, AckedMeansStored
    <3>6. QED
      BY <3>4, <3>5
  <2>6. QED
    BY <2>3, <2>4, <2>5
<1>4. ASSUME NEW s \in Senders, NEW k \in Sending, StageInterrupted(s, k) PROVE TransferInv'
  <2>1. PICK i \in DOMAIN WritesOf(k, CopyOf[s]) : Becomes(WritesOf(k, CopyOf[s])[i])
    BY <1>4 DEF StageInterrupted
  <2>2. WritesOf(k, CopyOf[s])[i] \in Disks
    BY WritesDisks
  <2>3. /\ tPart' \in Seq(Nat) /\ tMeta' \in DiskMetas
        /\ StoredIsWhole' /\ (tBlob = Whole => tBlob' = Whole)
    BY <2>1, <2>2, DiskKeeps
  <2>4. QED
    BY <1>0, <1>4, <2>3 DEF StageInterrupted, TransferInv, AckedMeansStored
<1>5. CASE CleanupStaging
  <2>1. NoFileYet \in Seq(Nat)
    BY DEF NoFileYet
  <2>2. QED
    BY <1>5, <2>1 DEF CleanupStaging, TransferInv, StoredIsWhole, AckedMeansStored, DiskMetas
<1>6. CASE DayPasses \/ OtherTransfers
  BY <1>6 DEF DayPasses, OtherTransfers, TransferInv, StoredIsWhole, AckedMeansStored
<1>7. CASE UNCHANGED transferVars
  BY <1>7 DEF transferVars, TransferInv, StoredIsWhole, AckedMeansStored
<1>8. QED
  BY <1>1, <1>2, <1>3, <1>4, <1>5, <1>6, <1>7 DEF TransferNext

-----------------------------------------------------------------------------
(* RemoteHelper: where it writes, and what it confirms. *)

\* A process that got past the validation has a root apart from the control
\* paths and the handle of the validated directory; the receipt that recovery was
\* confirmed for is the one on disk.
HelperInv ==
  /\ thRoot \in RootPaths
  /\ thAt \in {"validated", "open"} /\ thAccess = "write" => ~OverlapsControl(thRoot)
  /\ thAt = "open" => thHeld = thValidated
  /\ ControlPathsKept /\ WrittenWhereValidated
  /\ \A d \in thReady : d = thReceipt /\ d \in ReceiptDigests

\* Nothing is written or confirmed at first.
LEMMA HelperStart == ASSUME HelperInit PROVE HelperInv
BY DEF HelperInit, HelperInv, ControlPathsKept, WrittenWhereValidated

\* Confirmed receipts are equal to the one on disk.
LEMMA OneReceipt == ASSUME HelperInv PROVE OneReceiptEach
BY DEF HelperInv, OneReceiptEach

\* A prefix agrees entry by entry.
LEMMA PrefixEntries == ASSUME NEW S, NEW a \in Seq(S), NEW b \in Seq(S)
  PROVE IsPrefix(a, b) <=> Len(a) <= Len(b) /\ \A i \in 1 .. Len(a) : a[i] = b[i]
<1>1. SubSeq(a, 1, Len(a)) = a
  OBVIOUS
<1>2. ASSUME Len(a) <= Len(b)
      PROVE SubSeq(b, 1, Len(a)) \in Seq(S) /\ Len(SubSeq(b, 1, Len(a))) = Len(a)
            /\ \A i \in 1 .. Len(a) : SubSeq(b, 1, Len(a))[i] = b[i]
  BY <1>2
<1>3. ASSUME Len(a) <= Len(b), \A i \in 1 .. Len(a) : a[i] = b[i] PROVE a = SubSeq(b, 1, Len(a))
  BY <1>2, <1>3, SeqEqual
<1>4. QED
  BY <1>1, <1>2, <1>3 DEF IsPrefix

\* What lies below a root apart from a path is apart from that path.
LEMMA BelowIsApart == ASSUME NEW S, NEW a \in Seq(S), NEW p \in Seq(S), NEW c \in Seq(S), ~Overlap(a, c)
  PROVE ~Overlap(a \o p, c)
<1> DEFINE q == a \o p
<1>1. q \in Seq(S) /\ Len(q) = Len(a) + Len(p) /\ \A i \in 1 .. Len(a) : q[i] = a[i]
  OBVIOUS
<1> HIDE DEF q
<1>2. ASSUME IsPrefix(q, c) PROVE IsPrefix(a, c)
  <2>1. Len(q) <= Len(c) /\ \A i \in 1 .. Len(q) : q[i] = c[i]
    BY <1>1, <1>2, PrefixEntries
  <2>2. Len(a) <= Len(c) /\ \A i \in 1 .. Len(a) : a[i] = c[i]
    BY <1>1, <2>1
  <2>3. QED
    BY <2>2, PrefixEntries
<1>3. ASSUME IsPrefix(c, q) PROVE Overlap(a, c)
  <2>1. Len(c) <= Len(q) /\ \A i \in 1 .. Len(c) : c[i] = q[i]
    BY <1>1, <1>3, PrefixEntries
  <2>2. CASE Len(c) <= Len(a)
    <3>1. \A i \in 1 .. Len(c) : c[i] = a[i]
      BY <1>1, <2>1, <2>2
    <3>2. QED
      BY <2>2, <3>1, PrefixEntries DEF Overlap
  <2>3. CASE Len(a) <= Len(c)
    <3>1. \A i \in 1 .. Len(a) : a[i] = c[i]
      BY <1>1, <2>1, <2>3
    <3>2. QED
      BY <2>3, <3>1, PrefixEntries DEF Overlap
  <2>4. QED
    BY <2>2, <2>3
<1>4. QED
  BY <1>2, <1>3 DEF Overlap, q

\* Resolving an alias leaves a path.
LEMMA CanonicalIsPath == ASSUME NEW p \in Seq(STRING) PROVE Canonical(p) \in Seq(STRING)
<1>1. CASE IsPrefix(Alias, p)
  <2>1. Len(Alias) <= Len(p) /\ Len(Alias) \in Nat /\ AliasTarget \in Seq(STRING)
    BY <1>1, HelperPaths DEF IsPrefix
  <2>2. SubSeq(p, Len(Alias) + 1, Len(p)) \in Seq(STRING)
    BY <2>1
  <2>3. AliasTarget \o SubSeq(p, Len(Alias) + 1, Len(p)) \in Seq(STRING)
    BY <2>1, <2>2
  <2>4. QED
    BY <1>1, <2>3 DEF Canonical
<1>2. CASE ~IsPrefix(Alias, p)
  BY <1>2 DEF Canonical
<1>3. QED
  BY <1>1, <1>2

\* Each step of the helper, its owner and the requests keeps it.
LEMMA HelperStep == ASSUME HelperInv, [HelperNext]_thVars PROVE HelperInv'
<1>1. CASE ValidateConfiguration
  BY <1>1 DEF ValidateConfiguration, HelperInv, ControlPathsKept, WrittenWhereValidated, OverlapsControl, thRun
<1>2. CASE OpenRoot
  BY <1>2 DEF OpenRoot, SameDirectory, HelperInv, ControlPathsKept, WrittenWhereValidated, OverlapsControl, thRun
<1>3. CASE HelperExits \/ SwapDirectory
  BY <1>3 DEF HelperExits, SwapDirectory, HelperInv, ControlPathsKept, WrittenWhereValidated, OverlapsControl, thRun
<1>4. ASSUME NEW p \in RootPaths, ConfigureRoot(p) PROVE HelperInv'
  BY <1>4 DEF ConfigureRoot, HelperInv, ControlPathsKept, WrittenWhereValidated, OverlapsControl, thRun
<1>5. ASSUME NEW p \in ManagedPaths, WriteResource(p) PROVE HelperInv'
  <2>1. CASE Unprotected(p) /\ thAccess = "write"
    <3> DEFINE w == [path |-> Canonical(thRoot) \o p, held |-> thHeld, validated |-> thValidated]
    <3>1. thWrites' = {w}
      BY <1>5, <2>1 DEF WriteResource
    <3>2. ~Overlap(Canonical(thRoot), Canonical(ControlPath))
      BY <1>5, <2>1 DEF WriteResource, HelperInv, OverlapsControl
    <3>3. Canonical(thRoot) \in Seq(STRING) /\ Canonical(ControlPath) \in Seq(STRING) /\ p \in Seq(STRING)
      BY CanonicalIsPath, HelperPaths DEF HelperInv
    <3>4. ~Overlap(w.path, Canonical(ControlPath)) /\ w.held = w.validated
      BY <1>5, <3>2, <3>3, BelowIsApart DEF WriteResource, HelperInv
    <3> HIDE DEF w
    <3>5. QED
      BY <1>5, <3>1, <3>4 DEF WriteResource, HelperInv, ControlPathsKept, WrittenWhereValidated, thRun
  <2>2. CASE ~(Unprotected(p) /\ thAccess = "write")
    BY <1>5, <2>2 DEF WriteResource, HelperInv, ControlPathsKept, WrittenWhereValidated, thRun
  <2>3. QED
    BY <2>1, <2>2
<1>6. ASSUME NEW d \in ReceiptDigests, BindRecoveryReceipt(d) PROVE HelperInv'
  BY <1>6, HelperPaths DEF BindRecoveryReceipt, BoundTo, NoReceipt, HelperInv, ControlPathsKept, WrittenWhereValidated
<1>7. ASSUME NEW d \in ReceiptDigests, RecoverRun(d) PROVE HelperInv'
  BY <1>7 DEF RecoverRun, HelperInv, ControlPathsKept, WrittenWhereValidated
<1>8. CASE UNCHANGED thVars
  BY <1>8 DEF thVars, HelperInv, ControlPathsKept, WrittenWhereValidated, OverlapsControl
<1>9. QED
  BY <1>1, <1>2, <1>3, <1>4, <1>5, <1>6, <1>7, <1>8 DEF HelperNext

-----------------------------------------------------------------------------
(* DaemonService: whom the pid file and the shells name. *)

ProcessKinds == {"free", "daemon", "serving", "ending", "foreign"}
ShellSteps == {"idle", "start", "stop", "stopped", "remove", "spawn", "spawned"}
ShellForms == [at : ShellSteps, goal : {"none", "start", "restart", "uninstall"},
               pid : Pids \cup {"none"}, birth : Nat]
ServiceTypes ==
  /\ dsDefined \in BOOLEAN /\ dsOverlap \in BOOLEAN /\ dsBirths \in Nat
  /\ dsPidFile \in [pid : Pids \cup {"none"}, birth : Nat]
  /\ dsProcs \in [Pids -> [kind : ProcessKinds, birth : Nat]]
  /\ dsShell \in [Shells -> ShellForms]
\* A number of birth is given once.
BirthsGiven ==
  /\ dsPidFile.birth <= dsBirths
  /\ \A p \in Pids : dsProcs[p].birth <= dsBirths
  /\ \A p \in Pids : dsProcs[p].kind = "free" \/ dsProcs[p].birth >= 1
  /\ \A s \in Shells : dsShell[s].birth <= dsBirths
\* Only daemons were ever named.
NamedAreDaemons ==
  \A p \in Pids : dsProcs[p].kind = "foreign" =>
    /\ dsProcs[p].birth # dsPidFile.birth
    /\ \A s \in Shells : dsProcs[p].birth # dsShell[s].birth

IdentityOf(p) == [pid |-> p, birth |-> dsProcs[p].birth]
LiveDaemon(p) == dsProcs[p].kind \in {"daemon", "serving"}
\* Unless commands overlapped, one shell is busy, it has nothing to lose when it
\* is past the look at the pid file, and every daemon is named.
OneAtATime ==
  /\ \A s, t \in Shells : dsShell[s].at # "idle" /\ dsShell[t].at # "idle" => s = t
  /\ (\E s \in Shells : dsShell[s].at \in {"stopped", "remove", "spawn", "spawned"}) =>
        \A p \in Pids : LiveDaemon(p) => dsPidFile # IdentityOf(p)
  /\ \A p \in Pids : LiveDaemon(p) =>
       \/ dsPidFile = IdentityOf(p)
       \/ \E s \in Shells : dsShell[s].at = "spawned" /\ SpawnedBy(s) = IdentityOf(p)
DaemonServiceInv ==
  /\ ServiceTypes /\ BirthsGiven /\ NamedAreDaemons
  /\ OnlyDaemonsSignalled
  /\ ~ dsOverlap => OneAtATime

\* Nothing runs at first.
LEMMA DaemonServiceStart == ASSUME DaemonServiceInit PROVE DaemonServiceInv
<1>1. ServiceTypes
  BY DEF DaemonServiceInit, ServiceTypes, NoIdentity, FreePid, AtPrompt, ProcessKinds, ShellForms, ShellSteps
<1>2. \A p \in Pids : dsProcs[p].kind = "free" /\ dsProcs[p].birth = 0
  BY DEF DaemonServiceInit, FreePid
<1>3. \A s \in Shells : dsShell[s].at = "idle" /\ dsShell[s].birth = 0
  BY DEF DaemonServiceInit, AtPrompt
<1>4. BirthsGiven /\ NamedAreDaemons /\ OneAtATime
  BY <1>2, <1>3 DEF DaemonServiceInit, BirthsGiven, NamedAreDaemons, OneAtATime, LiveDaemon, NoIdentity
<1>5. QED
  BY <1>1, <1>4 DEF DaemonServiceInv, OnlyDaemonsSignalled, DaemonServiceInit

\* The daemon that is served by the pid file or a start is known.
LEMMA NamedIsKnown == ASSUME DaemonServiceInv PROVE ServingIsKnown
BY DEF DaemonServiceInv, OneAtATime, ServingIsKnown, LiveDaemon, IdentityOf

\* A shell that goes on, or ends, keeps its form.
LEMMA ShellGoes ==
    ASSUME ServiceTypes, NEW s \in Shells,
           \/ \E at \in ShellSteps : DaemonBecomes(s, at)
           \/ DaemonEnds(s)
    PROVE  /\ dsShell' \in [Shells -> ShellForms]
           /\ \A t \in Shells \ {s} : dsShell'[t] = dsShell[t]
           /\ dsShell'[s].birth \in {dsShell[s].birth, 0}
           /\ \A at \in ShellSteps : DaemonBecomes(s, at) =>
                /\ dsShell'[s].at = at /\ dsShell'[s].pid = dsShell[s].pid /\ dsShell'[s].birth = dsShell[s].birth
           /\ DaemonEnds(s) => dsShell'[s].at = "idle" /\ dsShell'[s].birth = 0
<1>0. dsShell \in [Shells -> ShellForms] /\ dsShell[s] \in ShellForms
  BY DEF ServiceTypes
<1>1. ASSUME NEW at \in ShellSteps, DaemonBecomes(s, at)
      PROVE  /\ dsShell' \in [Shells -> ShellForms]
             /\ \A t \in Shells \ {s} : dsShell'[t] = dsShell[t]
             /\ dsShell'[s].at = at /\ dsShell'[s].pid = dsShell[s].pid /\ dsShell'[s].birth = dsShell[s].birth
  <2> DEFINE new == [dsShell[s] EXCEPT !.at = at]
  <2>1. new \in ShellForms /\ new.at = at /\ new.pid = dsShell[s].pid /\ new.birth = dsShell[s].birth
    BY <1>0 DEF ShellForms
  <2>2. dsShell' = [dsShell EXCEPT ![s] = new]
    BY <1>1 DEF DaemonBecomes
  <2> HIDE DEF new
  <2>3. QED
    BY <1>0, <2>1, <2>2
<1>2. ASSUME DaemonEnds(s)
      PROVE  /\ dsShell' \in [Shells -> ShellForms]
             /\ \A t \in Shells \ {s} : dsShell'[t] = dsShell[t]
             /\ dsShell'[s].at = "idle" /\ dsShell'[s].birth = 0
  <2>1. AtPrompt \in ShellForms /\ AtPrompt.at = "idle" /\ AtPrompt.birth = 0
    BY DEF AtPrompt, ShellForms, ShellSteps
  <2>2. QED
    BY <1>0, <1>2, <2>1 DEF DaemonEnds
<1>3. QED
  BY <1>1, <1>2

\* A process that another kind of step changes.
LEMMA ProcessGoes ==
    ASSUME ServiceTypes, NEW p \in Pids, NEW k \in ProcessKinds,
           dsProcs' = [dsProcs EXCEPT ![p].kind = k]
    PROVE  /\ dsProcs' \in [Pids -> [kind : ProcessKinds, birth : Nat]]
           /\ \A q \in Pids \ {p} : dsProcs'[q] = dsProcs[q]
           /\ dsProcs'[p].kind = k /\ dsProcs'[p].birth = dsProcs[p].birth
<1> DEFINE new == [dsProcs[p] EXCEPT !.kind = k]
<1>1. dsProcs[p] \in [kind : ProcessKinds, birth : Nat]
  BY DEF ServiceTypes
<1>2. new \in [kind : ProcessKinds, birth : Nat] /\ new.kind = k /\ new.birth = dsProcs[p].birth
  BY <1>1
<1>3. dsProcs' = [dsProcs EXCEPT ![p] = new]
  OBVIOUS
<1> HIDE DEF new
<1>4. QED
  BY <1>2, <1>3 DEF ServiceTypes

\* Commands of shells keep what is named.
LEMMA PromptSteps ==
    ASSUME DaemonServiceInv, NEW s \in Shells,
           InstallService(s) \/ BeginCommand(s) \/ StartFallback(s) \/ ShellDies(s)
    PROVE  DaemonServiceInv'
<1>0. /\ dsShell \in [Shells -> ShellForms] /\ dsShell[s] \in ShellForms /\ ServiceTypes /\ BirthsGiven
      /\ NamedAreDaemons /\ OnlyDaemonsSignalled /\ (~ dsOverlap => OneAtATime)
  BY DEF DaemonServiceInv, ServiceTypes
<1>1. CASE InstallService(s)
  <2>1. UNCHANGED <<dsPidFile, dsProcs, dsShell, dsBirths, dsStruck, dsOverlap>> /\ dsDefined' = TRUE
    BY <1>1 DEF InstallService
  <2>2. QED
    BY <1>0, <2>1 DEF DaemonServiceInv, ServiceTypes, BirthsGiven, NamedAreDaemons, OneAtATime,
       LiveDaemon, IdentityOf, OnlyDaemonsSignalled, SpawnedBy
<1>2. CASE BeginCommand(s)
  <2>0. UNCHANGED <<dsDefined, dsPidFile, dsProcs, dsBirths, dsStruck>> /\ dsShell[s].at = "idle"
        /\ dsOverlap' = (dsOverlap \/ \E t \in Shells \ {s} : dsShell[t].at # "idle")
    BY <1>2 DEF BeginCommand
  <2>1. PICK goal \in {"start", "restart", "uninstall"} :
          dsShell' = [dsShell EXCEPT ![s] = [AtPrompt EXCEPT
            !.goal = goal, !.at = IF goal = "start" THEN "start" ELSE "stop"]]
    BY <1>2 DEF BeginCommand
  <2> DEFINE new == [AtPrompt EXCEPT !.goal = goal, !.at = IF goal = "start" THEN "start" ELSE "stop"]
  <2>2. new \in ShellForms /\ new.at \in {"start", "stop"} /\ new.birth = 0
    BY DEF AtPrompt, ShellForms, ShellSteps
  <2> HIDE DEF new
  <2>3. dsShell' \in [Shells -> ShellForms] /\ dsShell'[s] = new /\ \A t \in Shells \ {s} : dsShell'[t] = dsShell[t]
    BY <1>0, <2>1, <2>2 DEF new
  <2>4. ServiceTypes' /\ BirthsGiven' /\ NamedAreDaemons' /\ OnlyDaemonsSignalled'
    BY <1>0, <2>0, <2>2, <2>3 DEF ServiceTypes, BirthsGiven, NamedAreDaemons, OnlyDaemonsSignalled
  <2>5. ASSUME ~ dsOverlap' PROVE OneAtATime'
    <3>1. ~ dsOverlap /\ \A t \in Shells \ {s} : dsShell[t].at = "idle"
      BY <2>0, <2>5
    <3>2. \A t \in Shells : dsShell'[t].at # "spawned" /\ dsShell[t].at # "spawned"
      BY <2>0, <2>2, <2>3, <3>1
    <3>3. \A t \in Shells : dsShell'[t].at \notin {"stopped", "remove", "spawn", "spawned"}
      BY <2>0, <2>2, <2>3, <3>1
    <3>4. \A t, u \in Shells : dsShell'[t].at # "idle" /\ dsShell'[u].at # "idle" => t = u
      BY <2>3, <3>1
    <3>5. QED
      BY <1>0, <2>0, <3>1, <3>2, <3>3, <3>4 DEF OneAtATime, LiveDaemon, IdentityOf
  <2>6. QED
    BY <2>4, <2>5 DEF DaemonServiceInv
<1>3. CASE StartFallback(s)
  <2>0. UNCHANGED <<dsDefined, dsPidFile, dsProcs, dsBirths, dsStruck, dsOverlap>> /\ dsShell[s].at = "start"
    BY <1>3 DEF StartFallback
  <2>1. \/ DaemonBecomes(s, "spawn") /\ ~ DaemonRunning
        \/ DaemonEnds(s)
    BY <1>3 DEF StartFallback
  <2>2. /\ dsShell' \in [Shells -> ShellForms] /\ \A t \in Shells \ {s} : dsShell'[t] = dsShell[t]
        /\ dsShell'[s].birth \in {dsShell[s].birth, 0}
        /\ dsShell'[s].at \in {"spawn", "idle"} /\ (dsShell'[s].at = "spawn" => ~ DaemonRunning)
    BY <1>0, <2>1, ShellGoes DEF ShellSteps
  <2>3. ServiceTypes' /\ BirthsGiven' /\ NamedAreDaemons' /\ OnlyDaemonsSignalled'
    BY <1>0, <2>0, <2>2 DEF ServiceTypes, BirthsGiven, NamedAreDaemons, OnlyDaemonsSignalled
  <2>4. ASSUME ~ dsOverlap' PROVE OneAtATime'
    <3>1. ~ dsOverlap /\ \A t \in Shells \ {s} : dsShell[t].at = "idle"
      BY <1>0, <2>0, <2>4 DEF OneAtATime
    <3>2. \A t \in Shells : dsShell'[t].at # "spawned" /\ dsShell[t].at # "spawned"
      BY <2>0, <2>2, <3>1
    <3>3. \A t, u \in Shells : dsShell'[t].at # "idle" /\ dsShell'[u].at # "idle" => t = u
      BY <2>2, <3>1
    <3>4. ~ DaemonRunning => \A p \in Pids : LiveDaemon(p) => dsPidFile # IdentityOf(p)
      <4>1. SUFFICES ASSUME ~ DaemonRunning, NEW p \in Pids, LiveDaemon(p), dsPidFile = IdentityOf(p) PROVE FALSE
        OBVIOUS
      <4>2. dsProcs[p].birth >= 1 /\ dsProcs[p].kind # "free"
        BY <1>0, <4>1 DEF BirthsGiven, LiveDaemon
      <4>3. dsPidFile.pid = p /\ dsPidFile.birth = dsProcs[p].birth /\ dsPidFile.birth # 0
        BY <4>1, <4>2 DEF IdentityOf
      <4>4. QED
        BY <4>1, <4>2, <4>3 DEF DaemonRunning, IdentityMatches, ObservedAs, NoIdentity
    <3>5. (\E t \in Shells : dsShell'[t].at \in {"stopped", "remove", "spawn", "spawned"}) => ~ DaemonRunning
      BY <2>2, <3>1
    <3>6. QED
      BY <1>0, <2>0, <3>1, <3>2, <3>3, <3>4, <3>5 DEF OneAtATime, LiveDaemon, IdentityOf
  <2>5. QED
    BY <2>3, <2>4 DEF DaemonServiceInv
<1>4. CASE ShellDies(s)
  <2>0. /\ UNCHANGED <<dsDefined, dsPidFile, dsProcs, dsBirths, dsStruck>> /\ DaemonEnds(s)
        /\ dsOverlap' = (dsOverlap \/ dsShell[s].at = "spawned") /\ dsShell[s].at \in {"spawned", "stopped"}
    BY <1>4 DEF ShellDies
  <2>2. /\ dsShell' \in [Shells -> ShellForms] /\ \A t \in Shells \ {s} : dsShell'[t] = dsShell[t]
        /\ dsShell'[s].birth = 0 /\ dsShell'[s].at = "idle"
    BY <1>0, <2>0, ShellGoes DEF ShellSteps
  <2>3. ServiceTypes' /\ BirthsGiven' /\ NamedAreDaemons' /\ OnlyDaemonsSignalled'
    BY <1>0, <2>0, <2>2 DEF ServiceTypes, BirthsGiven, NamedAreDaemons, OnlyDaemonsSignalled
  <2>4. ASSUME ~ dsOverlap' PROVE OneAtATime'
    <3>1. ~ dsOverlap /\ dsShell[s].at = "stopped" /\ \A t \in Shells \ {s} : dsShell[t].at = "idle"
      BY <1>0, <2>0, <2>4 DEF OneAtATime
    <3>2. \A t \in Shells : dsShell'[t].at = "idle" /\ dsShell[t].at # "spawned"
      BY <2>2, <3>1
    <3>3. QED
      BY <1>0, <2>0, <3>1, <3>2 DEF OneAtATime, LiveDaemon, IdentityOf
  <2>5. QED
    BY <2>3, <2>4 DEF DaemonServiceInv
<1>5. QED
  BY <1>1, <1>2, <1>3, <1>4

\* A stop signals the daemon that the pid file names.
LEMMA StopSteps ==
    ASSUME DaemonServiceInv, NEW s \in Shells, StopUserDaemon(s)
    PROVE  DaemonServiceInv'
<1>0. /\ dsShell \in [Shells -> ShellForms] /\ dsShell[s] \in ShellForms /\ ServiceTypes /\ BirthsGiven
      /\ NamedAreDaemons /\ OnlyDaemonsSignalled /\ (~ dsOverlap => OneAtATime)
  BY DEF DaemonServiceInv, ServiceTypes
<1>1. UNCHANGED <<dsDefined, dsPidFile, dsBirths, dsOverlap>> /\ dsShell[s].at = "stop"
  BY DEF StopUserDaemon
<1>2. AfterStop(s) \in {"start", "remove"}
  BY DEF AfterStop
<1>3. /\ dsShell' \in [Shells -> ShellForms] /\ \A t \in Shells \ {s} : dsShell'[t] = dsShell[t]
      /\ dsShell'[s].birth = dsShell[s].birth /\ dsShell'[s].at \in {"start", "remove", "stopped"}
  <2>1. \E at \in {"start", "remove", "stopped"} : DaemonBecomes(s, at)
    BY <1>2 DEF StopUserDaemon
  <2>2. QED
    BY <1>0, <2>1, ShellGoes DEF ShellSteps
<1>4. ~ dsOverlap => /\ \A t \in Shells \ {s} : dsShell[t].at = "idle"
                     /\ \A t \in Shells : dsShell[t].at # "spawned"
                     /\ \A t \in Shells : dsShell'[t].at # "spawned"
                     /\ \A t, u \in Shells : dsShell'[t].at # "idle" /\ dsShell'[u].at # "idle" => t = u
  BY <1>0, <1>1, <1>3 DEF OneAtATime
<1>5. CASE DaemonRunning
  <2>1. PICK p \in Pids : dsPidFile.pid = p /\ dsProcs[p].kind # "free" /\ dsProcs[p].birth = dsPidFile.birth
    BY <1>5 DEF DaemonRunning, IdentityMatches, ObservedAs
  <2>2. dsProcs' = [dsProcs EXCEPT ![p].kind = "ending"]
        /\ dsStruck' = (dsStruck \/ dsProcs[p].kind \notin {"daemon", "serving", "ending"})
    BY <1>5, <2>1 DEF StopUserDaemon
  <2>3. /\ dsProcs' \in [Pids -> [kind : ProcessKinds, birth : Nat]]
        /\ \A q \in Pids \ {p} : dsProcs'[q] = dsProcs[q]
        /\ dsProcs'[p].kind = "ending" /\ dsProcs'[p].birth = dsProcs[p].birth
    BY <1>0, <2>2, ProcessGoes DEF ProcessKinds
  <2>4. dsProcs[p].kind \in {"daemon", "serving", "ending"}
    <3>1. dsProcs[p].kind \in ProcessKinds
      BY <1>0 DEF ServiceTypes
    <3>2. dsProcs[p].kind # "foreign"
      BY <1>0, <2>1 DEF NamedAreDaemons
    <3>3. QED
      BY <2>1, <3>1, <3>2 DEF ProcessKinds
  <2>5. ~ dsStruck'
    BY <1>0, <2>2, <2>4 DEF OnlyDaemonsSignalled
  <2>6. ServiceTypes'
    BY <1>0, <1>1, <1>3, <2>3 DEF ServiceTypes
  <2>7. BirthsGiven'
    BY <1>0, <1>1, <1>3, <2>1, <2>3 DEF BirthsGiven
  <2>8. NamedAreDaemons'
    BY <1>0, <1>1, <1>3, <2>3 DEF NamedAreDaemons
  <2>9. ASSUME ~ dsOverlap' PROVE OneAtATime'
    <3>1. \A q \in Pids : LiveDaemon(q)' => q # p /\ LiveDaemon(q) /\ IdentityOf(q)' = IdentityOf(q)
      BY <2>3 DEF LiveDaemon, IdentityOf
    <3>2. \A q \in Pids : q # p => dsPidFile # IdentityOf(q)
      BY <2>1 DEF IdentityOf
    <3>3. ~ dsOverlap
      BY <1>1, <2>9
    <3>4. \A q \in Pids : ~ LiveDaemon(q)'
      BY <1>0, <1>4, <3>1, <3>2, <3>3 DEF OneAtATime
    <3>5. QED
      BY <1>4, <3>3, <3>4 DEF OneAtATime
  <2>10. QED
    BY <2>5, <2>6, <2>7, <2>8, <2>9 DEF DaemonServiceInv, OnlyDaemonsSignalled
<1>6. CASE ~ DaemonRunning
  <2>1. UNCHANGED <<dsProcs, dsStruck>>
    BY <1>6 DEF StopUserDaemon
  <2>2. ServiceTypes' /\ BirthsGiven' /\ NamedAreDaemons' /\ OnlyDaemonsSignalled'
    BY <1>0, <1>1, <1>3, <2>1 DEF ServiceTypes, BirthsGiven, NamedAreDaemons, OnlyDaemonsSignalled
  <2>3. \A p \in Pids : LiveDaemon(p) => dsPidFile # IdentityOf(p)
    <3>1. SUFFICES ASSUME NEW p \in Pids, LiveDaemon(p), dsPidFile = IdentityOf(p) PROVE FALSE
      OBVIOUS
    <3>2. dsProcs[p].birth >= 1 /\ dsProcs[p].kind # "free"
      BY <1>0, <3>1 DEF BirthsGiven, LiveDaemon
    <3>3. dsPidFile.pid = p /\ dsPidFile.birth = dsProcs[p].birth /\ dsPidFile.birth # 0
      BY <3>1, <3>2 DEF IdentityOf
    <3>4. QED
      BY <1>6, <3>2, <3>3 DEF DaemonRunning, IdentityMatches, ObservedAs, NoIdentity
  <2>4. ASSUME ~ dsOverlap' PROVE OneAtATime'
    BY <1>0, <1>1, <1>4, <2>1, <2>3, <2>4 DEF OneAtATime, LiveDaemon, IdentityOf
  <2>5. QED
    BY <2>2, <2>4 DEF DaemonServiceInv
<1>7. QED
  BY <1>5, <1>6

\* The pid file goes when it names no daemon, and comes back with the new one.
LEMMA PidFileSteps ==
    ASSUME DaemonServiceInv, NEW s \in Shells, ForgetPid(s) \/ RemoveService(s) \/ RecordPid(s)
    PROVE  DaemonServiceInv'
<1>0. /\ dsShell \in [Shells -> ShellForms] /\ dsShell[s] \in ShellForms /\ ServiceTypes /\ BirthsGiven
      /\ NamedAreDaemons /\ OnlyDaemonsSignalled /\ (~ dsOverlap => OneAtATime)
  BY DEF DaemonServiceInv, ServiceTypes
<1>1. /\ UNCHANGED <<dsProcs, dsBirths, dsStruck, dsOverlap>> /\ dsDefined' \in BOOLEAN
      /\ dsShell[s].at \in {"stopped", "remove", "spawned"}
  BY <1>0 DEF ForgetPid, RemoveService, RecordPid, ServiceTypes
<1>2. \E at \in {"start", "remove"} : DaemonBecomes(s, at) \/ DaemonEnds(s)
  BY DEF ForgetPid, RemoveService, RecordPid, AfterStop
<1>3. /\ dsShell' \in [Shells -> ShellForms] /\ \A t \in Shells \ {s} : dsShell'[t] = dsShell[t]
      /\ dsShell'[s].birth \in {dsShell[s].birth, 0} /\ dsShell'[s].at \in {"start", "remove", "idle"}
  BY <1>0, <1>2, ShellGoes DEF ShellSteps
<1>4. /\ dsPidFile' \in {NoIdentity, dsPidFile, SpawnedBy(s)}
      /\ dsPidFile' # NoIdentity => dsShell[s].at = "spawned" /\ dsPidFile' = StartedIdentity(s) /\ DaemonEnds(s)
      /\ dsPidFile' = NoIdentity /\ dsShell[s].at = "spawned" => dsPidFile' = StartedIdentity(s)
  BY DEF ForgetPid, RemoveService, RecordPid, WritesPidFile, StartedIdentity
<1>5. /\ NoIdentity \in [pid : Pids \cup {"none"}, birth : Nat] /\ NoIdentity.birth = 0
      /\ SpawnedBy(s) \in [pid : Pids \cup {"none"}, birth : Nat] /\ SpawnedBy(s).birth = dsShell[s].birth
  BY <1>0 DEF NoIdentity, SpawnedBy, ShellForms
<1>6. ServiceTypes' /\ OnlyDaemonsSignalled'
  BY <1>0, <1>1, <1>3, <1>4, <1>5 DEF ServiceTypes, OnlyDaemonsSignalled
<1>7. dsPidFile'.birth \in {0, dsPidFile.birth, dsShell[s].birth} /\ dsPidFile'.birth <= dsBirths
  BY <1>0, <1>4, <1>5 DEF BirthsGiven, ServiceTypes
<1>8. BirthsGiven'
  BY <1>0, <1>1, <1>3, <1>7 DEF BirthsGiven, ServiceTypes
<1>9. NamedAreDaemons'
  <2>1. \A p \in Pids : dsProcs[p].kind = "foreign" => dsProcs[p].birth >= 1
    BY <1>0 DEF BirthsGiven
  <2>2. QED
    BY <1>0, <1>1, <1>3, <1>7, <2>1 DEF NamedAreDaemons
<1>10. ASSUME ~ dsOverlap' PROVE OneAtATime'
  <2>1. OneAtATime
    BY <1>0, <1>1, <1>10
  <2>2. /\ \A t \in Shells \ {s} : dsShell[t].at = "idle"
        /\ \A t \in Shells : dsShell'[t].at # "spawned"
        /\ \A t, u \in Shells : dsShell'[t].at # "idle" /\ dsShell'[u].at # "idle" => t = u
    BY <1>1, <1>3, <2>1 DEF OneAtATime
  <2>3. \A p \in Pids : LiveDaemon(p) => dsPidFile # IdentityOf(p)
    BY <1>1, <2>1 DEF OneAtATime
  <2>4. \A p \in Pids : LiveDaemon(p) => dsShell[s].at = "spawned" /\ SpawnedBy(s) = IdentityOf(p)
    BY <2>1, <2>2, <2>3 DEF OneAtATime
  <2>5. CASE \E p \in Pids : LiveDaemon(p)
    <3>1. PICK p \in Pids : LiveDaemon(p)
      BY <2>5
    <3>2. SpawnedBy(s) = IdentityOf(p) /\ dsShell[s].at = "spawned" /\ dsProcs[p].kind # "free"
      BY <2>4, <3>1 DEF LiveDaemon
    <3>3. SpawnedBy(s).pid = p /\ SpawnedBy(s).birth = dsProcs[p].birth
      BY <3>2 DEF IdentityOf
    <3>4. ObservedAs(SpawnedBy(s))
      BY <3>2, <3>3 DEF ObservedAs
    <3>5. StartedIdentity(s) = SpawnedBy(s)
      BY <3>4 DEF StartedIdentity
    <3>6. dsPidFile' = SpawnedBy(s)
      BY <1>4, <3>2, <3>5
    <3>7. SpawnedBy(s) # NoIdentity
      <4>1. dsProcs[p].birth # 0
        BY <1>0, <3>2 DEF BirthsGiven
      <4>2. QED
        BY <1>5, <3>3, <4>1
    <3>8. dsShell'[s].at = "idle"
      BY <1>0, <1>4, <3>6, <3>7, ShellGoes
    <3>9. \A t \in Shells : dsShell'[t].at \notin {"stopped", "remove", "spawn", "spawned"}
      BY <1>3, <2>2, <3>8
    <3>10. \A q \in Pids : LiveDaemon(q) => dsPidFile' = IdentityOf(q)
      BY <2>4, <3>6
    <3>11. QED
      BY <1>1, <2>2, <3>9, <3>10 DEF OneAtATime, LiveDaemon, IdentityOf
  <2>6. CASE \A p \in Pids : ~ LiveDaemon(p)
    BY <1>1, <2>2, <2>6 DEF OneAtATime, LiveDaemon
  <2>7. QED
    BY <2>5, <2>6
<1>11. QED
  BY <1>6, <1>8, <1>9, <1>10 DEF DaemonServiceInv

\* The daemon that a start spawns is named by the start.
LEMMA SpawnSteps ==
    ASSUME DaemonServiceInv, NEW s \in Shells, SpawnDaemon(s)
    PROVE  DaemonServiceInv'
<1>0. /\ dsShell \in [Shells -> ShellForms] /\ dsShell[s] \in ShellForms /\ ServiceTypes /\ BirthsGiven
      /\ NamedAreDaemons /\ OnlyDaemonsSignalled /\ (~ dsOverlap => OneAtATime) /\ dsBirths \in Nat
  BY DEF DaemonServiceInv, ServiceTypes
<1>1. /\ UNCHANGED <<dsDefined, dsStruck, dsOverlap>> /\ dsShell[s].at = "spawn"
      /\ dsBirths' = dsBirths + 1 /\ dsPidFile' = NoIdentity
  BY DEF SpawnDaemon, WritesPidFile
<1>2. PICK p \in Pids : /\ dsProcs[p].kind = "free"
                        /\ dsProcs' = [dsProcs EXCEPT ![p] = [kind |-> "daemon", birth |-> dsBirths + 1]]
                        /\ dsShell' = [dsShell EXCEPT ![s].at = "spawned", ![s].pid = p, ![s].birth = dsBirths + 1]
  BY DEF SpawnDaemon
<1> DEFINE at1 == [dsShell[s] EXCEPT !.at = "spawned"]
           pid1 == [at1 EXCEPT !.pid = p]
           new == [pid1 EXCEPT !.birth = dsBirths + 1]
<1>3. new \in ShellForms /\ new.at = "spawned" /\ new.pid = p /\ new.birth = dsBirths + 1
  <2>1. at1 \in ShellForms /\ at1.at = "spawned"
    BY <1>0 DEF ShellForms, ShellSteps
  <2> HIDE DEF at1
  <2>2. pid1 \in ShellForms /\ pid1.at = "spawned" /\ pid1.pid = p
    BY <2>1 DEF ShellForms
  <2> HIDE DEF pid1
  <2>3. dsBirths + 1 \in Nat
    BY <1>0
  <2>4. QED
    BY <2>2, <2>3 DEF ShellForms
<1>4. dsShell' = [dsShell EXCEPT ![s] = new]
  BY <1>0, <1>2
<1> HIDE DEF new
<1>5. dsShell' \in [Shells -> ShellForms] /\ dsShell'[s] = new /\ \A t \in Shells \ {s} : dsShell'[t] = dsShell[t]
  BY <1>0, <1>3, <1>4
<1>6. /\ dsProcs' \in [Pids -> [kind : ProcessKinds, birth : Nat]]
      /\ dsProcs'[p].kind = "daemon" /\ dsProcs'[p].birth = dsBirths + 1
      /\ \A q \in Pids \ {p} : dsProcs'[q] = dsProcs[q]
  BY <1>0, <1>2 DEF ServiceTypes, ProcessKinds
<1>7. NoIdentity \in [pid : Pids \cup {"none"}, birth : Nat] /\ NoIdentity.birth = 0
  BY DEF NoIdentity
<1>8. ServiceTypes' /\ OnlyDaemonsSignalled'
  BY <1>0, <1>1, <1>5, <1>6, <1>7 DEF ServiceTypes, OnlyDaemonsSignalled
<1>b. \A q \in Pids : dsProcs[q].birth \in Nat /\ dsProcs[q].birth <= dsBirths
                      /\ (dsProcs[q].kind = "free" \/ dsProcs[q].birth >= 1)
  BY <1>0 DEF BirthsGiven, ServiceTypes
<1>c. \A t \in Shells : dsShell[t].birth \in Nat /\ dsShell[t].birth <= dsBirths
  BY <1>0 DEF BirthsGiven, ServiceTypes, ShellForms
<1>9. BirthsGiven'
  BY <1>0, <1>1, <1>3, <1>5, <1>6, <1>7, <1>b, <1>c DEF BirthsGiven
<1>10. NamedAreDaemons'
  <2>1. \A q \in Pids : dsProcs'[q].kind = "foreign" => q # p /\ dsProcs[q].birth \in 1 .. dsBirths
    <3>1. SUFFICES ASSUME NEW q \in Pids, dsProcs'[q].kind = "foreign"
                   PROVE  q # p /\ dsProcs[q].birth \in 1 .. dsBirths
      OBVIOUS
    <3>2. q # p /\ dsProcs[q].kind = "foreign"
      BY <1>6, <3>1
    <3>3. dsProcs[q].birth \in Nat /\ dsProcs[q].birth <= dsBirths /\ dsProcs[q].birth >= 1
      BY <1>b, <3>2
    <3>4. QED
      BY <3>2, <3>3, <1>0
  <2>2. QED
    BY <1>0, <1>1, <1>3, <1>5, <1>6, <1>7, <2>1 DEF NamedAreDaemons
<1>11. ASSUME ~ dsOverlap' PROVE OneAtATime'
  <2>1. OneAtATime
    BY <1>0, <1>1, <1>11
  <2>2. /\ \A t \in Shells \ {s} : dsShell[t].at = "idle"
        /\ \A t, u \in Shells : dsShell'[t].at # "idle" /\ dsShell'[u].at # "idle" => t = u
    BY <1>1, <1>5, <2>1 DEF OneAtATime
  <2>3. \A t \in Shells : dsShell[t].at # "spawned"
    BY <1>1, <2>2
  <2>4. \A q \in Pids : ~ LiveDaemon(q)
    BY <1>1, <2>1, <2>3 DEF OneAtATime
  <2>5. \A q \in Pids : LiveDaemon(q)' => q = p
    BY <1>6, <2>4 DEF LiveDaemon
  <2>6. SpawnedBy(s)' = IdentityOf(p)' /\ dsShell'[s].at = "spawned"
    BY <1>3, <1>5, <1>6 DEF SpawnedBy, IdentityOf
  <2>7. dsPidFile' # IdentityOf(p)'
    BY <1>0, <1>1, <1>6, <1>7 DEF IdentityOf
  <2>8. QED
    BY <2>2, <2>5, <2>6, <2>7 DEF OneAtATime
<1>12. QED
  BY <1>8, <1>9, <1>10, <1>11 DEF DaemonServiceInv

\* Processes end, bind, and other programs take their place.
LEMMA ProcessSteps ==
    ASSUME DaemonServiceInv, NEW p \in Pids, DaemonBinds(p) \/ ProcessEnds(p) \/ ForeignStarts(p)
    PROVE  DaemonServiceInv'
<1>0. /\ ServiceTypes /\ BirthsGiven /\ dsProcs[p] \in [kind : ProcessKinds, birth : Nat]
      /\ NamedAreDaemons /\ OnlyDaemonsSignalled /\ (~ dsOverlap => OneAtATime) /\ dsBirths \in Nat
  BY DEF DaemonServiceInv, ServiceTypes
<1>1. UNCHANGED <<dsDefined, dsPidFile, dsShell, dsStruck, dsOverlap>> /\ dsBirths' \in {dsBirths, dsBirths + 1}
  BY DEF DaemonBinds, ProcessEnds, ForeignStarts
<1>2. /\ dsProcs' \in [Pids -> [kind : ProcessKinds, birth : Nat]]
      /\ \A q \in Pids \ {p} : dsProcs'[q] = dsProcs[q]
      /\ \/ dsProcs'[p].kind = "free" /\ dsProcs'[p].birth = 0
         \/ dsProcs'[p].kind = "serving" /\ dsProcs[p].kind = "daemon" /\ dsProcs'[p].birth = dsProcs[p].birth
         \/ dsProcs'[p].kind = "foreign" /\ dsBirths' = dsBirths + 1 /\ dsProcs'[p].birth = dsBirths + 1
  <2>1. FreePid \in [kind : ProcessKinds, birth : Nat] /\ FreePid.kind = "free" /\ FreePid.birth = 0
    BY DEF FreePid, ProcessKinds
  <2>2. CASE dsProcs' = [dsProcs EXCEPT ![p] = FreePid]
    BY <1>0, <2>1, <2>2 DEF ServiceTypes
  <2>3. CASE dsProcs' = [dsProcs EXCEPT ![p].kind = "serving"] /\ dsProcs[p].kind = "daemon"
    BY <1>0, <2>3, ProcessGoes DEF ProcessKinds
  <2>4. CASE ForeignStarts(p)
    BY <1>0, <2>4 DEF ForeignStarts, ServiceTypes, ProcessKinds
  <2>5. CASE ProcessEnds(p)
    BY <2>2, <2>5 DEF ProcessEnds
  <2>6. CASE DaemonBinds(p)
    <3>1. CASE \E q \in Pids \ {p} : dsProcs[q].kind = "serving"
      BY <2>2, <2>6, <3>1 DEF DaemonBinds
    <3>2. CASE ~ \E q \in Pids \ {p} : dsProcs[q].kind = "serving"
      <4>1. dsProcs' = [dsProcs EXCEPT ![p].kind = "serving"]
        BY <2>6, <3>2 DEF DaemonBinds
      <4>2. QED
        BY <2>3, <2>6, <4>1 DEF DaemonBinds
    <3>3. QED
      BY <3>1, <3>2
  <2>7. QED
    BY <2>4, <2>5, <2>6
<1>3. ServiceTypes' /\ OnlyDaemonsSignalled'
  BY <1>0, <1>1, <1>2 DEF ServiceTypes, OnlyDaemonsSignalled
<1>4. BirthsGiven'
  BY <1>0, <1>1, <1>2 DEF BirthsGiven, ServiceTypes, ShellForms
<1>5. NamedAreDaemons'
  <2>1. \A s \in Shells : dsShell[s].birth \in 0 .. dsBirths
    BY <1>0 DEF BirthsGiven, ServiceTypes, ShellForms
  <2>2. dsPidFile.birth \in 0 .. dsBirths
    BY <1>0 DEF BirthsGiven, ServiceTypes
  <2>3. QED
    BY <1>0, <1>1, <1>2, <2>1, <2>2 DEF NamedAreDaemons
<1>6. ASSUME ~ dsOverlap' PROVE OneAtATime'
  <2>1. OneAtATime
    BY <1>0, <1>1, <1>6
  <2>2. \A q \in Pids : LiveDaemon(q)' => LiveDaemon(q) /\ IdentityOf(q)' = IdentityOf(q)
    BY <1>2 DEF LiveDaemon, IdentityOf
  <2>3. \A s \in Shells : SpawnedBy(s)' = SpawnedBy(s)
    BY <1>1 DEF SpawnedBy
  <2>4. QED
    BY <1>1, <2>1, <2>2, <2>3 DEF OneAtATime
<1>7. QED
  BY <1>3, <1>4, <1>5, <1>6 DEF DaemonServiceInv

\* No command and no process breaks what is named.
LEMMA DaemonServiceStep ==
    ASSUME DaemonServiceInv, [DaemonServiceNext]_dsVars
    PROVE  DaemonServiceInv'
<1>1. CASE UNCHANGED dsVars
  BY <1>1 DEF dsVars, DaemonServiceInv, ServiceTypes, BirthsGiven, NamedAreDaemons, OneAtATime,
     LiveDaemon, IdentityOf, OnlyDaemonsSignalled, SpawnedBy
<1>2. QED
  BY <1>1, PromptSteps, StopSteps, PidFileSteps, SpawnSteps, ProcessSteps DEF DaemonServiceNext

-----------------------------------------------------------------------------
(* Desktop: the daemon that daemon.json names, and the releases. *)

DaemonStages == {"off", "binding", "named", "loaded", "serving"}
DaemonForms == [at : DaemonStages, cfg : Nat, same : BOOLEAN]
UpdateForms == [published : Nat, shown : SUBSET Nat, confirmed : Nat, checked : Nat, installed : Nat]
LifecycleForms == [at : {"idle", "downloaded", "handed", "ended", "failed"}, report : Nat, installed : Nat]
DesktopTypes ==
  /\ dkDaemon \in [Daemons -> DaemonForms]
  /\ dkFile \in Daemons \cup {"none"}
  /\ dkDisk \in Nat /\ dkReported \in Nat
  /\ dkOnboard \in [at : {"idle", "checked", "written"}, wrote : Nat]
\* The daemon that daemon.json names has read the file since the last report.
NamedHasRead ==
  /\ dkReported <= dkDisk /\ dkOnboard.wrote <= dkDisk
  /\ \A d \in Daemons : dkFile = d /\ dkDaemon[d].at \in {"loaded", "serving"} => dkDaemon[d].cfg >= dkReported
\* What is in work was confirmed.
UpdatesConfirmed ==
  /\ dkUpdate \in UpdateForms
  /\ dkUpdate.confirmed # 0 => dkUpdate.confirmed \in dkUpdate.shown
  /\ dkUpdate.checked # 0 => dkUpdate.checked \in dkUpdate.shown
  /\ InstalledWasConfirmed
\* The report is written before the installer starts.
HandoffsReported ==
  /\ dkLifecycle \in LifecycleForms
  /\ dkLifecycle.at = "handed" => dkLifecycle.report = 1
  /\ dkLifecycle.at # "ended" => dkLifecycle.installed = 0
  /\ InstallationReported
DesktopInv == DesktopTypes /\ NamedHasRead /\ UpdatesConfirmed /\ HandoffsReported

\* Nothing is reported, shown or installed at first.
LEMMA DesktopStart == ASSUME DesktopInit PROVE DesktopInv
<1>1. \A d \in Daemons : dkDaemon[d].at \in {"off", "serving"} /\ dkDaemon[d].cfg = 0 /\ dkDaemon[d] \in DaemonForms
  <2> DEFINE old == [at |-> "serving", cfg |-> 0, same |-> FALSE]
  <2>1. /\ NotRunning \in DaemonForms /\ NotRunning.at = "off" /\ NotRunning.cfg = 0
        /\ old \in DaemonForms /\ old.at = "serving" /\ old.cfg = 0
    BY DEF NotRunning, DaemonForms, DaemonStages
  <2>2. \A d \in Daemons : dkDaemon[d] \in {NotRunning, old}
    BY DEF DesktopInit
  <2> HIDE DEF old
  <2>3. QED
    BY <2>1, <2>2
<1>2. DesktopTypes
  BY <1>1 DEF DesktopInit, DesktopTypes, Daemons
<1>3. NamedHasRead
  BY <1>1 DEF DesktopInit, NamedHasRead
<1>4. UpdatesConfirmed /\ HandoffsReported
  BY DEF DesktopInit, UpdatesConfirmed, HandoffsReported, InstalledWasConfirmed, InstallationReported,
     UpdateForms, LifecycleForms
<1>5. QED
  BY <1>2, <1>3, <1>4 DEF DesktopInv

\* The daemon that answers is the one that daemon.json names.
LEMMA ReachedIsNamed == ASSUME DesktopTypes PROVE Reached # "none" => Reached = dkFile /\ Reached \in Daemons /\ dkDaemon[Reached].at = "serving"
BY DEF DesktopTypes, Reached

\* The daemon that the desktop reaches has read the configuration.
LEMMA ServedHasRead == ASSUME DesktopInv PROVE OnboardedIsServed
BY ReachedIsNamed DEF DesktopInv, NamedHasRead, OnboardedIsServed

\* A daemon that takes another form.
LEMMA DaemonMoves ==
    ASSUME DesktopTypes, NEW d \in Daemons, NEW at \in DaemonStages, NEW n \in Nat
    PROVE  /\ dkDaemon' = Stage(d, at) =>
                /\ dkDaemon' \in [Daemons -> DaemonForms] /\ \A e \in Daemons \ {d} : dkDaemon'[e] = dkDaemon[e]
                /\ dkDaemon'[d].at = at /\ dkDaemon'[d].cfg = dkDaemon[d].cfg
           /\ dkDaemon' = [dkDaemon EXCEPT ![d].at = at, ![d].cfg = n] =>
                /\ dkDaemon' \in [Daemons -> DaemonForms] /\ \A e \in Daemons \ {d} : dkDaemon'[e] = dkDaemon[e]
                /\ dkDaemon'[d].at = at /\ dkDaemon'[d].cfg = n
           /\ dkDaemon' = [dkDaemon EXCEPT ![d].cfg = n] =>
                /\ dkDaemon' \in [Daemons -> DaemonForms] /\ \A e \in Daemons \ {d} : dkDaemon'[e] = dkDaemon[e]
                /\ dkDaemon'[d].at = dkDaemon[d].at /\ dkDaemon'[d].cfg = n
           /\ dkDaemon' = [dkDaemon EXCEPT ![d] = NotRunning] =>
                /\ dkDaemon' \in [Daemons -> DaemonForms] /\ \A e \in Daemons \ {d} : dkDaemon'[e] = dkDaemon[e]
                /\ dkDaemon'[d].at = "off"
           /\ dkDaemon' = Spawned(d, TRUE) =>
                /\ dkDaemon' \in [Daemons -> DaemonForms] /\ \A e \in Daemons \ {d} : dkDaemon'[e] = dkDaemon[e]
                /\ dkDaemon'[d].at = "binding"
<1>0. dkDaemon \in [Daemons -> DaemonForms] /\ dkDaemon[d] \in DaemonForms
  BY DEF DesktopTypes
<1>1. dkDaemon' = Stage(d, at) =>
                /\ dkDaemon' \in [Daemons -> DaemonForms] /\ \A e \in Daemons \ {d} : dkDaemon'[e] = dkDaemon[e]
                /\ dkDaemon'[d].at = at /\ dkDaemon'[d].cfg = dkDaemon[d].cfg
  <2> DEFINE new == [dkDaemon[d] EXCEPT !.at = at]
  <2>1. new \in DaemonForms /\ new.at = at /\ new.cfg = dkDaemon[d].cfg
    BY <1>0 DEF DaemonForms
  <2>2. Stage(d, at) = [dkDaemon EXCEPT ![d] = new]
    BY DEF Stage
  <2> HIDE DEF new
  <2>3. QED
    BY <1>0, <2>1, <2>2
<1>2. dkDaemon' = [dkDaemon EXCEPT ![d].at = at, ![d].cfg = n] =>
                /\ dkDaemon' \in [Daemons -> DaemonForms] /\ \A e \in Daemons \ {d} : dkDaemon'[e] = dkDaemon[e]
                /\ dkDaemon'[d].at = at /\ dkDaemon'[d].cfg = n
  <2> DEFINE mid == [dkDaemon[d] EXCEPT !.at = at]
             new == [mid EXCEPT !.cfg = n]
  <2>1. mid \in DaemonForms /\ mid.at = at
    BY <1>0 DEF DaemonForms
  <2>2. [dkDaemon EXCEPT ![d].at = at, ![d].cfg = n] = [dkDaemon EXCEPT ![d] = new]
    BY <1>0
  <2> HIDE DEF mid
  <2>3. new \in DaemonForms /\ new.at = at /\ new.cfg = n
    BY <2>1 DEF DaemonForms
  <2> HIDE DEF new
  <2>4. QED
    BY <1>0, <2>3, <2>2
<1>3. dkDaemon' = [dkDaemon EXCEPT ![d].cfg = n] =>
                /\ dkDaemon' \in [Daemons -> DaemonForms] /\ \A e \in Daemons \ {d} : dkDaemon'[e] = dkDaemon[e]
                /\ dkDaemon'[d].at = dkDaemon[d].at /\ dkDaemon'[d].cfg = n
  <2> DEFINE new == [dkDaemon[d] EXCEPT !.cfg = n]
  <2>1. new \in DaemonForms /\ new.at = dkDaemon[d].at /\ new.cfg = n
    BY <1>0 DEF DaemonForms
  <2>2. [dkDaemon EXCEPT ![d].cfg = n] = [dkDaemon EXCEPT ![d] = new]
    OBVIOUS
  <2> HIDE DEF new
  <2>3. QED
    BY <1>0, <2>1, <2>2
<1>4. NotRunning \in DaemonForms /\ NotRunning.at = "off"
  BY DEF NotRunning, DaemonForms, DaemonStages
<1>5. [at |-> "binding", cfg |-> 0, same |-> TRUE] \in DaemonForms
  BY DEF DaemonForms, DaemonStages
<1>6. dkDaemon' = [dkDaemon EXCEPT ![d] = NotRunning] =>
                /\ dkDaemon' \in [Daemons -> DaemonForms] /\ \A e \in Daemons \ {d} : dkDaemon'[e] = dkDaemon[e]
                /\ dkDaemon'[d].at = "off"
  BY <1>0, <1>4
<1>7. dkDaemon' = Spawned(d, TRUE) =>
                /\ dkDaemon' \in [Daemons -> DaemonForms] /\ \A e \in Daemons \ {d} : dkDaemon'[e] = dkDaemon[e]
                /\ dkDaemon'[d].at = "binding"
  BY <1>0, <1>5 DEF Spawned
<1>8. QED
  BY <1>1, <1>2, <1>3, <1>6, <1>7

\* The daemons name themselves before they read; nothing else is theirs.
LEMMA DaemonActions ==
    ASSUME DesktopInv, NEW d \in Daemons,
           PersistDiscovery(d) \/ LoadDomains(d) \/ BeginServing(d) \/ EndServing(d) \/ DaemonCrash(d)
    PROVE  DesktopInv'
<1>0. DesktopTypes /\ NamedHasRead /\ dkDisk \in Nat
  BY DEF DesktopInv, DesktopTypes
<1>1. UNCHANGED <<dkDisk, dkApp, dkOwned, dkOnboard, dkReported, dkStarts, dkUpdates>>
  BY DEF PersistDiscovery, LoadDomains, BeginServing, EndServing, DaemonCrash
<1>2. UpdatesConfirmed' /\ HandoffsReported'
  BY <1>1 DEF DesktopInv, UpdatesConfirmed, HandoffsReported, InstalledWasConfirmed, InstallationReported, dkUpdates
<1>3. CASE PersistDiscovery(d)
  <2>1. dkDaemon' = Stage(d, "named") /\ dkFile' = d
    BY <1>3 DEF PersistDiscovery
  <2>2. /\ dkDaemon' \in [Daemons -> DaemonForms] /\ \A e \in Daemons \ {d} : dkDaemon'[e] = dkDaemon[e]
        /\ dkDaemon'[d].at = "named"
    BY <1>0, <2>1, DaemonMoves DEF DaemonStages
  <2>3. QED
    BY <1>0, <1>1, <1>2, <2>1, <2>2 DEF DesktopInv, DesktopTypes, NamedHasRead
<1>4. CASE LoadDomains(d)
  <2>1. UNCHANGED dkFile /\ (\/ dkDaemon' = [dkDaemon EXCEPT ![d].at = "loaded", ![d].cfg = dkDisk]
                             \/ dkDaemon' = [dkDaemon EXCEPT ![d] = NotRunning])
    BY <1>4 DEF LoadDomains
  <2>2. /\ dkDaemon' \in [Daemons -> DaemonForms] /\ \A e \in Daemons \ {d} : dkDaemon'[e] = dkDaemon[e]
        /\ dkDaemon'[d].at = "off" \/ dkDaemon'[d].cfg = dkDisk
    BY <1>0, <2>1, DaemonMoves DEF DaemonStages
  <2>3. QED
    BY <1>0, <1>1, <1>2, <2>1, <2>2 DEF DesktopInv, DesktopTypes, NamedHasRead
<1>5. CASE BeginServing(d)
  <2>1. dkDaemon' = Stage(d, "serving") /\ UNCHANGED dkFile /\ dkDaemon[d].at = "loaded"
    BY <1>5 DEF BeginServing
  <2>2. /\ dkDaemon' \in [Daemons -> DaemonForms] /\ \A e \in Daemons \ {d} : dkDaemon'[e] = dkDaemon[e]
        /\ dkDaemon'[d].cfg = dkDaemon[d].cfg
    BY <1>0, <2>1, DaemonMoves DEF DaemonStages
  <2>3. QED
    BY <1>0, <1>1, <1>2, <2>1, <2>2 DEF DesktopInv, DesktopTypes, NamedHasRead
<1>6. CASE EndServing(d) \/ DaemonCrash(d)
  <2>1. dkDaemon' = [dkDaemon EXCEPT ![d] = NotRunning] /\ dkFile' \in {dkFile, "none"}
    BY <1>6 DEF EndServing, DaemonCrash
  <2>2. /\ dkDaemon' \in [Daemons -> DaemonForms] /\ \A e \in Daemons \ {d} : dkDaemon'[e] = dkDaemon[e]
        /\ dkDaemon'[d].at = "off"
    BY <1>0, <2>1, DaemonMoves DEF DaemonStages
  <2>3. "none" \notin Daemons
    BY DEF Daemons
  <2>4. QED
    BY <1>0, <1>1, <1>2, <2>1, <2>2, <2>3 DEF DesktopInv, DesktopTypes, NamedHasRead
<1>7. QED
  BY <1>3, <1>4, <1>5, <1>6

\* The desktop starts and stops daemons, which then have nothing loaded.
LEMMA DesktopProcess ==
    ASSUME DesktopInv, ManagerStarts \/ StartDesktop \/ InstallManaged \/ AwaitManaged \/ AwaitChild \/ Quit
    PROVE  DesktopInv'
<1>0. DesktopTypes /\ NamedHasRead /\ UpdatesConfirmed /\ HandoffsReported
  BY DEF DesktopInv
<1>1. /\ UNCHANGED <<dkDisk, dkReported, dkFile, dkLifecycle>> /\ dkOnboard' \in {dkOnboard, [dkOnboard EXCEPT !.at = "idle"]}
      /\ dkUpdate' \in {dkUpdate, [dkUpdate EXCEPT !.confirmed = 0, !.checked = 0]}
  BY DEF ManagerStarts, StartDesktop, InstallManaged, AwaitManaged, AwaitChild, Quit, dkDaemons, dkUpdates
<1>2. HandoffsReported'
  BY <1>0, <1>1 DEF HandoffsReported, InstallationReported
<1>3. UpdatesConfirmed'
  <2> DEFINE new == [dkUpdate EXCEPT !.confirmed = 0, !.checked = 0]
  <2>1. /\ new \in UpdateForms /\ new.confirmed = 0 /\ new.checked = 0 /\ new.installed = dkUpdate.installed
        /\ new.shown = dkUpdate.shown
    BY <1>0 DEF UpdatesConfirmed, UpdateForms
  <2> HIDE DEF new
  <2>2. dkUpdate' \in {dkUpdate, new}
    BY <1>1 DEF new
  <2>3. QED
    BY <1>0, <2>1, <2>2 DEF UpdatesConfirmed, InstalledWasConfirmed
<1>4. dkOnboard' \in [at : {"idle", "checked", "written"}, wrote : Nat] /\ dkOnboard'.wrote = dkOnboard.wrote
  BY <1>0, <1>1 DEF DesktopTypes
<1>5. \/ dkDaemon' = dkDaemon
      \/ \E d \in Daemons : dkDaemon' = [dkDaemon EXCEPT ![d] = NotRunning] \/ dkDaemon' = Spawned(d, TRUE)
  BY DEF ManagerStarts, StartDesktop, InstallManaged, AwaitManaged, AwaitChild, Quit, dkDaemons, DaemonStopped, Daemons
<1>6. /\ dkDaemon' \in [Daemons -> DaemonForms]
      /\ \A e \in Daemons : dkDaemon'[e] = dkDaemon[e] \/ dkDaemon'[e].at \in {"off", "binding"}
  BY <1>0, <1>5, DaemonMoves DEF DesktopTypes, DaemonStages
<1>7. QED
  BY <1>0, <1>1, <1>2, <1>3, <1>4, <1>6 DEF DesktopInv, DesktopTypes, NamedHasRead

\* An onboarding reports what the daemon it reached has loaded.
LEMMA OnboardingActions ==
    ASSUME DesktopInv, BeginOnboarding \/ Initialize \/ AdoptDomains
    PROVE  DesktopInv'
<1>0. DesktopTypes /\ NamedHasRead /\ dkDisk \in Nat /\ dkOnboard \in [at : {"idle", "checked", "written"}, wrote : Nat]
  BY DEF DesktopInv, DesktopTypes
<1>1. UNCHANGED dkUpdates /\ UNCHANGED dkFile
  BY DEF BeginOnboarding, Initialize, AdoptDomains, dkDaemons
<1>2. UpdatesConfirmed' /\ HandoffsReported'
  BY <1>1 DEF DesktopInv, UpdatesConfirmed, HandoffsReported, InstalledWasConfirmed, InstallationReported, dkUpdates
<1>3. CASE BeginOnboarding \/ Initialize
  <2>1. /\ UNCHANGED <<dkDaemon, dkReported>> /\ dkDisk' \in Nat /\ dkDisk <= dkDisk'
        /\ dkOnboard' \in [at : {"idle", "checked", "written"}, wrote : Nat] /\ dkOnboard'.wrote <= dkDisk'
    <3>1. CASE BeginOnboarding
      BY <1>0, <3>1 DEF BeginOnboarding, dkDaemons, NamedHasRead
    <3>2. CASE Initialize
      <4>1. \/ dkDisk' = dkDisk + 1 /\ dkOnboard' = [at |-> "written", wrote |-> dkDisk + 1]
            \/ dkOnboard' = [dkOnboard EXCEPT !.at = "idle"] /\ dkDisk' = dkDisk
        BY <3>2 DEF Initialize
      <4>2. UNCHANGED <<dkDaemon, dkReported>>
        BY <3>2 DEF Initialize, dkDaemons
      <4>3. QED
        BY <1>0, <4>1, <4>2 DEF NamedHasRead
    <3>3. QED
      BY <1>3, <3>1, <3>2
  <2>2. QED
    BY <1>0, <1>1, <1>2, <2>1 DEF DesktopInv, DesktopTypes, NamedHasRead
<1>4. CASE AdoptDomains
  <2>1. UNCHANGED dkDisk /\ dkOnboard' = [dkOnboard EXCEPT !.at = "idle"]
    BY <1>4 DEF AdoptDomains
  <2>2. dkOnboard' \in [at : {"idle", "checked", "written"}, wrote : Nat] /\ dkOnboard'.wrote = dkOnboard.wrote
    BY <1>0, <2>1
  <2>3. CASE UNCHANGED <<dkDaemon, dkReported>>
    BY <1>0, <1>1, <1>2, <2>1, <2>2, <2>3 DEF DesktopInv, DesktopTypes, NamedHasRead
  <2>4. CASE /\ Reached # "none" /\ dkDaemon' = [dkDaemon EXCEPT ![Reached].cfg = dkDisk]
             /\ dkReported' \in {dkReported, dkOnboard.wrote}
    <3>1. Reached = dkFile /\ Reached \in Daemons
      BY <1>0, <2>4, ReachedIsNamed
    <3>2. /\ dkDaemon' \in [Daemons -> DaemonForms] /\ dkDaemon'[Reached].cfg = dkDisk
      BY <1>0, <2>4, <3>1, DaemonMoves DEF DaemonStages
    <3>3. dkReported' \in Nat /\ dkReported' <= dkDisk
      BY <1>0, <2>4 DEF DesktopTypes, NamedHasRead
    <3>4. NamedHasRead'
      BY <1>0, <1>1, <2>1, <2>2, <3>1, <3>2, <3>3 DEF NamedHasRead
    <3>5. QED
      BY <1>0, <1>1, <1>2, <2>1, <2>2, <3>2, <3>3, <3>4 DEF DesktopInv, DesktopTypes
  <2>5. QED
    BY <1>4, <2>3, <2>4 DEF AdoptDomains
<1>5. QED
  BY <1>3, <1>4

\* Only a confirmed release is checked and installed; only a reported one is
\* handed over.
LEMMA UpdateActions ==
    ASSUME DesktopInv,
           \/ PublishRelease \/ ConfirmUpdate \/ CheckAgain \/ InstallUpdate
           \/ LifecycleChecks \/ PersistHandoff \/ LifecycleInstalls
    PROVE  DesktopInv'
<1>0. DesktopTypes /\ NamedHasRead /\ UpdatesConfirmed /\ HandoffsReported /\ dkUpdate \in UpdateForms
      /\ dkLifecycle \in LifecycleForms
  BY DEF DesktopInv, UpdatesConfirmed, HandoffsReported
<1>1. UNCHANGED <<dkDaemon, dkFile, dkDisk, dkApp, dkOwned, dkOnboard, dkReported>>
  BY DEF PublishRelease, ConfirmUpdate, CheckAgain, InstallUpdate, LifecycleChecks, PersistHandoff,
     LifecycleInstalls, dkDaemons
<1>2. DesktopTypes' /\ NamedHasRead'
  BY <1>0, <1>1 DEF DesktopTypes, NamedHasRead
<1>3. ASSUME UNCHANGED dkLifecycle PROVE HandoffsReported'
  BY <1>0, <1>3 DEF HandoffsReported, InstallationReported
<1>4. ASSUME UNCHANGED dkUpdate PROVE UpdatesConfirmed'
  BY <1>0, <1>4 DEF UpdatesConfirmed, InstalledWasConfirmed
<1>5. CASE PublishRelease
  <2>1. dkUpdate' = [dkUpdate EXCEPT !.published = @ + 1] /\ UNCHANGED dkLifecycle
    BY <1>5 DEF PublishRelease
  <2>2. /\ dkUpdate' \in UpdateForms /\ dkUpdate'.shown = dkUpdate.shown /\ dkUpdate'.confirmed = dkUpdate.confirmed
        /\ dkUpdate'.checked = dkUpdate.checked /\ dkUpdate'.installed = dkUpdate.installed
    BY <1>0, <2>1 DEF UpdateForms
  <2>3. QED
    BY <1>0, <1>2, <1>3, <2>1, <2>2 DEF DesktopInv, UpdatesConfirmed, InstalledWasConfirmed
<1>6. CASE ConfirmUpdate
  <2>1. dkUpdate' = [dkUpdate EXCEPT !.confirmed = dkUpdate.published, !.shown = @ \cup {dkUpdate.published}]
        /\ UNCHANGED dkLifecycle
    BY <1>6 DEF ConfirmUpdate
  <2>2. /\ dkUpdate' \in UpdateForms /\ dkUpdate'.shown = dkUpdate.shown \cup {dkUpdate.published}
        /\ dkUpdate'.confirmed = dkUpdate.published
        /\ dkUpdate'.checked = dkUpdate.checked /\ dkUpdate'.installed = dkUpdate.installed
    BY <1>0, <2>1 DEF UpdateForms
  <2>3. QED
    BY <1>0, <1>2, <1>3, <2>1, <2>2 DEF DesktopInv, UpdatesConfirmed, InstalledWasConfirmed
<1>7. CASE CheckAgain
  <2>1. /\ UNCHANGED dkLifecycle
        /\ dkUpdate' = IF AuthorizeUpdateInstall(dkUpdate.confirmed, dkUpdate.published)
                       THEN [dkUpdate EXCEPT !.checked = dkUpdate.published]
                       ELSE [dkUpdate EXCEPT !.confirmed = 0]
    BY <1>7 DEF CheckAgain
  <2>2. CASE AuthorizeUpdateInstall(dkUpdate.confirmed, dkUpdate.published)
    <3>1. dkUpdate' = [dkUpdate EXCEPT !.checked = dkUpdate.published] /\ dkUpdate.published = dkUpdate.confirmed
          /\ dkUpdate.confirmed # 0
      BY <2>1, <2>2 DEF AuthorizeUpdateInstall
    <3>2. /\ dkUpdate' \in UpdateForms /\ dkUpdate'.shown = dkUpdate.shown /\ dkUpdate'.confirmed = dkUpdate.confirmed
          /\ dkUpdate'.checked = dkUpdate.published /\ dkUpdate'.installed = dkUpdate.installed
      BY <1>0, <3>1 DEF UpdateForms
    <3>3. QED
      BY <1>0, <1>2, <1>3, <2>1, <3>1, <3>2 DEF DesktopInv, UpdatesConfirmed, InstalledWasConfirmed
  <2>3. CASE ~ AuthorizeUpdateInstall(dkUpdate.confirmed, dkUpdate.published)
    <3>1. dkUpdate' = [dkUpdate EXCEPT !.confirmed = 0]
      BY <2>1, <2>3
    <3>2. /\ dkUpdate' \in UpdateForms /\ dkUpdate'.shown = dkUpdate.shown /\ dkUpdate'.confirmed = 0
          /\ dkUpdate'.checked = dkUpdate.checked /\ dkUpdate'.installed = dkUpdate.installed
      BY <1>0, <3>1 DEF UpdateForms
    <3>3. QED
      BY <1>0, <1>2, <1>3, <2>1, <3>2 DEF DesktopInv, UpdatesConfirmed, InstalledWasConfirmed
  <2>4. QED
    BY <2>2, <2>3
<1>8. CASE InstallUpdate
  <2>1. /\ dkUpdate' = [dkUpdate EXCEPT !.installed = dkUpdate.checked, !.confirmed = 0, !.checked = 0]
        /\ UNCHANGED dkLifecycle /\ dkUpdate.checked # 0
    BY <1>8 DEF InstallUpdate
  <2>2. /\ dkUpdate' \in UpdateForms /\ dkUpdate'.shown = dkUpdate.shown /\ dkUpdate'.confirmed = 0
        /\ dkUpdate'.checked = 0 /\ dkUpdate'.installed = dkUpdate.checked
    BY <1>0, <2>1 DEF UpdateForms
  <2>3. QED
    BY <1>0, <1>2, <1>3, <2>1, <2>2 DEF DesktopInv, UpdatesConfirmed, InstalledWasConfirmed
<1>9. CASE LifecycleChecks
  <2>1. /\ dkLifecycle.at = "idle" /\ UNCHANGED dkUpdate
        /\ dkLifecycle' = [dkLifecycle EXCEPT !.at = IF AuthorizeUpdateInstall(1, dkUpdate.published) THEN "downloaded" ELSE "failed"]
    BY <1>9 DEF LifecycleChecks
  <2>2. /\ dkLifecycle' \in LifecycleForms /\ dkLifecycle'.at \in {"downloaded", "failed"}
        /\ dkLifecycle'.installed = dkLifecycle.installed
    BY <1>0, <2>1 DEF LifecycleForms
  <2>3. dkLifecycle.installed = 0 /\ dkLifecycle'.at # "handed" /\ dkLifecycle'.at # "ended"
    BY <1>0, <2>1, <2>2 DEF HandoffsReported
  <2>4. QED
    BY <1>0, <1>2, <1>4, <2>1, <2>2, <2>3 DEF DesktopInv, HandoffsReported, InstallationReported
<1>10. CASE PersistHandoff
  <2>1. /\ dkLifecycle.at = "downloaded" /\ UNCHANGED dkUpdate
        /\ \/ dkLifecycle' = [dkLifecycle EXCEPT !.at = "handed", !.report = 1]
           \/ dkLifecycle' = [dkLifecycle EXCEPT !.at = "failed"]
    BY <1>10 DEF PersistHandoff
  <2>2. /\ dkLifecycle' \in LifecycleForms /\ dkLifecycle'.at \in {"handed", "failed"}
        /\ dkLifecycle'.at = "handed" => dkLifecycle'.report = 1
        /\ dkLifecycle'.installed = dkLifecycle.installed
    <3>1. CASE dkLifecycle' = [dkLifecycle EXCEPT !.at = "handed", !.report = 1]
      BY <1>0, <3>1 DEF LifecycleForms
    <3>2. CASE dkLifecycle' = [dkLifecycle EXCEPT !.at = "failed"]
      BY <1>0, <3>2 DEF LifecycleForms
    <3>3. QED
      BY <2>1, <3>1, <3>2
  <2>3. dkLifecycle.installed = 0 /\ dkLifecycle'.at # "ended"
    BY <1>0, <2>1, <2>2 DEF HandoffsReported
  <2>4. QED
    BY <1>0, <1>2, <1>4, <2>1, <2>2, <2>3 DEF DesktopInv, HandoffsReported, InstallationReported
<1>11. CASE LifecycleInstalls
  <2>1. /\ dkLifecycle.at = "handed" /\ UNCHANGED dkUpdate
        /\ \/ dkLifecycle' = [dkLifecycle EXCEPT !.at = "ended", !.installed = 1]
           \/ dkLifecycle' = [dkLifecycle EXCEPT !.at = "failed"]
    BY <1>11 DEF LifecycleInstalls
  <2>2. dkLifecycle.report = 1 /\ dkLifecycle.installed = 0
    BY <1>0, <2>1 DEF HandoffsReported
  <2>3. /\ dkLifecycle' \in LifecycleForms /\ dkLifecycle'.at \in {"ended", "failed"}
        /\ dkLifecycle'.report = 1
        /\ dkLifecycle'.at = "ended" => dkLifecycle'.installed = 1
        /\ dkLifecycle'.at = "failed" => dkLifecycle'.installed = 0
    BY <1>0, <2>1, <2>2 DEF LifecycleForms
  <2>4. QED
    BY <1>0, <1>2, <1>4, <2>1, <2>3 DEF DesktopInv, HandoffsReported, InstallationReported
<1>12. QED
  BY <1>5, <1>6, <1>7, <1>8, <1>9, <1>10, <1>11

\* No step of the daemons, the desktop or its updates breaks the invariant.
LEMMA DesktopStep ==
    ASSUME DesktopInv, [DesktopNext]_dkVars
    PROVE  DesktopInv'
<1>1. CASE UNCHANGED dkVars
  BY <1>1 DEF dkVars, DesktopInv, DesktopTypes, NamedHasRead, UpdatesConfirmed, HandoffsReported,
     InstalledWasConfirmed, InstallationReported
<1>2. QED
  BY <1>1, DaemonActions, DesktopProcess, OnboardingActions, UpdateActions DEF DesktopNext

-----------------------------------------------------------------------------
(* Onboarding: init, its journal and the recovery. *)

Revisions == [others : Nat, listed : BOOLEAN]
OnboardSteps == {"off", "checkout", "build", "begin", "register", "intend", "stage", "prepare",
  "publish", "commit", "plugins", "done", "undo", "kept", "leave", "reset", "drop", "dropped",
  "recover", "finalize", "restore", "clear", "unregister", "forget"}
OnboardTypes ==
  /\ obMode \in {"create", "connect"} /\ obCreated \in BOOLEAN
  /\ obAt \in OnboardSteps /\ obNext \in 0 .. Len(Published) + 1
  /\ obDest \in [OwnerFiles -> {"old", "none", "new"}]
  /\ obStaged \subseteq OwnerFiles /\ obBackup \subseteq OwnedFiles
  /\ obJournal \in [open : BOOLEAN, base : Revisions, intended : Revisions, prepared : BOOLEAN]
  /\ obKit \in [rev : Revisions, changed : BOOLEAN] /\ obRemote \in Revisions

Untouched == obDest = Before /\ obBackup = {}
AllNew == \A f \in OwnerFiles : obDest[f] = "new"
\* Each file is in its place, moved aside, or replaced with the old one kept.
HalfWay ==
  \A f \in OwnerFiles :
    /\ f \in OwnedFiles => (obDest[f] = "old" <=> f \notin obBackup)
    /\ f \notin OwnedFiles => obDest[f] # "old"
    /\ obDest[f] = "new" <=> f \notin obStaged
\* The registration is in the remote, or there was none to push: no recovery
\* will take the files back.
Irrevocable ==
  /\ obJournal.prepared /\ obRemote # NoRevision
  /\ obMode = "connect" => obJournal.base = obJournal.intended \/ (obRemote.listed /\ ~ obJournal.base.listed)
Committed == AllNew /\ obStaged = {} /\ Irrevocable
\* A recovery that found the registration in the remote removes backups: a file of the
\* owner is in its place, aside, or gone where the new one stands.
Settling ==
  /\ Irrevocable /\ Arrived
  /\ \A f \in OwnerFiles :
       /\ f \in OwnedFiles /\ obDest[f] = "none" => f \in obBackup
       /\ obDest[f] = "new" <=> f \notin obStaged
\* The files behind place k are back.
BackFrom(k) == \A i \in 1 .. Len(Published) : i > k => obDest[Published[i]] = Before[Published[i]] /\ Published[i] \notin obBackup

\* What the journal says of the disk.
JournalTells ==
  /\ ~ obJournal.open => ~ obJournal.prepared /\ (obAt # "done" => Untouched)
  /\ obJournal.open /\ ~ obJournal.prepared => Untouched
  /\ obJournal.prepared =>
       /\ obJournal.intended.listed
       /\ obMode = "connect" => obJournal.intended = Registered(obJournal.base)
       /\ Untouched \/ HalfWay \/ Committed \/ Settling
  /\ obMode = "connect" => obRemote # NoRevision

\* What the steps of a process rely on.
StepsTell ==
  /\ obAt \in {"checkout", "build", "begin"} => ~ obJournal.open
  /\ obAt \in {"register", "intend", "stage", "prepare", "clear"} => obJournal.open /\ ~ obJournal.prepared
  /\ obAt \in {"publish", "undo", "kept", "leave", "commit", "plugins", "finalize", "restore"} => obJournal.prepared
  /\ obAt \in {"reset", "drop", "dropped", "recover", "unregister", "forget"} => obJournal.open
  /\ obAt \in {"reset", "drop", "dropped", "unregister", "forget"} => Untouched
  /\ obAt = "prepare" => obStaged = OwnerFiles
  /\ obAt \in {"register", "intend"} => obMode = "connect"
  /\ obAt = "begin" /\ obMode = "create" => obKit.rev.listed
  /\ obAt = "register" => obJournal.base = obKit.rev
  /\ obAt \in {"intend", "stage", "prepare", "publish"} /\ obMode = "connect" =>
       /\ obKit.rev = Registered(obJournal.base) /\ obCreated = ~ obJournal.base.listed
  /\ obAt \in {"stage", "prepare", "publish"} => obJournal.intended = obKit.rev /\ obKit.rev.listed
  /\ obAt = "publish" => HalfWay /\ obNext >= 1 /\ \A i \in 1 .. Len(Published) : i < obNext => obDest[Published[i]] = "new"
  /\ obAt = "undo" => HalfWay /\ obNext <= Len(Published) /\ BackFrom(obNext)
  /\ obAt \in {"kept", "leave"} => HalfWay \/ Untouched
  /\ obAt = "commit" => Committed
  /\ obAt = "plugins" => Committed /\ obBackup = {}
  /\ obAt = "finalize" =>
       /\ Committed \/ Untouched \/ Settling
       /\ obNext >= 1
       /\ \A i \in 1 .. Len(Published) : i < obNext =>
            Installed(Published[i]) /\ Published[i] \notin obBackup
  /\ obAt = "restore" => (HalfWay \/ Untouched) /\ obNext <= Len(Published) /\ BackFrom(obNext)
  /\ obAt = "done" => ~ obJournal.open /\ obStaged = {} /\ obBackup = {} /\ (AllNew \/ Untouched)

OnboardInv == OnboardTypes /\ JournalTells /\ StepsTell

\* What was there before.
LEMMA BeforeIs == \A f \in OwnerFiles : Before[f] = IF f \in OwnedFiles THEN "old" ELSE "none"
BY DEF Before

\* Init finds the files of the owner.
LEMMA OnboardStart == ASSUME OnboardingInit PROVE OnboardInv
<1>1. NoRevision \in Revisions /\ \A l \in BOOLEAN : Revision(0, l) \in Revisions /\ Revision(0, l) # NoRevision
  BY DEF NoRevision, Revision, Revisions
<1>2. obRemote \in Revisions /\ (obMode = "connect" => obRemote # NoRevision) /\ obMode \in {"create", "connect"}
  BY <1>1 DEF OnboardingInit
<1>3. NoKit \in [rev : Revisions, changed : BOOLEAN] /\ Clean(obRemote) \in [rev : Revisions, changed : BOOLEAN]
  BY <1>1, <1>2 DEF NoKit, Clean
<1>4. /\ NoJournal \in [open : BOOLEAN, base : Revisions, intended : Revisions, prepared : BOOLEAN]
      /\ ~ NoJournal.open /\ ~ NoJournal.prepared
  BY <1>1 DEF NoJournal
<1>5. Before \in [OwnerFiles -> {"old", "none", "new"}]
  BY DEF Before
<1>6. OnboardTypes
  <2>1. 0 \in 0 .. Len(Published) + 1
    BY OwnedAreFiles
  <2>2. obKit \in [rev : Revisions, changed : BOOLEAN]
    BY <1>3 DEF OnboardingInit
  <2>3. obAt = "off" /\ obAt \in OnboardSteps
    BY DEF OnboardingInit, OnboardSteps
  <2>4. obStaged = {} /\ obBackup = {} /\ obCreated = FALSE /\ obNext = 0 /\ obDest = Before /\ obJournal = NoJournal
    BY DEF OnboardingInit
  <2>5. QED
    BY <1>2, <1>4, <1>5, <2>1, <2>2, <2>3, <2>4 DEF OnboardTypes
<1>7. JournalTells
  BY <1>2, <1>4 DEF OnboardingInit, JournalTells, Untouched
<1>8. StepsTell
  BY DEF OnboardingInit, StepsTell
<1>9. QED
  BY <1>6, <1>7, <1>8 DEF OnboardInv

\* The invariant says what the two properties promise.
LEMMA OnboardSafe == ASSUME OnboardInv PROVE OwnerFilesKept /\ AllOrNothing
<1>0. OnboardTypes /\ JournalTells /\ StepsTell /\ OwnedFiles \subseteq OwnerFiles
  BY OwnedAreFiles DEF OnboardInv, OwnerFiles
<1>1. OwnerFilesKept
  <2>1. SUFFICES ASSUME NEW f \in OwnedFiles
                 PROVE  \/ obDest[f] = "old" \/ (f \in obBackup /\ obJournal.prepared) \/ AllNew
                        \/ obDest[f] = "new" /\ obJournal.prepared /\ Arrived
    BY DEF OwnerFilesKept, AllNew
  <2>2. Untouched => obDest[f] = "old"
    BY <1>0, BeforeIs DEF Untouched
  <2>3. HalfWay => obDest[f] = "old" \/ f \in obBackup
    BY <1>0 DEF HalfWay
  <2>s. Settling => \/ obDest[f] = "old" \/ f \in obBackup
                    \/ obDest[f] = "new" /\ Arrived
    BY <1>0 DEF Settling, OnboardTypes
  <2>4. QED
    BY <1>0, <2>2, <2>3, <2>s DEF JournalTells, StepsTell, Committed, OnboardTypes
<1>2. AllOrNothing
  <2>1. AllNew => obDest = [f \in OwnerFiles |-> "new"]
    BY <1>0 DEF AllNew, OnboardTypes
  <2>2. QED
    BY <1>0, <2>1 DEF AllOrNothing, JournalTells, StepsTell, Untouched
<1>3. QED
  BY <1>1, <1>2

\* A step that leaves the files alone leaves what is said of them.
LEMMA FilesStand ==
    ASSUME UNCHANGED <<obDest, obStaged, obBackup>>
    PROVE  /\ Untouched' <=> Untouched
           /\ HalfWay' <=> HalfWay
           /\ AllNew' <=> AllNew
           /\ \A k \in 0 .. Len(Published) + 1 : BackFrom(k)' <=> BackFrom(k)
BY DEF Untouched, HalfWay, AllNew, BackFrom

\* When all are back, nothing was touched.
LEMMA AllBack == ASSUME OnboardTypes, BackFrom(0) PROVE Untouched
<1>1. \A f \in OwnerFiles : \E i \in 1 .. Len(Published) : f = Published[i] /\ i > 0
  BY OwnedAreFiles DEF OwnerFiles
<1>2. \A f \in OwnerFiles : obDest[f] = Before[f] /\ f \notin obBackup
  BY <1>1 DEF BackFrom
<1>3. obBackup = {}
  BY <1>2, OwnedAreFiles DEF OnboardTypes, OwnerFiles
<1>4. obDest = Before
  BY <1>2 DEF OnboardTypes, Before
<1>5. QED
  BY <1>3, <1>4 DEF Untouched

\* Where nothing was touched, everything is back.
LEMMA UntouchedIsBack ==
    ASSUME Untouched, NEW k \in Nat
    PROVE  BackFrom(k)
BY DEF Untouched, BackFrom

\* The file at a place of the publication.
LEMMA CurrentIsFile ==
    ASSUME obNext \in 1 .. Len(Published)
    PROVE  Current \in OwnerFiles
BY DEF Current, OwnerFiles

\* A file that is taken back is as before.
LEMMA TakenBackIsBefore ==
    ASSUME OnboardTypes, HalfWay, NEW f \in OwnerFiles, TakenBack(f)
    PROVE  obDest[f] = Before[f] /\ f \notin obBackup
<1>1. f \notin obBackup /\ obDest[f] \in {"old", "none", "new"}
  BY DEF TakenBack, OnboardTypes
<1>2. QED
  BY <1>1, BeforeIs DEF TakenBack, HalfWay

\* One rename towards the old file keeps the rest.
LEMMA TakeBackKeeps ==
    ASSUME OnboardTypes, HalfWay, NEW f \in OwnerFiles, TakeBack(f), ~ TakenBack(f)
    PROVE  /\ obDest' \in [OwnerFiles -> {"old", "none", "new"}]
           /\ obStaged' \subseteq OwnerFiles /\ obBackup' \subseteq OwnedFiles
           /\ HalfWay'
           /\ \A g \in OwnerFiles : g # f => obDest'[g] = obDest[g] /\ (g \in obBackup' <=> g \in obBackup)
<1>0. /\ obDest \in [OwnerFiles -> {"old", "none", "new"}] /\ obStaged \subseteq OwnerFiles
      /\ obBackup \subseteq OwnedFiles
  BY DEF OnboardTypes
<1>1. CASE /\ obDest[f] = "new" /\ f \notin obStaged
           /\ obDest' = [obDest EXCEPT ![f] = "none"] /\ obStaged' = obStaged \cup {f} /\ UNCHANGED obBackup
  BY <1>0, <1>1 DEF HalfWay
<1>2. CASE /\ f \in obBackup /\ ~ (obDest[f] = "new" /\ f \notin obStaged)
           /\ obDest' = [obDest EXCEPT ![f] = "old"] /\ obBackup' = obBackup \ {f} /\ UNCHANGED obStaged
  BY <1>0, <1>2 DEF HalfWay
<1>3. QED
  BY <1>1, <1>2 DEF TakeBack

\* One rename towards the new file keeps the rest.
LEMMA MoveOverKeeps ==
    ASSUME OnboardTypes, HalfWay, Current \in OwnerFiles, MoveOver
    PROVE  /\ obDest' \in [OwnerFiles -> {"old", "none", "new"}]
           /\ obStaged' \subseteq OwnerFiles /\ obBackup' \subseteq OwnedFiles
           /\ HalfWay'
           /\ \A g \in OwnerFiles : obDest[g] = "new" => obDest'[g] = "new"
           /\ obDest[Current] # "old" => obDest'[Current] = "new"
<1>0. /\ obDest \in [OwnerFiles -> {"old", "none", "new"}] /\ obStaged \subseteq OwnerFiles
      /\ obBackup \subseteq OwnedFiles
  BY DEF OnboardTypes
<1>1. CASE obDest[Current] = "old"
  <2>1. /\ obDest' = [obDest EXCEPT ![Current] = "none"]
        /\ obBackup' = obBackup \cup {Current} /\ UNCHANGED obStaged
    BY <1>1 DEF MoveOver
  <2>2. Current \in OwnedFiles
    BY <1>1 DEF HalfWay
  <2>3. QED
    BY <1>0, <1>1, <2>1, <2>2 DEF HalfWay
<1>2. CASE obDest[Current] # "old"
  <2>1. /\ obDest' = [obDest EXCEPT ![Current] = "new"]
        /\ obStaged' = obStaged \ {Current} /\ UNCHANGED obBackup
    BY <1>2 DEF MoveOver
  <2>2. QED
    BY <1>0, <1>2, <2>1 DEF HalfWay
<1>3. QED
  BY <1>1, <1>2

\* When all places are published, all files are new.
LEMMA AllPublished ==
    ASSUME OnboardTypes, HalfWay,
           \A i \in 1 .. Len(Published) : obDest[Published[i]] = "new"
    PROVE  AllNew /\ obStaged = {}
<1>1. AllNew
  BY DEF AllNew, OwnerFiles
<1>2. QED
  BY <1>1 DEF AllNew, HalfWay, OnboardTypes

\* Revisions, checkouts and journals.
LEMMA KitForms ==
    /\ NoRevision \in Revisions /\ ~ NoRevision.listed
    /\ \A n \in Nat, l \in BOOLEAN : Revision(n, l) \in Revisions
    /\ \A r \in Revisions : /\ Registered(r) \in Revisions /\ Registered(r).listed
                            /\ r.listed => Registered(r) = r
                            /\ Clean(r) \in [rev : Revisions, changed : BOOLEAN] /\ Clean(r).rev = r
    /\ NoKit \in [rev : Revisions, changed : BOOLEAN]
    /\ NoJournal \in [open : BOOLEAN, base : Revisions, intended : Revisions, prepared : BOOLEAN]
    /\ ~ NoJournal.open /\ ~ NoJournal.prepared
<1>1. NoRevision \in Revisions /\ ~ NoRevision.listed
  BY DEF NoRevision, Revision, Revisions
<1>2. \A n \in Nat, l \in BOOLEAN : Revision(n, l) \in Revisions
  BY DEF Revision, Revisions
<1>3. ASSUME NEW r \in Revisions
      PROVE  /\ Registered(r) \in Revisions /\ Registered(r).listed
             /\ r.listed => Registered(r) = r
             /\ Clean(r) \in [rev : Revisions, changed : BOOLEAN] /\ Clean(r).rev = r
  BY DEF Registered, Revision, Revisions, Clean
<1>4. NoKit \in [rev : Revisions, changed : BOOLEAN]
  BY <1>1 DEF NoKit
<1>5. /\ NoJournal \in [open : BOOLEAN, base : Revisions, intended : Revisions, prepared : BOOLEAN]
      /\ ~ NoJournal.open /\ ~ NoJournal.prepared
  BY <1>1 DEF NoJournal
<1>6. QED
  BY <1>1, <1>2, <1>3, <1>4, <1>5

\* The steps before the first file moves.
LEMMA BeginningSteps ==
    ASSUME OnboardInv,
           \/ StartInit \/ PrepareCheckout \/ BuildKit \/ BeginTransaction
    PROVE  OnboardInv'
<1>0. OnboardTypes /\ JournalTells /\ StepsTell
  BY DEF OnboardInv
<1>1. UNCHANGED <<obDest, obStaged, obBackup, obRemote, obMode, obNext>>
  BY DEF StartInit, PrepareCheckout, BuildKit, BeginTransaction, obDisk, Keeps, OnboardGoes, GoesTo
<1>f. Untouched' <=> Untouched
  BY <1>1, FilesStand
<1>2. CASE StartInit
  <2>1. obAt = "off" /\ obAt' \in {"recover", "checkout"} /\ UNCHANGED <<obJournal, obKit>> /\ obCreated' = FALSE
        /\ (obAt' = "recover" <=> obJournal.open)
    BY <1>2 DEF StartInit, OnboardGoes, obDisk
  <2>2. OnboardTypes'
    BY <1>0, <1>1, <2>1 DEF OnboardTypes, OnboardSteps
  <2>3. JournalTells'
    BY <1>0, <1>1, <2>1, FilesStand DEF JournalTells, Committed, Settling, Irrevocable, Arrived
  <2>4. StepsTell'
    BY <1>0, <1>1, <2>1 DEF StepsTell
  <2>5. QED
    BY <2>2, <2>3, <2>4 DEF OnboardInv
<1>3. CASE PrepareCheckout
  <2>1. obAt = "checkout" /\ obAt' \in {"off", "build"} /\ UNCHANGED <<obJournal, obCreated>>
        /\ obKit' \in {obKit, Clean(Revision(0, FALSE)), Clean(obRemote)}
    BY <1>3 DEF PrepareCheckout, OnboardGoes, Keeps
  <2>2. OnboardTypes'
    <3>1. Revision(0, FALSE) \in Revisions /\ obRemote \in Revisions
      BY <1>0, KitForms DEF OnboardTypes
    <3>c. /\ Clean(Revision(0, FALSE)) \in [rev : Revisions, changed : BOOLEAN]
          /\ Clean(obRemote) \in [rev : Revisions, changed : BOOLEAN]
      BY <3>1 DEF Clean
    <3>2. obKit' \in [rev : Revisions, changed : BOOLEAN]
      BY <1>0, <2>1, <3>c DEF OnboardTypes
    <3>3. QED
      BY <1>0, <1>1, <2>1, <3>2 DEF OnboardTypes, OnboardSteps
  <2>3. ~ obJournal.open /\ Untouched
    BY <1>0, <2>1 DEF StepsTell, JournalTells
  <2>4. JournalTells' /\ StepsTell'
    BY <1>0, <1>1, <1>f, <2>1, <2>3 DEF JournalTells, StepsTell
  <2>5. QED
    BY <2>2, <2>4 DEF OnboardInv
<1>4. CASE BuildKit
  <2>1. obAt = "build" /\ obAt' \in {"off", "begin"} /\ UNCHANGED <<obJournal, obCreated>>
        /\ (obAt' = "begin" => obKit' = KitInputsImported) /\ obKit' \in {obKit, KitInputsImported, NoKit}
    BY <1>4 DEF BuildKit, OnboardGoes, Keeps
  <2>2. KitInputsImported \in [rev : Revisions, changed : BOOLEAN] /\ (obMode = "create" => KitInputsImported.rev.listed)
    BY <1>0, KitForms DEF KitInputsImported, OnboardTypes
  <2>3. OnboardTypes'
    <3>1. obKit' \in [rev : Revisions, changed : BOOLEAN]
      BY <1>0, <2>1, <2>2, KitForms DEF OnboardTypes
    <3>2. QED
      BY <1>0, <1>1, <2>1, <3>1 DEF OnboardTypes, OnboardSteps
  <2>4. ~ obJournal.open /\ Untouched
    BY <1>0, <2>1 DEF StepsTell, JournalTells
  <2>5. JournalTells' /\ StepsTell'
    BY <1>0, <1>1, <1>f, <2>1, <2>2, <2>4 DEF JournalTells, StepsTell
  <2>6. QED
    BY <2>3, <2>5 DEF OnboardInv
<1>5. CASE BeginTransaction
  <2> DEFINE j == [open |-> TRUE, prepared |-> FALSE,
                   base |-> IF obMode = "create" THEN NoRevision ELSE obKit.rev,
                   intended |-> IF obMode = "create" THEN obKit.rev ELSE NoRevision]
  <2>1. obAt = "begin" /\ obAt' = (IF obMode = "create" THEN "stage" ELSE "register") /\ UNCHANGED <<obKit, obCreated>>
        /\ obJournal' = j
    BY <1>5 DEF BeginTransaction, OnboardGoes, Keeps, WritesJournal
  <2>2. /\ j \in [open : BOOLEAN, base : Revisions, intended : Revisions, prepared : BOOLEAN]
        /\ j.open /\ ~ j.prepared /\ j.base = (IF obMode = "create" THEN NoRevision ELSE obKit.rev)
        /\ j.intended = (IF obMode = "create" THEN obKit.rev ELSE NoRevision)
    BY <1>0, KitForms DEF OnboardTypes
  <2> HIDE DEF j
  <2>3. OnboardTypes'
    BY <1>0, <1>1, <2>1, <2>2 DEF OnboardTypes, OnboardSteps
  <2>4. ~ obJournal.open /\ Untouched /\ (obMode = "create" => obKit.rev.listed)
    BY <1>0, <2>1 DEF StepsTell, JournalTells
  <2>5. JournalTells'
    BY <1>0, <1>1, <1>f, <2>1, <2>2, <2>4 DEF JournalTells
  <2>6. CASE obMode = "create"
    BY <1>1, <2>1, <2>2, <2>3, <2>4, <2>5, <2>6 DEF StepsTell, OnboardInv
  <2>7. CASE obMode # "create"
    <3>1. obMode = "connect"
      BY <1>0, <2>7 DEF OnboardTypes
    <3>2. QED
      BY <1>1, <2>1, <2>2, <2>3, <2>4, <2>5, <2>7, <3>1 DEF StepsTell, OnboardInv
  <2>8. QED
    BY <2>6, <2>7
<1>6. QED
  BY <1>2, <1>3, <1>4, <1>5

\* Registering, staging and the journal that names the files.
LEMMA PreparingSteps ==
    ASSUME OnboardInv,
           \/ RegisterTarget \/ RecordIntended \/ StageRuntime \/ PreparePublication \/ StepFails
    PROVE  OnboardInv'
<1>0. OnboardTypes /\ JournalTells /\ StepsTell
  BY DEF OnboardInv
<1>1. UNCHANGED <<obDest, obBackup, obRemote, obMode>> /\ obAt \in {"register", "intend", "stage", "prepare"}
  BY DEF RegisterTarget, RecordIntended, StageRuntime, PreparePublication, StepFails, obDisk, Keeps, OnboardGoes, GoesTo
<1>2. obJournal.open /\ ~ obJournal.prepared /\ Untouched
  BY <1>0, <1>1 DEF StepsTell, JournalTells
<1>3. Untouched'
  BY <1>1, <1>2 DEF Untouched, Before
<1>4. CASE RegisterTarget
  <2>1. /\ obAt = "register" /\ obAt' = "intend" /\ UNCHANGED <<obJournal, obStaged, obNext>>
        /\ obKit' = Clean(Registered(obKit.rev)) /\ obCreated' = ~ obKit.rev.listed
    BY <1>4 DEF RegisterTarget, OnboardGoes
  <2>2. obKit.rev \in Revisions /\ obJournal.base = obKit.rev /\ obMode = "connect" /\ obKit.rev.listed \in BOOLEAN
    BY <1>0, <2>1 DEF StepsTell, OnboardTypes, Revisions
  <2>3. obKit' \in [rev : Revisions, changed : BOOLEAN] /\ obKit'.rev = Registered(obJournal.base) /\ obCreated' \in BOOLEAN
    BY <2>1, <2>2, KitForms
  <2>4. OnboardTypes'
    BY <1>0, <1>1, <2>1, <2>3 DEF OnboardTypes, OnboardSteps
  <2>5. JournalTells' /\ StepsTell'
    BY <1>0, <1>1, <1>2, <1>3, <2>1, <2>2, <2>3 DEF JournalTells, StepsTell
  <2>6. QED
    BY <2>4, <2>5 DEF OnboardInv
<1>5. CASE RecordIntended
  <2> DEFINE j == [obJournal EXCEPT !.intended = obKit.rev]
  <2>1. /\ obAt = "intend" /\ obAt' = "stage" /\ UNCHANGED <<obKit, obCreated, obStaged, obNext>> /\ obJournal' = j
    BY <1>5 DEF RecordIntended, OnboardGoes, Keeps, WritesJournal
  <2>2. /\ j \in [open : BOOLEAN, base : Revisions, intended : Revisions, prepared : BOOLEAN]
        /\ j.open /\ ~ j.prepared /\ j.base = obJournal.base /\ j.intended = obKit.rev
    BY <1>0, <1>2 DEF OnboardTypes
  <2> HIDE DEF j
  <2>3. obMode = "connect" /\ obKit.rev = Registered(obJournal.base) /\ obCreated = ~ obJournal.base.listed
    BY <1>0, <2>1 DEF StepsTell
  <2>4. obKit.rev.listed
    BY <1>0, <2>3, KitForms DEF OnboardTypes
  <2>5. OnboardTypes'
    BY <1>0, <1>1, <2>1, <2>2 DEF OnboardTypes, OnboardSteps
  <2>6. JournalTells' /\ StepsTell'
    BY <1>0, <1>1, <1>2, <1>3, <2>1, <2>2, <2>3, <2>4 DEF JournalTells, StepsTell
  <2>7. QED
    BY <2>5, <2>6 DEF OnboardInv
<1>6. CASE StageRuntime
  <2>1. /\ obAt = "stage" /\ obAt' = "prepare" /\ UNCHANGED <<obKit, obCreated, obJournal, obNext>> /\ obStaged' = OwnerFiles
    BY <1>6 DEF StageRuntime, OnboardGoes, Keeps
  <2>2. OnboardTypes'
    BY <1>0, <1>1, <2>1 DEF OnboardTypes, OnboardSteps
  <2>3. JournalTells' /\ StepsTell'
    BY <1>0, <1>1, <1>2, <1>3, <2>1 DEF JournalTells, StepsTell
  <2>4. QED
    BY <2>2, <2>3 DEF OnboardInv
<1>7. CASE PreparePublication
  <2> DEFINE j == [obJournal EXCEPT !.prepared = TRUE]
  <2>1. /\ obAt = "prepare" /\ obAt' = "publish" /\ obNext' = 1 /\ UNCHANGED <<obKit, obCreated, obStaged>> /\ obJournal' = j
    BY <1>7 DEF PreparePublication, GoesTo, Keeps, WritesJournal
  <2>2. /\ j \in [open : BOOLEAN, base : Revisions, intended : Revisions, prepared : BOOLEAN]
        /\ j.open /\ j.prepared /\ j.base = obJournal.base /\ j.intended = obJournal.intended
    BY <1>0, <1>2 DEF OnboardTypes
  <2> HIDE DEF j
  <2>3. /\ obStaged = OwnerFiles /\ obJournal.intended = obKit.rev /\ obKit.rev.listed
        /\ obMode = "connect" => obKit.rev = Registered(obJournal.base) /\ obCreated = ~ obJournal.base.listed
    BY <1>0, <2>1 DEF StepsTell
  <2>4. HalfWay'
    BY <1>1, <1>2, <2>1, <2>3, BeforeIs DEF HalfWay, Untouched
  <2>5. 1 \in 0 .. Len(Published) + 1
    BY OwnedAreFiles
  <2>6. OnboardTypes'
    BY <1>0, <1>1, <2>1, <2>2, <2>5 DEF OnboardTypes, OnboardSteps
  <2>7. JournalTells'
    BY <1>0, <1>1, <1>3, <2>1, <2>2, <2>3 DEF JournalTells
  <2>8. StepsTell'
    <3>1. ~ \E i \in 1 .. Len(Published) : i < obNext'
      BY <2>1, OwnedAreFiles
    <3>2. obNext' >= 1
      BY <2>1
    <3>3. QED
      BY <1>1, <2>1, <2>2, <2>3, <2>4, <3>1, <3>2 DEF StepsTell
  <2>9. QED
    BY <2>6, <2>7, <2>8 DEF OnboardInv
<1>8. CASE StepFails
  <2>1. obAt' \in {"drop", "reset"} /\ UNCHANGED <<obKit, obCreated, obStaged, obJournal, obNext>>
    BY <1>8 DEF StepFails, OnboardGoes, Keeps, obDisk
  <2>2. OnboardTypes'
    BY <1>0, <1>1, <2>1 DEF OnboardTypes, OnboardSteps
  <2>3. JournalTells' /\ StepsTell'
    BY <1>0, <1>1, <1>2, <1>3, <2>1 DEF JournalTells, StepsTell
  <2>4. QED
    BY <2>2, <2>3 DEF OnboardInv
<1>9. QED
  BY <1>4, <1>5, <1>6, <1>7, <1>8

\* Moving, pushing and committing.
LEMMA PublishingSteps ==
    ASSUME OnboardInv, PublishFile \/ SkipPush \/ PushKit
    PROVE  OnboardInv'
<1>0. OnboardTypes /\ JournalTells /\ StepsTell /\ Len(Published) \in Nat
  BY OwnedAreFiles DEF OnboardInv
<1>1. /\ obAt = "publish" /\ UNCHANGED <<obMode, obCreated, obJournal, obKit>>
  BY DEF PublishFile, SkipPush, PushKit, Keeps, obDisk
<1>2. /\ HalfWay /\ obJournal.prepared /\ obJournal.open /\ obNext \in 1 .. Len(Published) + 1
      /\ obJournal.intended = obKit.rev /\ obKit.rev.listed
      /\ \A i \in 1 .. Len(Published) : i < obNext => obDest[Published[i]] = "new"
      /\ obMode = "connect" => obKit.rev = Registered(obJournal.base) /\ obCreated = ~ obJournal.base.listed
  BY <1>0, <1>1 DEF StepsTell, OnboardTypes, JournalTells
<1>3. CASE PublishFile
  <2>1. obNext <= Len(Published) /\ MoveOver /\ UNCHANGED obRemote
    BY <1>3 DEF PublishFile, Keeps
  <2>2. \/ obAt' = "publish" /\ obNext' = IF obDest[Current] = "old" THEN obNext ELSE obNext + 1
        \/ obAt' = "undo" /\ obNext' = Len(Published)
    BY <1>3 DEF PublishFile, GoesTo
  <2>3. Current \in OwnerFiles
    BY <1>0, <1>2, <2>1, CurrentIsFile
  <2>4. /\ obDest' \in [OwnerFiles -> {"old", "none", "new"}]
        /\ obStaged' \subseteq OwnerFiles /\ obBackup' \subseteq OwnedFiles
        /\ HalfWay'
        /\ \A g \in OwnerFiles : obDest[g] = "new" => obDest'[g] = "new"
        /\ obDest[Current] # "old" => obDest'[Current] = "new"
    BY <1>0, <1>2, <2>1, <2>3, MoveOverKeeps
  <2>5. obAt' \in OnboardSteps /\ obNext' \in 0 .. Len(Published) + 1
    BY <1>0, <1>2, <2>1, <2>2 DEF OnboardSteps
  <2>6. OnboardTypes'
    BY <1>0, <1>1, <2>1, <2>4, <2>5 DEF OnboardTypes
  <2>7. JournalTells'
    BY <1>0, <1>1, <1>2, <2>1, <2>4 DEF JournalTells
  <2>8. CASE obAt' = "undo" /\ obNext' = Len(Published)
    <3>1. BackFrom(obNext)'
      BY <1>0, <2>8 DEF BackFrom
    <3>2. StepsTell'
      BY <1>0, <1>1, <1>2, <2>4, <2>8, <3>1 DEF StepsTell
    <3>3. QED
      BY <2>6, <2>7, <3>2 DEF OnboardInv
  <2>9. CASE obAt' = "publish" /\ obNext' = IF obDest[Current] = "old" THEN obNext ELSE obNext + 1
    <3>1. \A i \in 1 .. Len(Published) : Published[i] \in OwnerFiles
      BY DEF OwnerFiles
    <3>2. \A i \in 1 .. Len(Published) : i < obNext => obDest'[Published[i]] = "new"
      BY <1>2, <2>4, <3>1
    <3>3. obDest[Current] # "old" => obDest'[Published[obNext]] = "new"
      BY <2>4 DEF Current
    <3>4. \A i \in 1 .. Len(Published) : i < obNext' => obDest'[Published[i]] = "new"
      BY <1>0, <1>2, <2>9, <3>2, <3>3
    <3>5. obNext' >= 1
      BY <1>2, <2>9
    <3>6. StepsTell'
      BY <1>1, <1>2, <2>4, <2>9, <3>4, <3>5 DEF StepsTell
    <3>7. QED
      BY <2>6, <2>7, <3>6 DEF OnboardInv
  <2>10. QED
    BY <2>2, <2>8, <2>9
<1>4. CASE SkipPush \/ PushKit
  <2>1. obNext > Len(Published) /\ UNCHANGED <<obDest, obStaged, obBackup>>
    BY <1>4 DEF SkipPush, PushKit, Keeps, obDisk
  <2>2. AllNew /\ obStaged = {}
    <3>1. \A i \in 1 .. Len(Published) : obDest[Published[i]] = "new"
      BY <1>0, <1>2, <2>1
    <3>2. QED
      BY <1>0, <1>2, <3>1, AllPublished
  <2>3. (AllNew' <=> AllNew) /\ (HalfWay' <=> HalfWay)
    BY <2>1, FilesStand
  <2>4. obRemote' \in {obRemote, obKit.rev}
    BY <1>4 DEF SkipPush, PushKit, Keeps, obDisk
  <2>5. obKit.rev \in Revisions /\ obKit.rev # NoRevision /\ (obMode = "connect" => obRemote' # NoRevision)
    BY <1>0, <1>2, <2>4, KitForms DEF OnboardTypes, JournalTells
  <2>6. \/ obAt' = "commit" /\ obNext' = obNext
        \/ obAt' = "undo" /\ obNext' = Len(Published)
    BY <1>4 DEF SkipPush, PushKit, OnboardGoes, GoesTo
  <2>7. OnboardTypes'
    <3>1. obAt' \in OnboardSteps /\ obNext' \in 0 .. Len(Published) + 1
      BY <1>0, <1>2, <2>6 DEF OnboardSteps
    <3>2. QED
      BY <1>0, <1>1, <2>1, <2>4, <2>5, <3>1 DEF OnboardTypes
  <2>8. JournalTells'
    BY <1>0, <1>1, <1>2, <2>3, <2>5 DEF JournalTells
  <2>9. CASE obAt' = "undo" /\ obNext' = Len(Published)
    <3>1. BackFrom(obNext)'
      BY <1>0, <2>9 DEF BackFrom
    <3>2. StepsTell'
      BY <1>0, <1>1, <1>2, <2>3, <2>9, <3>1 DEF StepsTell
    <3>3. QED
      BY <2>7, <2>8, <3>2 DEF OnboardInv
  <2>10. CASE obAt' = "commit"
    <3>1. \/ obMode = "connect" /\ ~ obCreated /\ obRemote' = obRemote
          \/ obRemote' = obKit.rev /\ (obMode = "create" \/ obCreated)
      <4>1. CASE SkipPush
        BY <4>1 DEF SkipPush, Keeps, obDisk
      <4>2. CASE PushKit
        <5>1. obAt' # "undo"
          BY <2>10
        <5>2. QED
          BY <4>2, <5>1 DEF PushKit, GoesTo
      <4>3. QED
        BY <1>4, <4>1, <4>2
    <3>2. obRemote' # NoRevision
      BY <2>5, <3>1
    <3>3. obMode = "connect" => obJournal.base = obJournal.intended \/ (obRemote'.listed /\ ~ obJournal.base.listed)
      <4>1. SUFFICES ASSUME obMode = "connect", obJournal.base # obJournal.intended
                     PROVE  obRemote'.listed /\ ~ obJournal.base.listed
        OBVIOUS
      <4>2. obJournal.base \in Revisions /\ obJournal.base.listed \in BOOLEAN
        BY <1>0 DEF OnboardTypes, Revisions
      <4>3. ~ obJournal.base.listed
        BY <1>2, <4>1, <4>2, KitForms
      <4>4. obCreated
        BY <1>2, <4>1, <4>3
      <4>5. QED
        BY <1>2, <3>1, <4>3, <4>4
    <3>4. Committed'
      BY <1>1, <1>2, <2>1, <2>2, <2>3, <3>2, <3>3 DEF Committed, Irrevocable
    <3>5. StepsTell'
      BY <1>1, <1>2, <2>10, <3>4 DEF StepsTell
    <3>6. QED
      BY <2>7, <2>8, <3>5 DEF OnboardInv
  <2>11. QED
    BY <2>6, <2>9, <2>10
<1>5. QED
  BY <1>3, <1>4

\* The commit and the end of an init.
LEMMA CommittingSteps ==
    ASSUME OnboardInv, CommitRuntime \/ FinishInit
    PROVE  OnboardInv'
<1>0. OnboardTypes /\ JournalTells /\ StepsTell
  BY DEF OnboardInv
<1>1. UNCHANGED <<obMode, obCreated, obDest, obRemote, obNext>> /\ obAt \in {"commit", "plugins"}
      /\ obKit' \in {obKit, NoKit}
  BY DEF CommitRuntime, FinishInit, Keeps, OnboardGoes
<1>2. Committed /\ obJournal.prepared /\ obJournal.open
  BY <1>0, <1>1 DEF StepsTell, JournalTells, OnboardTypes
<1>k. obKit' \in [rev : Revisions, changed : BOOLEAN]
  BY <1>0, <1>1, KitForms DEF OnboardTypes
<1>3. CASE CommitRuntime
  <2>1. /\ obAt = "commit" /\ UNCHANGED obJournal /\ obBackup' \in {obBackup, {}} /\ obStaged' \in {obStaged, {}}
        /\ \/ obAt' = "plugins" /\ obBackup' = {}
           \/ obAt' = "off"
    BY <1>3 DEF CommitRuntime, OnboardGoes, Keeps
  <2>2. Committed'
    BY <1>1, <1>2, <2>1 DEF Committed, AllNew, Irrevocable
  <2>3. OnboardTypes'
    BY <1>0, <1>1, <1>k, <2>1 DEF OnboardTypes, OnboardSteps
  <2>4. JournalTells'
    BY <1>0, <1>1, <1>2, <2>1, <2>2 DEF JournalTells
  <2>5. StepsTell'
    BY <1>2, <2>1, <2>2 DEF StepsTell
  <2>6. QED
    BY <2>3, <2>4, <2>5 DEF OnboardInv
<1>4. CASE FinishInit
  <2>1. /\ obAt = "plugins" /\ UNCHANGED <<obStaged, obBackup>>
        /\ \/ obAt' = "done" /\ obJournal' = NoJournal
           \/ obAt' = "off" /\ obJournal' = obJournal
    BY <1>4 DEF FinishInit, OnboardGoes, Keeps, WritesJournal
  <2>2. obBackup = {} /\ obStaged = {} /\ AllNew'
    BY <1>0, <1>1, <1>2, <2>1 DEF StepsTell, Committed, AllNew
  <2>3. OnboardTypes'
    BY <1>0, <1>1, <1>k, <2>1, KitForms DEF OnboardTypes, OnboardSteps
  <2>4. CASE obAt' = "done" /\ obJournal' = NoJournal
    <3>1. ~ obJournal'.open /\ ~ obJournal'.prepared
      BY <2>4, KitForms
    <3>2. JournalTells' /\ StepsTell'
      BY <1>0, <1>1, <2>1, <2>2, <2>4, <3>1 DEF JournalTells, StepsTell
    <3>3. QED
      BY <2>3, <3>2 DEF OnboardInv
  <2>5. CASE obAt' = "off" /\ obJournal' = obJournal
    <3>1. Committed'
      BY <1>1, <1>2, <2>1, <2>2, <2>5 DEF Committed, Irrevocable
    <3>2. JournalTells' /\ StepsTell'
      BY <1>0, <1>1, <1>2, <2>5, <3>1 DEF JournalTells, StepsTell
    <3>3. QED
      BY <2>3, <3>2 DEF OnboardInv
  <2>6. QED
    BY <2>1, <2>4, <2>5
<1>5. QED
  BY <1>3, <1>4

\* The files that are back stay back while another one is taken back.
LEMMA BackStays ==
    ASSUME OnboardTypes, NEW f \in OwnerFiles, ~ TakenBack(f), NEW k \in 0 .. Len(Published), BackFrom(k), HalfWay,
           obNext' = k,
           \A g \in OwnerFiles : g # f => obDest'[g] = obDest[g] /\ (g \in obBackup' <=> g \in obBackup)
    PROVE  BackFrom(obNext)'
<1>1. \A i \in 1 .. Len(Published) : Published[i] \in OwnerFiles
  BY DEF OwnerFiles
<1>2. \A i \in 1 .. Len(Published) : i > k => Published[i] # f
  <2>1. SUFFICES ASSUME NEW i \in 1 .. Len(Published), i > k, Published[i] = f PROVE FALSE
    OBVIOUS
  <2>2. obDest[f] = Before[f] /\ f \notin obBackup
    BY <2>1 DEF BackFrom
  <2>3. QED
    BY <2>2, BeforeIs DEF TakenBack
<1>3. QED
  BY <1>1, <1>2 DEF BackFrom

\* Undoing within the process.
LEMMA UndoingSteps ==
    ASSUME OnboardInv,
           UndoOnboardFile \/ ResetRegistration \/ LeaveJournal \/ DropStaging \/ DropTransaction
    PROVE  OnboardInv'
<1>0. OnboardTypes /\ JournalTells /\ StepsTell /\ Len(Published) \in Nat
  BY OwnedAreFiles DEF OnboardInv
<1>1. UNCHANGED <<obMode, obCreated, obRemote>>
  BY DEF UndoOnboardFile, ResetRegistration, LeaveJournal, DropStaging, DropTransaction, Keeps
<1>2. CASE UndoOnboardFile
  <2>1. obAt = "undo" /\ obNext >= 1 /\ UNCHANGED <<obJournal, obKit>>
    BY <1>2 DEF UndoOnboardFile, Keeps
  <2>2. HalfWay /\ obNext \in 1 .. Len(Published) /\ BackFrom(obNext) /\ obJournal.prepared /\ obJournal.open
    BY <1>0, <2>1 DEF StepsTell, OnboardTypes, JournalTells
  <2>3. Current \in OwnerFiles
    BY <2>2, CurrentIsFile
  <2>4. CASE TakenBack(Current)
    <3>1. obAt' = "undo" /\ obNext' = obNext - 1 /\ UNCHANGED <<obDest, obStaged, obBackup>>
      BY <1>2, <2>4 DEF UndoOnboardFile, GoesTo
    <3>2. obDest[Published[obNext]] = Before[Published[obNext]] /\ Published[obNext] \notin obBackup
      BY <1>0, <2>2, <2>3, <2>4, TakenBackIsBefore DEF Current
    <3>3. BackFrom(obNext - 1)
      BY <1>0, <2>2, <3>2 DEF BackFrom
    <3>4. obNext - 1 \in 0 .. Len(Published) + 1 /\ obNext - 1 <= Len(Published)
      BY <1>0, <2>2
    <3>5. HalfWay' /\ BackFrom(obNext)'
      <4>1. HalfWay' <=> HalfWay
        BY <3>1, FilesStand
      <4>2. QED
        BY <2>2, <3>1, <3>3, <4>1 DEF BackFrom
    <3>6. OnboardTypes'
      BY <1>0, <1>1, <2>1, <3>1, <3>4 DEF OnboardTypes, OnboardSteps
    <3>7. JournalTells' /\ StepsTell'
      BY <1>0, <1>1, <2>1, <2>2, <3>1, <3>4, <3>5 DEF JournalTells, StepsTell
    <3>8. QED
      BY <3>6, <3>7 DEF OnboardInv
  <2>5. CASE ~ TakenBack(Current)
    <3>1. TakeBack(Current) /\ obAt' \in {"undo", "kept"} /\ obNext' = obNext
      BY <1>2, <2>5 DEF UndoOnboardFile, OnboardGoes
    <3>2. /\ obDest' \in [OwnerFiles -> {"old", "none", "new"}]
          /\ obStaged' \subseteq OwnerFiles /\ obBackup' \subseteq OwnedFiles
          /\ HalfWay'
          /\ \A g \in OwnerFiles : g # Current => obDest'[g] = obDest[g] /\ (g \in obBackup' <=> g \in obBackup)
      BY <1>0, <2>2, <2>3, <2>5, <3>1, TakeBackKeeps
    <3>3. BackFrom(obNext)'
      BY <1>0, <2>2, <2>3, <2>5, <3>1, <3>2, BackStays
    <3>4. OnboardTypes'
      BY <1>0, <1>1, <2>1, <3>1, <3>2 DEF OnboardTypes, OnboardSteps
    <3>5. obNext' <= Len(Published)
      BY <2>2, <3>1
    <3>6. JournalTells'
      BY <1>0, <1>1, <2>1, <2>2, <3>2 DEF JournalTells
    <3>7. StepsTell'
      BY <2>1, <2>2, <3>1, <3>2, <3>3, <3>5 DEF StepsTell
    <3>8. QED
      BY <3>4, <3>6, <3>7 DEF OnboardInv
  <2>6. QED
    BY <2>4, <2>5
<1>3. CASE ResetRegistration \/ LeaveJournal
  <2>1. UNCHANGED <<obDest, obStaged, obBackup, obJournal, obNext>> /\ obKit' \in {obKit, ResetKit, NoKit}
    BY <1>3 DEF ResetRegistration, LeaveJournal, Keeps, OnboardGoes
  <2>2. \/ obAt \in {"reset"} /\ obAt' = "drop"
        \/ obAt = "undo" /\ obNext = 0 /\ obAt' = "drop"
        \/ obAt = "kept" /\ obAt' = "leave"
        \/ obAt = "leave" /\ obAt' = "off"
    BY <1>3 DEF ResetRegistration, LeaveJournal, OnboardGoes
  <2>3. obJournal.open /\ (obAt' = "drop" => Untouched) /\ (obAt \in {"kept", "leave"} => HalfWay \/ Untouched)
        /\ (obAt \in {"kept", "leave"} => obJournal.prepared)
    BY <1>0, <2>2, AllBack DEF StepsTell, JournalTells, OnboardTypes
  <2>4. (Untouched' <=> Untouched) /\ (HalfWay' <=> HalfWay) /\ (AllNew' <=> AllNew)
    BY <2>1, FilesStand
  <2>5. obKit' \in [rev : Revisions, changed : BOOLEAN]
    <3>1. ResetKit \in [rev : Revisions, changed : BOOLEAN]
      BY <1>0 DEF ResetKit, OnboardTypes, Revisions
    <3>2. QED
      BY <1>0, <2>1, <3>1, KitForms DEF OnboardTypes
  <2>6. OnboardTypes'
    BY <1>0, <1>1, <2>1, <2>2, <2>5 DEF OnboardTypes, OnboardSteps
  <2>7. JournalTells'
    BY <1>0, <1>1, <2>1, <2>2, <2>4, <2>3 DEF JournalTells, Committed, Settling, Irrevocable, Arrived
  <2>8. StepsTell'
    BY <2>1, <2>2, <2>3, <2>4 DEF StepsTell
  <2>9. QED
    BY <2>6, <2>7, <2>8 DEF OnboardInv
<1>4. CASE DropStaging \/ DropTransaction
  <2>1. UNCHANGED <<obDest, obBackup, obNext>> /\ obKit' \in {obKit, NoKit}
        /\ obStaged' \in {obStaged, {}}
        /\ \/ obAt = "drop" /\ obAt' = "dropped" /\ obJournal' = obJournal
           \/ obAt = "dropped" /\ obAt' = "off" /\ obJournal' = NoJournal
    BY <1>4 DEF DropStaging, DropTransaction, Keeps, OnboardGoes, WritesJournal
  <2>2. obJournal.open /\ Untouched
    BY <1>0, <2>1 DEF StepsTell
  <2>3. Untouched'
    BY <2>1, <2>2 DEF Untouched, Before
  <2>4. OnboardTypes'
    <3>1. obKit' \in [rev : Revisions, changed : BOOLEAN]
      BY <1>0, <2>1, KitForms DEF OnboardTypes
    <3>2. QED
      BY <1>0, <1>1, <2>1, <3>1, KitForms DEF OnboardTypes, OnboardSteps
  <2>5. JournalTells'
    BY <1>0, <1>1, <2>1, <2>3, KitForms DEF JournalTells
  <2>6. StepsTell'
    BY <2>1, <2>2, <2>3 DEF StepsTell
  <2>7. QED
    BY <2>4, <2>5, <2>6 DEF OnboardInv
<1>5. QED
  BY <1>2, <1>3, <1>4

\* What the next init decides, and how it takes the files back or keeps them.
LEMMA RecoverySteps ==
    ASSUME OnboardInv,
           \/ DecideRecovery \/ FinalizeFile \/ FinalizeRecovery \/ RestoreFile
           \/ ClearRecovered \/ RemoveCheckout \/ ForgetRecovered
    PROVE  OnboardInv'
<1>0. OnboardTypes /\ JournalTells /\ StepsTell /\ Len(Published) \in Nat
  BY OwnedAreFiles DEF OnboardInv
<1>1. UNCHANGED <<obMode, obCreated, obRemote>>
  BY DEF DecideRecovery, FinalizeFile, FinalizeRecovery, RestoreFile, ClearRecovered, RemoveCheckout,
     ForgetRecovered, Keeps, obDisk
<1>2. CASE DecideRecovery
  <2>1. obAt = "recover" /\ UNCHANGED <<obDest, obStaged, obBackup, obJournal, obKit>> /\ obJournal.open
    BY <1>0, <1>2 DEF DecideRecovery, Keeps, obDisk, StepsTell
  <2>2. \/ obAt' = "off" /\ obNext' = obNext
        \/ obAt' = "finalize" /\ obNext' = 1 /\ RemoteMatches /\ obJournal.prepared
        \/ obAt' = "restore" /\ obNext' = Len(Published) /\ obJournal.prepared /\ ~ RemoteMatches /\ NotPushed
        \/ obAt' = "clear" /\ obNext' = 0 /\ ~ obJournal.prepared
    BY <1>2 DEF DecideRecovery, OnboardGoes, GoesTo
  <2>3. OnboardTypes'
    <3>1. obNext' \in 0 .. Len(Published) + 1
      BY <1>0, <2>2 DEF OnboardTypes
    <3>2. QED
      BY <1>0, <1>1, <2>1, <2>2, <3>1 DEF OnboardTypes, OnboardSteps
  <2>4. /\ (Untouched' <=> Untouched) /\ (HalfWay' <=> HalfWay) /\ (AllNew' <=> AllNew)
    BY <2>1, FilesStand
  <2>5. (Committed' <=> Committed) /\ (Settling' <=> Settling)
    BY <1>1, <2>1, <2>4 DEF Committed, Settling, Irrevocable, Arrived
  <2>6. JournalTells'
    BY <1>0, <1>1, <2>1, <2>2, <2>4, <2>5 DEF JournalTells
  <2>7. CASE obAt' \in {"off", "clear"}
    <3>1. obAt' = "clear" => ~ obJournal.prepared
      BY <2>2
    <3>2. StepsTell'
      BY <2>1, <2>7, <3>1 DEF StepsTell
    <3>3. QED
      BY <2>3, <2>6, <3>2 DEF OnboardInv
  <2>8. CASE obAt' = "finalize" /\ obNext' = 1 /\ RemoteMatches /\ obJournal.prepared
    <3>1. obJournal.prepared
      BY <2>8
    <3>2. ~ \E i \in 1 .. Len(Published) : i < obNext'
      BY <1>0, <2>8
    <3>3. Irrevocable /\ Arrived
      <4>1. obRemote = obJournal.intended /\ obJournal.intended # NoRevision
        BY <2>8 DEF RemoteMatches, SeenRemote
      <4>2. obJournal.intended.listed /\ (obMode = "connect" => obJournal.intended = Registered(obJournal.base))
        BY <1>0, <3>1 DEF JournalTells
      <4>3. obJournal.base \in Revisions /\ obJournal.base.listed \in BOOLEAN
        BY <1>0 DEF OnboardTypes, Revisions
      <4>4. obMode = "connect" /\ obJournal.base.listed => obJournal.base = obJournal.intended
        BY <4>2, <4>3, KitForms
      <4>5. Irrevocable
        BY <3>1, <4>1, <4>2, <4>3, <4>4 DEF Irrevocable
      <4>6. obJournal.intended.others <= obRemote.others
        BY <1>0, <4>1 DEF OnboardTypes, Revisions
      <4>7. QED
        BY <4>1, <4>5, <4>6 DEF Arrived
    <3>4. HalfWay => Settling
      BY <1>0, <3>3 DEF HalfWay, Settling, OnboardTypes
    <3>5. Committed \/ Untouched \/ Settling
      BY <1>0, <3>1, <3>4 DEF JournalTells
    <3>6. StepsTell'
      BY <2>1, <2>4, <2>5, <2>8, <3>1, <3>2, <3>5 DEF StepsTell
    <3>7. QED
      BY <2>3, <2>6, <3>6 DEF OnboardInv
  <2>9. CASE obAt' = "restore" /\ obNext' = Len(Published) /\ obJournal.prepared /\ ~ RemoteMatches /\ NotPushed
    <3>1. obJournal.intended.listed /\ obJournal.intended # NoRevision
      BY <1>0, <2>9, KitForms DEF JournalTells
    <3>2. ~ Irrevocable
      <4>1. SeenRemote = obRemote /\ obRemote # obJournal.intended
        BY <2>9, <3>1 DEF RemoteMatches, SeenRemote
      <4>2. obRemote = NoRevision \/ (obMode = "connect" /\ obRemote = obJournal.base)
        BY <2>9, <4>1 DEF NotPushed
      <4>3. QED
        BY <4>1, <4>2 DEF Irrevocable
    <3>3. HalfWay \/ Untouched
      BY <1>0, <2>9, <3>2 DEF JournalTells, Committed, Settling
    <3>4. BackFrom(obNext)'
      BY <1>0, <2>9 DEF BackFrom
    <3>5. obNext' <= Len(Published)
      BY <1>0, <2>9
    <3>6. StepsTell'
      BY <2>1, <2>4, <2>9, <3>3, <3>4, <3>5 DEF StepsTell
    <3>7. QED
      BY <2>3, <2>6, <3>6 DEF OnboardInv
  <2>10. QED
    BY <2>2, <2>7, <2>8, <2>9
<1>f. CASE FinalizeFile
  <2>1. /\ obAt = "finalize" /\ obNext <= Len(Published) /\ UNCHANGED <<obDest, obStaged, obJournal, obKit>>
    BY <1>f DEF FinalizeFile, Keeps
  <2>2. /\ Committed \/ Untouched \/ Settling
        /\ obJournal.prepared /\ obJournal.open /\ obNext \in 1 .. Len(Published)
        /\ \A i \in 1 .. Len(Published) : i < obNext =>
             Installed(Published[i]) /\ Published[i] \notin obBackup
    BY <1>0, <2>1 DEF StepsTell, JournalTells, OnboardTypes
  <2>3. Current \in OwnerFiles /\ Current = Published[obNext]
    BY <2>2, CurrentIsFile DEF Current
  <2>4. CASE Installed(Current)
    <3>1. obAt' = "finalize" /\ obNext' = obNext + 1 /\ obBackup' = obBackup \ {Current}
      BY <1>f, <2>4 DEF FinalizeFile, GoesTo
    <3>2. OnboardTypes'
      BY <1>0, <1>1, <2>1, <2>2, <3>1 DEF OnboardTypes, OnboardSteps
    <3>3. obDest[Current] # "none"
      BY <2>4 DEF Installed
    <3>4. Settling => Settling'
      BY <1>1, <2>1, <3>1, <3>3 DEF Settling, Irrevocable, Arrived
    <3>5. (Untouched => Untouched') /\ (Committed => Committed')
      BY <1>1, <2>1, <3>1 DEF Untouched, Before, Committed, AllNew, Irrevocable
    <3>6. obNext' >= 1 /\ \A i \in 1 .. Len(Published) : i < obNext' =>
             Installed(Published[i])' /\ Published[i] \notin obBackup'
      <4>1. \A i \in 1 .. Len(Published) : Installed(Published[i])' <=> Installed(Published[i])
        BY <2>1 DEF Installed
      <4>2. \A i \in 1 .. Len(Published) : i < obNext' => i < obNext \/ i = obNext
        BY <1>0, <2>2, <3>1
      <4>3. \A i \in 1 .. Len(Published) : i < obNext' =>
              Installed(Published[i]) /\ Published[i] \notin obBackup'
        BY <2>2, <2>3, <2>4, <3>1, <4>2
      <4>4. QED
        BY <1>0, <2>2, <3>1, <4>1, <4>3
    <3>7. JournalTells'
      BY <1>0, <1>1, <2>1, <2>2, <3>1, <3>4, <3>5 DEF JournalTells
    <3>8. StepsTell'
      BY <2>1, <2>2, <3>1, <3>4, <3>5, <3>6 DEF StepsTell
    <3>9. QED
      BY <3>2, <3>7, <3>8 DEF OnboardInv
  <2>5. CASE ~ Installed(Current)
    <3>1. obAt' = "off" /\ obNext' = obNext /\ UNCHANGED obBackup
      BY <1>f, <2>5 DEF FinalizeFile, OnboardGoes
    <3>2. OnboardTypes'
      BY <1>0, <1>1, <2>1, <3>1 DEF OnboardTypes, OnboardSteps
    <3>3. (Committed \/ Untouched \/ Settling)'
      BY <1>1, <2>1, <2>2, <3>1 DEF Untouched, Before, Committed, AllNew, Irrevocable, Settling, Arrived
    <3>4. JournalTells' /\ StepsTell'
      BY <1>0, <1>1, <2>1, <2>2, <3>1, <3>3 DEF JournalTells, StepsTell
    <3>5. QED
      BY <3>2, <3>4 DEF OnboardInv
  <2>6. QED
    BY <2>4, <2>5
<1>3. CASE FinalizeRecovery
  <2>1. /\ obAt = "finalize" /\ obNext > Len(Published) /\ UNCHANGED <<obDest, obBackup, obKit, obNext>>
        /\ obStaged' = {} /\ obJournal' = NoJournal /\ obAt' = "done"
    BY <1>3 DEF FinalizeRecovery, Keeps, OnboardGoes, WritesJournal
  <2>2. Committed \/ Untouched \/ Settling
    BY <1>0, <2>1 DEF StepsTell
  <2>3. \A i \in 1 .. Len(Published) : Installed(Published[i]) /\ Published[i] \notin obBackup
    BY <1>0, <2>1 DEF StepsTell, OnboardTypes
  <2>4. \A f \in OwnerFiles : Installed(f) /\ f \notin obBackup
    BY <2>3 DEF OwnerFiles
  <2>5. obBackup = {} /\ (Settling => AllNew)
    BY <1>0, <2>4, OwnedAreFiles DEF OnboardTypes, OwnerFiles, Settling, AllNew, Installed
  <2>6. OnboardTypes'
    BY <1>0, <1>1, <2>1, KitForms DEF OnboardTypes, OnboardSteps
  <2>7. AllNew' \/ Untouched'
    BY <2>1, <2>2, <2>5 DEF Committed, AllNew, Untouched, Before
  <2>8. ~ obJournal'.open /\ ~ obJournal'.prepared
    BY <2>1, KitForms
  <2>9. JournalTells' /\ StepsTell'
    BY <1>0, <1>1, <2>1, <2>5, <2>7, <2>8 DEF JournalTells, StepsTell
  <2>10. QED
    BY <2>6, <2>9 DEF OnboardInv
<1>4. CASE RestoreFile
  <2>1. obAt = "restore" /\ obNext >= 1 /\ UNCHANGED <<obJournal, obKit>>
    BY <1>4 DEF RestoreFile, Keeps
  <2>2. (HalfWay \/ Untouched) /\ obNext \in 1 .. Len(Published) /\ BackFrom(obNext) /\ obJournal.prepared /\ obJournal.open
    BY <1>0, <2>1 DEF StepsTell, OnboardTypes, JournalTells
  <2>3. Current \in OwnerFiles
    BY <2>2, CurrentIsFile
  <2>u. Untouched => TakenBack(Current)
    BY <2>3, BeforeIs DEF Untouched, TakenBack
  <2>4. CASE ArtifactsMissing(Current)
    <3>1. obAt' = "off" /\ obNext' = obNext /\ UNCHANGED <<obDest, obStaged, obBackup>>
      BY <1>4, <2>4 DEF RestoreFile, OnboardGoes
    <3>2. (Untouched' <=> Untouched) /\ (HalfWay' <=> HalfWay)
      BY <3>1, FilesStand
    <3>3. OnboardTypes'
      BY <1>0, <1>1, <2>1, <3>1 DEF OnboardTypes, OnboardSteps
    <3>4. JournalTells' /\ StepsTell'
      BY <1>0, <1>1, <2>1, <2>2, <3>1, <3>2 DEF JournalTells, StepsTell
    <3>5. QED
      BY <3>3, <3>4 DEF OnboardInv
  <2>5. CASE ~ ArtifactsMissing(Current) /\ TakenBack(Current)
    <3>1. obAt' = "restore" /\ obNext' = obNext - 1 /\ UNCHANGED <<obDest, obStaged, obBackup>>
      BY <1>4, <2>5 DEF RestoreFile, GoesTo
    <3>2. obDest[Published[obNext]] = Before[Published[obNext]] /\ Published[obNext] \notin obBackup
      BY <1>0, <2>2, <2>3, <2>5, TakenBackIsBefore DEF Current, Untouched
    <3>3. BackFrom(obNext - 1)
      BY <1>0, <2>2, <3>2 DEF BackFrom
    <3>4. obNext - 1 \in 0 .. Len(Published) + 1 /\ obNext - 1 <= Len(Published)
      BY <1>0, <2>2
    <3>5. (HalfWay' \/ Untouched') /\ BackFrom(obNext)'
      <4>1. (HalfWay' <=> HalfWay) /\ (Untouched' <=> Untouched)
        BY <3>1, FilesStand
      <4>2. QED
        BY <2>2, <3>1, <3>3, <4>1 DEF BackFrom
    <3>6. OnboardTypes'
      BY <1>0, <1>1, <2>1, <3>1, <3>4 DEF OnboardTypes, OnboardSteps
    <3>7. JournalTells' /\ StepsTell'
      BY <1>0, <1>1, <2>1, <2>2, <3>1, <3>4, <3>5 DEF JournalTells, StepsTell
    <3>8. QED
      BY <3>6, <3>7 DEF OnboardInv
  <2>6. CASE ~ ArtifactsMissing(Current) /\ ~ TakenBack(Current)
    <3>0. HalfWay
      BY <2>2, <2>6, <2>u
    <3>1. TakeBack(Current) /\ obAt' = "restore" /\ obNext' = obNext
      BY <1>4, <2>6 DEF RestoreFile, OnboardGoes
    <3>2. /\ obDest' \in [OwnerFiles -> {"old", "none", "new"}]
          /\ obStaged' \subseteq OwnerFiles /\ obBackup' \subseteq OwnedFiles
          /\ HalfWay'
          /\ \A g \in OwnerFiles : g # Current => obDest'[g] = obDest[g] /\ (g \in obBackup' <=> g \in obBackup)
      BY <1>0, <2>3, <2>6, <3>0, <3>1, TakeBackKeeps
    <3>3. BackFrom(obNext)'
      BY <1>0, <2>2, <2>3, <2>6, <3>0, <3>1, <3>2, BackStays
    <3>4. OnboardTypes'
      BY <1>0, <1>1, <2>1, <3>1, <3>2 DEF OnboardTypes, OnboardSteps
    <3>5. obNext' <= Len(Published)
      BY <2>2, <3>1
    <3>6. JournalTells'
      BY <1>0, <1>1, <2>1, <2>2, <3>2 DEF JournalTells
    <3>7. StepsTell'
      BY <2>1, <2>2, <3>1, <3>2, <3>3, <3>5 DEF StepsTell
    <3>8. QED
      BY <3>4, <3>6, <3>7 DEF OnboardInv
  <2>7. QED
    BY <2>4, <2>5, <2>6
<1>5. CASE ClearRecovered \/ RemoveCheckout \/ ForgetRecovered
  <2>1. /\ UNCHANGED <<obDest, obBackup, obNext>> /\ obKit' \in {obKit, NoKit} /\ obStaged' \in {obStaged, {}}
        /\ \/ (obAt = "clear" \/ (obAt = "restore" /\ obNext = 0)) /\ obAt' = "unregister" /\ obJournal' = obJournal
           \/ obAt = "unregister" /\ obAt' = "forget" /\ obJournal' = obJournal
           \/ obAt = "forget" /\ obAt' = "checkout" /\ obJournal' = NoJournal
    BY <1>5 DEF ClearRecovered, RemoveCheckout, ForgetRecovered, Keeps, OnboardGoes, WritesJournal
  <2>2. obJournal.open /\ Untouched
    BY <1>0, <2>1, AllBack DEF StepsTell, JournalTells, OnboardTypes
  <2>3. Untouched'
    BY <2>1, <2>2 DEF Untouched, Before
  <2>4. OnboardTypes'
    <3>1. obKit' \in [rev : Revisions, changed : BOOLEAN]
      BY <1>0, <2>1, KitForms DEF OnboardTypes
    <3>2. QED
      BY <1>0, <1>1, <2>1, <3>1, KitForms DEF OnboardTypes, OnboardSteps
  <2>5. JournalTells'
    BY <1>0, <1>1, <2>1, <2>3, KitForms DEF JournalTells
  <2>6. StepsTell'
    BY <2>1, <2>2, <2>3, KitForms DEF StepsTell
  <2>7. QED
    BY <2>4, <2>5, <2>6 DEF OnboardInv
<1>6. QED
  BY <1>2, <1>3, <1>4, <1>5, <1>f

\* A process that dies, and others who push.
LEMMA OutsideSteps ==
    ASSUME OnboardInv, ProcessDies \/ OthersPush
    PROVE  OnboardInv'
<1>0. OnboardTypes /\ JournalTells /\ StepsTell
  BY DEF OnboardInv
<1>1. UNCHANGED <<obMode, obCreated, obDest, obStaged, obBackup, obJournal, obKit, obNext>>
  BY DEF ProcessDies, OthersPush, Keeps, obDisk, OnboardGoes
<1>2. /\ (Untouched' <=> Untouched) /\ (HalfWay' <=> HalfWay) /\ (AllNew' <=> AllNew)
      /\ BackFrom(obNext)' <=> BackFrom(obNext)
  BY <1>1, FilesStand DEF BackFrom
<1>3. CASE ProcessDies
  <2>1. obAt \notin {"off", "done"} /\ obAt' = "off" /\ UNCHANGED obRemote
    BY <1>3 DEF ProcessDies, OnboardGoes, Keeps, obDisk
  <2>2. OnboardTypes'
    BY <1>0, <1>1, <2>1 DEF OnboardTypes, OnboardSteps
  <2>3. JournalTells'
    BY <1>0, <1>1, <1>2, <2>1 DEF JournalTells, Committed, Settling, Irrevocable, Arrived
  <2>4. StepsTell'
    BY <2>1 DEF StepsTell
  <2>5. QED
    BY <2>2, <2>3, <2>4 DEF OnboardInv
<1>4. CASE OthersPush
  <2>1. obAt' = obAt /\ obRemote' = [obRemote EXCEPT !.others = 1]
    BY <1>4 DEF OthersPush
  <2>2. obRemote' \in Revisions /\ obRemote'.listed = obRemote.listed /\ obRemote' # NoRevision
    <3>1. obRemote' \in Revisions /\ obRemote'.listed = obRemote.listed /\ obRemote'.others = 1
      BY <1>0, <2>1 DEF OnboardTypes, Revisions
    <3>2. NoRevision.others = 9
      BY DEF NoRevision, Revision
    <3>3. QED
      BY <3>1, <3>2
  <2>3. Committed => Committed'
    BY <1>1, <1>2, <2>2 DEF Committed, Irrevocable
  <2>s. Settling => Settling'
    <3>1. obRemote.others = 0 /\ obRemote'.others = 1
      BY <1>0, <1>4, <2>1 DEF OthersPush, OnboardTypes, Revisions
    <3>2. obJournal.intended.others \in Nat
      BY <1>0 DEF OnboardTypes, Revisions
    <3>3. Arrived => Arrived'
      BY <1>1, <2>2, <3>1, <3>2 DEF Arrived
    <3>4. QED
      BY <1>1, <2>2, <3>3 DEF Settling, Irrevocable
  <2>4. OnboardTypes'
    BY <1>0, <1>1, <2>1, <2>2 DEF OnboardTypes
  <2>5. JournalTells'
    BY <1>0, <1>1, <1>2, <2>1, <2>2, <2>3, <2>s DEF JournalTells
  <2>6. StepsTell'
    BY <1>0, <1>1, <1>2, <2>1, <2>3, <2>s DEF StepsTell, Installed
  <2>7. QED
    BY <2>4, <2>5, <2>6 DEF OnboardInv
<1>5. QED
  BY <1>3, <1>4

\* No step of an init, of a recovery or of others breaks the invariant.
LEMMA OnboardStep ==
    ASSUME OnboardInv, [OnboardingNext]_obVars
    PROVE  OnboardInv'
<1>1. CASE UNCHANGED obVars
  <2>1. UNCHANGED <<obMode, obCreated, obAt, obNext, obDest, obStaged, obBackup, obJournal, obKit, obRemote>>
    BY <1>1 DEF obVars, obDisk
  <2>2. /\ Untouched' <=> Untouched
        /\ HalfWay' <=> HalfWay
        /\ AllNew' <=> AllNew
        /\ BackFrom(obNext)' <=> BackFrom(obNext)
    BY <2>1 DEF Untouched, Before, HalfWay, AllNew, BackFrom
  <2>3. (Committed' <=> Committed) /\ (Settling' <=> Settling)
    BY <2>1, <2>2 DEF Committed, Settling, Irrevocable, Arrived
  <2>4. OnboardTypes' /\ JournalTells'
    BY <2>1, <2>2, <2>3 DEF OnboardInv, OnboardTypes, JournalTells
  <2>5. StepsTell'
    BY <2>1, <2>2, <2>3 DEF OnboardInv, StepsTell, Installed
  <2>6. QED
    BY <2>4, <2>5 DEF OnboardInv
<1>2. QED
  BY <1>1, BeginningSteps, PreparingSteps, PublishingSteps, CommittingSteps, UndoingSteps, RecoverySteps,
     OutsideSteps DEF OnboardingNext

-----------------------------------------------------------------------------
(* Credentials: the receipts, the backups and the files. *)

ReceiptNames == {"none", "applying", "succeeded", "rolled_back", "recovery_required"}
SecretContents == [Positions -> Attempts \cup {Torn, Edited, Absent}]
BackedUp == [pc |-> "backed_up"]
Tidying == [pc |-> "tidy"]
Recovering == [pc |-> "recover"]
ApplyForms == {Asleep, Halted, BackedUp, Tidying, Recovering}
  \cup [pc : {"write", "tag", "settle"}, at : Positions]
  \cup [pc : {"undo"}, at : 0 .. Len(Files), ok : BOOLEAN, tidy : BOOLEAN]
  \cup [pc : {"restore"}, of : Attempts, at : 0 .. Len(Files)]
CredTypes ==
  /\ secret \in SecretContents /\ attempt \in 0 .. MaxAttempts
  /\ papers \in [Attempts -> ReceiptNames]
  /\ kept \in [Attempts -> SecretContents \cup {<<>>}]
  /\ unsure \subseteq Attempts
  /\ apply \in ApplyForms

\* Only the last attempt can be unfinished, and then its backups are there.
OpenIsLast ==
  /\ \A a \in Attempts : a > attempt => papers[a] = "none" /\ kept[a] = <<>>
  /\ \A a \in Open : a = attempt /\ kept[a] # <<>>

\* A backup holds nothing of an attempt that was not finished before, and a
\* truncated file only after a doubtful one.
DoubtBefore(a) == \E b \in Doubtful : b < a
BackupsClean ==
  \A a \in Attempts : kept[a] # <<>> =>
    \A i \in Positions : /\ kept[a][i] = Torn => DoubtBefore(a)
                         /\ kept[a][i] \in Attempts => kept[a][i] < a /\ papers[kept[a][i]] = "succeeded"

\* Where the apply is, and what that says of the files.
Unwritten(i) == secret[i] = kept[attempt][i]
ApplyHolds ==
  /\ apply = BackedUp => attempt \in Attempts /\ papers[attempt] = "none" /\ kept[attempt] = secret
  /\ apply.pc \in {"write", "tag", "settle"} =>
       /\ attempt \in Attempts /\ papers[attempt] = "applying" /\ kept[attempt] # <<>>
       /\ \A i \in Positions : i < apply.at => secret[i] = attempt
       /\ \A i \in Positions : i > apply.at => Unwritten(i)
  /\ apply.pc = "write" => Unwritten(apply.at)
  /\ apply.pc \in {"tag", "settle"} => secret[apply.at] = attempt
  /\ apply.pc = "settle" => apply.at = Len(Files)
  /\ apply.pc = "undo" =>
       /\ attempt \in Attempts /\ papers[attempt] \in {"applying", "succeeded"} /\ kept[attempt] # <<>>
       /\ papers[attempt] = "succeeded" => attempt \in unsure
       /\ apply.ok => \A i \in Positions : i > apply.at => Unwritten(i)
  /\ apply.pc = "restore" =>
       /\ apply.of = attempt /\ attempt \in Open /\ kept[attempt] # <<>>
       /\ \A i \in Positions : i > apply.at => Unwritten(i)
  /\ apply = Tidying => attempt \in Attempts /\ papers[attempt] \in {"succeeded", "rolled_back"}

CredentialInv == CredTypes /\ OpenIsLast /\ BackupsClean /\ ApplyHolds /\ NoHalfApplied

\* The forms of the apply are told apart by its step.
LEMMA ApplySteps == ASSUME CredTypes
  PROVE /\ apply = Asleep => apply.pc = "idle"
        /\ apply = Halted => apply.pc = "down"
        /\ apply.pc = "backed_up" <=> apply = BackedUp
        /\ apply.pc = "tidy" <=> apply = Tidying
        /\ apply.pc = "recover" <=> apply = Recovering
        /\ apply.pc \in {"write", "tag", "settle"} => apply \in [pc : {"write", "tag", "settle"}, at : Positions]
        /\ apply.pc = "undo" => apply \in [pc : {"undo"}, at : 0 .. Len(Files), ok : BOOLEAN, tidy : BOOLEAN]
        /\ apply.pc = "restore" => apply \in [pc : {"restore"}, of : Attempts, at : 0 .. Len(Files)]
BY DEF CredTypes, ApplyForms, Asleep, Halted, BackedUp, Tidying, Recovering

\* There is a first destination and a last one.
LEMMA PlanHasFiles == Len(Files) \in Nat /\ Len(Files) >= 1 /\ Positions = 1 .. Len(Files)
                      /\ 1 \in Positions /\ Len(Files) \in Positions
BY CredentialBounds DEF Positions

\* A copy of the files is never empty.
LEMMA ContentsFilled == \A c \in SecretContents : c # <<>>
<1>1. ASSUME NEW c \in SecretContents PROVE DOMAIN c = Positions
  BY DEF SecretContents
<1>2. DOMAIN <<>> = {} /\ Positions # {}
  BY PlanHasFiles
<1>3. QED
  BY <1>1, <1>2

\* Nothing has been applied at first.
LEMMA CredentialStart == ASSUME CredentialInit PROVE CredentialInv
<1>1. CredTypes
  BY CredentialBounds DEF CredentialInit, CredTypes, SecretContents, ReceiptNames, ApplyForms, Attempts
<1>2. \A a \in Attempts : papers[a] = "none" /\ kept[a] = <<>>
  BY DEF CredentialInit
<1>3. Open = {}
  BY <1>2 DEF Open
<1>4. \A i \in Positions : secret[i] \notin Attempts /\ secret[i] # Torn
  BY DEF CredentialInit, Attempts, Edited, Absent, Torn
<1>5. apply = Asleep
  BY DEF CredentialInit
<1>6. ApplyHolds
  BY <1>1, <1>5, ApplySteps DEF ApplyHolds, Asleep, BackedUp, Tidying
<1>7. QED
  BY <1>1, <1>2, <1>3, <1>4, <1>6 DEF CredentialInv, OpenIsLast, BackupsClean, NoHalfApplied

\* A receipt of another attempt and a doubt stay.
LEMMA DoubtsStay ==
  ASSUME CredTypes, attempt \in Attempts, NEW a \in Attempts, a <= attempt, unsure \subseteq unsure',
         \A b \in Attempts : b # attempt => papers'[b] = papers[b]
  PROVE DoubtBefore(a) => (\E b \in Doubtful : b < a /\ b \in Doubtful')
<1>1. ASSUME NEW b \in Doubtful, b < a PROVE b \in Doubtful'
  <2>1. b \in unsure /\ papers[b] = "succeeded" /\ b \in Attempts
    BY DEF Doubtful, CredTypes
  <2>2. b # attempt
    BY <1>1, <2>1, CredentialBounds DEF Attempts
  <2>3. QED
    BY <2>1, <2>2 DEF Doubtful
<1>2. QED
  BY <1>1 DEF DoubtBefore

\* Between two applies nothing is asked of the files.
LEMMA ApplyRests == ASSUME apply' \in {Asleep, Halted, Recovering} PROVE ApplyHolds' /\ apply' \in ApplyForms
BY DEF ApplyHolds, Asleep, Halted, Recovering, BackedUp, Tidying, ApplyForms

\* The receipt of the last attempt is written, or not.
LEMMA PaperMoves ==
  ASSUME CredentialInv, attempt \in Attempts, kept[attempt] # <<>>, NEW s \in ReceiptNames \ {"none"},
         papers' \in {papers, [papers EXCEPT ![attempt] = s]}, UNCHANGED <<attempt, kept>>,
         unsure' \in {unsure, unsure \cup {attempt}},
         secret' \in SecretContents, apply' \in ApplyForms
  PROVE CredTypes' /\ OpenIsLast' /\ BackupsClean'
<1>1. papers' \in [Attempts -> ReceiptNames] /\ \A b \in Attempts : b # attempt => papers'[b] = papers[b]
  BY DEF CredentialInv, CredTypes
<1>2. CredTypes'
  BY <1>1 DEF CredentialInv, CredTypes
<1>3. attempt \in Nat /\ Attempts \subseteq Nat
  BY CredentialBounds DEF Attempts
<1>4. OpenIsLast'
  <2>1. \A a \in Attempts : a > attempt' => papers'[a] = "none" /\ kept'[a] = <<>>
    BY <1>1, <1>3 DEF CredentialInv, OpenIsLast
  <2>2. \A a \in Attempts : a # attempt => papers'[a] \notin {"applying", "recovery_required"}
    BY <1>1 DEF CredentialInv, OpenIsLast, Open
  <2>3. QED
    BY <2>1, <2>2 DEF OpenIsLast, Open, CredentialInv
<1>5. BackupsClean'
  <2> SUFFICES ASSUME NEW a \in Attempts, kept[a] # <<>>, NEW i \in Positions
               PROVE /\ kept[a][i] = Torn => DoubtBefore(a)'
                     /\ kept[a][i] \in Attempts => kept[a][i] < a /\ papers'[kept[a][i]] = "succeeded"
    BY DEF BackupsClean, Torn, Attempts, Positions
  <2>1. /\ kept[a][i] = Torn => DoubtBefore(a)
        /\ kept[a][i] \in Attempts => kept[a][i] < a /\ papers[kept[a][i]] = "succeeded"
    BY DEF CredentialInv, BackupsClean
  <2>2. a <= attempt
    BY <1>3 DEF CredentialInv, OpenIsLast
  <2>3. kept[a][i] \in Attempts => kept[a][i] # attempt
    BY <1>3, <2>1, <2>2
  <2>4. DoubtBefore(a) => DoubtBefore(a)'
    BY <1>1, <2>2, DoubtsStay DEF CredentialInv, DoubtBefore
  <2>5. QED
    BY <1>1, <2>1, <2>3, <2>4
<1>6. QED
  BY <1>2, <1>4, <1>5

\* A step that leaves receipts and backups alone leaves what they say alone.
LEMMA PapersStay ==
  ASSUME CredentialInv, UNCHANGED <<papers, attempt, kept, unsure>>, secret' \in SecretContents, apply' \in ApplyForms
  PROVE CredTypes' /\ OpenIsLast' /\ BackupsClean'
<1>1. CredTypes'
  BY DEF CredentialInv, CredTypes, Attempts
<1>2. OpenIsLast' /\ BackupsClean'
  BY DEF CredentialInv, OpenIsLast, BackupsClean, Open, Torn, Attempts, Positions, DoubtBefore, Doubtful
<1>3. QED
  BY <1>1, <1>2

\* Planning, and the start of a recovery, change no file.
LEMMA PlanKeeps == ASSUME CredentialInv, PlanCredentials \/ BeginRecovery \/ EndRecovery PROVE CredentialInv'
<1>1. UNCHANGED <<secret, papers, attempt, kept, unsure>> /\ apply' \in {Asleep, Recovering}
  BY DEF PlanCredentials, BeginRecovery, EndRecovery, Recovering
<1>2. secret' \in SecretContents
  BY <1>1 DEF CredentialInv, CredTypes
<1>3. NoHalfApplied'
  BY <1>1 DEF CredentialInv, NoHalfApplied, Open, Torn, Attempts, Positions, Doubtful
<1>4. QED
  BY <1>1, <1>2, <1>3, ApplyRests, PapersStay DEF CredentialInv

\* What the files hold while no attempt is unfinished.
LEMMA SettledFiles == ASSUME CredentialInv, Open = {}, NEW i \in Positions
  PROVE /\ secret[i] = Torn => DoubtBefore(attempt + 1)
        /\ secret[i] \in Attempts => secret[i] <= attempt /\ papers[secret[i]] = "succeeded"
<1>1. /\ secret[i] = Torn => Doubtful # {}
      /\ secret[i] \in Attempts => papers[secret[i]] \in {"applying", "recovery_required", "succeeded"}
  BY DEF CredentialInv, NoHalfApplied
<1>2. secret[i] \in Attempts => papers[secret[i]] = "succeeded"
  BY <1>1 DEF Open
<1>3. secret[i] \in Attempts => secret[i] <= attempt
  BY <1>2, CredentialBounds DEF CredentialInv, CredTypes, OpenIsLast, Attempts
<1>4. ASSUME NEW b \in Doubtful PROVE b < attempt + 1
  <2>1. b \in Attempts /\ papers[b] = "succeeded"
    BY DEF Doubtful, CredentialInv, CredTypes
  <2>2. QED
    BY <2>1, CredentialBounds DEF CredentialInv, CredTypes, OpenIsLast, Attempts
<1>5. QED
  BY <1>1, <1>2, <1>3, <1>4 DEF DoubtBefore

\* The backups of a new attempt are copies of settled files.
LEMMA CaptureKeeps == ASSUME CredentialInv, CaptureBackups PROVE CredentialInv'
<1> DEFINE n == attempt + 1
<1>1. n \in Attempts /\ attempt \in Nat /\ Attempts \subseteq Nat /\ n > attempt
  BY CredentialBounds DEF CaptureBackups, Attempts, CredentialInv, CredTypes
<1>2. secret' = secret /\ papers' = papers /\ unsure' = unsure /\ attempt' = n /\ apply' = BackedUp /\ Open = {}
      /\ kept' = [kept EXCEPT ![n] = secret]
  BY DEF CaptureBackups, BackedUp
<1>3. kept'[n] = secret /\ \A a \in Attempts : a # n => kept'[a] = kept[a]
  BY <1>1, <1>2 DEF CredentialInv, CredTypes
<1>4. CredTypes'
  <2>1. kept' \in [Attempts -> SecretContents \cup {<<>>}]
    BY <1>1, <1>2 DEF CredentialInv, CredTypes
  <2>2. attempt' \in 0 .. MaxAttempts
    BY <1>1, <1>2, CredentialBounds DEF Attempts
  <2>3. QED
    BY <1>2, <2>1, <2>2 DEF CredentialInv, CredTypes, ApplyForms, Attempts
<1>5. OpenIsLast'
  <2>1. Open' = {}
    BY <1>2 DEF Open, Attempts
  <2>2. \A a \in Attempts : a > n => papers'[a] = "none" /\ kept'[a] = <<>>
    BY <1>1, <1>2, <1>3 DEF CredentialInv, OpenIsLast
  <2>3. QED
    BY <1>2, <2>1, <2>2 DEF OpenIsLast, Attempts
<1>6. BackupsClean'
  <2> SUFFICES ASSUME NEW a \in Attempts, kept'[a] # <<>>, NEW i \in Positions
               PROVE /\ kept'[a][i] = Torn => DoubtBefore(a)
                     /\ kept'[a][i] \in Attempts => kept'[a][i] < a /\ papers[kept'[a][i]] = "succeeded"
    BY <1>2 DEF BackupsClean, Torn, Attempts, Positions, DoubtBefore, Doubtful
  <2>1. CASE a = n
    <3>1. /\ secret[i] = Torn => DoubtBefore(n)
          /\ secret[i] \in Attempts => secret[i] <= attempt /\ papers[secret[i]] = "succeeded"
      BY <1>2, SettledFiles
    <3>2. kept'[a] = secret
      BY <1>3, <2>1
    <3>3. secret[i] \in Attempts => secret[i] \in Nat
      BY <1>1
    <3>4. secret[i] \in Attempts => secret[i] < a
      BY <1>1, <2>1, <3>1, <3>3
    <3>5. QED
      BY <2>1, <3>1, <3>2, <3>4
  <2>2. CASE a # n
    BY <1>3, <2>2 DEF CredentialInv, BackupsClean
  <2>3. QED
    BY <2>1, <2>2
<1>7. ApplyHolds'
  <2>1. papers[n] = "none"
    BY <1>1 DEF CredentialInv, OpenIsLast
  <2>2. attempt' \in Attempts' /\ papers'[attempt'] = "none" /\ kept'[attempt'] = secret'
    BY <1>1, <1>2, <1>3, <2>1 DEF Attempts
  <2>3. QED
    BY <1>2, <2>2 DEF ApplyHolds, BackedUp, Tidying
<1>8. NoHalfApplied'
  BY <1>2 DEF CredentialInv, NoHalfApplied, Open, Torn, Attempts, Positions, Doubtful
<1>9. QED
  BY <1>4, <1>5, <1>6, <1>7, <1>8 DEF CredentialInv

\* The checkpoint is written once the backups are there.
LEMMA ApplyingKeeps == ASSUME CredentialInv, WriteApplying PROVE CredentialInv'
<1>1. apply = BackedUp
  BY ApplySteps DEF WriteApplying, CredentialInv
<1>2. attempt \in Attempts /\ papers[attempt] = "none" /\ kept[attempt] = secret /\ secret \in SecretContents
  BY <1>1 DEF CredentialInv, ApplyHolds, CredTypes
<1>3. kept[attempt] # <<>>
  BY <1>2, ContentsFilled
<1>4. UNCHANGED <<secret, attempt, kept, unsure>> /\ papers' \in {papers, [papers EXCEPT ![attempt] = "applying"]}
  BY DEF WriteApplying, Receipt, MaybeReceipt
<1>5. apply' \in {Asleep, [pc |-> "write", at |-> 1]}
  BY DEF WriteApplying
<1>6. apply' \in ApplyForms
  BY <1>5, PlanHasFiles DEF ApplyForms
<1>7. CredTypes' /\ OpenIsLast' /\ BackupsClean'
  BY <1>2, <1>3, <1>4, <1>6, PaperMoves DEF ReceiptNames
<1>8. ApplyHolds'
  <2>1. CASE apply' = Asleep
    BY <2>1, ApplyRests
  <2>2. CASE apply' = [pc |-> "write", at |-> 1]
    <3>1. papers' = [papers EXCEPT ![attempt] = "applying"]
      BY <2>2 DEF WriteApplying, Receipt, Asleep
    <3>2. papers'[attempt] = "applying"
      BY <1>2, <3>1 DEF CredentialInv, CredTypes
    <3>3. apply'.pc = "write" /\ apply'.at = 1
      BY <2>2
    <3>4. apply' # BackedUp /\ apply' # Tidying
      BY <3>3 DEF BackedUp, Tidying
    <3>5. \A i \in Positions : ~(i < 1)
      BY PlanHasFiles
    <3>6. QED
      BY <1>2, <1>3, <1>4, <3>2, <3>3, <3>4, <3>5, PlanHasFiles DEF ApplyHolds, Unwritten, Attempts, Positions
  <2>3. QED
    BY <1>5, <2>1, <2>2
<1>9. NoHalfApplied'
  <2>1. \A a \in Attempts : papers'[a] = papers[a] \/ papers'[a] = "applying"
    BY <1>4 DEF CredentialInv, CredTypes
  <2>2. \A a \in Open : papers'[a] \in {"applying", "recovery_required"}
    BY <2>1 DEF Open
  <2>3. Open # {} => Open' # {}
    BY <2>2 DEF Open, Attempts
  <2>4. \A i \in Positions : secret[i] \in Attempts => papers'[secret[i]] \in {"applying", "recovery_required", "succeeded"}
    BY <2>1 DEF CredentialInv, NoHalfApplied
  <2>7. Doubtful \subseteq Doubtful'
    BY <1>2, <1>4 DEF CredentialInv, CredTypes, Doubtful
  <2>5. \A i \in Positions : secret[i] = Torn => Open' # {} \/ Doubtful' # {}
    BY <2>3, <2>7 DEF CredentialInv, NoHalfApplied
  <2>6. QED
    BY <1>4, <2>4, <2>5 DEF NoHalfApplied, Attempts, Positions, Torn
<1>10. QED
  BY <1>7, <1>8, <1>9 DEF CredentialInv

\* A file is written in place; a failure leaves it as it was, whole or truncated.
LEMMA WriteKeeps ==
  ASSUME CredentialInv, NEW s \in Attempts \cup {Torn, Edited, Absent}, WriteFile(s) PROVE CredentialInv'
<1> DEFINE k == apply.at
<1>1. apply \in [pc : {"write", "tag", "settle"}, at : Positions] /\ apply.pc = "write"
  BY ApplySteps DEF WriteFile, CredentialInv
<1>2. /\ attempt \in Attempts /\ papers[attempt] = "applying" /\ kept[attempt] # <<>>
      /\ \A i \in Positions : i < k => secret[i] = attempt
      /\ \A i \in Positions : i >= k => Unwritten(i)
      /\ k \in Positions
  BY <1>1, PlanHasFiles DEF CredentialInv, ApplyHolds
<1>3. UNCHANGED <<papers, attempt, kept, unsure>> /\ secret' = [secret EXCEPT ![k] = s]
      /\ s \in {attempt, Torn, secret[k]}
  BY DEF WriteFile
<1>4. secret' \in SecretContents /\ secret'[k] = s /\ \A i \in Positions : i # k => secret'[i] = secret[i]
  BY <1>2, <1>3 DEF CredentialInv, CredTypes, SecretContents
<1>5. \/ s = attempt /\ apply' = [apply EXCEPT !.pc = "tag"]
      \/ apply' = [pc |-> "undo", at |-> k, ok |-> TRUE, tidy |-> TRUE]
  BY DEF WriteFile
<1>6. apply' \in ApplyForms
  <2>1. k \in 0 .. Len(Files)
    BY <1>2, PlanHasFiles
  <2>2. [pc |-> "undo", at |-> k, ok |-> TRUE, tidy |-> TRUE] \in ApplyForms
    BY <2>1 DEF ApplyForms
  <2>3. [apply EXCEPT !.pc = "tag"] \in [pc : {"write", "tag", "settle"}, at : Positions]
    BY <1>1
  <2>4. QED
    BY <1>5, <2>2, <2>3 DEF ApplyForms
<1>7. CredTypes' /\ OpenIsLast' /\ BackupsClean'
  BY <1>3, <1>4, <1>6, PapersStay
<1>8. attempt \in Open /\ attempt \in Open'
  BY <1>2, <1>3 DEF Open, Attempts
<1>9. NoHalfApplied'
  <2>1. ASSUME NEW i \in Positions, secret'[i] \in Attempts
        PROVE papers[secret'[i]] \in {"applying", "recovery_required", "succeeded"}
    BY <1>2, <1>3, <1>4, <2>1 DEF CredentialInv, NoHalfApplied, Torn, Attempts
  <2>2. QED
    BY <1>3, <1>8, <2>1 DEF NoHalfApplied, Attempts, Positions, Torn
<1>10. \A i \in Positions : i > k => Unwritten(i)'
  BY <1>2, <1>3, <1>4, PlanHasFiles DEF Unwritten
<1>11. \A i \in Positions : i < k => secret'[i] = attempt
  BY <1>2, <1>4, PlanHasFiles
<1> HIDE DEF k
<1>12. ApplyHolds'
  <2>1. CASE s = attempt /\ apply' = [apply EXCEPT !.pc = "tag"]
    <3>1. apply'.pc = "tag" /\ apply'.at = k
      BY <1>1, <2>1 DEF k
    <3>2. apply' # BackedUp /\ apply' # Tidying
      BY <3>1 DEF BackedUp, Tidying
    <3>3. QED
      BY <1>2, <1>3, <1>4, <1>10, <1>11, <2>1, <3>1, <3>2 DEF ApplyHolds, Attempts, Positions
  <2>2. CASE apply' = [pc |-> "undo", at |-> k, ok |-> TRUE, tidy |-> TRUE]
    <3>1. apply'.pc = "undo" /\ apply'.at = k
      BY <2>2
    <3>2. apply' # BackedUp /\ apply' # Tidying
      BY <3>1 DEF BackedUp, Tidying
    <3>3. QED
      BY <1>2, <1>3, <1>10, <3>1, <3>2 DEF ApplyHolds, Attempts, Positions
  <2>3. QED
    BY <1>5, <2>1, <2>2 DEF k
<1>13. QED
  BY <1>7, <1>9, <1>12 DEF CredentialInv

\* The receipt is tagged, or the undoing begins.
LEMMA TagKeeps == ASSUME CredentialInv, TagFile PROVE CredentialInv'
<1> DEFINE k == apply.at
           more == [pc |-> "write", at |-> k + 1]
           last == [pc |-> "settle", at |-> k]
           undo == [pc |-> "undo", at |-> k, ok |-> TRUE, tidy |-> FALSE]
<1>1. apply \in [pc : {"write", "tag", "settle"}, at : Positions] /\ apply.pc = "tag"
  BY ApplySteps DEF TagFile, CredentialInv
<1>2. /\ attempt \in Attempts /\ papers[attempt] = "applying" /\ kept[attempt] # <<>>
      /\ \A i \in Positions : i <= k => secret[i] = attempt
      /\ \A i \in Positions : i > k => Unwritten(i)
      /\ k \in Positions /\ k \in 0 .. Len(Files) /\ (k < Len(Files) => k + 1 \in Positions)
  BY <1>1, PlanHasFiles DEF CredentialInv, ApplyHolds
<1>3. UNCHANGED <<papers, attempt, kept, unsure, secret>>
  BY DEF TagFile
<1>4. \/ k < Len(Files) /\ apply' = more
      \/ ~(k < Len(Files)) /\ apply' = last
      \/ apply' = undo
  BY DEF TagFile
<1>5. apply' \in ApplyForms
  <2>1. k < Len(Files) => more \in ApplyForms
    BY <1>2 DEF ApplyForms
  <2>2. last \in ApplyForms /\ undo \in ApplyForms
    BY <1>2 DEF ApplyForms
  <2>3. QED
    BY <1>4, <2>1, <2>2
<1>6. CredTypes' /\ OpenIsLast' /\ BackupsClean'
  BY <1>3, <1>5, PapersStay DEF CredentialInv, CredTypes
<1>7. NoHalfApplied'
  BY <1>3 DEF CredentialInv, NoHalfApplied, Open, Torn, Attempts, Positions, Doubtful
<1>8. \A i \in Positions : Unwritten(i)' <=> Unwritten(i)
  BY <1>3 DEF Unwritten
<1>9. k \in Nat /\ Positions \subseteq Nat
  BY <1>2, PlanHasFiles
<1>10. ApplyHolds'
  <2>1. CASE k < Len(Files) /\ apply' = more
    <3>1. PICK m \in Positions : m = k + 1
      BY <1>2, <2>1
    <3>2. apply'.pc = "write" /\ apply'.at = m
      BY <2>1, <3>1
    <3>3. apply' # BackedUp /\ apply' # Tidying
      BY <3>2 DEF BackedUp, Tidying
    <3>4. \A i \in Positions : (i < m <=> i <= k) /\ (i > m => i > k)
      BY <1>9, <3>1
    <3>5. m > k
      BY <1>9, <3>1
    <3>6. \A i \in Positions : i < m => secret'[i] = attempt'
      BY <1>2, <1>3, <3>4
    <3>7. \A i \in Positions : i > m => Unwritten(i)'
      BY <1>2, <1>8, <3>4
    <3>8. Unwritten(m)'
      BY <1>2, <1>8, <3>5
    <3>9. QED
      BY <1>2, <1>3, <3>2, <3>3, <3>6, <3>7, <3>8 DEF ApplyHolds, Attempts, Positions
  <2>2. CASE ~(k < Len(Files)) /\ apply' = last
    <3>1. apply'.pc = "settle" /\ apply'.at = k
      BY <2>2
    <3>2. apply' # BackedUp /\ apply' # Tidying
      BY <3>1 DEF BackedUp, Tidying
    <3>3. k = Len(Files) /\ \A i \in Positions : i < k => secret[i] = attempt
      BY <1>2, <1>9, <2>2, PlanHasFiles
    <3>4. secret[k] = attempt
      BY <1>2, <1>9
    <3>5. QED
      BY <1>2, <1>3, <1>8, <3>1, <3>2, <3>3, <3>4 DEF ApplyHolds, Attempts, Positions
  <2>3. CASE apply' = undo
    <3>1. apply'.pc = "undo" /\ apply'.at = k
      BY <2>3
    <3>2. apply' # BackedUp /\ apply' # Tidying
      BY <3>1 DEF BackedUp, Tidying
    <3>3. QED
      BY <1>2, <1>3, <1>8, <3>1, <3>2 DEF ApplyHolds, Attempts, Positions
  <2>4. QED
    BY <1>4, <2>1, <2>2, <2>3
<1>11. QED
  BY <1>6, <1>7, <1>10 DEF CredentialInv

\* Success is recorded with every file written, or the undoing begins.
LEMMA SucceedKeeps == ASSUME CredentialInv, Succeed PROVE CredentialInv'
<1> DEFINE undo == [pc |-> "undo", at |-> apply.at, ok |-> TRUE, tidy |-> FALSE]
<1>1. apply \in [pc : {"write", "tag", "settle"}, at : Positions] /\ apply.pc = "settle"
  BY ApplySteps DEF Succeed, CredentialInv
<1>2. /\ attempt \in Attempts /\ papers[attempt] = "applying" /\ kept[attempt] # <<>>
      /\ apply.at = Len(Files)
      /\ \A i \in Positions : i < apply.at => secret[i] = attempt
      /\ secret[apply.at] = attempt
  BY <1>1 DEF CredentialInv, ApplyHolds
<1>3. \A i \in Positions : secret[i] = attempt
  BY <1>2, PlanHasFiles
<1>4. UNCHANGED <<secret, attempt, kept>> /\ papers' \in {papers, [papers EXCEPT ![attempt] = "succeeded"]}
      /\ unsure' \in {unsure, unsure \cup {attempt}}
  BY DEF Succeed, Receipt, MaybeReceipt
<1>5. papers'[attempt] \in {"applying", "succeeded"}
  BY <1>2, <1>4 DEF CredentialInv, CredTypes
<1>6. \/ apply' = Tidying /\ papers'[attempt] = "succeeded"
      \/ apply' = undo /\ attempt \in unsure'
  BY <1>2 DEF Succeed, Tidying, Receipt, CredentialInv, CredTypes
<1>7. apply' \in ApplyForms
  <2>1. undo \in ApplyForms
    BY <1>2, PlanHasFiles DEF ApplyForms
  <2>2. QED
    BY <1>6, <2>1 DEF ApplyForms
<1>8. CredTypes' /\ OpenIsLast' /\ BackupsClean'
  BY <1>2, <1>4, <1>7, PaperMoves DEF ReceiptNames, CredentialInv, CredTypes
<1>9. NoHalfApplied'
  <2>1. attempt # Torn
    BY <1>2, CredentialBounds DEF Attempts, Torn
  <2>2. QED
    BY <1>3, <1>4, <1>5, <2>1 DEF NoHalfApplied, Attempts, Positions, Torn
<1>10. ApplyHolds'
  <2>1. CASE apply' = Tidying /\ papers'[attempt] = "succeeded"
    BY <1>2, <1>4, <2>1 DEF ApplyHolds, Tidying, BackedUp, Attempts
  <2>2. CASE apply' = undo /\ attempt \in unsure'
    <3>1. apply'.pc = "undo" /\ apply'.at = Len(Files)
      BY <1>2, <2>2
    <3>2. apply' # BackedUp /\ apply' # Tidying
      BY <3>1 DEF BackedUp, Tidying
    <3>3. \A i \in Positions : ~(i > Len(Files))
      BY PlanHasFiles
    <3>4. QED
      BY <1>2, <1>4, <1>5, <2>2, <3>1, <3>2, <3>3 DEF ApplyHolds, Attempts, Positions
  <2>3. QED
    BY <1>6, <2>1, <2>2
<1>11. QED
  BY <1>8, <1>9, <1>10 DEF CredentialInv

\* What a restored file may hold.
LEMMA RestoreLeaves ==
  ASSUME CredentialInv, attempt \in Attempts, kept[attempt] # <<>>, NEW k \in Positions,
         NEW s \in MayLeave(attempt, k), secret' = [secret EXCEPT ![k] = s]
  PROVE /\ secret' \in SecretContents
        /\ secret'[k] = s /\ \A i \in Positions : i # k => secret'[i] = secret[i]
        /\ \A i \in Positions : secret'[i] \in Attempts =>
             papers[secret'[i]] \in {"applying", "recovery_required", "succeeded"}
<1>1. secret \in SecretContents /\ kept[attempt] \in SecretContents
  BY DEF CredentialInv, CredTypes
<1>2. s \in {secret[k], kept[attempt][k], Torn}
  BY DEF MayLeave
<1>3. s \in Attempts \cup {Torn, Edited, Absent}
  BY <1>1, <1>2 DEF SecretContents
<1>4. /\ secret' \in SecretContents
      /\ secret'[k] = s /\ \A i \in Positions : i # k => secret'[i] = secret[i]
  BY <1>1, <1>3 DEF SecretContents
<1>5. Torn \notin Attempts
  BY CredentialBounds DEF Torn, Attempts
<1>6. kept[attempt][k] \in Attempts => papers[kept[attempt][k]] = "succeeded"
  BY DEF CredentialInv, BackupsClean
<1>7. \A i \in Positions : secret[i] \in Attempts =>
        papers[secret[i]] \in {"applying", "recovery_required", "succeeded"}
  BY DEF CredentialInv, NoHalfApplied
<1>8. ASSUME NEW i \in Positions, secret'[i] \in Attempts
      PROVE papers[secret'[i]] \in {"applying", "recovery_required", "succeeded"}
  <2>1. CASE i = k
    BY <1>2, <1>4, <1>5, <1>6, <1>7, <1>8, <2>1
  <2>2. CASE i # k
    BY <1>4, <1>7, <1>8, <2>2
  <2>3. QED
    BY <2>1, <2>2
<1>9. QED
  BY <1>4, <1>8

\* One file is restored, or not, or truncated.
LEMMA UndoFileKeeps == ASSUME CredentialInv, NEW s, NEW ok \in BOOLEAN, UndoFile(s, ok) PROVE CredentialInv'
<1> DEFINE k == apply.at
<1>1. apply \in [pc : {"undo"}, at : 0 .. Len(Files), ok : BOOLEAN, tidy : BOOLEAN] /\ apply.pc = "undo"
  BY ApplySteps DEF UndoFile, CredentialInv
<1>2. /\ attempt \in Attempts /\ papers[attempt] \in {"applying", "succeeded"} /\ kept[attempt] # <<>>
      /\ papers[attempt] = "succeeded" => attempt \in unsure
      /\ apply.ok => \A i \in Positions : i > k => Unwritten(i)
      /\ kept[attempt] \in SecretContents
  BY <1>1 DEF CredentialInv, ApplyHolds, CredTypes
<1>3. k \in Positions /\ k \in Nat /\ k - 1 \in 0 .. Len(Files) /\ Positions \subseteq Nat
  BY <1>1, PlanHasFiles DEF UndoFile, UndoFrom
<1>4. UNCHANGED <<papers, attempt, kept, unsure>> /\ s \in MayLeave(attempt, k)
      /\ secret' = [secret EXCEPT ![k] = s] /\ (ok => s = kept[attempt][k])
  BY DEF UndoFile, UndoFrom
<1>5. apply' \in [pc : {"undo"}, at : 0 .. Len(Files), ok : BOOLEAN, tidy : BOOLEAN]
      /\ apply'.pc = "undo" /\ apply'.at = k - 1 /\ apply'.ok = (apply.ok /\ ok)
  <2> DEFINE o == apply.ok /\ ok
  <2>1. apply' = [pc |-> "undo", at |-> k - 1, ok |-> o, tidy |-> apply.tidy]
    BY Zenon DEF UndoFile
  <2>2. o \in BOOLEAN /\ apply.tidy \in BOOLEAN
    BY <1>1
  <2> HIDE DEF o, k
  <2>3. apply' \in [pc : {"undo"}, at : 0 .. Len(Files), ok : BOOLEAN, tidy : BOOLEAN]
        /\ apply'.pc = "undo" /\ apply'.at = k - 1 /\ apply'.ok = o
    BY <1>3, <2>1, <2>2
  <2>4. QED
    BY <2>3 DEF o
<1> HIDE DEF k
<1>6. /\ secret' \in SecretContents
      /\ secret'[k] = s /\ \A i \in Positions : i # k => secret'[i] = secret[i]
      /\ \A i \in Positions : secret'[i] \in Attempts =>
           papers[secret'[i]] \in {"applying", "recovery_required", "succeeded"}
  BY <1>2, <1>3, <1>4, RestoreLeaves
<1>7. CredTypes' /\ OpenIsLast' /\ BackupsClean'
  BY <1>4, <1>5, <1>6, PapersStay DEF ApplyForms
<1>8. NoHalfApplied'
  <2>1. Open # {} \/ Doubtful # {}
    BY <1>2 DEF Open, Doubtful
  <2>2. Open' = Open /\ Doubtful' = Doubtful
    BY <1>4 DEF Open, Attempts, Doubtful
  <2>3. QED
    BY <1>4, <1>6, <2>1, <2>2 DEF NoHalfApplied, Attempts, Positions
<1>9. ApplyHolds'
  <2>1. apply' # BackedUp /\ apply' # Tidying
    BY <1>5 DEF BackedUp, Tidying
  <2>2. ASSUME apply'.ok, NEW i \in Positions, i > apply'.at PROVE Unwritten(i)'
    <3>1. apply.ok /\ ok
      BY <1>5, <2>2
    <3>2. CASE i = k
      BY <1>4, <1>6, <3>1, <3>2 DEF Unwritten
    <3>3. CASE i # k
      <4>1. i > k
        BY <1>3, <1>5, <2>2, <3>3
      <4>2. Unwritten(i)
        BY <1>2, <3>1, <4>1
      <4>3. QED
        BY <1>4, <1>6, <3>3, <4>2 DEF Unwritten
    <3>4. QED
      BY <3>2, <3>3
  <2>3. QED
    BY <1>2, <1>4, <1>5, <2>1, <2>2 DEF ApplyHolds, Attempts, Positions
<1>10. QED
  BY <1>7, <1>8, <1>9 DEF CredentialInv

\* The files as a whole are the backups when each one is.
LEMMA RestoredWhole ==
  ASSUME CredentialInv, apply.pc = "undo", apply.ok, UndoFrom <= 0 PROVE secret = kept[attempt]
<1>1. apply \in [pc : {"undo"}, at : 0 .. Len(Files), ok : BOOLEAN, tidy : BOOLEAN]
  BY ApplySteps DEF CredentialInv
<1>2. \A i \in Positions : i > apply.at
  BY <1>1, PlanHasFiles DEF UndoFrom
<1>3. attempt \in Attempts /\ kept[attempt] # <<>> /\ \A i \in Positions : secret[i] = kept[attempt][i]
  BY <1>2 DEF CredentialInv, ApplyHolds, Unwritten
<1>4. kept[attempt] \in SecretContents /\ secret \in SecretContents
  BY <1>3 DEF CredentialInv, CredTypes
<1>5. QED
  BY <1>3, <1>4 DEF SecretContents

\* The receipt of an undone attempt is written last.
LEMMA UndoneKeeps == ASSUME CredentialInv, WriteUndone PROVE CredentialInv'
<1> DEFINE s == IF apply.ok THEN "rolled_back" ELSE "recovery_required"
<1>1. apply \in [pc : {"undo"}, at : 0 .. Len(Files), ok : BOOLEAN, tidy : BOOLEAN] /\ apply.pc = "undo"
      /\ UndoFrom <= 0
  BY ApplySteps DEF WriteUndone, CredentialInv
<1>2. attempt \in Attempts /\ papers[attempt] \in {"applying", "succeeded"} /\ kept[attempt] # <<>>
  BY <1>1 DEF CredentialInv, ApplyHolds
<1>3. UNCHANGED <<secret, attempt, kept, unsure>> /\ papers' \in {papers, [papers EXCEPT ![attempt] = s]}
  BY DEF WriteUndone, Receipt, MaybeReceipt
<1>4. apply' = Asleep \/ (apply' = Tidying /\ papers' = [papers EXCEPT ![attempt] = "rolled_back"])
  BY DEF WriteUndone, Receipt, Tidying
<1>5. apply' \in ApplyForms
  BY <1>4 DEF ApplyForms
<1>6. CredTypes' /\ OpenIsLast' /\ BackupsClean'
  BY <1>2, <1>3, <1>5, PaperMoves DEF ReceiptNames, CredentialInv, CredTypes
<1>7. ApplyHolds'
  <2>1. CASE apply' = Asleep
    BY <2>1, ApplyRests
  <2>2. CASE apply' = Tidying /\ papers' = [papers EXCEPT ![attempt] = "rolled_back"]
    <3>1. papers'[attempt] = "rolled_back"
      BY <1>2, <2>2 DEF CredentialInv, CredTypes
    <3>2. QED
      BY <1>2, <1>3, <2>2, <3>1 DEF ApplyHolds, Tidying, BackedUp, Attempts
  <2>3. QED
    BY <1>4, <2>1, <2>2
<1>8. NoHalfApplied'
  <2>1. CASE papers' = papers
    BY <1>3, <2>1 DEF CredentialInv, NoHalfApplied, Open, Torn, Attempts, Positions, Doubtful
  <2>2. CASE apply.ok /\ papers' = [papers EXCEPT ![attempt] = "rolled_back"]
    <3>1. secret = kept[attempt]
      BY <1>1, <2>2, RestoredWhole
    <3>2. attempt \in Nat /\ Attempts \subseteq Nat
      BY <1>2, CredentialBounds DEF Attempts
    <3>3. \A i \in Positions : /\ secret[i] = Torn => DoubtBefore(attempt)
                               /\ secret[i] \in Attempts => secret[i] < attempt /\ papers[secret[i]] = "succeeded"
      BY <1>2, <3>1 DEF CredentialInv, BackupsClean
    <3>4. \A a \in Attempts : a # attempt => papers'[a] = papers[a]
      BY <2>2, <3>2 DEF CredentialInv, CredTypes
    <3>5. DoubtBefore(attempt) => Doubtful' # {}
      <4>1. CredTypes /\ attempt <= attempt /\ unsure \subseteq unsure'
        BY <1>3, <3>2 DEF CredentialInv
      <4>2. DoubtBefore(attempt) => \E b \in Doubtful : b < attempt /\ b \in Doubtful'
        BY <1>2, <3>4, <4>1, DoubtsStay
      <4>3. QED
        BY <4>2, Zenon
    <3>6. \A i \in Positions : secret[i] \in Attempts => papers'[secret[i]] = "succeeded"
      <4> SUFFICES ASSUME NEW i \in Positions, NEW v \in Attempts, v = secret[i] PROVE papers'[v] = "succeeded"
        OBVIOUS
      <4>1. v < attempt /\ papers[v] = "succeeded"
        BY <3>3
      <4>2. v # attempt
        BY <3>2, <4>1
      <4>3. QED
        BY <3>4, <4>1, <4>2
    <3>7. /\ \A i \in Positions : secret'[i] = Torn => Doubtful' # {}
          /\ \A i \in Positions : secret'[i] \in Attempts => papers'[secret'[i]] = "succeeded"
      BY <1>3, <3>3, <3>5, <3>6
    <3>8. QED
      BY <3>7 DEF NoHalfApplied, Torn, Attempts, Positions
  <2>3. CASE ~apply.ok /\ papers' = [papers EXCEPT ![attempt] = "recovery_required"]
    <3>1. papers'[attempt] = "recovery_required" /\ \A a \in Attempts : a # attempt => papers'[a] = papers[a]
      BY <1>2, <2>3 DEF CredentialInv, CredTypes
    <3>2. attempt \in Open'
      BY <1>2, <3>1 DEF Open, Attempts
    <3>3. QED
      BY <1>3, <3>1, <3>2 DEF CredentialInv, NoHalfApplied, Torn, Attempts, Positions
  <2>4. QED
    BY <1>3, <2>1, <2>2, <2>3
<1>9. QED
  BY <1>6, <1>7, <1>8 DEF CredentialInv

\* Backups are removed once nothing needs them.
LEMMA TidyKeeps == ASSUME CredentialInv, TidyBackups \/ \E a \in Attempts : RemoveBackups(a) PROVE CredentialInv'
<1>1. UNCHANGED <<secret, attempt, papers, unsure>> /\ apply' \in {Asleep, Recovering}
  BY ApplySteps DEF TidyBackups, RemoveBackups, CredentialInv
<1>2. kept' \in [Attempts -> SecretContents \cup {<<>>}] /\ \A a \in Attempts : kept'[a] \in {kept[a], <<>>}
  BY DEF TidyBackups, RemoveBackups, CredentialInv, CredTypes
<1>3. \A a \in Open : kept'[a] = kept[a]
  <2>1. CASE TidyBackups
    <3>1. attempt \notin Open
      BY <2>1, ApplySteps DEF TidyBackups, CredentialInv, ApplyHolds, Open
    <3>2. QED
      BY <2>1, <3>1 DEF TidyBackups, Open, CredentialInv, CredTypes
  <2>2. CASE \E a \in Attempts : RemoveBackups(a)
    BY <2>2 DEF RemoveBackups, Open, CredentialInv, CredTypes
  <2>3. QED
    BY <2>1, <2>2
<1>4. Open' = Open /\ Doubtful' = Doubtful
  BY <1>1 DEF Open, Attempts, Doubtful
<1>5. CredTypes'
  BY <1>1, <1>2, ApplyRests DEF CredentialInv, CredTypes, Attempts
<1>6. OpenIsLast'
  BY <1>1, <1>2, <1>3, <1>4 DEF CredentialInv, OpenIsLast, Attempts
<1>7. BackupsClean'
  <2> SUFFICES ASSUME NEW a \in Attempts, kept'[a] # <<>>, NEW i \in Positions
               PROVE /\ kept'[a][i] = Torn => DoubtBefore(a)
                     /\ kept'[a][i] \in Attempts => kept'[a][i] < a /\ papers[kept'[a][i]] = "succeeded"
    BY <1>1, <1>4 DEF BackupsClean, Torn, Attempts, Positions, DoubtBefore
  <2>1. kept'[a] = kept[a]
    BY <1>2
  <2>2. QED
    BY <2>1 DEF CredentialInv, BackupsClean
<1>8. NoHalfApplied'
  BY <1>1, <1>4 DEF CredentialInv, NoHalfApplied, Torn, Attempts, Positions
<1>9. QED
  BY <1>1, <1>5, <1>6, <1>7, <1>8, ApplyRests DEF CredentialInv

\* Recovery takes up the last attempt, whose files it is about to restore.
LEMMA BeginRestoreKeeps == ASSUME CredentialInv, NEW a \in Attempts, BeginRestore(a) PROVE CredentialInv'
<1> DEFINE r == [pc |-> "restore", of |-> a, at |-> Len(Files)]
<1>1. a = attempt /\ a \in Open /\ kept[attempt] # <<>> /\ attempt \in Attempts
  BY DEF BeginRestore, CredentialInv, OpenIsLast
<1>2. UNCHANGED <<secret, papers, attempt, kept, unsure>> /\ apply' = r
  BY DEF BeginRestore
<1>3. r \in ApplyForms /\ r.pc = "restore" /\ r.of = attempt /\ r.at = Len(Files)
  BY <1>1, PlanHasFiles DEF ApplyForms
<1> HIDE DEF r
<1>4. CredTypes' /\ OpenIsLast' /\ BackupsClean'
  BY <1>2, <1>3, PapersStay DEF CredentialInv, CredTypes
<1>5. NoHalfApplied'
  BY <1>2 DEF CredentialInv, NoHalfApplied, Open, Torn, Attempts, Positions, Doubtful
<1>6. ApplyHolds'
  <2>1. r # BackedUp /\ r # Tidying
    BY <1>3 DEF BackedUp, Tidying
  <2>2. \A i \in Positions : ~(i > Len(Files))
    BY PlanHasFiles
  <2>3. attempt \in Open'
    BY <1>1, <1>2 DEF Open, Attempts
  <2>4. QED
    BY <1>1, <1>2, <1>3, <2>1, <2>2, <2>3 DEF ApplyHolds, Positions
<1>7. QED
  BY <1>4, <1>5, <1>6 DEF CredentialInv

\* The forms of a restore.
LEMMA RestoreHolds == ASSUME CredentialInv, apply.pc = "restore"
  PROVE /\ apply \in [pc : {"restore"}, of : Attempts, at : 0 .. Len(Files)]
        /\ apply.of = attempt /\ attempt \in Open /\ attempt \in Attempts /\ kept[attempt] # <<>>
        /\ papers[attempt] \in {"applying", "recovery_required"}
        /\ \A i \in Positions : i > apply.at => Unwritten(i)
BY ApplySteps DEF CredentialInv, ApplyHolds, Open

\* One file is restored, or the recovery ends with an error.
LEMMA RestoreFileKeeps ==
  ASSUME CredentialInv, NEW s, NEW ok \in BOOLEAN, PutBackNext(s, ok) PROVE CredentialInv'
<1> DEFINE k == apply.at
           next == [apply EXCEPT !.at = k - 1]
<1>1. /\ apply \in [pc : {"restore"}, of : Attempts, at : 0 .. Len(Files)]
      /\ apply.of = attempt /\ attempt \in Open /\ attempt \in Attempts /\ kept[attempt] # <<>>
      /\ papers[attempt] \in {"applying", "recovery_required"}
      /\ \A i \in Positions : i > k => Unwritten(i)
  BY RestoreHolds DEF PutBackNext
<1>2. k \in Positions /\ k \in Nat /\ k - 1 \in 0 .. Len(Files) /\ Positions \subseteq Nat
  BY <1>1, PlanHasFiles DEF PutBackNext
<1>3. UNCHANGED <<attempt, kept, unsure>> /\ s \in MayLeave(attempt, k)
      /\ secret' = [secret EXCEPT ![k] = s] /\ (ok => s = kept[attempt][k])
  BY <1>1 DEF PutBackNext
<1>4. \/ ok /\ apply' = next /\ papers' = papers
      \/ apply' = Halted /\ papers' \in {papers, [papers EXCEPT ![attempt] = "recovery_required"]}
  BY <1>1 DEF PutBackNext, MaybeReceipt
<1>5. next \in [pc : {"restore"}, of : Attempts, at : 0 .. Len(Files)]
      /\ next.pc = "restore" /\ next.of = attempt /\ next.at = k - 1
  BY <1>1, <1>2
<1> HIDE DEF k, next
<1>6. /\ secret' \in SecretContents
      /\ secret'[k] = s /\ \A i \in Positions : i # k => secret'[i] = secret[i]
      /\ \A i \in Positions : secret'[i] \in Attempts =>
           papers[secret'[i]] \in {"applying", "recovery_required", "succeeded"}
  BY <1>1, <1>2, <1>3, RestoreLeaves
<1>7. apply' \in ApplyForms
  BY <1>4, <1>5 DEF ApplyForms
<1>8. papers' \in {papers, [papers EXCEPT ![attempt] = "recovery_required"]}
  BY <1>4
<1>9. CredTypes' /\ OpenIsLast' /\ BackupsClean'
  BY <1>1, <1>3, <1>6, <1>7, <1>8, PaperMoves DEF ReceiptNames
<1>10. papers'[attempt] \in {"applying", "recovery_required"} /\ \A b \in Attempts : b # attempt => papers'[b] = papers[b]
  BY <1>1, <1>8 DEF CredentialInv, CredTypes
<1>11. attempt \in Open'
  BY <1>1, <1>10 DEF Open, Attempts
<1>12. NoHalfApplied'
  <2>1. ASSUME NEW i \in Positions, secret'[i] \in Attempts
        PROVE papers'[secret'[i]] \in {"applying", "recovery_required", "succeeded"}
    <3>1. CASE secret'[i] = attempt
      BY <1>10, <3>1
    <3>2. CASE secret'[i] # attempt
      BY <1>6, <1>10, <2>1, <3>2
    <3>3. QED
      BY <3>1, <3>2
  <2>2. QED
    BY <1>11, <2>1 DEF NoHalfApplied, Attempts, Positions
<1>13. ApplyHolds'
  <2>1. CASE apply' = Halted
    BY <2>1, ApplyRests
  <2>2. CASE ok /\ apply' = next /\ papers' = papers
    <3>1. next # BackedUp /\ next # Tidying
      BY <1>5 DEF BackedUp, Tidying
    <3>2. ASSUME NEW i \in Positions, i > k - 1 PROVE Unwritten(i)'
      <4>1. CASE i = k
        BY <1>3, <1>6, <2>2, <4>1 DEF Unwritten
      <4>2. CASE i # k
        <5>1. i > k
          BY <1>2, <3>2, <4>2
        <5>2. Unwritten(i)
          BY <1>1, <5>1
        <5>3. QED
          BY <1>3, <1>6, <4>2, <5>2 DEF Unwritten
      <4>3. QED
        BY <4>1, <4>2
    <3>3. QED
      BY <1>1, <1>3, <1>5, <1>11, <2>2, <3>1, <3>2 DEF ApplyHolds, Positions
  <2>3. QED
    BY <1>4, <2>1, <2>2
<1>14. QED
  BY <1>9, <1>12, <1>13 DEF CredentialInv

\* The files as a whole are the backups when each one was restored.
LEMMA RestoredAll == ASSUME CredentialInv, apply.pc = "restore", apply.at = 0 PROVE secret = kept[attempt]
<1>1. \A i \in Positions : i > apply.at
  BY PlanHasFiles
<1>2. attempt \in Attempts /\ kept[attempt] # <<>> /\ \A i \in Positions : secret[i] = kept[attempt][i]
  BY <1>1, RestoreHolds DEF Unwritten
<1>3. kept[attempt] \in SecretContents /\ secret \in SecretContents
  BY <1>2 DEF CredentialInv, CredTypes
<1>4. QED
  BY <1>2, <1>3 DEF SecretContents

\* The receipt of a restored attempt is settled.
LEMMA SettleKeeps == ASSUME CredentialInv, SettleRestored PROVE CredentialInv'
<1>1. /\ apply.of = attempt /\ attempt \in Open /\ attempt \in Attempts /\ kept[attempt] # <<>>
      /\ papers[attempt] \in {"applying", "recovery_required"} /\ secret = kept[attempt]
  BY RestoreHolds, RestoredAll DEF SettleRestored
<1>2. UNCHANGED <<secret, attempt, kept, unsure>> /\ apply' \in {Recovering, Halted}
      /\ papers' \in {papers, [papers EXCEPT ![attempt] = "rolled_back"]}
  BY <1>1 DEF SettleRestored, Receipt, MaybeReceipt, Recovering
<1>3. CredTypes' /\ OpenIsLast' /\ BackupsClean'
  BY <1>1, <1>2, ApplyRests, PaperMoves DEF ReceiptNames, CredentialInv, CredTypes
<1>4. \A b \in Attempts : b # attempt => papers'[b] = papers[b]
  BY <1>1, <1>2 DEF CredentialInv, CredTypes
<1>5. attempt \in Nat /\ Attempts \subseteq Nat
  BY <1>1, CredentialBounds DEF Attempts
<1>6. NoHalfApplied'
  <2>1. \A i \in Positions : /\ secret[i] = Torn => DoubtBefore(attempt)
                             /\ secret[i] \in Attempts => secret[i] < attempt /\ papers[secret[i]] = "succeeded"
    BY <1>1 DEF CredentialInv, BackupsClean
  <2>2. DoubtBefore(attempt) => Doubtful' # {}
    <3>1. CredTypes /\ attempt <= attempt /\ unsure \subseteq unsure'
      BY <1>2, <1>5 DEF CredentialInv
    <3>2. DoubtBefore(attempt) => \E b \in Doubtful : b < attempt /\ b \in Doubtful'
      BY <1>1, <1>4, <3>1, DoubtsStay
    <3>3. QED
      BY <3>2, Zenon
  <2>3. \A i \in Positions : secret[i] \in Attempts => papers'[secret[i]] = "succeeded"
    <3> SUFFICES ASSUME NEW i \in Positions, NEW v \in Attempts, v = secret[i] PROVE papers'[v] = "succeeded"
      OBVIOUS
    <3>1. v < attempt /\ papers[v] = "succeeded"
      BY <2>1
    <3>2. v # attempt
      BY <1>5, <3>1
    <3>3. QED
      BY <1>4, <3>1, <3>2
  <2>4. /\ \A i \in Positions : secret'[i] = Torn => Doubtful' # {}
        /\ \A i \in Positions : secret'[i] \in Attempts => papers'[secret'[i]] = "succeeded"
    BY <1>2, <2>1, <2>2, <2>3
  <2>5. QED
    BY <2>4 DEF NoHalfApplied, Torn, Attempts, Positions
<1>7. QED
  BY <1>2, <1>3, <1>6, ApplyRests DEF CredentialInv

\* The process dies, or the owner edits a file that was provisioned.
LEMMA DeathKeeps == ASSUME CredentialInv, Die \/ \E i \in Positions : OwnerEdits(i) PROVE CredentialInv'
<1>1. UNCHANGED <<papers, attempt, kept, unsure>> /\ apply' \in {Asleep, Halted}
  BY DEF Die, OwnerEdits
<1>2. \/ secret' = secret
      \/ \E k \in Positions : secret' = [secret EXCEPT ![k] = Edited]
      \/ /\ Open # {} \/ Doubtful # {}
         /\ \E k \in Positions : secret' = [secret EXCEPT ![k] = Torn]
  <2>1. CASE Die
    <3>1. ASSUME apply.pc = "write" PROVE attempt \in Open /\ apply.at \in Positions
      BY <3>1, ApplySteps DEF CredentialInv, ApplyHolds, Open
    <3>2. ASSUME apply.pc = "undo", apply.at > 0
          PROVE attempt \in Open \cup Doubtful /\ apply.at \in Positions
      BY <3>2, ApplySteps, PlanHasFiles DEF CredentialInv, ApplyHolds, Open, Doubtful
    <3>3. ASSUME apply.pc = "restore", apply.at > 0 PROVE attempt \in Open /\ apply.at \in Positions
      BY <3>3, RestoreHolds, PlanHasFiles
    <3>4. QED
      BY <2>1, <3>1, <3>2, <3>3 DEF Die
  <2>2. CASE \E i \in Positions : OwnerEdits(i)
    BY <2>2 DEF OwnerEdits
  <2>3. QED
    BY <2>1, <2>2
<1>3. Open' = Open /\ Doubtful' = Doubtful
  BY <1>1 DEF Open, Attempts, Doubtful
<1>4. Edited \notin Attempts /\ Torn \notin Attempts /\ Edited # Torn
  BY CredentialBounds DEF Attempts, Edited, Torn
<1>5. /\ secret' \in SecretContents
      /\ \A i \in Positions : \/ secret'[i] \in {secret[i], Edited}
                              \/ secret'[i] = Torn /\ (Open # {} \/ Doubtful # {})
  BY <1>2 DEF CredentialInv, CredTypes, SecretContents
<1>6. NoHalfApplied'
  <2>1. \A i \in Positions : /\ secret'[i] \in Attempts => papers[secret'[i]] \in {"applying", "recovery_required", "succeeded"}
                             /\ secret'[i] = Torn => Open # {} \/ Doubtful # {}
    BY <1>4, <1>5 DEF CredentialInv, NoHalfApplied
  <2>2. QED
    BY <1>1, <1>3, <2>1 DEF NoHalfApplied, Torn, Attempts, Positions
<1>7. QED
  BY <1>1, <1>5, <1>6, ApplyRests, PapersStay DEF CredentialInv

\* Every step of the domain keeps it.
LEMMA CredentialStep == ASSUME CredentialInv, [CredentialNext]_credVars PROVE CredentialInv'
<1>1. CASE UNCHANGED credVars
  <2>1. UNCHANGED <<secret, attempt, papers, kept, unsure, apply>>
    BY <1>1 DEF credVars
  <2>2. CredTypes' /\ OpenIsLast' /\ BackupsClean'
    BY <2>1, PapersStay DEF CredentialInv, CredTypes
  <2>3. ApplyHolds' /\ NoHalfApplied'
    BY <2>1 DEF CredentialInv, ApplyHolds, NoHalfApplied, Unwritten, Open, Attempts, Positions, Torn, Doubtful
  <2>4. QED
    BY <2>2, <2>3 DEF CredentialInv
<1>2. CASE CredentialNext
  BY <1>2, PlanKeeps, CaptureKeeps, ApplyingKeeps, WriteKeeps, TagKeeps, SucceedKeeps, UndoFileKeeps, UndoneKeeps,
     TidyKeeps, BeginRestoreKeeps, RestoreFileKeeps, SettleKeeps, DeathKeeps DEF CredentialNext
<1>3. QED
  BY <1>1, <1>2

\* A receipt says rolled back only over the files of before.
LEMMA CredentialKeeps == ASSUME CredentialInv, [CredentialNext]_credVars PROVE RollbackRestores
<1> SUFFICES ASSUME CredentialNext, NEW a \in Attempts, papers[a] # "rolled_back", papers'[a] = "rolled_back"
             PROVE secret' = kept[a]
  BY DEF RollbackRestores, credVars
<1>1. WriteUndone \/ SettleRestored
  BY DEF CredentialNext, PlanCredentials, CaptureBackups, WriteApplying, WriteFile, TagFile, Succeed, TidyBackups,
     UndoFile, BeginRecovery, BeginRestore, PutBackNext, RemoveBackups, EndRecovery, Die, OwnerEdits, Receipt,
     MaybeReceipt, CredentialInv, CredTypes
<1>2. CASE WriteUndone
  <2>1. apply.ok /\ a = attempt
    BY <1>2 DEF WriteUndone, Receipt, MaybeReceipt, CredentialInv, CredTypes
  <2>2. secret = kept[attempt]
    BY <1>2, <2>1, RestoredWhole DEF WriteUndone
  <2>3. QED
    BY <1>2, <2>1, <2>2 DEF WriteUndone
<1>3. CASE SettleRestored
  <2>1. apply.of = attempt /\ attempt \in Attempts /\ secret = kept[attempt]
    BY <1>3, RestoreHolds, RestoredAll DEF SettleRestored
  <2>2. a = attempt
    BY <1>3, <2>1 DEF SettleRestored, Receipt, MaybeReceipt, CredentialInv, CredTypes
  <2>3. QED
    BY <1>3, <2>1, <2>2 DEF SettleRestored
<1>4. QED
  BY <1>1, <1>2, <1>3

\* What the invariant says of the properties.
LEMMA CredentialSafe == ASSUME CredentialInv PROVE BackupsKept /\ NoHalfApplied
BY DEF CredentialInv, OpenIsLast, ApplyHolds, BackupsKept

-----------------------------------------------------------------------------
(* RemoteFiles: the path, its backup and what was planned. *)

RemoteSteps == {"none", "prepare", "apply", "verify", "rollback", "succeeded", "canceled", "rolled_back", "rollback_failed"}
Stands(r) ==
  \/ r = Nothing
  \/ r.kind \in {"file", "link"} /\ r = Resource(r.kind, r.value, FALSE)
  \/ r.value # AnyMode /\ r.full \in BOOLEAN /\ r = Resource("dir", r.value, r.full)
Asked(i) == i = Nothing \/ (i.kind \in {"file", "dir", "link"} /\ i = Resource(i.kind, i.value, FALSE))

\* The backup is what the plan saw; a rollback wrote it; a plain path is as it
\* was before or as the operation leaves it, while the owner stays away.
RemoteInv ==
  /\ Stands(rfTarget) /\ Stands(rfBackup) /\ rfMoves \in Nat
  /\ rfWritable \in BOOLEAN /\ rfPinned \in BOOLEAN /\ rfUndo \in BOOLEAN /\ rfStep \in RemoteSteps
  /\ rfStep # "none" => Asked(rfOp.intent) /\ rfOp.after = Digest(rfOp.intent)
  /\ rfStep \in {"apply", "verify", "rollback", "rolled_back", "rollback_failed"} =>
       View(rfOp.intent, rfBackup) = rfOp.before
  /\ rfStep # "none" /\ rfMoves = 0 => rfPinned
  /\ rfStep \in {"none", "prepare", "apply", "verify"} => ~rfUndo
  /\ rfUndo /\ rfMoves = 0 /\ rfStep # "rollback_failed" => Digest(rfTarget) = Digest(rfBackup)
  /\ rfStep = "apply" /\ rfMoves = 0 => View(rfOp.intent, rfTarget) = rfOp.before
  /\ rfStep \in {"verify", "rollback"} /\ ~rfUndo /\ rfMoves = 0 /\ Plain(rfOp.before) /\ Plain(rfOp.after) =>
       View(rfOp.intent, rfTarget) \in {rfOp.before, rfOp.after}
  /\ FilesRollBack

\* Nothing is planned at first.
LEMMA RemoteStart == ASSUME RemoteInit PROVE RemoteInv
<1>1. \A r \in StartsAs : Stands(r)
  BY RemoteShapes DEF Stands
<1>2. QED
  BY <1>1 DEF RemoteInit, RemoteInv, Stands, RemoteSteps, FilesRollBack

\* The kinds of what stands at a path.
LEMMA StandingKinds == ASSUME NEW r, Stands(r)
  PROVE /\ r.kind \in {"absent", "file", "link", "dir"} /\ r.full \in BOOLEAN
        /\ r.kind = "absent" => r = Nothing
        /\ r.kind # "dir" => r.full = FALSE
        /\ r.kind = "dir" => r = Resource("dir", r.value, r.full) /\ r.value # AnyMode
<1>1. CASE r = Nothing
  <2>1. Nothing.kind = "absent" /\ Nothing.full = FALSE
    BY DEF Nothing, Resource
  <2>2. QED
    BY <1>1, <2>1
<1>2. CASE r.kind \in {"file", "link"} /\ r = Resource(r.kind, r.value, FALSE)
  <2>1. r.full = FALSE
    BY <1>2 DEF Resource
  <2>2. QED
    BY <1>2, <2>1
<1>3. CASE r.value # AnyMode /\ r.full \in BOOLEAN /\ r = Resource("dir", r.value, r.full)
  <2>1. r.kind = "dir"
    BY <1>3 DEF Resource
  <2>2. QED
    BY <1>3, <2>1
<1>4. QED
  BY <1>1, <1>2, <1>3 DEF Stands

\* The kinds of what can be asked for.
LEMMA AskedKinds == ASSUME NEW i, Asked(i)
  PROVE /\ i.kind \in {"absent", "file", "link", "dir"} /\ (i.kind = "absent" => i = Nothing)
BY DEF Asked, Resource, Nothing

\* A request that is not refused leaves resources, and what it asked for last;
\* where both are files or nothing, it is refused only by a read-only root.
LEMMA EffectLeaves ==
  ASSUME NEW r, Stands(r), NEW i, Asked(i) \/ Stands(i), rfWritable \in BOOLEAN
  PROVE /\ \A n \in DOMAIN Effect(r, i) : Stands(Effect(r, i)[n])
        /\ Effect(r, i) # <<>> =>
             /\ Len(Effect(r, i)) \in DOMAIN Effect(r, i)
             /\ Stands(i) => Digest(Effect(r, i)[Len(Effect(r, i))]) = Digest(i)
        /\ Plain(r) /\ Plain(i) =>
             /\ rfWritable => Effect(r, i) # <<>>
             /\ \A n \in DOMAIN Effect(r, i) : Digest(Effect(r, i)[n]) = Digest(i)
<1> DEFINE e == Effect(r, i)
           Good(q) == /\ \A n \in DOMAIN q : Stands(q[n])
                      /\ q # <<>> => /\ Len(q) \in DOMAIN q
                                     /\ Stands(i) => Digest(q[Len(q)]) = Digest(i)
                      /\ Plain(r) /\ Plain(i) => /\ rfWritable => q # <<>>
                                                 /\ \A n \in DOMAIN q : Digest(q[n]) = Digest(i)
<1> SUFFICES Good(e)
  OBVIOUS
<1> HIDE DEF e
<1>1. /\ i.kind \in {"absent", "file", "link", "dir"} /\ (i.kind = "absent" => i = Nothing)
      /\ Stands(i) /\ i.kind = "dir" => i.value # AnyMode
  BY AskedKinds, StandingKinds
<1>2. Stands(Nothing) /\ \A v : Stands(Resource("file", v, FALSE)) /\ Stands(Resource("link", v, FALSE))
  BY DEF Stands, Resource
<1>3. /\ Nothing.kind = "absent"
      /\ \A v : Resource("file", v, FALSE).kind = "file" /\ Resource("file", v, FALSE).value = v
      /\ \A v : Resource("link", v, FALSE).kind = "link" /\ Resource("link", v, FALSE).value = v
  BY DEF Nothing, Resource
<1>4. r.kind \in {"absent", "file", "link", "dir"} /\ (r.kind # "dir" => r.full = FALSE) /\ (r.kind = "absent" => r = Nothing)
  BY StandingKinds
<1>5. CASE e = <<>> /\ ~(rfWritable /\ Plain(r) /\ Plain(i))
  BY <1>5
<1>6. CASE rfWritable /\ i.kind = "file"
  <2>1. CASE r.kind \in {"absent", "file"}
    <3>1. e = <<Resource("file", i.value, FALSE)>>
      BY <1>6, <2>1 DEF e, Effect, WritesFile
    <3> DEFINE left == Resource("file", i.value, FALSE)
    <3>2. Digest(left) = Digest(i) /\ Stands(left)
      BY <1>2, <1>3, <1>6 DEF Digest
    <3>3. e = <<left>>
      BY <3>1
    <3> HIDE DEF left
    <3>4. QED
      BY <3>2, <3>3
  <2>2. CASE r.kind \notin {"absent", "file"}
    <3>1. e = <<>> /\ ~Plain(r)
      BY <1>6, <2>2 DEF e, Effect, WritesFile, Plain
    <3>2. QED
      BY <1>5, <3>1
  <2>3. QED
    BY <2>1, <2>2
<1>7. CASE rfWritable /\ i.kind = "link"
  <2>1. CASE ~r.full
    <3>1. e = <<Nothing, Resource("link", i.value, FALSE)>> /\ ~Plain(i)
      BY <1>7, <2>1 DEF e, Effect, WritesSymlink, Removable, Plain
    <3> DEFINE left == Resource("link", i.value, FALSE)
    <3>2. Digest(left) = Digest(i) /\ Stands(left)
      BY <1>2, <1>3, <1>7 DEF Digest
    <3>3. e = <<Nothing, left>> /\ Stands(Nothing) /\ ~Plain(i)
      BY <1>2, <3>1
    <3> HIDE DEF left
    <3>4. QED
      BY <3>2, <3>3
  <2>2. CASE r.full
    <3>1. e = <<>> /\ ~Plain(i)
      BY <1>7, <2>2 DEF e, Effect, WritesSymlink, Removable, Plain
    <3>2. QED
      BY <1>5, <3>1
  <2>3. QED
    BY <2>1, <2>2
<1>8. CASE rfWritable /\ i.kind = "absent"
  <2>1. CASE ~r.full
    <3>1. e = <<Nothing>>
      BY <1>8, <2>1 DEF e, Effect, Removes, Removable
    <3>2. Digest(Nothing) = Digest(i)
      BY <1>1, <1>8
    <3>3. QED
      BY <1>2, <3>1, <3>2
  <2>2. CASE r.full
    <3>1. e = <<>> /\ ~Plain(r)
      BY <1>4, <1>8, <2>2 DEF e, Effect, Removes, Removable, Plain
    <3>2. QED
      BY <1>5, <3>1
  <2>3. QED
    BY <2>1, <2>2
<1>9. CASE rfWritable /\ i.kind = "dir"
  <2> DEFINE made == IF r.kind = "dir" THEN r ELSE Resource("dir", NewMode, FALSE)
             done == IF i.value = AnyMode THEN made ELSE [made EXCEPT !.value = i.value]
  <2>1. e = IF r.kind \in {"dir", "absent"} THEN <<made, done>> ELSE <<Nothing, made, done>>
    BY <1>9 DEF e, Effect, WritesDirectory
  <2>2. \E full \in BOOLEAN : \E v : v # AnyMode /\ made = Resource("dir", v, full)
    <3>1. NewMode # AnyMode
      BY DEF NewMode, AnyMode
    <3>2. CASE r.kind = "dir"
      BY <3>2, StandingKinds
    <3>3. CASE r.kind # "dir"
      BY <3>1, <3>3
    <3>4. QED
      BY <3>2, <3>3
  <2>3. PICK full \in BOOLEAN : \E v : v # AnyMode /\ made = Resource("dir", v, full)
    BY <2>2
  <2>4. Stands(made)
    BY <2>3 DEF Stands, Resource
  <2> HIDE DEF made
  <2>5. \E w : w # AnyMode /\ done = Resource("dir", w, full) /\ (i.value # AnyMode => w = i.value)
    <3>1. PICK v : v # AnyMode /\ made = Resource("dir", v, full)
      BY <2>3
    <3>2. CASE i.value = AnyMode
      BY <3>1, <3>2
    <3>3. CASE i.value # AnyMode
      <4>1. done = Resource("dir", i.value, full)
        BY <3>1, <3>3 DEF Resource
      <4>2. QED
        BY <3>3, <4>1
    <3>4. QED
      BY <3>2, <3>3
  <2>6. PICK w : w # AnyMode /\ done = Resource("dir", w, full) /\ (i.value # AnyMode => w = i.value)
    BY <2>5
  <2>7. Stands(done)
    BY <2>6 DEF Stands, Resource
  <2>8. Stands(i) => Digest(done) = Digest(i)
    BY <1>1, <1>9, <2>6 DEF Digest, Resource
  <2>9. ~Plain(i)
    BY <1>9 DEF Plain
  <2> HIDE DEF done
  <2>10. CASE e = <<made, done>>
    BY <2>4, <2>7, <2>8, <2>9, <2>10
  <2>11. CASE e = <<Nothing, made, done>>
    BY <1>2, <2>4, <2>7, <2>8, <2>9, <2>11
  <2>12. QED
    BY <2>1, <2>10, <2>11
<1>10. ~rfWritable => e = <<>>
  BY DEF e, Effect
<1>11. Good(e)
  BY <1>1, <1>5, <1>6, <1>7, <1>8, <1>9, <1>10
<1>12. QED
  BY <1>11

\* A path that is nothing, a file or a link is compared as it is.
LEMMA ViewIsDigest == ASSUME NEW i, NEW r, NEW s
  PROVE /\ i.kind # "dir" => View(i, r) = Digest(r)
        /\ Digest(r) = Digest(s) => View(i, r) = View(i, s)
BY DEF View, Digest

\* Planning and preparing only record.
LEMMA PrepareKeeps ==
  ASSUME RemoteInv, PrepareRemote \/ \E i \in RemoteIntents : PlanRemote(i) PROVE RemoteInv'
<1>1. CASE PrepareRemote
  BY <1>1 DEF PrepareRemote, RemoteInv, RemoteSteps, FilesRollBack, View, Digest, Reachable, Plain
<1>2. ASSUME NEW i \in RemoteIntents, PlanRemote(i) PROVE RemoteInv'
  <2>1. Asked(i) /\ Stands(Nothing)
    BY RemoteShapes DEF Asked, Stands
  <2>2. rfOp'.intent = i /\ rfOp'.after = Digest(i) /\ rfStep' = "prepare" /\ rfBackup' = Nothing /\ rfUndo' = FALSE
        /\ rfMoves' = 0 /\ rfPinned' /\ UNCHANGED <<rfTarget, rfWritable, rfPinned>>
    BY <1>2 DEF PlanRemote, Reachable
  <2>3. QED
    BY <2>1, <2>2 DEF RemoteInv, RemoteSteps, FilesRollBack, Digest
<1>3. QED
  BY <1>1, <1>2

\* The owner's changes count.
LEMMA OwnerKeeps == ASSUME RemoteInv, NEW r \in StartsAs, TargetOwnerMoves(r) PROVE RemoteInv'
<1>1. rfMoves' \in Nat /\ rfMoves' # 0 /\ UNCHANGED <<rfOp, rfBackup, rfStep, rfUndo>>
  BY DEF TargetOwnerMoves, RemoteInv
<1>2. Stands(rfTarget')
  <2>1. Stands(r)
    BY RemoteShapes DEF Stands
  <2>2. ASSUME rfTarget.kind = "dir", rfTarget' = [rfTarget EXCEPT !.full = ~rfTarget.full] PROVE Stands(rfTarget')
    <3>1. rfTarget = Resource("dir", rfTarget.value, rfTarget.full) /\ rfTarget.value # AnyMode /\ rfTarget.full \in BOOLEAN
      BY <2>2, StandingKinds DEF RemoteInv
    <3>2. PICK b \in BOOLEAN : b = ~rfTarget.full
      BY <3>1
    <3>3. rfTarget' = [rfTarget EXCEPT !.full = b]
      BY <2>2, <3>2
    <3>4. rfTarget' = Resource("dir", rfTarget.value, b)
      BY <3>1, <3>3 DEF Resource
    <3>5. QED
      BY <3>1, <3>4 DEF Stands, Resource
  <2>3. QED
    BY <2>1, <2>2 DEF TargetOwnerMoves, RemoteInv
<1>3. rfWritable' \in BOOLEAN /\ rfPinned' \in BOOLEAN
  BY DEF TargetOwnerMoves, RemoteInv
<1>4. QED
  BY <1>1, <1>2, <1>3 DEF RemoteInv, FilesRollBack, View, Digest

\* An apply leaves the path as before, or as the operation leaves it, if both are plain.
LEMMA ApplyKeeps == ASSUME RemoteInv, ApplyRemote PROVE RemoteInv'
<1> DEFINE e == IF Reachable THEN Effect(rfTarget, rfOp.intent) ELSE <<>>
<1>1. /\ rfStep = "apply" /\ rfUndo = FALSE /\ Stands(rfTarget) /\ Asked(rfOp.intent) /\ rfWritable \in BOOLEAN
      /\ rfOp.after = Digest(rfOp.intent) /\ View(rfOp.intent, rfBackup) = rfOp.before
  BY DEF ApplyRemote, RemoteInv
<1>2. UNCHANGED <<rfWritable, rfPinned, rfOp, rfBackup, rfUndo, rfMoves>> /\ rfStep' \in {"verify", "rollback"}
  BY DEF ApplyRemote
<1>3. /\ \A n \in DOMAIN e : Stands(e[n])
      /\ e # <<>> => Len(e) \in DOMAIN e
      /\ Plain(rfTarget) /\ Plain(rfOp.intent) => \A n \in DOMAIN e : Digest(e[n]) = Digest(rfOp.intent)
  <2>1. CASE Reachable
    BY <1>1, <2>1, EffectLeaves
  <2>2. CASE ~Reachable
    BY <2>2
  <2>3. QED
    BY <2>1, <2>2
<1>4. \/ rfTarget' = rfTarget
      \/ \E n \in DOMAIN e : rfTarget' = e[n]
  BY <1>3 DEF ApplyRemote
<1> HIDE DEF e
<1>5. Stands(rfTarget')
  BY <1>1, <1>3, <1>4
<1>6. ASSUME rfMoves = 0, Plain(rfOp.before), Plain(rfOp.after)
      PROVE View(rfOp.intent, rfTarget') \in {rfOp.before, rfOp.after}
  <2>1. View(rfOp.intent, rfTarget) = rfOp.before
    BY <1>1, <1>6 DEF RemoteInv
  <2>2. Plain(rfTarget) /\ Plain(rfOp.intent) /\ rfOp.intent.kind # "dir"
    BY <1>1, <1>6, <2>1 DEF Plain, View, Digest
  <2>3. CASE rfTarget' = rfTarget
    BY <2>1, <2>3
  <2>4. CASE \E n \in DOMAIN e : rfTarget' = e[n]
    <3>1. Digest(rfTarget') = Digest(rfOp.intent)
      BY <1>3, <2>2, <2>4
    <3>2. View(rfOp.intent, rfTarget') = Digest(rfTarget')
      BY <2>2, ViewIsDigest
    <3>3. QED
      BY <1>1, <3>1, <3>2
  <2>5. QED
    BY <1>4, <2>3, <2>4
<1>7. View(rfOp.intent, rfBackup)' = rfOp'.before /\ View(rfOp.intent, rfTarget)' = View(rfOp.intent, rfTarget')
  BY <1>1, <1>2 DEF View
<1>8. QED
  BY <1>1, <1>2, <1>5, <1>6, <1>7 DEF RemoteInv, RemoteSteps, FilesRollBack, Plain, Digest

\* Verifying, or another reason to roll back, changes only the step.
LEMMA VerifyKeeps == ASSUME RemoteInv, VerifyRemote \/ RunFails PROVE RemoteInv'
<1>1. rfStep \in {"apply", "verify"} /\ rfStep' \in {"succeeded", "rollback"} /\ rfUndo = FALSE
      /\ UNCHANGED <<rfTarget, rfWritable, rfPinned, rfOp, rfBackup, rfUndo, rfMoves>>
  BY DEF VerifyRemote, RunFails, RemoteInv
<1>2. QED
  BY <1>1 DEF RemoteInv, RemoteSteps, FilesRollBack, View, Digest, Plain

\* A rollback writes the backup over what the operation left.
LEMMA RollbackKeeps == ASSUME RemoteInv, RollbackRemote PROVE RemoteInv'
<1> DEFINE now == View(rfOp.intent, rfTarget)
           e == Effect(rfTarget, UndoRequest)
<1>1. /\ rfStep = "rollback" /\ rfUndo = FALSE /\ Stands(rfTarget) /\ Stands(rfBackup) /\ rfWritable \in BOOLEAN
      /\ Asked(rfOp.intent) /\ rfOp.after = Digest(rfOp.intent) /\ View(rfOp.intent, rfBackup) = rfOp.before
      /\ UNCHANGED <<rfWritable, rfPinned, rfOp, rfBackup, rfMoves>>
  BY DEF RollbackRemote, RemoteInv
<1>2. /\ \A n \in DOMAIN e : Stands(e[n])
      /\ e # <<>> => Len(e) \in DOMAIN e /\ Digest(e[Len(e)]) = Digest(rfBackup)
      /\ Plain(rfTarget) /\ Plain(rfBackup) /\ rfWritable => e # <<>>
  BY <1>1, EffectLeaves DEF UndoRequest
<1>3. View(rfOp.intent, rfBackup)' = rfOp'.before
  BY <1>1 DEF View
<1>4. \/ /\ rfStep' = "rollback_failed" /\ UNCHANGED <<rfTarget, rfUndo>>
         /\ ~Reachable \/ now \notin {rfOp.before, rfOp.after} \/ (e = <<>> /\ now # rfOp.before)
      \/ rfStep' = "rolled_back" /\ UNCHANGED <<rfTarget, rfUndo>>
      \/ rfStep' = "rollback" /\ rfUndo' = TRUE /\ e # <<>> /\ rfTarget' = e[Len(e)]
      \/ /\ rfStep' = "rollback_failed" /\ rfUndo' = TRUE /\ now = rfOp.after
         /\ rfTarget' = rfTarget \/ \E n \in DOMAIN e : rfTarget' = e[n]
  BY <1>1 DEF RollbackRemote
<1>5. ASSUME rfMoves = 0, rfWritable, rfPinned, Plain(rfOp.before), Plain(rfOp.after)
      PROVE Reachable /\ now \in {rfOp.before, rfOp.after} /\ e # <<>>
  <2>1. now \in {rfOp.before, rfOp.after}
    BY <1>1, <1>5 DEF RemoteInv
  <2>2. Plain(rfTarget) /\ Plain(rfBackup)
    BY <1>1, <1>5, <2>1 DEF View, Plain, Digest
  <2>3. QED
    BY <1>2, <1>5, <2>1, <2>2 DEF Reachable
<1> HIDE DEF e, now
<1>6. CASE rfStep' = "rollback_failed" /\ UNCHANGED <<rfTarget, rfUndo>>
           /\ (~Reachable \/ now \notin {rfOp.before, rfOp.after} \/ (e = <<>> /\ now # rfOp.before))
  <2>1. FilesRollBack'
    BY <1>1, <1>5, <1>6 DEF FilesRollBack, Plain
  <2>2. QED
    BY <1>1, <1>3, <1>6, <2>1 DEF RemoteInv, RemoteSteps, Digest
<1>7. CASE rfStep' = "rolled_back" /\ UNCHANGED <<rfTarget, rfUndo>>
  BY <1>1, <1>3, <1>7 DEF RemoteInv, RemoteSteps, Digest, FilesRollBack
<1>8. CASE rfStep' = "rollback" /\ rfUndo' = TRUE /\ e # <<>> /\ rfTarget' = e[Len(e)]
  <2>1. Stands(rfTarget') /\ Digest(rfTarget') = Digest(rfBackup')
    BY <1>1, <1>2, <1>8
  <2>2. Digest(rfTarget)' = Digest(rfBackup)'
    BY <2>1 DEF Digest
  <2>3. QED
    BY <1>1, <1>3, <1>8, <2>1, <2>2 DEF RemoteInv, RemoteSteps, FilesRollBack, Digest
<1>9. CASE /\ rfStep' = "rollback_failed" /\ rfUndo' = TRUE /\ now = rfOp.after
           /\ rfTarget' = rfTarget \/ \E n \in DOMAIN e : rfTarget' = e[n]
  <2>1. Stands(rfTarget')
    BY <1>1, <1>2, <1>9
  <2>2. ASSUME rfMoves = 0, rfWritable, rfPinned, Plain(rfOp.before), Plain(rfOp.after)
        PROVE View(rfOp.intent, rfTarget') \in {rfOp.before, rfOp.after}
    <3>1. CASE rfTarget' = rfTarget
      BY <1>9, <3>1 DEF now
    <3>2. ASSUME NEW n \in DOMAIN e, rfTarget' = e[n] PROVE View(rfOp.intent, rfTarget') = rfOp.before
      <4>1. Plain(rfTarget) /\ Plain(rfBackup)
        BY <1>1, <1>9, <2>2 DEF View, Plain, Digest, now
      <4>2. n = Len(e)
        BY <1>1, <4>1, <2>2 DEF e, UndoRequest, Effect, Plain, Stands, WritesFile, Removes, Removable, Resource, Nothing
      <4>3. Digest(rfTarget') = Digest(rfBackup)
        BY <1>2, <3>2, <4>2
      <4>4. QED
        BY <1>1, <4>3, ViewIsDigest
    <3>3. QED
      BY <1>9, <3>1, <3>2
  <2>3. FilesRollBack'
    BY <1>1, <1>9, <2>2 DEF FilesRollBack, Plain, View
  <2>4. QED
    BY <1>1, <1>3, <1>9, <2>1, <2>3 DEF RemoteInv, RemoteSteps, Digest
<1>10. QED
  BY <1>4, <1>6, <1>7, <1>8, <1>9

\* The result of a rollback is looked at before it is told.
LEMMA EndKeeps == ASSUME RemoteInv, EndRollback PROVE RemoteInv'
<1>1. rfStep = "rollback" /\ rfUndo /\ UNCHANGED <<rfTarget, rfWritable, rfPinned, rfOp, rfBackup, rfUndo, rfMoves>>
      /\ View(rfOp.intent, rfBackup) = rfOp.before
      /\ rfStep' = IF UndoVerified THEN "rolled_back" ELSE "rollback_failed"
  BY DEF EndRollback, RemoteInv
<1>2. View(rfOp.intent, rfBackup)' = rfOp'.before
  BY <1>1 DEF View
<1>3. ASSUME rfMoves = 0, rfPinned PROVE UndoVerified
  <2>1. Digest(rfTarget) = Digest(rfBackup)
    BY <1>1, <1>3 DEF RemoteInv
  <2>2. View(rfOp.intent, rfTarget) = rfOp.before
    BY <1>1, <2>1, ViewIsDigest
  <2>3. QED
    BY <1>3, <2>2 DEF UndoVerified, Reachable
<1>4. FilesRollBack'
  BY <1>1, <1>3 DEF FilesRollBack
<1>5. rfStep' \in {"rolled_back", "rollback_failed"}
  BY <1>1
<1>6. QED
  BY <1>1, <1>2, <1>4, <1>5 DEF RemoteInv, RemoteSteps, Digest

\* Every step of a run, and of the owner, keeps it.
LEMMA RemoteStep == ASSUME RemoteInv, [RemoteNext]_remoteVars PROVE RemoteInv'
<1>1. CASE UNCHANGED remoteVars
  BY <1>1 DEF remoteVars, RemoteInv, FilesRollBack, View, Digest, Plain
<1>2. QED
  BY <1>1, PrepareKeeps, OwnerKeeps, ApplyKeeps, VerifyKeeps, RollbackKeeps, EndKeeps DEF RemoteNext

\* A run says rolled back only over what it found.
LEMMA RemoteKeeps == ASSUME RemoteInv, [RemoteNext]_remoteVars PROVE RolledBackExactly
<1> SUFFICES ASSUME RemoteNext, rfStep' = "rolled_back", rfStep # "rolled_back"
             PROVE /\ View(rfOp.intent, rfTarget') = rfOp.before
                   /\ rfUndo /\ rfMoves = 0 => Digest(rfTarget') = Digest(rfBackup)
  BY DEF RolledBackExactly, remoteVars
<1>1. RollbackRemote \/ EndRollback
  BY DEF RemoteNext, PlanRemote, PrepareRemote, ApplyRemote, VerifyRemote, RunFails, TargetOwnerMoves
<1>2. CASE RollbackRemote
  BY <1>2 DEF RollbackRemote
<1>3. CASE EndRollback
  BY <1>3 DEF EndRollback, UndoVerified, RemoteInv
<1>4. QED
  BY <1>1, <1>2, <1>3

\* What the invariant says of the properties.
LEMMA RemoteSafe == ASSUME RemoteInv PROVE PreimageKept /\ FilesRollBack
BY DEF RemoteInv, RemoteSteps, PreimageKept

-----------------------------------------------------------------------------
(* LocalFiles: the path, the backup and the writes to be made. *)

FileSteps == {"none", "planned", "prepared", "applying", "applied", "undo", "undoing"} \cup RunEnds
OnDisk(e) ==
  \/ e = NoEntry
  \/ e.kind \in {"file", "link"} /\ e = Entry(e.kind, e.value, e.mode, FALSE)
  \/ e.full \in BOOLEAN /\ e.mode # AnyFileMode /\ e = Entry("dir", "-", e.mode, e.full)

\* There are three writes at most.
FewWrites(s) == s = <<>> \/ (\E a : s = <<a>>) \/ (\E a, b : s = <<a, b>>) \/ (\E a, b, c : s = <<a, b, c>>)
\* What the writes leave in the end.
Leaves(e, s) == IF s = <<>> THEN e ELSE s[Len(s)]
PutBack(e) ==
  \/ e.full
  \/ /\ e.kind = lfOp.found.kind /\ e.value = lfOp.found.value
     /\ lfOp.intent.legacy \/ e.mode = lfOp.found.mode
Recognised(e) == Projected(lfOp.intent, e) \in {lfOp.before, lfOp.after}

FileTypes ==
  /\ OnDisk(lfTarget) /\ FewWrites(lfTodo) /\ \A n \in DOMAIN lfTodo : OnDisk(lfTodo[n])
  /\ lfAt \in FileSteps /\ lfMoves \in Nat
  /\ lfMine \in BOOLEAN /\ lfLost \in BOOLEAN /\ lfRaced \in BOOLEAN /\ lfKilled \in BOOLEAN
  /\ lfOp = [intent |-> lfOp.intent, before |-> lfOp.before, after |-> lfOp.after, found |-> lfOp.found]
  /\ lfAt \in {"none", "planned", "prepared"} => lfTodo = <<>>
  /\ lfAt # "none" =>
       /\ lfOp.intent.kind \in {"file", "dir", "link", "removal"} /\ lfOp.intent.legacy \in BOOLEAN
       /\ lfOp.after = Desired(lfOp.intent)

\* The backup is the preimage, without its entries.
BackupIs ==
  lfAt \in {"prepared", "applying", "applied", "undo", "undoing"} =>
    /\ OnDisk(lfOp.found) /\ lfBackup = Entry(lfOp.found.kind, lfOp.found.value, lfOp.found.mode, FALSE)
    /\ Projected(lfOp.intent, lfOp.found) = lfOp.before

\* The writes of a rollback lead to the preimage.
LeadsBack == lfAt \in {"undoing", "rolled_back"} /\ ~lfRaced => PutBack(Leaves(lfTarget, lfTodo)) /\ (lfAt = "rolled_back" => lfTodo = <<>>)

\* The first write fails on a directory with entries, or is the only one and keeps them.
Spares(s) == s[1] = NoEntry \/ (s[1].kind = "dir" /\ s[1].full /\ Len(s) = 1)

\* The owner's work is told apart, or has entries that the next write spares.
MineApart ==
  /\ lfAt \notin RunEnds /\ ~lfRaced /\ lfMine =>
       /\ lfTarget.kind # "absent" /\ (lfTarget.full \/ ~Recognised(lfTarget))
       /\ lfAt \in {"applying", "undoing"} =>
            /\ lfTarget.full
            /\ lfTodo # <<>> => Spares(lfTodo)
  /\ OwnerWorkKept

\* Without the owner, a file is always the one of before or of after.
FileIsKnown ==
  /\ lfMoves = 0 /\ lfAt \notin RunEnds \cup {"none"} /\ lfOp.intent.kind = "file" /\ lfOp.before.kind \in {"absent", "file"}
  => Recognised(lfTarget) /\ \A n \in DOMAIN lfTodo : Recognised(lfTodo[n])

FilesInv == FileTypes /\ BackupIs /\ LeadsBack /\ MineApart /\ FileIsKnown

\* The first write is made, the others are left.
LEMMA FirstAndRest == ASSUME NEW s, FewWrites(s), s # <<>>
  PROVE /\ Head(s) = s[1] /\ 1 \in DOMAIN s /\ FewWrites(Tail(s))
        /\ \A n \in DOMAIN Tail(s) : n + 1 \in DOMAIN s /\ Tail(s)[n] = s[n + 1]
        /\ Leaves(Head(s), Tail(s)) = s[Len(s)]
<1> DEFINE t == Tail(s)
           Goal == /\ Head(s) = s[1] /\ 1 \in DOMAIN s /\ FewWrites(t)
                   /\ \A n \in DOMAIN t : n + 1 \in DOMAIN s /\ t[n] = s[n + 1]
                   /\ Leaves(Head(s), t) = s[Len(s)]
<1> SUFFICES Goal
  OBVIOUS
<1>1. ASSUME NEW a, s = <<a>> PROVE Goal
  <2>1. Head(s) = a /\ t = <<>> /\ s[1] = a /\ Len(s) = 1 /\ DOMAIN s = {1}
    BY <1>1
  <2> HIDE DEF t
  <2>2. DOMAIN t = {}
    BY <2>1
  <2>3. QED
    BY <2>1, <2>2 DEF FewWrites, Leaves
<1>2. ASSUME NEW a, NEW b, s = <<a, b>> PROVE Goal
  <2>1. Head(s) = a /\ t = <<b>> /\ s[1] = a /\ s[2] = b /\ Len(s) = 2 /\ DOMAIN s = {1, 2}
    BY <1>2
  <2> HIDE DEF t
  <2>2. DOMAIN t = {1} /\ t[1] = b /\ Len(t) = 1 /\ t # <<>>
    BY <2>1
  <2>3. FewWrites(t)
    BY <2>1 DEF FewWrites
  <2>4. QED
    BY <2>1, <2>2, <2>3 DEF Leaves
<1>3. ASSUME NEW a, NEW b, NEW c, s = <<a, b, c>> PROVE Goal
  <2>1. Head(s) = a /\ t = <<b, c>> /\ s[1] = a /\ s[2] = b /\ s[3] = c /\ Len(s) = 3 /\ DOMAIN s = {1, 2, 3}
    BY <1>3
  <2> HIDE DEF t
  <2>2. DOMAIN t = {1, 2} /\ t[1] = b /\ t[2] = c /\ Len(t) = 2 /\ t # <<>>
    BY <2>1
  <2>3. FewWrites(t)
    BY <2>1 DEF FewWrites
  <2>4. QED
    BY <2>1, <2>2, <2>3 DEF Leaves
<1>4. QED
  BY <1>1, <1>2, <1>3 DEF FewWrites

\* The kinds of what is at a path.
LEMMA DiskKinds == ASSUME NEW e, OnDisk(e)
  PROVE /\ e.kind \in {"absent", "file", "link", "dir"} /\ e.full \in BOOLEAN
        /\ e.kind = "absent" => e = NoEntry
        /\ e.kind # "dir" => e.full = FALSE
        /\ e.kind = "dir" => e = Entry("dir", "-", e.mode, e.full) /\ e.mode # AnyFileMode /\ e.value = "-"
        /\ e = Entry(e.kind, e.value, e.mode, e.full)
<1>1. CASE e = NoEntry
  <2>1. NoEntry.kind = "absent" /\ NoEntry.full = FALSE /\ NoEntry = Entry(NoEntry.kind, NoEntry.value, NoEntry.mode, NoEntry.full)
    BY DEF NoEntry, Entry
  <2>2. QED
    BY <1>1, <2>1
<1>2. CASE e.kind \in {"file", "link"} /\ e = Entry(e.kind, e.value, e.mode, FALSE)
  <2>1. e.full = FALSE
    BY <1>2 DEF Entry
  <2>2. QED
    BY <1>2, <2>1
<1>3. CASE e.full \in BOOLEAN /\ e.mode # AnyFileMode /\ e = Entry("dir", "-", e.mode, e.full)
  <2>1. e.kind = "dir" /\ e.value = "-"
    BY <1>3 DEF Entry
  <2>2. QED
    BY <1>3, <2>1
<1>4. QED
  BY <1>1, <1>2, <1>3 DEF OnDisk

\* Two writes, one after the other.
LEMMA TwoJoined == ASSUME NEW a, NEW b PROVE <<a>> \o <<b>> = <<a, b>>
<1> DEFINE S == {a, b}
  s == <<a>>
  t == <<b>>
  u == <<a, b>>
<1>1. s \in Seq(S) /\ t \in Seq(S) /\ u \in Seq(S)
  OBVIOUS
<1>2. Len(s) = 1 /\ Len(t) = 1 /\ Len(u) = 2 /\ s[1] = a /\ t[1] = b /\ u[1] = a /\ u[2] = b
  OBVIOUS
<1> HIDE DEF s, t, u, S
<1>3. s \o t \in Seq(S) /\ Len(s \o t) = 2 /\ (s \o t)[1] = a /\ (s \o t)[2] = b
  <2>1. s \o t \in Seq(S) /\ Len(s \o t) = 1 + 1 /\ \A i \in 1 .. 2 : (s \o t)[i] = IF i <= 1 THEN s[i] ELSE t[i - 1]
    BY <1>1, <1>2, ConcatProperties
  <2> DEFINE w == s \o t
  <2> HIDE DEF w
  <2>2. w[1] = s[1] /\ w[2] = t[2 - 1]
    BY <2>1 DEF w
  <2>3. QED
    BY <1>2, <2>1, <2>2 DEF w
<1>5. \A i \in 1 .. Len(u) : (s \o t)[i] = u[i]
  BY <1>2, <1>3
<1>4. s \o t = u
  BY <1>1, <1>2, <1>3, <1>5, SeqEqual
<1>6. QED
  BY <1>4 DEF s, t, u

\* Three writes.
LEMMA ThreeJoined == ASSUME NEW a, NEW b, NEW c PROVE <<a>> \o <<b, c>> = <<a, b, c>>
<1> DEFINE S == {a, b, c}
  s == <<a>>
  t == <<b, c>>
  u == <<a, b, c>>
<1>1. s \in Seq(S) /\ t \in Seq(S) /\ u \in Seq(S)
  OBVIOUS
<1>2. Len(s) = 1 /\ Len(t) = 2 /\ Len(u) = 3 /\ s[1] = a /\ t[1] = b /\ t[2] = c /\ u[1] = a /\ u[2] = b /\ u[3] = c
  OBVIOUS
<1> HIDE DEF s, t, u, S
<1>3. s \o t \in Seq(S) /\ Len(s \o t) = 3 /\ (s \o t)[1] = a /\ (s \o t)[2] = b /\ (s \o t)[3] = c
  <2>1. s \o t \in Seq(S) /\ Len(s \o t) = 1 + 2 /\ \A i \in 1 .. 3 : (s \o t)[i] = IF i <= 1 THEN s[i] ELSE t[i - 1]
    <3>1. /\ s \o t \in Seq(S) /\ Len(s \o t) = Len(s) + Len(t)
          /\ \A i \in 1 .. Len(s) + Len(t) : (s \o t)[i] = IF i <= Len(s) THEN s[i] ELSE t[i - Len(s)]
      BY <1>1, ConcatProperties
    <3>2. Len(s) + Len(t) = 3
      BY <1>2
    <3>3. QED
      BY <1>2, <3>1, <3>2
  <2> DEFINE w == s \o t
  <2> HIDE DEF w
  <2>2. w[1] = s[1] /\ w[2] = t[2 - 1] /\ w[3] = t[3 - 1]
    BY <2>1 DEF w
  <2>3. QED
    BY <1>2, <2>1, <2>2 DEF w
<1>5. \A i \in 1 .. Len(u) : (s \o t)[i] = u[i]
  BY <1>2, <1>3
<1>4. s \o t = u
  BY <1>1, <1>2, <1>3, <1>5, SeqEqual
<1>6. QED
  BY <1>4 DEF s, t, u

\* Writes one after the other.
LEMMA Joined == ASSUME NEW a, NEW b, NEW c
  PROVE /\ <<>> \o (<<a>> \o <<>>) = <<a>> /\ <<>> \o (<<a>> \o <<b>>) = <<a, b>>
        /\ <<a>> \o (<<b>> \o <<>>) = <<a, b>> /\ <<a>> \o (<<b>> \o <<c>>) = <<a, b, c>>
<1>1. <<a>> \o <<>> = <<a>> /\ <<b>> \o <<>> = <<b>>
  OBVIOUS
<1>2. <<>> \o <<a>> = <<a>> /\ <<>> \o <<a, b>> = <<a, b>>
  OBVIOUS
<1>3. <<a>> \o <<b>> = <<a, b>> /\ <<b>> \o <<c>> = <<b, c>>
  BY TwoJoined
<1>4. <<a>> \o <<b, c>> = <<a, b, c>>
  BY ThreeJoined
<1>5. QED
  BY <1>1, <1>2, <1>3, <1>4

\* What is written stands on the disk.
LEMMA WrittenStands ==
  /\ OnDisk(NoEntry)
  /\ \A v, m : OnDisk(Entry("file", v, m, FALSE)) /\ OnDisk(Entry("link", v, m, FALSE))
  /\ \A m : \A f \in BOOLEAN : m # AnyFileMode => OnDisk(Entry("dir", "-", m, f))
<1>1. ASSUME NEW v, NEW m PROVE OnDisk(Entry("file", v, m, FALSE)) /\ OnDisk(Entry("link", v, m, FALSE))
  <2> DEFINE e == Entry("file", v, m, FALSE)
             l == Entry("link", v, m, FALSE)
  <2>1. e.kind = "file" /\ e.value = v /\ e.mode = m /\ l.kind = "link" /\ l.value = v /\ l.mode = m
    BY DEF Entry
  <2>2. e = Entry(e.kind, e.value, e.mode, FALSE) /\ l = Entry(l.kind, l.value, l.mode, FALSE)
    BY <2>1
  <2> HIDE DEF e, l
  <2>3. OnDisk(e) /\ OnDisk(l)
    BY <2>1, <2>2 DEF OnDisk
  <2>4. QED
    BY <2>3 DEF e, l
<1>2. ASSUME NEW m, NEW f \in BOOLEAN, m # AnyFileMode PROVE OnDisk(Entry("dir", "-", m, f))
  <2> DEFINE e == Entry("dir", "-", m, f)
  <2>1. e.mode = m /\ e.full = f
    BY DEF Entry
  <2>2. e = Entry("dir", "-", e.mode, e.full)
    BY <2>1
  <2> HIDE DEF e
  <2>3. OnDisk(e)
    BY <1>2, <2>1, <2>2 DEF OnDisk
  <2>4. QED
    BY <2>3 DEF e
<1>3. QED
  BY <1>1, <1>2 DEF OnDisk

\* Entries of a directory are not compared.
LEMMA ProjectedWhole == ASSUME NEW i, NEW e, OnDisk(e), NEW p, p = Entry(e.kind, e.value, e.mode, FALSE)
  PROVE /\ Projected(i, p) = Projected(i, e) /\ OnDisk(p) /\ Projected(i, e).kind = e.kind
        /\ p.kind = e.kind /\ p.value = e.value /\ p.mode = e.mode /\ p.full = FALSE
<1>1. p.kind = e.kind /\ p.value = e.value /\ p.mode = e.mode /\ p.full = FALSE
  BY DEF Entry
<1>2. OnDisk(p)
  <2>1. CASE e.kind = "dir"
    BY <1>1, <2>1, DiskKinds DEF OnDisk
  <2>2. CASE e.kind # "dir"
    <3>1. e = Entry(e.kind, e.value, e.mode, FALSE)
      BY <2>2, DiskKinds
    <3>2. p = e
      BY <3>1
    <3>3. QED
      BY <3>2
  <2>3. QED
    BY <2>1, <2>2
<1>3. Projected(i, p) = Projected(i, e) /\ Projected(i, e).kind = e.kind
  BY <1>1 DEF Projected, Entry
<1>4. QED
  BY <1>1, <1>2, <1>3

\* Writes are few, stand on the disk, and spare the entries of a directory.
Proper(e, q) ==
  /\ FewWrites(q) /\ \A n \in DOMAIN q : OnDisk(q[n])
  /\ e.full => q # <<>> /\ Spares(q)

\* One write, two writes and three writes.
LEMMA ProperOne == ASSUME NEW e, NEW a, OnDisk(a), e.full => a = NoEntry \/ (a.kind = "dir" /\ a.full)
  PROVE Proper(e, <<a>>) /\ Leaves(e, <<a>>) = a /\ (\A n \in DOMAIN <<a>> : <<a>>[n] = a)
BY DEF Proper, FewWrites, Leaves, Spares

\* Two writes.
LEMMA ProperTwo == ASSUME NEW e, NEW a, NEW b, OnDisk(a), OnDisk(b), e.full => a = NoEntry
  PROVE Proper(e, <<a, b>>) /\ Leaves(e, <<a, b>>) = b
BY DEF Proper, FewWrites, Leaves, Spares

\* Three writes.
LEMMA ProperThree == ASSUME NEW e, NEW a, NEW b, NEW c, OnDisk(a), OnDisk(b), OnDisk(c), e.full => a = NoEntry
  PROVE Proper(e, <<a, b, c>>) /\ Leaves(e, <<a, b, c>>) = c
BY DEF Proper, FewWrites, Leaves, Spares

\* The writes of an apply; a file leaves what is desired.
LEMMA WritesProper ==
  ASSUME NEW e, OnDisk(e), NEW i, i.kind \in {"file", "dir", "link", "removal"}, i.legacy \in BOOLEAN
  PROVE /\ Proper(e, Writes(e, i))
        /\ i.kind = "file" /\ e.kind \in {"absent", "file"} =>
             \A n \in DOMAIN Writes(e, i) : Projected(i, Writes(e, i)[n]) = Desired(i)
<1> DEFINE q == Writes(e, i)
           Good(s) == /\ Proper(e, s)
                      /\ i.kind = "file" /\ e.kind \in {"absent", "file"} =>
                           \A n \in DOMAIN s : Projected(i, s[n]) = Desired(i)
<1> SUFFICES Good(q)
  OBVIOUS
<1> HIDE DEF q
<1>1. e.kind \in {"absent", "file", "link", "dir"} /\ e.full \in BOOLEAN /\ (e.kind # "dir" => e.full = FALSE)
      /\ (e.kind = "dir" => e.mode # AnyFileMode)
  BY DiskKinds
<1>2. CASE i.kind = "file"
  <2> DEFINE m == IF i.legacy \/ i.mode = AnyFileMode THEN PrivateMode ELSE i.mode
             file == Entry("file", i.value, m, FALSE)
  <2>1. q = IF e.kind = "dir" THEN <<NoEntry, file>> ELSE <<file>>
    BY <1>2 DEF q, Writes, ReplaceTarget
  <2>2. OnDisk(file) /\ OnDisk(NoEntry)
    BY WrittenStands
  <2>3. Projected(i, file) = Desired(i)
    <3>1. /\ file.kind = "file" /\ file.value = i.value /\ file.mode = m
          /\ Entry("file", i.value, i.mode, FALSE).kind = "file" /\ Entry("file", i.value, i.mode, FALSE).value = i.value
          /\ Entry("file", i.value, i.mode, FALSE).mode = i.mode
      BY DEF Entry
    <3> HIDE DEF file
    <3>2. Desired(i) = Projected(i, Entry("file", i.value, i.mode, FALSE))
      BY <1>2 DEF Desired
    <3>3. QED
      BY <3>1, <3>2 DEF Projected
  <2> HIDE DEF file
  <2>4. CASE e.kind = "dir"
    BY <2>1, <2>2, <2>4, ProperTwo
  <2>5. CASE e.kind # "dir"
    BY <1>1, <2>1, <2>2, <2>3, <2>5, ProperOne
  <2>6. QED
    BY <2>4, <2>5
<1>3. CASE i.kind = "dir" /\ e.kind = "dir"
  <2> DEFINE made == Entry("dir", "-", IF i.mode = AnyFileMode THEN e.mode ELSE i.mode, e.full)
  <2>1. q = <<made>>
    BY <1>3 DEF q, Writes
  <2>2. OnDisk(made)
    BY <1>1, <1>3, WrittenStands
  <2>3. made.kind = "dir" /\ made.full = e.full
    BY DEF Entry
  <2> HIDE DEF made
  <2>4. QED
    BY <1>3, <2>1, <2>2, <2>3, ProperOne
<1>4. CASE i.kind = "dir" /\ e.kind # "dir"
  <2> DEFINE new == Entry("dir", "-", UmaskMode, FALSE)
             set == Entry("dir", "-", i.mode, FALSE)
  <2>1. q = (IF e.kind = "absent" THEN <<>> ELSE <<NoEntry>>) \o (<<new>> \o IF i.mode = AnyFileMode THEN <<>> ELSE <<set>>)
    BY <1>4 DEF q, Writes, MakesDirectory
  <2>2. OnDisk(new) /\ OnDisk(NoEntry) /\ (i.mode # AnyFileMode => OnDisk(set))
    <3>1. UmaskMode # AnyFileMode
      BY DEF UmaskMode, AnyFileMode
    <3>2. QED
      BY <3>1, WrittenStands
  <2> HIDE DEF new, set
  <2>3. q \in {<<new>>, <<NoEntry, new>>} \/ (i.mode # AnyFileMode /\ q \in {<<new, set>>, <<NoEntry, new, set>>})
    BY <2>1, Joined
  <2>4. e.full = FALSE
    BY <1>1, <1>4
  <2>5. QED
    BY <1>4, <2>2, <2>3, <2>4, ProperOne, ProperTwo, ProperThree
<1>5. CASE i.kind = "link"
  <2> DEFINE link == Entry("link", i.value, "-", FALSE)
  <2>1. q = <<NoEntry, link>> /\ OnDisk(link) /\ OnDisk(NoEntry)
    BY <1>5, WrittenStands DEF q, Writes
  <2> HIDE DEF link
  <2>2. QED
    BY <1>5, <2>1, ProperTwo
<1>6. CASE i.kind = "removal"
  <2>1. q = <<NoEntry>> /\ OnDisk(NoEntry)
    BY <1>6, WrittenStands DEF q, Writes
  <2>2. QED
    BY <1>6, <2>1, ProperOne
<1>7. QED
  BY <1>2, <1>3, <1>4, <1>5, <1>6

\* The writes of a rollback lead to the preimage.
LEMMA RestoresProper ==
  ASSUME NEW e, OnDisk(e), NEW pre, OnDisk(pre), pre.full = FALSE, lfOp.intent.legacy \in BOOLEAN,
         pre.kind = lfOp.found.kind, pre.value = lfOp.found.value, pre.mode = lfOp.found.mode
  PROVE /\ Proper(e, Restores(e, pre)) /\ PutBack(Leaves(e, Restores(e, pre)))
        /\ pre.kind \in {"absent", "file"} /\ e.kind \in {"absent", "file"} =>
             \A n \in DOMAIN Restores(e, pre) : Projected(lfOp.intent, Restores(e, pre)[n]) = Projected(lfOp.intent, pre)
<1> DEFINE q == Restores(e, pre)
           Good(s) == /\ Proper(e, s) /\ PutBack(Leaves(e, s))
                      /\ pre.kind \in {"absent", "file"} /\ e.kind \in {"absent", "file"} =>
                           \A n \in DOMAIN s : Projected(lfOp.intent, s[n]) = Projected(lfOp.intent, pre)
<1> SUFFICES Good(q)
  OBVIOUS
<1> HIDE DEF q
<1>1. /\ e.kind \in {"absent", "file", "link", "dir"} /\ e.full \in BOOLEAN /\ (e.kind # "dir" => e.full = FALSE)
      /\ pre.kind \in {"absent", "file", "link", "dir"} /\ (pre.kind = "absent" => pre = NoEntry)
      /\ (pre.kind = "dir" => pre.mode # AnyFileMode /\ pre.value = "-")
  BY DiskKinds
<1>2. OnDisk(NoEntry)
  BY WrittenStands
<1>3. PutBack(pre)
  BY DEF PutBack
<1>4. CASE pre.kind = "file"
  <2> DEFINE m == IF lfOp.intent.legacy THEN PrivateMode ELSE pre.mode
             file == Entry("file", pre.value, m, FALSE)
  <2>1. q = IF e.kind = "dir" THEN <<NoEntry, file>> ELSE <<file>>
    BY <1>4 DEF q, Restores, ReplaceTarget
  <2>2. OnDisk(file)
    BY WrittenStands
  <2>3. file.kind = "file" /\ file.value = pre.value /\ file.mode = m
    BY DEF Entry
  <2> HIDE DEF file
  <2>4. PutBack(file) /\ Projected(lfOp.intent, file) = Projected(lfOp.intent, pre)
    BY <1>4, <2>3 DEF PutBack, Projected
  <2>5. CASE e.kind = "dir"
    BY <1>2, <2>1, <2>2, <2>4, <2>5, ProperTwo
  <2>6. CASE e.kind # "dir"
    BY <1>1, <2>1, <2>2, <2>4, <2>6, ProperOne
  <2>7. QED
    BY <2>5, <2>6
<1>5. CASE pre.kind # "file" /\ e.full
  <2> DEFINE d == Entry("dir", "-", pre.mode, TRUE)
  <2>1. CASE pre.kind = "dir"
    <3>1. q = <<d>> /\ OnDisk(d) /\ d.kind = "dir" /\ d.full
      BY <1>1, <1>5, <2>1, WrittenStands DEF q, Restores, Entry
    <3> HIDE DEF d
    <3>2. QED
      BY <1>1, <1>5, <3>1, ProperOne DEF PutBack
  <2>2. CASE pre.kind # "dir"
    <3>1. q = <<e>> /\ e.kind = "dir"
      BY <1>1, <1>5, <2>2 DEF q, Restores
    <3>2. QED
      BY <1>1, <1>5, <3>1, ProperOne DEF PutBack
  <2>3. QED
    BY <2>1, <2>2
<1>6. CASE pre.kind = "absent" /\ ~e.full
  <2>1. q = <<NoEntry>> /\ pre = NoEntry
    BY <1>1, <1>6 DEF q, Restores
  <2>2. QED
    BY <1>2, <1>3, <2>1, ProperOne
<1>7. CASE pre.kind = "dir" /\ ~e.full
  <2> DEFINE new == Entry("dir", "-", UmaskMode, FALSE)
             set == Entry("dir", "-", pre.mode, FALSE)
  <2>1. q = <<NoEntry>> \o (<<new>> \o <<set>>)
    BY <1>1, <1>7 DEF q, Restores, MakesDirectory
  <2>2. OnDisk(new) /\ OnDisk(set)
    <3>1. UmaskMode # AnyFileMode
      BY DEF UmaskMode, AnyFileMode
    <3>2. QED
      BY <1>1, <1>7, <3>1, WrittenStands
  <2>3. set.kind = "dir" /\ set.value = "-" /\ set.mode = pre.mode
    BY DEF Entry
  <2> HIDE DEF new, set
  <2>4. PutBack(set)
    BY <1>1, <1>7, <2>3 DEF PutBack
  <2>5. q = <<NoEntry, new, set>>
    BY <2>1, Joined
  <2>6. QED
    BY <1>2, <1>7, <2>2, <2>4, <2>5, ProperThree
<1>8. CASE pre.kind = "link" /\ ~e.full
  <2>1. q = <<NoEntry, pre>>
    BY <1>8 DEF q, Restores
  <2>2. QED
    BY <1>2, <1>3, <1>8, <2>1, ProperTwo
<1>9. QED
  BY <1>1, <1>4, <1>5, <1>6, <1>7, <1>8

\* A path that may be touched is what the constants say.
LEMMA ShapesStand == \A e \in FoundAs \cup OwnerWork : OnDisk(e)
BY FileShapes DEF OnDisk

\* No writes are left.
LEMMA NothingLeft == FewWrites(<<>>) /\ DOMAIN <<>> = {} /\ \A e : Leaves(e, <<>>) = e
BY DEF FewWrites, Leaves

\* The machine before the run.
LEMMA FilesStart == ASSUME FilesInit PROVE FilesInv
<1>1. OnDisk(lfTarget)
  BY ShapesStand DEF FilesInit
<1>2. lfOp = [intent |-> lfOp.intent, before |-> lfOp.before, after |-> lfOp.after, found |-> lfOp.found]
  BY DEF FilesInit, NoFileOp
<1>3. FileTypes
  BY <1>1, <1>2, NothingLeft DEF FilesInit, FileTypes, FileSteps
<1>4. QED
  BY <1>3 DEF FilesInit, FilesInv, BackupIs, LeadsBack, MineApart, FileIsKnown, OwnerWorkKept

\* register_resource_with_provenance.
LEMMA RegisterKeepsFiles == ASSUME FilesInv, NEW intent \in FileIntents, RegisterResource(intent) PROVE FilesInv'
<1> USE DEF FilesInv
<1>1. lfOp'.intent = intent /\ lfOp'.before = Here(intent) /\ lfOp'.after = Desired(intent)
  BY DEF RegisterResource
<1>2. lfOp' = [intent |-> lfOp'.intent, before |-> lfOp'.before, after |-> lfOp'.after, found |-> lfOp'.found]
  BY DEF RegisterResource
<1>3. intent.kind \in {"file", "dir", "link", "removal"} /\ intent.legacy \in BOOLEAN
  BY FileShapes
<1>4. lfAt = "none" /\ lfTodo = <<>> /\ lfAt' = "planned" /\ lfMine' = FALSE
      /\ UNCHANGED <<lfTarget, lfTodo, lfLost, lfRaced, lfKilled, lfMoves>>
  BY DEF RegisterResource, FileTypes
<1>5. FileTypes'
  BY <1>1, <1>2, <1>3, <1>4 DEF FileTypes, FileSteps, Desired, Projected
<1>6. Recognised(lfTarget)'
  BY <1>1, <1>4 DEF Recognised, Here, Projected
<1>7. FileIsKnown'
  BY <1>4, <1>6, NothingLeft DEF FileIsKnown
<1>8. QED
  BY <1>4, <1>5, <1>7 DEF BackupIs, LeadsBack, MineApart, OwnerWorkKept

\* prepare and prepare_semantic.
LEMMA PrepareKeepsFiles == ASSUME FilesInv, PrepareOperation PROVE FilesInv'
<1> USE DEF FilesInv
<1>1. lfAt = "planned" /\ lfTodo = <<>> /\ UNCHANGED <<lfTarget, lfTodo, lfMine, lfLost, lfRaced, lfMoves, lfKilled>>
  BY DEF PrepareOperation, FileTypes, lfOwner
<1>2. CASE lfAt' = "prepared" /\ lfBackup' = Preimage /\ lfOp' = [lfOp EXCEPT !.found = lfTarget] /\ Here(lfOp.intent) = lfOp.before
  <2>1. lfOp'.intent = lfOp.intent /\ lfOp'.before = lfOp.before /\ lfOp'.after = lfOp.after /\ lfOp'.found = lfTarget
    BY <1>2 DEF FileTypes
  <2>2. lfOp' = [intent |-> lfOp'.intent, before |-> lfOp'.before, after |-> lfOp'.after, found |-> lfOp'.found]
    BY <1>2 DEF FileTypes
  <2>3. FileTypes'
    BY <1>1, <1>2, <2>1, <2>2 DEF FileTypes, FileSteps, Desired, Projected
  <2>4. BackupIs'
    BY <1>1, <1>2, <2>1 DEF BackupIs, FileTypes, Preimage, Here, Projected
  <2>5. (Recognised(lfTarget)' <=> Recognised(lfTarget)) /\ lfTodo' = <<>> /\ lfAt \notin RunEnds \cup {"none"}
    BY <1>1, <1>2, <2>1 DEF Recognised, Projected, RunEnds
  <2>6. MineApart'
    BY <1>1, <1>2, <2>5 DEF MineApart, OwnerWorkKept
  <2>7. FileIsKnown'
    BY <1>1, <1>2, <2>1, <2>5 DEF FileIsKnown
  <2>8. QED
    BY <1>2, <2>3, <2>4, <2>6, <2>7 DEF LeadsBack
<1>3. CASE lfAt' = "canceled" /\ UNCHANGED <<lfBackup, lfOp>>
  <2>1. FileTypes'
    BY <1>1, <1>3 DEF FileTypes, FileSteps, RunEnds, Desired, Projected
  <2>2. QED
    BY <1>1, <1>3, <2>1 DEF BackupIs, LeadsBack, MineApart, FileIsKnown, RunEnds, OwnerWorkKept
<1>4. QED
  BY <1>2, <1>3 DEF PrepareOperation

\* apply_bound and apply_semantic.
LEMMA ApplyKeepsFiles == ASSUME FilesInv, ApplyBound PROVE FilesInv'
<1> USE DEF FilesInv
<1>1. lfAt = "prepared" /\ lfTodo = <<>> /\ UNCHANGED <<lfTarget, lfOp, lfBackup, lfMine, lfLost, lfRaced, lfMoves, lfKilled>>
  BY DEF ApplyBound, FileTypes, lfOwner
<1>2. CASE lfAt' = "applying" /\ lfTodo' = Writes(lfTarget, lfOp.intent) /\ Here(lfOp.intent) = lfOp.before
  <2> DEFINE q == Writes(lfTarget, lfOp.intent)
             i == lfOp.intent
  <2>1. /\ OnDisk(lfTarget) /\ i.kind \in {"file", "dir", "link", "removal"} /\ i.legacy \in BOOLEAN
        /\ lfOp.after = Desired(i) /\ lfTarget.full \in BOOLEAN
    BY <1>1, DiskKinds DEF FileTypes
  <2>2. /\ Proper(lfTarget, q)
        /\ i.kind = "file" /\ lfTarget.kind \in {"absent", "file"} =>
             \A n \in DOMAIN q : Projected(i, q[n]) = Desired(i)
    BY <2>1, WritesProper
  <2> HIDE DEF q
  <2>3. lfTodo' = q
    BY <1>2 DEF q
  <2>4. Recognised(lfTarget) /\ Projected(i, lfTarget).kind = lfTarget.kind
    BY <1>2 DEF Recognised, Here, Projected, Entry
  <2>5. FileTypes'
    BY <1>1, <1>2, <2>2, <2>3 DEF FileTypes, FileSteps, Proper, Desired, Projected
  <2>6. BackupIs' /\ LeadsBack'
    BY <1>1, <1>2 DEF BackupIs, LeadsBack, Projected
  <2>7. MineApart'
    <3>1. lfMine /\ ~lfRaced => lfTarget.kind # "absent" /\ lfTarget.full
      BY <1>1, <2>4 DEF MineApart, RunEnds
    <3>2. lfTarget.full => Spares(q)
      BY <2>2 DEF Proper
    <3>3. QED
      BY <1>1, <1>2, <2>3, <3>1, <3>2 DEF MineApart, OwnerWorkKept, Spares
  <2>8. FileIsKnown'
    <3>1. i.kind = "file" /\ lfOp.before.kind \in {"absent", "file"} => \A n \in DOMAIN q : Recognised(q[n])
      BY <1>2, <2>1, <2>2, <2>4 DEF Recognised, Here
    <3>2. QED
      BY <1>1, <2>3, <2>4, <3>1 DEF FileIsKnown, Recognised, Projected
  <2>9. QED
    BY <2>5, <2>6, <2>7, <2>8
<1>3. CASE lfAt' = "undo" /\ UNCHANGED lfTodo
  <2>1. FileTypes'
    BY <1>1, <1>3 DEF FileTypes, FileSteps, Desired, Projected
  <2>2. BackupIs' /\ LeadsBack'
    BY <1>1, <1>3 DEF BackupIs, LeadsBack, Projected
  <2>3. MineApart' /\ FileIsKnown'
    BY <1>1, <1>3 DEF MineApart, FileIsKnown, Recognised, RunEnds, OwnerWorkKept, Projected
  <2>4. QED
    BY <2>1, <2>2, <2>3
<1>4. QED
  BY <1>2, <1>3 DEF ApplyBound, StillBefore

\* One write of an apply or a rollback.
LEMMA WriteKeepsFiles == ASSUME FilesInv, WriteEntry PROVE FilesInv'
<1> USE DEF FilesInv
<1>1. lfAt \in {"applying", "undoing"} /\ UNCHANGED <<lfOp, lfBackup, lfRaced, lfKilled, lfMoves>>
  BY DEF WriteEntry
<1>2. CASE lfTodo = <<>> /\ lfAt' = (IF lfAt = "applying" THEN "applied" ELSE "rolled_back") /\ UNCHANGED <<lfTarget, lfTodo, lfMine, lfLost>>
  <2>1. FileTypes'
    BY <1>1, <1>2 DEF FileTypes, FileSteps, RunEnds, Desired, Projected
  <2>2. BackupIs'
    BY <1>1, <1>2 DEF BackupIs, Projected
  <2>3. LeadsBack'
    BY <1>1, <1>2 DEF LeadsBack, PutBack, Leaves
  <2>4. MineApart' /\ FileIsKnown'
    BY <1>1, <1>2 DEF MineApart, FileIsKnown, Recognised, RunEnds, OwnerWorkKept, Projected
  <2>5. QED
    BY <2>1, <2>2, <2>3, <2>4
<1>3. CASE lfTodo' = <<>> /\ lfAt' = (IF lfAt = "applying" THEN "undo" ELSE "rollback_failed") /\ UNCHANGED <<lfTarget, lfMine, lfLost>>
  <2>1. FileTypes'
    BY <1>1, <1>3, NothingLeft DEF FileTypes, FileSteps, RunEnds, Desired, Projected
  <2>2. BackupIs' /\ LeadsBack'
    BY <1>1, <1>3 DEF BackupIs, LeadsBack, Projected
  <2>3. MineApart'
    BY <1>1, <1>3 DEF MineApart, Recognised, RunEnds, OwnerWorkKept, Projected
  <2>4. FileIsKnown'
    BY <1>1, <1>3, NothingLeft DEF FileIsKnown, Recognised, RunEnds, Projected
  <2>5. QED
    BY <2>1, <2>2, <2>3, <2>4
<1>4. CASE /\ lfTodo # <<>> /\ ~Stuck(Head(lfTodo)) /\ lfTarget' = Head(lfTodo) /\ lfTodo' = Tail(lfTodo)
           /\ lfLost' = (lfLost \/ (lfMine /\ (lfTarget'.kind # lfTarget.kind \/ lfTarget'.value # lfTarget.value)))
           /\ lfMine' = (lfMine /\ lfTarget'.kind = lfTarget.kind /\ lfTarget'.value = lfTarget.value)
           /\ lfAt' = lfAt
  <2>1. /\ Head(lfTodo) = lfTodo[1] /\ 1 \in DOMAIN lfTodo /\ FewWrites(lfTodo')
        /\ \A n \in DOMAIN lfTodo' : n + 1 \in DOMAIN lfTodo /\ lfTodo'[n] = lfTodo[n + 1]
        /\ Leaves(lfTarget', lfTodo') = lfTodo[Len(lfTodo)]
    BY <1>4, FirstAndRest DEF FileTypes
  <2>2. OnDisk(lfTarget') /\ \A n \in DOMAIN lfTodo' : OnDisk(lfTodo'[n])
    BY <1>4, <2>1 DEF FileTypes
  <2>3. FileTypes'
    <3>1. lfMine' \in BOOLEAN /\ lfLost' \in BOOLEAN
      BY <1>4 DEF FileTypes
    <3>2. QED
      BY <1>1, <1>4, <2>1, <2>2, <3>1 DEF FileTypes, Desired, Projected
  <2>4. BackupIs'
    BY <1>1, <1>4 DEF BackupIs, Projected
  <2>5. LeadsBack'
    <3>1. Leaves(lfTarget, lfTodo) = lfTodo[Len(lfTodo)]
      BY <1>4 DEF Leaves
    <3>2. QED
      BY <1>1, <1>4, <2>1, <3>1 DEF LeadsBack, PutBack
  <2>6. MineApart'
    <3>1. CASE lfRaced
      BY <1>1, <3>1 DEF MineApart, OwnerWorkKept
    <3>2. CASE ~lfRaced /\ ~lfMine
      BY <1>1, <1>4, <3>2 DEF MineApart, OwnerWorkKept
    <3>3. CASE ~lfRaced /\ lfMine
      <4>1. lfTarget.full /\ Spares(lfTodo) /\ lfTarget.kind # "absent"
        BY <1>1, <1>4, <3>3 DEF MineApart, RunEnds
      <4>2. lfTarget.kind = "dir" /\ lfTarget.value = "-" /\ lfTarget.full = TRUE
        BY <4>1, DiskKinds DEF FileTypes
      <4>3. NoEntry.kind = "absent" /\ NoEntry.full = FALSE
        BY DEF NoEntry, Entry
      <4>4. lfTodo[1] # NoEntry
        BY <1>4, <2>1, <4>2, <4>3 DEF Stuck
      <4>5. lfTarget'.kind = "dir" /\ lfTarget'.full /\ Len(lfTodo) = 1
        BY <1>4, <2>1, <4>1, <4>4 DEF Spares
      <4>6. lfTarget'.value = "-"
        BY <2>2, <4>5, DiskKinds
      <4>7. lfTodo' = <<>>
        <5>1. lfTodo # <<>> /\ Len(lfTodo) = 1 /\ FewWrites(lfTodo)
          BY <1>4, <4>5 DEF FileTypes
        <5>2. \E a : lfTodo = <<a>>
          BY <5>1 DEF FewWrites
        <5>3. QED
          BY <1>4, <5>2
      <4>8. lfLost' = lfLost
        BY <1>4, <4>2, <4>5, <4>6 DEF FileTypes
      <4>9. QED
        BY <1>1, <1>4, <3>3, <4>5, <4>7, <4>8 DEF MineApart, OwnerWorkKept
    <3>4. QED
      BY <3>1, <3>2, <3>3 DEF FileTypes
  <2>7. FileIsKnown'
    <3> SUFFICES ASSUME lfMoves = 0, lfOp.intent.kind = "file", lfOp.before.kind \in {"absent", "file"}
                 PROVE Recognised(lfTarget') /\ \A n \in DOMAIN lfTodo' : Recognised(lfTodo'[n])
      BY <1>1 DEF FileIsKnown, Recognised, Projected
    <3>1. \A n \in DOMAIN lfTodo : Recognised(lfTodo[n])
      BY <1>1 DEF FileIsKnown, RunEnds
    <3>2. QED
      BY <1>4, <2>1, <3>1
  <2>8. QED
    BY <2>3, <2>4, <2>5, <2>6, <2>7
<1>5. QED
  BY <1>2, <1>3, <1>4 DEF WriteEntry

\* verify and verify_semantic.
LEMMA VerifyKeepsFiles == ASSUME FilesInv, VerifyOperation PROVE FilesInv'
<1> USE DEF FilesInv
<1>1. lfAt = "applied" /\ lfAt' \in {"succeeded", "undo"} /\ UNCHANGED <<lfTarget, lfOp, lfBackup, lfTodo, lfMine, lfLost, lfRaced, lfMoves, lfKilled>>
  BY DEF VerifyOperation, lfOwner
<1>2. FileTypes'
  BY <1>1 DEF FileTypes, FileSteps, RunEnds, Desired, Projected
<1>3. BackupIs' /\ LeadsBack'
  BY <1>1 DEF BackupIs, LeadsBack, Projected
<1>4. MineApart' /\ FileIsKnown'
  BY <1>1 DEF MineApart, FileIsKnown, Recognised, RunEnds, OwnerWorkKept, Projected
<1>5. QED
  BY <1>2, <1>3, <1>4

\* The process is killed.
LEMMA KillKeepsFiles == ASSUME FilesInv, KilledHere PROVE FilesInv'
<1> USE DEF FilesInv
<1>1. /\ lfAt \in {"applying", "applied", "undoing"} /\ lfAt' = "undo" /\ lfTodo' = <<>> /\ lfKilled' = TRUE
      /\ UNCHANGED <<lfTarget, lfOp, lfBackup, lfMine, lfLost, lfRaced, lfMoves>>
  BY DEF KilledHere, lfOwner
<1>2. FileTypes'
  BY <1>1, NothingLeft DEF FileTypes, FileSteps, Desired, Projected
<1>3. BackupIs' /\ LeadsBack'
  BY <1>1 DEF BackupIs, LeadsBack, Projected
<1>4. MineApart'
  BY <1>1 DEF MineApart, Recognised, RunEnds, OwnerWorkKept, Projected
<1>5. FileIsKnown'
  BY <1>1, NothingLeft DEF FileIsKnown, Recognised, RunEnds, Projected
<1>6. QED
  BY <1>2, <1>3, <1>4, <1>5

\* rollback and rollback_semantic.
LEMMA RollbackKeepsFiles == ASSUME FilesInv, RollbackOperation PROVE FilesInv'
<1> USE DEF FilesInv
<1>1. lfAt = "undo" /\ UNCHANGED <<lfTarget, lfOp, lfBackup, lfMine, lfLost, lfRaced, lfMoves, lfKilled>>
  BY DEF RollbackOperation, lfOwner
<1>2. CASE lfAt' = "undoing" /\ lfTodo' = Restores(lfTarget, lfBackup) /\ MayUndo
  <2> DEFINE q == Restores(lfTarget, lfBackup)
             i == lfOp.intent
  <2>1. /\ OnDisk(lfTarget) /\ i.kind \in {"file", "dir", "link", "removal"} /\ i.legacy \in BOOLEAN
        /\ lfOp.after = Desired(i) /\ lfTarget.full \in BOOLEAN
    BY <1>1, DiskKinds DEF FileTypes
  <2>2. /\ OnDisk(lfOp.found) /\ lfBackup = Entry(lfOp.found.kind, lfOp.found.value, lfOp.found.mode, FALSE)
        /\ Projected(i, lfOp.found) = lfOp.before
    BY <1>1 DEF BackupIs
  <2>3. /\ Projected(i, lfBackup) = lfOp.before /\ OnDisk(lfBackup) /\ lfOp.before.kind = lfOp.found.kind
        /\ lfBackup.kind = lfOp.found.kind /\ lfBackup.value = lfOp.found.value /\ lfBackup.mode = lfOp.found.mode /\ lfBackup.full = FALSE
    <3> DEFINE f == lfOp.found
               b == lfBackup
    <3> HIDE DEF f, b, i
    <3>1. OnDisk(f) /\ b = Entry(f.kind, f.value, f.mode, FALSE)
      BY <2>2 DEF f, b
    <3>2. b.kind = f.kind /\ b.value = f.value /\ b.mode = f.mode /\ b.full = FALSE
      BY <3>1 DEF Entry
    <3>3. Projected(i, b) = Projected(i, f) /\ Projected(i, f).kind = f.kind
      BY <3>2 DEF Projected, Entry
    <3>4. OnDisk(b)
      BY <3>1, ProjectedWhole
    <3>5. QED
      BY <2>2, <3>2, <3>3, <3>4 DEF f, b
  <2>4. /\ Proper(lfTarget, q) /\ PutBack(Leaves(lfTarget, q))
        /\ lfBackup.kind \in {"absent", "file"} /\ lfTarget.kind \in {"absent", "file"} =>
             \A n \in DOMAIN q : Projected(i, q[n]) = Projected(i, lfBackup)
    BY <2>1, <2>3, RestoresProper
  <2> HIDE DEF q
  <2>5. lfTodo' = q
    BY <1>2 DEF q
  <2>6. Projected(i, lfTarget).kind = lfTarget.kind
    BY DEF Projected, Entry
  <2>7. FileTypes'
    BY <1>1, <1>2, <2>4, <2>5 DEF FileTypes, FileSteps, Proper, Desired, Projected
  <2>8. BackupIs'
    BY <1>1, <1>2 DEF BackupIs, Projected
  <2>9. LeadsBack'
    BY <1>1, <1>2, <2>4, <2>5 DEF LeadsBack, PutBack
  <2>10. MineApart'
    <3>1. lfMine /\ ~lfRaced => lfTarget.kind # "absent" /\ lfTarget.full
      BY <1>1, <1>2 DEF MineApart, RunEnds, MayUndo, Recognised, Here
    <3>2. lfTarget.full => Spares(q)
      BY <2>4 DEF Proper
    <3>3. QED
      BY <1>1, <1>2, <2>5, <3>1, <3>2 DEF MineApart, OwnerWorkKept, Spares
  <2>11. FileIsKnown'
    <3> SUFFICES ASSUME lfMoves = 0, i.kind = "file", lfOp.before.kind \in {"absent", "file"}
                 PROVE Recognised(lfTarget) /\ \A n \in DOMAIN q : Recognised(q[n])
      BY <1>1, <2>5 DEF FileIsKnown, Recognised, Projected
    <3>1. Recognised(lfTarget)
      BY <1>1 DEF FileIsKnown, RunEnds
    <3>2. Desired(i).kind = "file"
      BY DEF Desired, Projected, Entry
    <3>3. lfTarget.kind \in {"absent", "file"}
      BY <2>1, <2>6, <3>1, <3>2 DEF Recognised
    <3>4. QED
      BY <2>3, <2>4, <3>1, <3>3 DEF Recognised
  <2>12. QED
    BY <2>7, <2>8, <2>9, <2>10, <2>11
<1>3. CASE lfAt' = "rollback_failed" /\ UNCHANGED lfTodo
  <2>1. FileTypes'
    BY <1>1, <1>3 DEF FileTypes, FileSteps, RunEnds, Desired, Projected
  <2>2. QED
    BY <1>1, <1>3, <2>1 DEF BackupIs, LeadsBack, MineApart, FileIsKnown, RunEnds, OwnerWorkKept
<1>4. QED
  BY <1>2, <1>3 DEF RollbackOperation

\* The owner works at the path.
LEMMA MovesKeepFiles == ASSUME FilesInv, NEW e, OnDisk(e), FileMoves(e) PROVE FilesInv'
<1> USE DEF FilesInv
<1>1. /\ lfAt \notin RunEnds /\ lfMoves' = lfMoves + 1 /\ lfTarget' = e
      /\ lfMine' = (/\ lfAt # "none" /\ e.kind # "absent" /\ (e.full \/ Projected(lfOp.intent, e) \notin {lfOp.before, lfOp.after}))
      /\ lfRaced' = (lfRaced \/ lfAt \in {"applying", "undoing"})
      /\ UNCHANGED <<lfOp, lfBackup, lfAt, lfTodo, lfLost, lfKilled>>
  BY DEF FileMoves
<1>2. FileTypes'
  <2>1. lfMine' \in BOOLEAN /\ lfRaced' \in BOOLEAN
    <3>1. e.full \in BOOLEAN
      BY DiskKinds
    <3>2. QED
      BY <1>1, <3>1 DEF FileTypes
  <2>2. OnDisk(lfTarget') /\ lfMoves' \in Nat
    BY <1>1 DEF FileTypes
  <2>3. QED
    BY <1>1, <2>1, <2>2 DEF FileTypes, Desired, Projected
<1>3. BackupIs' /\ LeadsBack'
  BY <1>1 DEF BackupIs, LeadsBack, RunEnds, Projected
<1>4. MineApart'
  BY <1>1 DEF MineApart, OwnerWorkKept, Recognised, RunEnds, Projected
<1>5. FileIsKnown'
  BY <1>1 DEF FileIsKnown, FileTypes
<1>6. QED
  BY <1>2, <1>3, <1>4, <1>5

\* Every step of the run and of the owner.
LEMMA FilesStep == ASSUME FilesInv, [FilesNext]_lfVars PROVE FilesInv'
<1>1. CASE UNCHANGED lfVars
  <2> USE DEF FilesInv
  <2>1. UNCHANGED <<lfTarget, lfOp, lfBackup, lfAt, lfTodo, lfMine, lfLost, lfRaced, lfKilled, lfMoves>>
    BY <1>1 DEF lfVars
  <2>2. FileTypes'
    BY <2>1 DEF FileTypes, Desired, Projected
  <2>3. BackupIs' /\ LeadsBack'
    BY <2>1 DEF BackupIs, LeadsBack, PutBack, Projected
  <2>4. MineApart' /\ FileIsKnown'
    BY <2>1 DEF MineApart, FileIsKnown, OwnerWorkKept, Recognised, Projected
  <2>5. QED
    BY <2>2, <2>3, <2>4
<1>2. CASE \E e \in OwnerWork : FileMoves(e)
  BY <1>2, ShapesStand, MovesKeepFiles
<1>3. CASE lfTarget.kind = "dir" /\ FileMoves(Entry("dir", "-", lfTarget.mode, TRUE))
  <2>1. lfTarget.mode # AnyFileMode
    BY <1>3, DiskKinds DEF FilesInv, FileTypes
  <2>2. OnDisk(Entry("dir", "-", lfTarget.mode, TRUE))
    BY <2>1, WrittenStands
  <2>3. QED
    BY <1>3, <2>2, MovesKeepFiles
<1>4. QED
  BY <1>1, <1>2, <1>3, RegisterKeepsFiles, PrepareKeepsFiles, ApplyKeepsFiles, WriteKeepsFiles, VerifyKeepsFiles,
     RollbackKeepsFiles, KillKeepsFiles DEF FilesNext

\* The run is undone exactly, the owner's work kept, and a killed run recognised.
LEMMA FilesSafe == ASSUME FilesInv PROVE RollbackIsExact /\ OwnerWorkKept /\ KilledIsRecognised
<1>1. RollbackIsExact
  BY DEF FilesInv, LeadsBack, RollbackIsExact, PutBack, Leaves
<1>2. OwnerWorkKept
  BY DEF FilesInv, MineApart
<1>3. KilledIsRecognised
  BY DEF FilesInv, FileIsKnown, KilledIsRecognised, Observation, Recognised, Here, RunEnds
<1>4. QED
  BY <1>1, <1>2, <1>3

-----------------------------------------------------------------------------
(* PackageMutation: the receipt of a package run, and what is read of it.   *)

\* A receipt has these fields.
RunReceipt(r) ==
  r = [plan |-> r.plan, state |-> r.state, phase |-> r.phase,
       evidence |-> r.evidence, transitions |-> r.transitions, id |-> r.id]
IsSequence(s) == \E S : s \in Seq(S)

\* The last entry of a receipt tells its state, its progress and its identity.
Told(r) ==
  /\ RunReceipt(r) /\ IsSequence(r.transitions) /\ r.transitions # <<>>
  /\ LET t == r.transitions[Len(r.transitions)]
     IN  t.state = r.state /\ t.progress = ProgressDigest(r) /\ t.entry = r.id

\* What is read back has the plan of the run and the entries of one receipt.
Mixture(d) ==
  /\ RunReceipt(d) /\ d.plan = pcJournal.plan
  /\ \E r \in pcWritten : d.transitions = r.transitions

ConsentInv ==
  /\ \A r \in pcWritten : Told(r) /\ r.plan = pcJournal.plan
  /\ pcStage \in {"running", "stopped"} => pcJournal \in pcWritten
  /\ pcStage = "planned" => pcWritten = {}
  /\ pcStage = "stopped" => Mixture(pcDisk)

\* An entry is appended at the end.
LEMMA EntryAtTheEnd == ASSUME NEW s, IsSequence(s), NEW t
  PROVE IsSequence(Append(s, t)) /\ Append(s, t) # <<>> /\ Append(s, t)[Len(Append(s, t))] = t
<1> PICK S : s \in Seq(S)
  BY DEF IsSequence
<1> DEFINE u == Append(s, t)
<1>1. s \in Seq(S \cup {t})
  OBVIOUS
<1>2. u \in Seq(S \cup {t}) /\ Len(u) = Len(s) + 1 /\ u[Len(s) + 1] = t /\ Len(s) \in Nat
  BY <1>1
<1> HIDE DEF u
<1>3. u # <<>> /\ u[Len(u)] = t
  BY <1>2
<1>4. QED
  BY <1>2, <1>3 DEF u, IsSequence

\* A receipt with one more entry is told by it.
LEMMA AppendedTold == ASSUME NEW q, RunReceipt(q), IsSequence(q.transitions)
  PROVE Told(Appended(q)) /\ Appended(q).plan = q.plan
<1> DEFINE t == JournalEntry(Len(q.transitions), q.state, LastEntry(q), ProgressDigest(q))
           s == Append(q.transitions, t)
           r == Appended(q)
<1>1. t.state = q.state /\ t.progress = ProgressDigest(q)
  BY DEF JournalEntry
<1>2. IsSequence(s) /\ s # <<>> /\ s[Len(s)] = t
  BY EntryAtTheEnd
<1>3. r = [q EXCEPT !.transitions = s, !.id = t.entry]
  BY DEF Appended
<1> HIDE DEF t, s, r
<1>4. r = [plan |-> q.plan, state |-> q.state, phase |-> q.phase, evidence |-> q.evidence, transitions |-> s, id |-> t.entry]
  BY <1>3 DEF RunReceipt
<1>5. r.plan = q.plan /\ r.state = q.state /\ r.phase = q.phase /\ r.evidence = q.evidence /\ r.transitions = s /\ r.id = t.entry
  BY <1>4
<1>6. RunReceipt(r)
  BY <1>4, <1>5 DEF RunReceipt
<1>7. ProgressDigest(r) = ProgressDigest(q)
  BY <1>5 DEF ProgressDigest
<1>8. Told(r)
  BY <1>1, <1>2, <1>5, <1>6, <1>7 DEF Told
<1>9. QED
  BY <1>5, <1>8 DEF r

\* A receipt that verifies and has the entries of a written one is that one.
LEMMA VerifiedIsWritten == ASSUME ConsentInv, Mixture(pcDisk), VerifyChain(pcDisk) PROVE pcDisk \in pcWritten
<1>1. PICK r \in pcWritten : pcDisk.transitions = r.transitions
  BY DEF Mixture
<1> DEFINE d == pcDisk
           t == r.transitions[Len(r.transitions)]
<1>2. Told(r) /\ r.plan = pcJournal.plan /\ d.plan = pcJournal.plan /\ RunReceipt(d)
  BY DEF ConsentInv, Mixture
<1>3. t.state = r.state /\ t.progress = ProgressDigest(r) /\ t.entry = r.id /\ r.transitions # <<>> /\ RunReceipt(r)
  BY <1>2 DEF Told
<1>4. t.state = d.state /\ t.progress = ProgressDigest(d) /\ t.entry = d.id
  BY <1>1, <1>3 DEF VerifyChain, ProgressFits, LastEntry
<1>5. d.phase = r.phase /\ d.evidence = r.evidence
  BY <1>3, <1>4 DEF ProgressDigest
<1> HIDE DEF d, t
<1>6. d = r
  BY <1>1, <1>2, <1>3, <1>4, <1>5 DEF RunReceipt, d
<1>7. QED
  BY <1>6 DEF d

\* Nothing was written before the run.
LEMMA ConsentStart == ASSUME ConsentInit PROVE ConsentInv
BY DEF ConsentInit, ConsentInv

\* A receipt that is persisted goes with those before it.
LEMMA PersistedKeeps ==
  ASSUME ConsentInv, NEW r, Told(r), pcWritten = {} \/ r.plan = pcJournal.plan, ReceiptPersisted(r),
         pcStage' = "running"
  PROVE ConsentInv'
<1>1. pcJournal' = r /\ pcWritten' = pcWritten \cup {r}
  BY DEF ReceiptPersisted
<1>2. \A q \in pcWritten' : Told(q) /\ q.plan = r.plan
  BY <1>1 DEF ConsentInv
<1>3. QED
  BY <1>1, <1>2 DEF ConsentInv, Told, RunReceipt, IsSequence, ProgressDigest

\* execute_with_package_consent.
LEMMA StartKeepsConsent == ASSUME ConsentInv, StartWithConsent PROVE ConsentInv'
<1> DEFINE e == [resolution |-> pcAdapter, exit |-> "NotRun"]
           q == [plan |-> pcPlan, state |-> "Prepared", phase |-> "none", evidence |-> e, transitions |-> <<>>, id |-> <<>>]
<1>1. pcWritten = {}
  BY DEF StartWithConsent, ConsentInv
<1>2. CASE ReceiptPersisted(Appended(q)) /\ pcStage' = "running"
  <2> HIDE DEF e
  <2>1. q.transitions = <<>> /\ RunReceipt(q)
    BY DEF RunReceipt
  <2> HIDE DEF q
  <2>2. <<>> \in Seq({})
    OBVIOUS
  <2>3. Told(Appended(q))
    BY <2>1, <2>2, AppendedTold DEF IsSequence
  <2>4. QED
    BY <1>1, <1>2, <2>3, PersistedKeeps
<1>3. CASE pcStage' = "refused" /\ UNCHANGED <<pcJournal, pcWritten, pcDisk>>
  BY <1>1, <1>3 DEF ConsentInv
<1>4. QED
  BY <1>2, <1>3 DEF StartWithConsent

\* transition, record_operation and record_package_exit: one more entry.
LEMMA EntryKeepsConsent ==
  ASSUME ConsentInv, pcStage = "running", pcStage' = "running", NEW q, RunReceipt(q), q.plan = pcJournal.plan,
         q.transitions = pcJournal.transitions, ReceiptPersisted(Appended(q))
  PROVE ConsentInv'
<1>1. IsSequence(q.transitions)
  BY DEF ConsentInv, Told
<1>2. Told(Appended(q)) /\ Appended(q).plan = q.plan
  BY <1>1, AppendedTold
<1>3. QED
  BY <1>2, PersistedKeeps

\* A receipt with another state, phase or evidence.
LEMMA FieldsChange == ASSUME NEW j, RunReceipt(j), NEW v
  PROVE \A q \in {[j EXCEPT !.state = v], [j EXCEPT !.phase = v], [j EXCEPT !.evidence = v]} :
           RunReceipt(q) /\ q.plan = j.plan /\ q.transitions = j.transitions
<1>1. ASSUME NEW q, q = [j EXCEPT !.state = v] PROVE RunReceipt(q) /\ q.plan = j.plan /\ q.transitions = j.transitions
  <2>1. q = [plan |-> j.plan, state |-> v, phase |-> j.phase, evidence |-> j.evidence, transitions |-> j.transitions, id |-> j.id]
    BY <1>1 DEF RunReceipt
  <2>2. QED
    BY <2>1 DEF RunReceipt
<1>2. ASSUME NEW q, q = [j EXCEPT !.phase = v] PROVE RunReceipt(q) /\ q.plan = j.plan /\ q.transitions = j.transitions
  <2>1. q = [plan |-> j.plan, state |-> j.state, phase |-> v, evidence |-> j.evidence, transitions |-> j.transitions, id |-> j.id]
    BY <1>2 DEF RunReceipt
  <2>2. QED
    BY <2>1 DEF RunReceipt
<1>3. ASSUME NEW q, q = [j EXCEPT !.evidence = v] PROVE RunReceipt(q) /\ q.plan = j.plan /\ q.transitions = j.transitions
  <2>1. q = [plan |-> j.plan, state |-> j.state, phase |-> j.phase, evidence |-> v, transitions |-> j.transitions, id |-> j.id]
    BY <1>3 DEF RunReceipt
  <2>2. QED
    BY <2>1 DEF RunReceipt
<1>4. QED
  BY <1>1, <1>2, <1>3

\* The run stops, and a mixture is left.
LEMMA StopKeepsConsent == ASSUME ConsentInv, StopRun PROVE ConsentInv'
<1>1. pcStage = "running" /\ pcStage' = "stopped" /\ pcJournal \in pcWritten /\ UNCHANGED <<pcJournal, pcWritten>>
  BY DEF StopRun, ConsentInv
<1>2. PICK other \in pcWritten, parts \in SUBSET {"state", "phase", "evidence", "transitions", "id"} :
        pcDisk' = [f \in DOMAIN pcJournal |-> IF f \in parts THEN other[f] ELSE pcJournal[f]]
  BY DEF StopRun
<1> DEFINE j == pcJournal
           d == pcDisk'
<1>3. RunReceipt(j) /\ RunReceipt(other)
  BY <1>1 DEF ConsentInv, Told
<1>4. DOMAIN j = {"plan", "state", "phase", "evidence", "transitions", "id"}
  BY <1>3 DEF RunReceipt
<1>5. d.plan = j.plan /\ (d.transitions = j.transitions \/ d.transitions = other.transitions)
  <2>1. "plan" \notin parts
    OBVIOUS
  <2>2. d = [f \in {"plan", "state", "phase", "evidence", "transitions", "id"} |-> IF f \in parts THEN other[f] ELSE j[f]]
    BY <1>2, <1>4
  <2> HIDE DEF d, j
  <2>3. QED
    BY <2>1, <2>2
<1>6. RunReceipt(d)
  <2>1. d = [f \in {"plan", "state", "phase", "evidence", "transitions", "id"} |-> IF f \in parts THEN other[f] ELSE j[f]]
    BY <1>2, <1>4
  <2> HIDE DEF d, j
  <2>2. QED
    BY <2>1 DEF RunReceipt
<1>7. Mixture(pcDisk)'
  BY <1>1, <1>5, <1>6 DEF Mixture, RunReceipt
<1>8. QED
  BY <1>1, <1>7 DEF ConsentInv, Told, RunReceipt, IsSequence, ProgressDigest

\* The receipt is read back: what goes on from it was written.
LEMMA AdmitKeepsConsent == ASSUME ConsentInv, AdmitReceipt PROVE ConsentInv'
<1>1. pcStage = "stopped" /\ Mixture(pcDisk)
  BY DEF AdmitReceipt, ConsentInv
<1>2. CASE pcStage' \in {"refused", "undone"} /\ UNCHANGED <<pcJournal, pcWritten, pcDisk>>
  BY <1>2 DEF ConsentInv, Told, RunReceipt, IsSequence, ProgressDigest
<1>3. CASE VerifyChain(pcDisk) /\ pcStage' = "running" /\ ReceiptPersisted(pcDisk)
  <2>1. pcDisk \in pcWritten
    BY <1>1, <1>3, VerifiedIsWritten
  <2>2. Told(pcDisk) /\ pcDisk.plan = pcJournal.plan
    BY <2>1 DEF ConsentInv
  <2>3. QED
    BY <1>3, <2>2, PersistedKeeps
<1>4. CASE VerifyChain(pcDisk) /\ pcStage' = "running" /\ ReceiptPersisted(Appended([pcDisk EXCEPT !.state = "ForwardRecoveryRequired"]))
  <2> DEFINE q == [pcDisk EXCEPT !.state = "ForwardRecoveryRequired"]
  <2>1. pcDisk \in pcWritten
    BY <1>1, <1>4, VerifiedIsWritten
  <2>2. Told(pcDisk) /\ pcDisk.plan = pcJournal.plan
    BY <2>1 DEF ConsentInv
  <2>3. RunReceipt(pcDisk) /\ IsSequence(pcDisk.transitions)
    BY <2>2 DEF Told
  <2>4. RunReceipt(q) /\ q.plan = pcDisk.plan /\ q.transitions = pcDisk.transitions
    BY <2>3, FieldsChange
  <2> HIDE DEF q
  <2>5. Told(Appended(q)) /\ Appended(q).plan = q.plan
    BY <2>3, <2>4, AppendedTold
  <2>6. ReceiptPersisted(Appended(q))
    BY <1>4 DEF q
  <2>7. QED
    BY <1>4, <2>2, <2>4, <2>5, <2>6, PersistedKeeps
<1>5. QED
  BY <1>2, <1>3, <1>4 DEF AdmitReceipt

\* Every step of the run, the user and the planner.
LEMMA ConsentStep == ASSUME ConsentInv, [ConsentNext]_pcVars PROVE ConsentInv'
<1>1. CASE UNCHANGED <<pcJournal, pcWritten, pcDisk, pcStage>>
  BY <1>1 DEF ConsentInv, Mixture, Told, RunReceipt, IsSequence, ProgressDigest
<1>2. CASE pcStage = "running" /\ ConsentNext
  <2>1. RunReceipt(pcJournal) /\ pcJournal \in pcWritten
    BY <1>2 DEF ConsentInv, Told
  <2>2. ASSUME NEW s, TransitionTo(s) PROVE ConsentInv'
    <3> DEFINE q == [pcJournal EXCEPT !.state = s]
    <3>1. RunReceipt(q) /\ q.plan = pcJournal.plan /\ q.transitions = pcJournal.transitions
      BY <2>1, FieldsChange
    <3>2. ReceiptPersisted(Appended(q)) /\ pcStage' = "running"
      BY <1>2, <2>2 DEF TransitionTo
    <3> HIDE DEF q
    <3>3. QED
      BY <1>2, <3>1, <3>2, EntryKeepsConsent
  <2>3. ASSUME NEW p, RecordPhase(p) PROVE ConsentInv'
    <3> DEFINE q == [pcJournal EXCEPT !.phase = p]
    <3>1. RunReceipt(q) /\ q.plan = pcJournal.plan /\ q.transitions = pcJournal.transitions
      BY <2>1, FieldsChange
    <3>2. ReceiptPersisted(Appended(q)) /\ pcStage' = "running"
      BY <1>2, <2>3 DEF RecordPhase
    <3> HIDE DEF q
    <3>3. QED
      BY <1>2, <3>1, <3>2, EntryKeepsConsent
  <2>4. ASSUME NEW x, RecordExit(x) PROVE ConsentInv'
    <3> DEFINE e == [pcJournal.evidence EXCEPT !.exit = x]
               q == [pcJournal EXCEPT !.evidence = e]
    <3>1. RunReceipt(q) /\ q.plan = pcJournal.plan /\ q.transitions = pcJournal.transitions
      BY <2>1, FieldsChange
    <3>2. [pcJournal EXCEPT !.evidence.exit = x] = q
      OBVIOUS
    <3> HIDE DEF q
    <3>3. ReceiptPersisted(Appended(q)) /\ pcStage' = "running"
      BY <1>2, <2>4, <3>2 DEF RecordExit
    <3>4. QED
      BY <1>2, <3>1, <3>3, EntryKeepsConsent
  <2>5. CASE StopRun
    BY <2>5, StopKeepsConsent
  <2>6. CASE GiveConsent \/ StartWithConsent \/ AdmitReceipt \/ \E p \in ConsentPlans, r \in PackageResolutions : Replan(p, r)
    BY <1>2, <2>6 DEF GiveConsent, StartWithConsent, AdmitReceipt, Replan
  <2>7. QED
    BY <1>2, <2>2, <2>3, <2>4, <2>5, <2>6 DEF ConsentNext
<1>3. CASE pcStage # "running" /\ ConsentNext
  <2>1. CASE StartWithConsent
    BY <2>1, StartKeepsConsent
  <2>2. CASE AdmitReceipt
    BY <2>2, AdmitKeepsConsent
  <2>3. CASE GiveConsent \/ \E p \in ConsentPlans, r \in PackageResolutions : Replan(p, r)
    <3>1. UNCHANGED <<pcJournal, pcWritten, pcDisk, pcStage>>
      BY <2>3 DEF GiveConsent, Replan
    <3>2. QED
      BY <1>1, <3>1
  <2>4. QED
    BY <1>3, <2>1, <2>2, <2>3 DEF ConsentNext, StopRun, TransitionTo, RecordPhase, RecordExit
<1>4. CASE UNCHANGED pcVars
  BY <1>1, <1>4 DEF pcVars
<1>5. QED
  BY <1>2, <1>3, <1>4

\* A receipt that is admitted was written.
LEMMA AdmissionKeeps == ASSUME ConsentInv, [ConsentNext]_pcVars PROVE AdmittedWasWritten
<1> SUFFICES ASSUME pcStage = "stopped", pcStage' \in {"running", "undone"} PROVE pcDisk \in pcWritten
  BY DEF AdmittedWasWritten
<1>1. AdmitReceipt
  BY DEF pcVars, ConsentNext, GiveConsent, StartWithConsent, StopRun, TransitionTo, RecordPhase, RecordExit, Replan
<1>2. VerifyChain(pcDisk)
  BY <1>1 DEF AdmitReceipt
<1>3. QED
  BY <1>2, VerifiedIsWritten DEF ConsentInv

\* Recovery starts the manager again only over an untouched target.
LEMMA RecoveryKeeps == ASSUME [PackageNext]_pkgVars PROVE NeverOverPartial
<1> SUFFICES ASSUME pkgPhase' = "converging", pkgPhase # "converging"
             PROVE {p \in Closure(pkgRes) : pkgInstalled[p] # "none"} = pkgRes.before.names
  BY DEF NeverOverPartial
<1>1. RecoverPackage
  BY DEF pkgVars, PackageNext, RegisterPackage, PreparePackage, ApplyPackage, ManagerInstalls, ManagerFails, ManagerSucceeds,
         VerifyPackage, RecordPackageSuccess, ObserveConverged, PackageCrash, PackageOwnerMoves
<1>2. IsBefore(pkgRes)
  BY <1>1 DEF RecoverPackage, ObserveRecovery
<1>3. QED
  BY <1>2 DEF IsBefore, Observed

-----------------------------------------------------------------------------
(* PackageMutation: what a run that is reported done left on the target.    *)

InstalledStates == {"none", "rc", "half", "ok"}
AfterInstall == {"verified"} \cup Finished

\* The whole closure is listed, a node version runs.
ClosureListed ==
  \A p \in Closure(pkgRes) :
    pkgInstalled[p] \in (IF pkgRes.mgr = "apt" THEN {"rc", "half", "ok"} ELSE {"ok"})

PackageInv ==
  /\ pkgInstalled \in [AptPackages \cup {NodeVersion} -> InstalledStates]
  /\ pkgPhase # "none" => pkgRes.mgr \in {"apt", "nvm"}
  /\ pkgPhase \in AfterInstall => ClosureListed

\* Nothing is installed at first.
LEMMA PackageStart == ASSUME PackageInit PROVE PackageInv
BY DEF PackageInit, PackageInv, InstalledStates, AfterInstall, Finished

\* A package of the closure is one of the two managers'.
LEMMA ClosureKnown == ASSUME NEW r PROVE Closure(r) \subseteq AptPackages \cup {NodeVersion}
BY DEF Closure

\* What the second look sees.
LEMMA ListedAfter == ASSUME PackageInv, pkgRes.mgr \in {"apt", "nvm"}, AfterResolution(pkgRes), NvmRuns(pkgRes) PROVE ClosureListed
<1>1. \A p \in Closure(pkgRes) : pkgInstalled[p] \in InstalledStates /\ pkgInstalled[p] # "none"
  BY ClosureKnown DEF PackageInv, AfterResolution, Observed
<1>2. QED
  BY <1>1 DEF ClosureListed, InstalledStates, NvmRuns, Closure

\* What recovery sees.
LEMMA ListedRecovered == ASSUME PackageInv, pkgRes.mgr \in {"apt", "nvm"}, ObserveRecovery(pkgRes) = "after" PROVE ClosureListed
<1>1. AfterResolution(pkgRes) /\ (pkgRes.mgr = "nvm" => NvmRuns(pkgRes))
  BY DEF ObserveRecovery
<1>2. NvmRuns(pkgRes)
  BY <1>1 DEF NvmRuns
<1>3. QED
  BY <1>1, <1>2, ListedAfter

\* PackageMutation: every step of the run, of its recovery and of the owner.
LEMMA PackageStep == ASSUME PackageInv, [PackageNext]_pkgVars PROVE PackageInv'
<1> USE DEF AfterInstall, Finished
<1>1. CASE UNCHANGED <<pkgInstalled, pkgRes, pkgPhase>>
  BY <1>1 DEF PackageInv, ClosureListed, Closure
<1>2. CASE \E mgr \in {"apt", "nvm"}, signed \in BOOLEAN, marker \in BOOLEAN : RegisterPackage(mgr, signed, marker)
  <2>1. pkgRes'.mgr \in {"apt", "nvm"} /\ pkgPhase' = "planned" /\ UNCHANGED pkgInstalled
    BY <1>2 DEF RegisterPackage, pkgTarget
  <2>2. QED
    BY <2>1 DEF PackageInv
<1>3. CASE PreparePackage \/ ApplyPackage \/ ManagerFails \/ ManagerSucceeds \/ PackageCrash
  <2>1. pkgPhase # "none" /\ pkgPhase' \notin AfterInstall /\ UNCHANGED <<pkgInstalled, pkgRes>>
    BY <1>3 DEF PreparePackage, ApplyPackage, ManagerFails, ManagerSucceeds, PackageCrash, pkgTarget, Running
  <2>2. QED
    BY <2>1 DEF PackageInv
<1>4. CASE ManagerInstalls
  <2>1. pkgPhase \in Running /\ UNCHANGED <<pkgPhase, pkgRes>> /\ pkgInstalled' \in InstallSteps(pkgRes)
    BY <1>4 DEF ManagerInstalls
  <2>2. PICK p \in Closure(pkgRes), s \in {"half", "ok"} : pkgInstalled' = [pkgInstalled EXCEPT ![p] = s]
    BY <2>1 DEF InstallSteps
  <2>3. pkgInstalled' \in [AptPackages \cup {NodeVersion} -> InstalledStates]
    BY <2>2, ClosureKnown DEF PackageInv, InstalledStates
  <2>4. QED
    BY <2>1, <2>3 DEF PackageInv, Running
<1>5. CASE VerifyPackage
  <2>1. pkgPhase = "applied" /\ UNCHANGED <<pkgInstalled, pkgRes>>
        /\ (pkgPhase' = "required" \/ (pkgPhase' = "verified" /\ AfterResolution(pkgRes) /\ NvmRuns(pkgRes)))
    BY <1>5 DEF VerifyPackage, pkgTarget
  <2>2. QED
    BY <2>1, ListedAfter DEF PackageInv, ClosureListed, Closure
<1>6. CASE RecordPackageSuccess
  BY <1>6 DEF RecordPackageSuccess, pkgTarget, PackageInv, ClosureListed, Closure
<1>7. CASE RecoverPackage \/ ObserveConverged
  <2>1. pkgPhase # "none" /\ UNCHANGED <<pkgInstalled, pkgRes>>
        /\ (pkgPhase' \in {"converging", "recoveryFailed"} \/ (pkgPhase' = "recovered" /\ ObserveRecovery(pkgRes) = "after"))
    BY <1>7 DEF RecoverPackage, ObserveConverged, pkgTarget
  <2>2. QED
    BY <2>1, ListedRecovered DEF PackageInv, ClosureListed, Closure
<1>8. CASE PackageOwnerMoves
  <2>1. UNCHANGED <<pkgRes, pkgPhase>>
    BY <1>8 DEF PackageOwnerMoves
  <2>2. CASE UNCHANGED pkgInstalled
    BY <1>1, <2>1, <2>2
  <2>3. ASSUME NEW p \in AptPackages, pkgInstalled[p] = "none", pkgInstalled' = [pkgInstalled EXCEPT ![p] = "rc"] PROVE PackageInv'
    <3>1. pkgInstalled' \in [AptPackages \cup {NodeVersion} -> InstalledStates]
      BY <2>3 DEF PackageInv, InstalledStates
    <3>2. ClosureListed => ClosureListed'
      BY <2>1, <2>3, ClosureKnown DEF PackageInv, ClosureListed, Closure
    <3>3. QED
      BY <2>1, <3>1, <3>2 DEF PackageInv
  <2>4. QED
    BY <1>8, <2>2, <2>3 DEF PackageOwnerMoves
<1>9. QED
  BY <1>1, <1>2, <1>3, <1>4, <1>5, <1>6, <1>7, <1>8 DEF PackageNext, pkgVars

\* A run that is reported done left its closure on the target.
LEMMA PackageSafe == ASSUME PackageInv PROVE DoneMeansListed
BY DEF PackageInv, AfterInstall, DoneMeansListed, ClosureListed

\* dpkg or nvm is started under the trust of the resolution.
LEMMA PackageTrusted == ASSUME [PackageNext]_pkgVars PROVE StartedUnderTrust
<1> SUFFICES ASSUME pkgPhase \notin Running, pkgPhase' \in Running
    PROVE /\ pkgLive = pkgRes.manager /\ pkgConfig.manager = pkgRes.manager
          /\ pkgRes.signed => /\ pkgKeyFile = pkgRes.key
                              /\ pkgRes.mgr = "apt" => pkgConfig.meta = pkgRes.meta
  BY DEF StartedUnderTrust
<1>1. PhaseAllowed(pkgRes)
  <2>1. ApplyPackage \/ RecoverPackage
    BY DEF pkgVars, PackageNext, RegisterPackage, PreparePackage, ManagerInstalls, ManagerFails, ManagerSucceeds, VerifyPackage,
           RecordPackageSuccess, ObserveConverged, PackageCrash, PackageOwnerMoves, Running
  <2>2. QED
    BY <2>1 DEF ApplyPackage, RecoverPackage, Running
<1>2. QED
  BY <1>1 DEF PhaseAllowed, ManagerBound, EvidenceValid, AnchorValid

-----------------------------------------------------------------------------
(* PackageMutation: the consent.                                            *)

\* The adapter installs what was consented to.
ConsentedInv ==
  /\ pcStage = "planned" => pcInstalled = {}
  /\ pcStage \in {"running", "stopped"} => pcPlan.resolution = pcConsent.resolution
  /\ pcStage = "running" => pcAdapter = pcConsent.resolution
  /\ InstalledAsConsented

\* Nothing is installed at first.
LEMMA ConsentedStart == ASSUME ConsentInit PROVE ConsentedInv
BY DEF ConsentInit, ConsentedInv, InstalledAsConsented

\* PackageMutation: every step of the run, of its recovery and of the plan.
LEMMA ConsentedStep == ASSUME ConsentedInv, [ConsentNext]_pcVars PROVE ConsentedInv'
<1> USE DEF ConsentedInv, InstalledAsConsented
<1>1. CASE UNCHANGED <<pcPlan, pcConsent, pcAdapter, pcStage, pcInstalled>>
  BY <1>1
<1>2. CASE GiveConsent
  BY <1>2 DEF GiveConsent
<1>3. CASE StartWithConsent
  <2>1. pcStage = "planned" /\ UNCHANGED <<pcPlan, pcConsent, pcAdapter, pcInstalled>>
        /\ (pcStage' = "refused" \/ (pcStage' = "running" /\ ConsentValid(pcPlan) /\ BindingUnchanged(pcPlan)))
    BY <1>3 DEF StartWithConsent
  <2>2. QED
    BY <2>1 DEF ConsentValid, OperationSet, BindingUnchanged
<1>4. CASE StopRun
  BY <1>4 DEF StopRun
<1>5. CASE AdmitReceipt
  <2>1. pcStage = "stopped" /\ UNCHANGED <<pcPlan, pcConsent, pcAdapter, pcInstalled>>
        /\ (pcStage' \in {"refused", "undone"} \/ (pcStage' = "running" /\ BoundToPlan(pcDisk) /\ EvidenceCurrent(pcDisk)))
    BY <1>5 DEF AdmitReceipt
  <2>2. QED
    BY <2>1 DEF BoundToPlan, EvidenceFits, EvidenceCurrent
<1>6. CASE \E p \in ConsentPlans, r \in PackageResolutions : Replan(p, r)
  BY <1>6 DEF Replan
<1>7. ASSUME NEW p, RecordPhase(p) PROVE ConsentedInv'
  BY <1>7 DEF RecordPhase
<1>8. ASSUME NEW s, TransitionTo(s) \/ RecordExit(s) PROVE ConsentedInv'
  BY <1>8 DEF TransitionTo, RecordExit
<1>9. QED
  BY <1>1, <1>2, <1>3, <1>4, <1>5, <1>6, <1>7, <1>8 DEF ConsentNext, pcVars

-----------------------------------------------------------------------------
(* Engram: what a manifest names is there, and what a run moved is shared.  *)

EngramFiles ==
  /\ egChunk \in [Sides -> Manifests]
  /\ egMemory \in [Sides -> SUBSET (ChunkIds \X (Sides \cup {"none"}))]
  /\ egReceipt \in [EngramRuns -> {"none", "unresolved", "resolved"}]

\* The chunks the manifests named that a run has read.
ChunksRead(r) == Names(egRun[r].read[Left]) \cup Names(egRun[r].read[Right])

WritingStages == {"writeleft", "writeright", "importleft", "importright", "done"}
WroteBy(t) == IF t = Left THEN {"writeright", "importleft", "importright", "done"} ELSE {"importleft", "importright", "done"}
LoadedBy(t) == IF t = Left THEN {"importright", "done"} ELSE {"done"}

\* Chunks are there: those a manifest names, those a run has read of, and on both
\* sides from the comparison on.
ChunksThere ==
  /\ ManifestIsBacked
  /\ \A r \in EngramRuns, t \in Sides : \A c \in Names(egRun[r].read[t]) : egChunk[t][c] # "none"
  /\ \A r \in EngramRuns : egRun[r].at \in WritingStages => \A c \in ChunksRead(r), t \in Sides : egChunk[t][c] # "none"

RunActive(r) == egRun[r].at \notin {"new", "ended"}

\* What a run has written and imported, as far as it has come.
RunCarries(r) ==
  /\ egRun[r].at \in WritingStages => \A c \in ChunksRead(r) : egChunk[Left][c] = egChunk[Right][c]
  /\ \A t \in Sides : egRun[r].at \in WroteBy(t) => ChunksRead(r) \subseteq Names(egManifest[t])
  /\ \A t \in Sides : egRun[r].at \in LoadedBy(t) => \A c \in ChunksRead(r) : <<c, egChunk[t][c]>> \in egMemory[t]
  /\ egReceipt[r] = "resolved" => /\ egRun[r].at = "ended"
                                  /\ \A c \in ChunksRead(r) : \E content \in Sides : \A t \in Sides : <<c, content>> \in egMemory[t]

RunsApart == ~ egOverlap =>
  /\ \A q, r \in EngramRuns : RunActive(q) /\ RunActive(r) => q = r
  /\ \A r \in EngramRuns : RunCarries(r)

EngramInv == EngramTypes /\ EngramFiles /\ ChunksThere /\ RunsApart

\* A run has read nothing at first.
LEMMA EngramOpens == ASSUME EngramInit PROVE EngramInv
<1>1. EngramTypes
  BY EngramStart
<1>2. EngramFiles
  BY DEF EngramInit, EngramFiles, Manifests, NoChunks
<1>3. \A r \in EngramRuns : egRun[r].at = "new" /\ ChunksRead(r) = {} /\ \A t \in Sides : Names(egRun[r].read[t]) = {}
  BY DEF EngramInit, ChunksRead, Names, NoChunks, Sides
<1>4. ChunksThere
  BY <1>3 DEF EngramInit, ChunksThere, ManifestIsBacked, Names, NoChunks
<1>5. RunsApart
  BY <1>3 DEF EngramInit, RunsApart, RunActive, RunCarries
<1>6. QED
  BY <1>1, <1>2, <1>4, <1>5 DEF EngramInv

LEMMA TwoSides == Left \in Sides /\ Right \in Sides /\ Left # Right /\ \A t \in Sides : t = Left \/ t = Right
BY DEF Sides, Left, Right

\* What a stage of a run leaves of the runs.
LEMMA RunMoves == ASSUME EngramTypes, NEW r \in EngramRuns, NEW to, egRun' = [egRun EXCEPT ![r].at = to]
  PROVE  /\ egRun'[r].at = to /\ egRun'[r].read = egRun[r].read /\ ChunksRead(r)' = ChunksRead(r)
         /\ \A q \in EngramRuns : q # r => egRun'[q] = egRun[q] /\ ChunksRead(q)' = ChunksRead(q)
<1>1. /\ egRun'[r].at = to /\ egRun'[r].read = egRun[r].read
      /\ \A q \in EngramRuns : q # r => egRun'[q] = egRun[q]
  BY DEF EngramTypes
<1>2. QED
  BY <1>1 DEF ChunksRead

\* The files keep their types.
LEMMA EngramFilesStay == ASSUME EngramTypes, EngramFiles, [EngramNext]_egVars PROVE EngramFiles'
<1> DEFINE Receipts == egReceipt' \in [EngramRuns -> {"none", "unresolved", "resolved"}]
           Memory == egMemory' \in [Sides -> SUBSET (ChunkIds \X (Sides \cup {"none"}))]
           Chunks == egChunk' \in [Sides -> Manifests]
<1>1. (egReceipt' = egReceipt => Receipts) /\ (egMemory' = egMemory => Memory) /\ (egChunk' = egChunk => Chunks)
  BY DEF EngramFiles
<1>2. ASSUME NEW r \in EngramRuns, NEW at, EndsUnresolved(r, at) PROVE Receipts
  BY <1>2 DEF EndsUnresolved, EngramFiles
<1>3. ASSUME NEW t \in Sides, NEW c \in ChunkIds, NEW x \in Sides \cup {"none"}, egChunk' = [egChunk EXCEPT ![t][c] = x] PROVE Chunks
  <2>1. [egChunk[t] EXCEPT ![c] = x] \in Manifests
    BY DEF EngramFiles, Manifests
  <2>2. QED
    BY <1>3, <2>1 DEF EngramFiles
<1>4. ASSUME NEW t \in Sides, NEW c \in ChunkIds, EngramExport(t, c) PROVE Chunks /\ Memory /\ Receipts
  BY <1>1, <1>3, <1>4 DEF EngramExport
<1>5. ASSUME NEW r \in EngramRuns, OpenTargets(r) \/ CompareChunks(r) PROVE Chunks /\ Memory /\ Receipts
  BY <1>1, <1>2, <1>5 DEF OpenTargets, CompareChunks, Unavailable, egFiles
<1>6. ASSUME NEW r \in EngramRuns, PersistReceipt(r) PROVE Chunks /\ Memory /\ Receipts
  <2>1. Receipts
    BY <1>6 DEF PersistReceipt, EngramFiles
  <2>2. QED
    BY <1>1, <1>6, <2>1 DEF PersistReceipt, egFiles
<1>7. ASSUME NEW r \in EngramRuns, NEW t \in Sides, ReadManifest(r, t) \/ WriteManifest(r, t) PROVE Chunks /\ Memory /\ Receipts
  BY <1>1, <1>2, <1>7 DEF ReadManifest, WriteManifest, Unavailable, egFiles
<1>8. ASSUME NEW r \in EngramRuns, NEW t \in Sides, ImportChunks(r, t) PROVE Chunks /\ Memory /\ Receipts
  <2>1. Imported(t) \subseteq ChunkIds \X (Sides \cup {"none"})
    <3>1. \A c \in ChunkIds : egChunk[t][c] \in Sides \cup {"none"}
      BY DEF EngramFiles, Manifests
    <3>2. QED
      BY <3>1 DEF Imported, Names
  <2>2. egMemory' = [egMemory EXCEPT ![t] = @ \cup Imported(t)] => Memory
    BY <2>1 DEF EngramFiles
  <2>3. QED
    BY <1>1, <1>2, <1>8, <2>2 DEF ImportChunks, Unavailable, egFiles
<1>9. ASSUME NEW r \in EngramRuns, NEW t \in Sides, NEW c \in ChunkIds, CopyTargetChunk(r, t, c) PROVE Chunks /\ Memory /\ Receipts
  <2>1. Peer(t) \in Sides /\ egChunk[t][c] \in Sides \cup {"none"}
    BY TwoSides DEF Peer, EngramFiles, Manifests
  <2>2. QED
    BY <1>1, <1>3, <1>9, <2>1 DEF CopyTargetChunk
<1>10. ASSUME UNCHANGED egVars PROVE Chunks /\ Memory /\ Receipts
  BY <1>1, <1>10 DEF egVars
<1>11. Chunks /\ Memory /\ Receipts
  <2> HIDE DEF Chunks, Memory, Receipts
  <2>1. QED
    BY <1>4, <1>5, <1>6, <1>7, <1>8, <1>9, <1>10 DEF EngramNext
<1>12. QED
  BY <1>11 DEF EngramFiles

\* A chunk file that is there stays there, if perhaps with other content.
LEMMA ChunksGrow == ASSUME EngramTypes, EngramFiles, ChunksThere, [EngramNext]_egVars
  PROVE  \A t \in Sides, c \in ChunkIds : egChunk[t][c] # "none" => egChunk'[t][c] # "none"
<1> DEFINE Grown == \A t \in Sides, c \in ChunkIds : egChunk[t][c] # "none" => egChunk'[t][c] # "none"
<1>1. ASSUME NEW t \in Sides, NEW c \in ChunkIds, NEW x, egChunk' = [egChunk EXCEPT ![t][c] = x], x # "none" PROVE Grown
  BY <1>1 DEF EngramFiles, Manifests
<1>2. ASSUME NEW t \in Sides, NEW c \in ChunkIds, EngramExport(t, c) PROVE Grown
  BY <1>1, <1>2 DEF EngramExport, Sides, Left, Right
<1>3. ASSUME NEW r \in EngramRuns, NEW t \in Sides, NEW c \in ChunkIds, CopyTargetChunk(r, t, c) PROVE Grown
  <2>1. <<t, c>> \in ToCopy(r)
    BY <1>3 DEF CopyTargetChunk
  <2>2. c \in Names(egRun[r].read[t])
    BY <2>1 DEF ToCopy
  <2>3. egChunk[t][c] # "none" /\ Peer(t) \in Sides
    BY <2>2, TwoSides DEF ChunksThere, Peer
  <2>4. QED
    BY <1>1, <1>3, <2>3 DEF CopyTargetChunk
<1>4. egChunk' = egChunk => Grown
  OBVIOUS
<1>5. ASSUME NEW r \in EngramRuns, OpenTargets(r) \/ CompareChunks(r) \/ PersistReceipt(r) PROVE egChunk' = egChunk
  BY <1>5 DEF OpenTargets, CompareChunks, PersistReceipt, Unavailable, egFiles
<1>6. ASSUME NEW r \in EngramRuns, NEW t \in Sides, ReadManifest(r, t) \/ WriteManifest(r, t) \/ ImportChunks(r, t) PROVE egChunk' = egChunk
  BY <1>6 DEF ReadManifest, WriteManifest, ImportChunks, Unavailable, egFiles
<1>7. UNCHANGED egVars => egChunk' = egChunk
  BY DEF egVars
<1> HIDE DEF Grown
<1>8. Grown
  BY <1>2, <1>3, <1>4, <1>5, <1>6, <1>7 DEF EngramNext
<1>9. QED
  BY <1>8 DEF Grown

\* What stays when no manifest is read or written.
LEMMA ThereStays ==
  ASSUME ChunksThere, \A t \in Sides, c \in ChunkIds : egChunk[t][c] # "none" => egChunk'[t][c] # "none", egManifest' = egManifest,
         \A q \in EngramRuns : egRun'[q].read = egRun[q].read /\ (egRun'[q].at \in WritingStages => egRun[q].at \in WritingStages)
  PROVE  ChunksThere'
<1>1. ManifestIsBacked'
  BY DEF ChunksThere, ManifestIsBacked, Names
<1>2. \A r \in EngramRuns, t \in Sides : \A c \in Names(egRun'[r].read[t]) : egChunk'[t][c] # "none"
  BY DEF ChunksThere, Names
<1>3. \A r \in EngramRuns : egRun'[r].at \in WritingStages => \A c \in ChunksRead(r)', t \in Sides : egChunk'[t][c] # "none"
  BY DEF ChunksThere, Names, ChunksRead
<1>4. QED
  BY <1>1, <1>2, <1>3 DEF ChunksThere

\* After the comparison every chunk a run has read of is on both sides, with one content.
LEMMA ComparedEqual == ASSUME EngramTypes, ChunksThere, NEW r \in EngramRuns, Copied(r), Collisions(r) = {}
  PROVE  \A c \in ChunksRead(r) : egChunk[Left][c] = egChunk[Right][c] /\ \A t \in Sides : egChunk[t][c] # "none"
<1> SUFFICES ASSUME NEW c \in ChunksRead(r) PROVE egChunk[Left][c] = egChunk[Right][c] /\ \A t \in Sides : egChunk[t][c] # "none"
  OBVIOUS
<1>1. c \in ChunkIds
  BY DEF ChunksRead, Names
<1>2. \A t \in Sides : c \in Names(egRun[r].read[t]) => egChunk[t][c] # "none"
  BY DEF ChunksThere
<1>3. CASE \A t \in Sides : c \in Names(egRun[r].read[t])
  BY <1>1, <1>2, <1>3, TwoSides DEF Collisions
<1>4. ASSUME NEW t \in Sides, c \in Names(egRun[r].read[t]), c \notin Names(egRun[r].read[Peer(t)])
      PROVE  egChunk[Left][c] = egChunk[Right][c] /\ \A u \in Sides : egChunk[u][c] # "none"
  <2>1. <<t, c>> \in ToCopy(r)
    BY <1>4 DEF ToCopy
  <2>2. egChunk[Peer(t)][c] = egChunk[t][c]
    BY <2>1 DEF Copied
  <2>3. QED
    BY <1>2, <1>4, <2>2, TwoSides DEF Peer
<1>5. QED
  BY <1>3, <1>4, TwoSides DEF ChunksRead, Peer

\* Engram: chunks stay there, whatever runs do.
LEMMA ChunksStay == ASSUME EngramTypes, EngramFiles, ChunksThere, [EngramNext]_egVars PROVE ChunksThere'
<1>1. \A t \in Sides, c \in ChunkIds : egChunk[t][c] # "none" => egChunk'[t][c] # "none"
  BY ChunksGrow
<1>2. ASSUME NEW r \in EngramRuns, NEW to, egRun' = [egRun EXCEPT ![r].at = to], egManifest' = egManifest,
             to \in WritingStages => egRun[r].at \in WritingStages
      PROVE  ChunksThere'
  <2>1. \A q \in EngramRuns : egRun'[q].read = egRun[q].read /\ (egRun'[q].at \in WritingStages => egRun[q].at \in WritingStages)
    BY <1>2, RunMoves
  <2>2. QED
    BY <1>1, <1>2, <2>1, ThereStays
<1>3. ASSUME NEW r \in EngramRuns, NEW at, EndsUnresolved(r, at), egManifest' = egManifest PROVE ChunksThere'
  BY <1>2, <1>3 DEF EndsUnresolved, WritingStages
<1>4. ASSUME NEW r \in EngramRuns, OpenTargets(r) PROVE ChunksThere'
  BY <1>2, <1>3, <1>4 DEF OpenTargets, RunGoes, WritingStages, egFiles
<1>5. ASSUME NEW r \in EngramRuns, PersistReceipt(r) PROVE ChunksThere'
  BY <1>2, <1>5 DEF PersistReceipt, RunGoes, WritingStages, egFiles
<1>6. ASSUME NEW r \in EngramRuns, NEW t \in Sides, ImportChunks(r, t) PROVE ChunksThere'
  <2>1. CASE \E at : Unavailable(r, at)
    BY <1>3, <2>1 DEF Unavailable, egFiles
  <2>2. CASE RunGoes(r, IF t = Left THEN "importleft" ELSE "importright", IF t = Left THEN "importright" ELSE "done") /\ egManifest' = egManifest
    BY <1>2, <2>2 DEF RunGoes, WritingStages
  <2>3. QED
    BY <1>6, <2>1, <2>2 DEF ImportChunks
<1>7. ASSUME NEW r \in EngramRuns, NEW t \in Sides, NEW c \in ChunkIds, CopyTargetChunk(r, t, c) PROVE ChunksThere'
  BY <1>1, <1>7, ThereStays DEF CopyTargetChunk
<1>8. ASSUME UNCHANGED egVars PROVE ChunksThere'
  BY <1>1, <1>8, ThereStays DEF egVars
<1>9. ASSUME NEW t \in Sides, NEW c \in ChunkIds, EngramExport(t, c) PROVE ChunksThere'
  <2>1. egChunk'[t][c] # "none"
    BY <1>9, TwoSides DEF EngramExport, EngramFiles, Manifests, Left, Right
  <2>2. \A u \in Sides : Names(egManifest'[u]) \subseteq Names(egManifest[u]) \cup (IF u = t THEN {c} ELSE {})
    BY <1>9 DEF EngramExport, EngramTypes, Manifests, Names
  <2>3. ManifestIsBacked'
    BY <1>1, <2>1, <2>2 DEF ChunksThere, ManifestIsBacked, Names
  <2>4. egRun' = egRun
    BY <1>9 DEF EngramExport
  <2>5. \A r \in EngramRuns, u \in Sides : \A d \in Names(egRun'[r].read[u]) : egChunk'[u][d] # "none"
    BY <1>1, <2>4 DEF ChunksThere, Names
  <2>6. \A r \in EngramRuns : egRun'[r].at \in WritingStages => \A d \in ChunksRead(r)', u \in Sides : egChunk'[u][d] # "none"
    BY <1>1, <2>4 DEF ChunksThere, Names, ChunksRead
  <2>7. QED
    BY <2>3, <2>5, <2>6 DEF ChunksThere
<1>10. ASSUME NEW r \in EngramRuns, CompareChunks(r) PROVE ChunksThere'
  <2>1. CASE Unavailable(r, "copy")
    BY <1>3, <2>1 DEF Unavailable, egFiles
  <2>2. CASE Copied(r) /\ Collisions(r) = {} /\ RunGoes(r, "copy", "writeleft") /\ UNCHANGED egFiles
    <3>1. \A q \in EngramRuns : egRun'[q].read = egRun[q].read /\ ChunksRead(q)' = ChunksRead(q) /\ (q # r => egRun'[q] = egRun[q])
      BY <2>2, RunMoves DEF RunGoes
    <3>2. \A c \in ChunksRead(r), t \in Sides : egChunk[t][c] # "none"
      BY <2>2, ComparedEqual
    <3>3. UNCHANGED <<egChunk, egManifest>>
      BY <2>2 DEF egFiles
    <3>4. ManifestIsBacked' /\ \A q \in EngramRuns, t \in Sides : \A c \in Names(egRun'[q].read[t]) : egChunk'[t][c] # "none"
      BY <3>1, <3>3 DEF ChunksThere, ManifestIsBacked
    <3>5. \A q \in EngramRuns : egRun'[q].at \in WritingStages => \A c \in ChunksRead(q)', t \in Sides : egChunk'[t][c] # "none"
      BY <3>1, <3>2, <3>3 DEF ChunksThere
    <3>6. QED
      BY <3>4, <3>5 DEF ChunksThere
  <2>3. QED
    BY <1>10, <2>1, <2>2 DEF CompareChunks
<1>11. ASSUME NEW r \in EngramRuns, NEW t \in Sides, ReadManifest(r, t) PROVE ChunksThere'
  <2> DEFINE to == IF t = Left THEN "readright" ELSE "copy"
             v == [at |-> to, read |-> [egRun[r].read EXCEPT ![t] = egManifest[t]]]
  <2>1. CASE \E at : Unavailable(r, at)
    BY <1>3, <2>1 DEF Unavailable, egFiles
  <2>2. CASE egRun' = [egRun EXCEPT ![r] = v] /\ UNCHANGED egFiles
    <3>1. v.at \notin WritingStages /\ v.read[t] = egManifest[t] /\ \A u \in Sides : u # t => v.read[u] = egRun[r].read[u]
      BY DEF EngramTypes, WritingStages
    <3> HIDE DEF v
    <3>2. egRun'[r] = v /\ \A q \in EngramRuns : q # r => egRun'[q] = egRun[q]
      BY <2>2 DEF EngramTypes
    <3>3. UNCHANGED <<egChunk, egManifest>>
      BY <2>2 DEF egFiles
    <3>4. ManifestIsBacked'
      BY <3>3 DEF ChunksThere, ManifestIsBacked
    <3>5. \A q \in EngramRuns, u \in Sides : egRun'[q].read[u] \in {egRun[q].read[u], egManifest[u]}
      BY <3>1, <3>2
    <3>6. \A q \in EngramRuns, u \in Sides : \A c \in Names(egRun'[q].read[u]) : egChunk'[u][c] # "none"
      BY <3>3, <3>5 DEF ChunksThere, ManifestIsBacked
    <3>7. \A q \in EngramRuns : egRun'[q].at \in WritingStages => q # r /\ egRun'[q] = egRun[q] /\ ChunksRead(q)' = ChunksRead(q)
      BY <3>1, <3>2 DEF ChunksRead
    <3>8. \A q \in EngramRuns : egRun'[q].at \in WritingStages => \A c \in ChunksRead(q)', u \in Sides : egChunk'[u][c] # "none"
      BY <3>3, <3>7 DEF ChunksThere
    <3>9. QED
      BY <3>4, <3>6, <3>8 DEF ChunksThere
  <2>3. QED
    BY <1>11, <2>1, <2>2 DEF ReadManifest
<1>12. ASSUME NEW r \in EngramRuns, NEW t \in Sides, WriteManifest(r, t) PROVE ChunksThere'
  <2>1. CASE \E at : Unavailable(r, at)
    BY <1>3, <2>1 DEF Unavailable, egFiles
  <2>2. CASE /\ RunGoes(r, IF t = Left THEN "writeleft" ELSE "writeright", IF t = Left THEN "writeright" ELSE "importleft")
             /\ egManifest' = [egManifest EXCEPT ![t] = MergeManifests(r)] /\ egChunk' = egChunk
    <3>1. egRun[r].at \in WritingStages
      BY <2>2 DEF RunGoes, WritingStages
    <3>2. \A q \in EngramRuns : egRun'[q].read = egRun[q].read /\ ChunksRead(q)' = ChunksRead(q)
                                /\ (egRun'[q].at \in WritingStages => egRun[q].at \in WritingStages)
      BY <2>2, <3>1, RunMoves DEF RunGoes
    <3>3. Names(MergeManifests(r)) \subseteq ChunksRead(r)
      BY DEF Names, MergeManifests, ChunksRead
    <3>4. \A u \in Sides : Names(egManifest'[u]) \subseteq Names(egManifest[u]) \/ (u = t /\ Names(egManifest'[u]) \subseteq ChunksRead(r))
      BY <2>2, <3>3 DEF EngramTypes
    <3>5. ManifestIsBacked'
      BY <2>2, <3>1, <3>4 DEF ChunksThere, ManifestIsBacked
    <3>6. QED
      BY <2>2, <3>2, <3>5 DEF ChunksThere
  <2>3. QED
    BY <1>12, <2>1, <2>2 DEF WriteManifest
<1>13. QED
  BY <1>4, <1>5, <1>6, <1>7, <1>8, <1>9, <1>10, <1>11, <1>12 DEF EngramNext

\* A run that does not move carries what it carried, if it has ended or the files it uses stay.
LEMMA CarriesStill ==
  ASSUME ChunksThere, NEW q \in EngramRuns, RunCarries(q), egRun'[q] = egRun[q], egReceipt'[q] = egReceipt[q],
         \A t \in Sides : egMemory[t] \subseteq egMemory'[t],
         RunActive(q) => \A t \in Sides : /\ \A c \in ChunkIds : egChunk[t][c] # "none" => egChunk'[t][c] = egChunk[t][c]
                                          /\ Names(egManifest[t]) \subseteq Names(egManifest'[t])
  PROVE  RunCarries(q)'
<1>1. ChunksRead(q)' = ChunksRead(q) /\ ChunksRead(q) \subseteq ChunkIds
  BY DEF ChunksRead, Names
<1>2. egReceipt'[q] = "resolved" => /\ egRun'[q].at = "ended"
                                   /\ \A c \in ChunksRead(q) : \E content \in Sides : \A t \in Sides : <<c, content>> \in egMemory'[t]
  BY DEF RunCarries
<1>3. CASE egRun[q].at \notin WritingStages
  BY <1>1, <1>2, <1>3 DEF RunCarries, WroteBy, LoadedBy, WritingStages
<1>4. CASE egRun[q].at \in WritingStages
  <2>1. RunActive(q)
    BY <1>4 DEF RunActive, WritingStages
  <2>2. \A c \in ChunksRead(q), t \in Sides : egChunk'[t][c] = egChunk[t][c]
    BY <1>1, <1>4, <2>1 DEF ChunksThere
  <2>3. egRun'[q].at \in WritingStages => \A c \in ChunksRead(q) : egChunk'[Left][c] = egChunk'[Right][c]
    BY <2>2, TwoSides DEF RunCarries
  <2>4. \A t \in Sides : egRun'[q].at \in WroteBy(t) => ChunksRead(q) \subseteq Names(egManifest'[t])
    BY <2>1 DEF RunCarries
  <2>5. \A t \in Sides : egRun'[q].at \in LoadedBy(t) => \A c \in ChunksRead(q) : <<c, egChunk'[t][c]>> \in egMemory'[t]
    BY <2>2 DEF RunCarries
  <2>6. QED
    BY <1>1, <1>2, <2>3, <2>4, <2>5 DEF RunCarries
<1>5. QED
  BY <1>3, <1>4

\* Engram: a step of one run. The others have ended or not begun, unless runs overlap.
LEMMA OneRunMoves ==
  ASSUME EngramTypes, ChunksThere, RunsApart, NEW r \in EngramRuns, RunActive(r) \/ \A q \in EngramRuns \ {r} : ~RunActive(q), ~egOverlap,
         \A q \in EngramRuns : q # r => egRun'[q] = egRun[q] /\ egReceipt'[q] = egReceipt[q],
         \A t \in Sides : egMemory[t] \subseteq egMemory'[t], RunCarries(r)'
  PROVE  RunsApart'
<1>1. \A q \in EngramRuns : q # r => ~RunActive(q) /\ ~RunActive(q)'
  BY DEF RunsApart, RunActive
<1>2. \A q \in EngramRuns : q # r => RunCarries(q)'
  <2> SUFFICES ASSUME NEW q \in EngramRuns, q # r PROVE RunCarries(q)'
    OBVIOUS
  <2>1. RunCarries(q)
    BY DEF RunsApart
  <2>2. QED
    BY <1>1, <2>1, CarriesStill
<1>3. QED
  BY <1>1, <1>2 DEF RunsApart

\* A run that ends without an answer carries nothing.
LEMMA EndsCarryNothing ==
  ASSUME EngramTypes, EngramFiles, NEW r \in EngramRuns, NEW at, EndsUnresolved(r, at)
  PROVE  /\ RunCarries(r)'
         /\ \A q \in EngramRuns : q # r => egRun'[q] = egRun[q] /\ egReceipt'[q] = egReceipt[q]
<1>1. egRun'[r].at = "ended" /\ \A q \in EngramRuns : q # r => egRun'[q] = egRun[q]
  BY RunMoves DEF EndsUnresolved
<1>2. egReceipt'[r] # "resolved" /\ \A q \in EngramRuns : q # r => egReceipt'[q] = egReceipt[q]
  BY DEF EndsUnresolved, EngramFiles
<1>3. QED
  BY <1>1, <1>2 DEF RunCarries, WritingStages, WroteBy, LoadedBy

\* Engram: runs that do not overlap carry what they read to both sides.
LEMMA RunsStayApart == ASSUME EngramInv, [EngramNext]_egVars PROVE RunsApart'
<1> SUFFICES ASSUME ~egOverlap' PROVE RunsApart'
  BY DEF RunsApart
<1>0. EngramTypes /\ EngramFiles /\ ChunksThere /\ RunsApart
  BY DEF EngramInv
<1>u. ASSUME NEW r \in EngramRuns, NEW at, Unavailable(r, at), at \notin {"new", "ended"} PROVE RunsApart'
  <2>1. RunActive(r) /\ ~egOverlap /\ \A t \in Sides : egMemory[t] \subseteq egMemory'[t]
    BY <1>u DEF Unavailable, EndsUnresolved, RunActive, egFiles
  <2>2. QED
    BY <1>0, <1>u, <2>1, EndsCarryNothing, OneRunMoves DEF Unavailable
<1>1. ASSUME NEW t \in Sides, NEW c \in ChunkIds, EngramExport(t, c) PROVE RunsApart'
  <2>1. UNCHANGED <<egRun, egReceipt, egMemory, egOverlap>>
    BY <1>1 DEF EngramExport
  <2>2. \A u \in Sides : /\ \A d \in ChunkIds : egChunk[u][d] # "none" => egChunk'[u][d] = egChunk[u][d]
                         /\ Names(egManifest[u]) \subseteq Names(egManifest'[u])
    <3>1. \A u \in Sides, d \in ChunkIds : egChunk[u][d] # "none" => egChunk'[u][d] = egChunk[u][d]
      BY <1>0, <1>1 DEF EngramExport, EngramFiles, Manifests
    <3>2. \A u \in Sides, d \in ChunkIds : egManifest'[u][d] \in {egManifest[u][d], t}
      BY <1>0, <1>1 DEF EngramExport, EngramTypes, Manifests
    <3>3. t # "none"
      BY TwoSides DEF Left, Right
    <3>4. QED
      BY <3>1, <3>2, <3>3 DEF Names
  <2>3. \A q \in EngramRuns : RunCarries(q)'
    <3> SUFFICES ASSUME NEW q \in EngramRuns PROVE RunCarries(q)'
      OBVIOUS
    <3>1. RunCarries(q)
      BY <1>0, <2>1 DEF RunsApart
    <3>2. QED
      BY <1>0, <2>1, <2>2, <3>1, CarriesStill
  <2>4. \A q, r \in EngramRuns : RunActive(q)' /\ RunActive(r)' => q = r
    BY <1>0, <2>1 DEF RunsApart, RunActive
  <2>5. QED
    BY <2>3, <2>4 DEF RunsApart
<1>2. ASSUME NEW r \in EngramRuns, OpenTargets(r) PROVE RunsApart'
  <2>1. ~egOverlap /\ \A q \in EngramRuns \ {r} : ~RunActive(q)
    BY <1>2 DEF OpenTargets, RunActive
  <2>2. \A t \in Sides : egMemory[t] \subseteq egMemory'[t]
    BY <1>2 DEF OpenTargets, egFiles
  <2>3. CASE EndsUnresolved(r, "new")
    BY <1>0, <2>1, <2>2, <2>3, EndsCarryNothing, OneRunMoves
  <2>4. CASE RunGoes(r, "new", "readleft") /\ UNCHANGED egReceipt
    <3>1. egRun'[r].at = "readleft" /\ \A q \in EngramRuns : q # r => egRun'[q] = egRun[q]
      BY <1>0, <2>4, RunMoves DEF RunGoes
    <3>2. RunCarries(r)
      BY <1>0, <2>1 DEF RunsApart
    <3>3. RunCarries(r)'
      BY <2>4, <3>1, <3>2 DEF RunCarries, WritingStages, WroteBy, LoadedBy, RunGoes
    <3>4. QED
      BY <1>0, <2>1, <2>2, <2>4, <3>1, <3>3, OneRunMoves
  <2>5. QED
    BY <1>2, <2>3, <2>4 DEF OpenTargets
<1>3. ASSUME NEW r \in EngramRuns, NEW t \in Sides, ReadManifest(r, t) PROVE RunsApart'
  <2> DEFINE to == IF t = Left THEN "readright" ELSE "copy"
             v == [at |-> to, read |-> [egRun[r].read EXCEPT ![t] = egManifest[t]]]
  <2>1. CASE Unavailable(r, IF t = Left THEN "readleft" ELSE "readright")
    BY <1>u, <2>1
  <2>2. CASE /\ egRun[r].at \in {"readleft", "readright"} /\ egRun' = [egRun EXCEPT ![r] = v]
             /\ UNCHANGED <<egFiles, egReceipt, egOverlap>>
    <3>1. v.at \in {"readright", "copy"}
      OBVIOUS
    <3> HIDE DEF v
    <3>2. egRun'[r] = v /\ \A q \in EngramRuns : q # r => egRun'[q] = egRun[q]
      BY <1>0, <2>2 DEF EngramTypes
    <3>3. RunCarries(r) /\ RunActive(r) /\ ~egOverlap /\ egMemory' = egMemory
      BY <1>0, <2>2 DEF RunsApart, RunActive, egFiles
    <3>4. RunCarries(r)'
      BY <2>2, <3>1, <3>2, <3>3 DEF RunCarries, WritingStages, WroteBy, LoadedBy
    <3>5. QED
      BY <1>0, <2>2, <3>2, <3>3, <3>4, OneRunMoves
  <2>3. QED
    BY <1>3, <2>1, <2>2 DEF ReadManifest
<1>4. ASSUME NEW r \in EngramRuns, NEW t \in Sides, NEW c \in ChunkIds, CopyTargetChunk(r, t, c) PROVE RunsApart'
  <2>1. egRun[r].at = "copy" /\ UNCHANGED <<egMemory, egRun, egReceipt, egOverlap>>
    BY <1>4 DEF CopyTargetChunk
  <2>2. RunCarries(r) /\ RunActive(r) /\ ~egOverlap
    BY <1>0, <2>1 DEF RunsApart, RunActive
  <2>3. RunCarries(r)'
    BY <2>1, <2>2 DEF RunCarries, WritingStages, WroteBy, LoadedBy
  <2>4. QED
    BY <1>0, <2>1, <2>2, <2>3, OneRunMoves
<1>5. ASSUME NEW r \in EngramRuns, CompareChunks(r) PROVE RunsApart'
  <2>1. CASE Unavailable(r, "copy")
    BY <1>u, <2>1
  <2>2. CASE Copied(r) /\ Collisions(r) = {} /\ RunGoes(r, "copy", "writeleft") /\ UNCHANGED <<egFiles, egReceipt, egOverlap>>
    <3>1. /\ egRun'[r].at = "writeleft" /\ ChunksRead(r)' = ChunksRead(r)
          /\ \A q \in EngramRuns : q # r => egRun'[q] = egRun[q]
      BY <1>0, <2>2, RunMoves DEF RunGoes
    <3>2. \A c \in ChunksRead(r) : egChunk[Left][c] = egChunk[Right][c]
      BY <1>0, <2>2, ComparedEqual
    <3>3. RunCarries(r) /\ RunActive(r) /\ ~egOverlap /\ egMemory' = egMemory /\ egChunk' = egChunk /\ egRun[r].at = "copy"
      BY <1>0, <2>2 DEF RunsApart, RunActive, egFiles, RunGoes
    <3>4. RunCarries(r)'
      BY <2>2, <3>1, <3>2, <3>3 DEF RunCarries, WroteBy, LoadedBy
    <3>5. QED
      BY <1>0, <2>2, <3>1, <3>3, <3>4, OneRunMoves
  <2>3. QED
    BY <1>5, <2>1, <2>2 DEF CompareChunks
<1>6. ASSUME NEW r \in EngramRuns, NEW t \in Sides, WriteManifest(r, t) PROVE RunsApart'
  <2> DEFINE from == IF t = Left THEN "writeleft" ELSE "writeright"
             to == IF t = Left THEN "writeright" ELSE "importleft"
  <2>1. CASE Unavailable(r, from)
    BY <1>u, <2>1
  <2>2. CASE RunGoes(r, from, to) /\ egManifest' = [egManifest EXCEPT ![t] = MergeManifests(r)] /\ UNCHANGED <<egChunk, egMemory, egReceipt, egOverlap>>
    <3>1. /\ egRun'[r].at = to /\ ChunksRead(r)' = ChunksRead(r) /\ egRun[r].at = from
          /\ \A q \in EngramRuns : q # r => egRun'[q] = egRun[q]
      BY <1>0, <2>2, RunMoves DEF RunGoes
    <3>2. RunCarries(r) /\ RunActive(r) /\ ~egOverlap
      BY <1>0, <2>2 DEF RunsApart, RunActive, RunGoes
    <3>3. ChunksRead(r) \subseteq Names(MergeManifests(r))
      BY <1>0, MergeNames, TwoSides DEF ChunksRead
    <3>4. egManifest'[t] = MergeManifests(r) /\ \A u \in Sides : u # t => egManifest'[u] = egManifest[u]
      BY <1>0, <2>2 DEF EngramTypes
    <3>5. \A c \in ChunksRead(r) : egChunk'[Left][c] = egChunk'[Right][c]
      BY <2>2, <3>1, <3>2 DEF RunCarries, WritingStages
    <3>6. \A u \in Sides : egRun'[r].at \in WroteBy(u) => ChunksRead(r) \subseteq Names(egManifest'[u])
      <4> SUFFICES ASSUME NEW u \in Sides, to \in WroteBy(u) PROVE ChunksRead(r) \subseteq Names(egManifest'[u])
        BY <3>1
      <4>1. CASE u = t
        BY <3>3, <3>4, <4>1
      <4>2. CASE u # t
        <5>1. from \in WroteBy(u)
          BY <4>2, TwoSides DEF WroteBy
        <5>2. QED
          BY <3>1, <3>2, <3>4, <4>2, <5>1 DEF RunCarries
      <4>3. QED
        BY <4>1, <4>2
    <3>7. \A u \in Sides : egRun'[r].at \notin LoadedBy(u)
      BY <3>1 DEF LoadedBy
    <3>8. egReceipt'[r] # "resolved"
      BY <2>2, <3>1, <3>2 DEF RunCarries
    <3>9. RunCarries(r)'
      BY <3>1, <3>5, <3>6, <3>7, <3>8 DEF RunCarries
    <3>10. QED
      BY <1>0, <2>2, <3>1, <3>2, <3>9, OneRunMoves
  <2>3. QED
    BY <1>6, <2>1, <2>2 DEF WriteManifest
<1>7. ASSUME NEW r \in EngramRuns, NEW t \in Sides, ImportChunks(r, t) PROVE RunsApart'
  <2> DEFINE from == IF t = Left THEN "importleft" ELSE "importright"
             to == IF t = Left THEN "importright" ELSE "done"
  <2>1. CASE Unavailable(r, from)
    BY <1>u, <2>1
  <2>2. CASE RunGoes(r, from, to) /\ egMemory' = [egMemory EXCEPT ![t] = @ \cup Imported(t)] /\ UNCHANGED <<egChunk, egManifest, egReceipt, egOverlap>>
    <3>1. /\ egRun'[r].at = to /\ ChunksRead(r)' = ChunksRead(r) /\ egRun[r].at = from
          /\ \A q \in EngramRuns : q # r => egRun'[q] = egRun[q]
      BY <1>0, <2>2, RunMoves DEF RunGoes
    <3>2. RunCarries(r) /\ RunActive(r) /\ ~egOverlap
      BY <1>0, <2>2 DEF RunsApart, RunActive, RunGoes
    <3>3. egMemory'[t] = egMemory[t] \cup Imported(t) /\ \A u \in Sides : egMemory[u] \subseteq egMemory'[u]
      BY <1>0, <2>2 DEF EngramFiles
    <3>4. ChunksRead(r) \subseteq Names(egManifest[t])
      BY <3>1, <3>2 DEF RunCarries, WroteBy
    <3>5. \A c \in ChunksRead(r) : <<c, egChunk[t][c]>> \in egMemory'[t]
      BY <3>3, <3>4 DEF Imported
    <3>6. \A c \in ChunksRead(r) : egChunk'[Left][c] = egChunk'[Right][c]
      BY <2>2, <3>1, <3>2 DEF RunCarries, WritingStages
    <3>7. \A u \in Sides : ChunksRead(r) \subseteq Names(egManifest'[u])
      BY <2>2, <3>1, <3>2 DEF RunCarries, WroteBy
    <3>8. \A u \in Sides : to \in LoadedBy(u) => \A c \in ChunksRead(r) : <<c, egChunk[u][c]>> \in egMemory'[u]
      <4> SUFFICES ASSUME NEW u \in Sides, to \in LoadedBy(u), u # t PROVE \A c \in ChunksRead(r) : <<c, egChunk[u][c]>> \in egMemory'[u]
        BY <3>5
      <4>1. from \in LoadedBy(u)
        BY TwoSides DEF LoadedBy
      <4>2. QED
        BY <3>1, <3>2, <3>3, <4>1 DEF RunCarries
    <3>9. egReceipt'[r] # "resolved"
      BY <2>2, <3>1, <3>2 DEF RunCarries
    <3>10. RunCarries(r)'
      BY <2>2, <3>1, <3>6, <3>7, <3>8, <3>9 DEF RunCarries
    <3>11. QED
      BY <1>0, <2>2, <3>1, <3>2, <3>3, <3>10, OneRunMoves
  <2>3. QED
    BY <1>7, <2>1, <2>2 DEF ImportChunks
<1>8. ASSUME NEW r \in EngramRuns, PersistReceipt(r) PROVE RunsApart'
  <2>1. /\ egRun'[r].at = "ended" /\ ChunksRead(r)' = ChunksRead(r) /\ egRun[r].at = "done"
        /\ \A q \in EngramRuns : q # r => egRun'[q] = egRun[q]
    BY <1>0, <1>8, RunMoves DEF PersistReceipt, RunGoes
  <2>2. RunActive(r) /\ ~egOverlap /\ RunCarries(r) /\ egMemory' = egMemory
    BY <1>0, <1>8, <2>1 DEF RunsApart, RunActive, PersistReceipt, egFiles
  <2>3. \A q \in EngramRuns : q # r => egReceipt'[q] = egReceipt[q]
    BY <1>0, <1>8 DEF PersistReceipt, EngramFiles
  <2>4. \A c \in ChunksRead(r) : \E content \in Sides : \A t \in Sides : <<c, content>> \in egMemory[t]
    <3> SUFFICES ASSUME NEW c \in ChunksRead(r) PROVE \E content \in Sides : \A t \in Sides : <<c, content>> \in egMemory[t]
      OBVIOUS
    <3>1. c \in ChunkIds /\ egChunk[Left][c] = egChunk[Right][c] /\ egChunk[Left][c] # "none"
      BY <1>0, <2>1, <2>2, TwoSides DEF RunCarries, ChunksThere, WritingStages, ChunksRead, Names
    <3>2. egChunk[Left][c] \in Sides
      BY <1>0, <3>1, TwoSides DEF EngramFiles, Manifests
    <3>3. \A t \in Sides : <<c, egChunk[t][c]>> \in egMemory[t]
      BY <2>1, <2>2 DEF RunCarries, LoadedBy
    <3>4. QED
      BY <3>1, <3>2, <3>3, TwoSides
  <2>5. RunCarries(r)'
    BY <2>1, <2>2, <2>4 DEF RunCarries, WritingStages, WroteBy, LoadedBy
  <2>6. QED
    BY <1>0, <2>1, <2>2, <2>3, <2>5, OneRunMoves
<1>9. ASSUME UNCHANGED egVars PROVE RunsApart'
  <2>1. UNCHANGED <<egRun, egReceipt, egMemory, egChunk, egManifest, egOverlap>>
    BY <1>9 DEF egVars
  <2>2. \A q \in EngramRuns : RunCarries(q)'
    BY <1>0, <2>1, CarriesStill DEF RunsApart
  <2>3. \A q, r \in EngramRuns : RunActive(q)' /\ RunActive(r)' => q = r
    BY <1>0, <2>1 DEF RunsApart, RunActive
  <2>4. QED
    BY <2>2, <2>3 DEF RunsApart
<1>10. QED
  BY <1>1, <1>2, <1>3, <1>4, <1>5, <1>6, <1>7, <1>8, <1>9 DEF EngramNext

\* Engram: every step keeps what is there and what a run carries.
LEMMA EngramGoesOn == ASSUME EngramInv, [EngramNext]_egVars PROVE EngramInv'
BY EngramStep, EngramFilesStay, ChunksStay, RunsStayApart DEF EngramInv

\* Engram: what the domain promises.
LEMMA EngramShares == EngramInv => ManifestIsBacked /\ ResolvedMeansShared
<1>1. EngramInv => ManifestIsBacked
  BY DEF EngramInv, ChunksThere
<1>2. EngramInv => ResolvedMeansShared
  BY DEF EngramInv, RunsApart, RunCarries, ResolvedMeansShared, ChunksRead
<1>3. QED
  BY <1>1, <1>2

=============================================================================
