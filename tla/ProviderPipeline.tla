--------------------------- MODULE ProviderPipeline ---------------------------
(***************************************************************************)
(* Materialisation of desired state by an external provider: the pipeline  *)
(* (pipeline.rs, ProviderWorkspace of provider.rs), the APM provider       *)
(* (apm.rs) and the chezmoi provider (chezmoi.rs).  The inputs are digested*)
(* where they live, copied to a private snapshot, and the provider runs on *)
(* the copies; the owner goes on editing the inputs.                       *)
(***************************************************************************)
EXTENDS Naturals

CONSTANTS
  MaxEdits,     \* edits of an input (a bound)
  MaxMaterialisations   \* materialisations (a bound)

ASSUME PipelineBounds == MaxEdits \in Nat /\ MaxMaterialisations \in Nat

VARIABLES
  pvLive,       \* the version of the program and of the source, where they live
  pvAt,         \* the step of materialize_all
  pvInspected,  \* the input digests of inspect_inputs
  pvApproved,   \* the input digests of materialize
  pvSnap,       \* the copies in immutable-inputs
  pvScratch,    \* what the scratch directory holds
  pvRan,        \* what this materialisation ran the provider on
  pvExecuted,   \* everything a provider was run on
  pvStates,     \* persisted states, with what they were made from
  pvTorn,       \* inputs whose state file was left incomplete
  pvAttempts,
  pvTampered    \* the step at which another program of the owner changed a copy

pvVars == <<pvLive, pvAt, pvInspected, pvApproved, pvSnap, pvScratch, pvRan, pvExecuted, pvStates, pvTorn,
            pvAttempts, pvTampered>>
pvKept == <<pvExecuted, pvStates, pvTorn, pvAttempts>>

\* Version 1 of the source uses what preflight_paths refuses (a script, a hook, an
\* unsafe template function).
Unsafe == 1
Odd == MaxEdits + 1
NoInputs == [program |-> 0, source |-> 0]

PipelineInit ==
  /\ pvLive = NoInputs /\ pvAt = "idle"
  /\ pvInspected = NoInputs /\ pvApproved = NoInputs /\ pvSnap = NoInputs
  /\ pvScratch = {} /\ pvRan = {} /\ pvExecuted = {} /\ pvStates = {} /\ pvTorn = {}
  /\ pvAttempts = 0 /\ pvTampered = "never"

PipelineAt(from, to) == pvAt = from /\ pvAt' = to
\* Dropping PrivateSnapshotRoot removes the copies; diagnostics stay.
PipelineEnds == pvAt' = "idle" /\ pvScratch' = pvScratch \ {"snapshot"}

\* reset_private_workspace empties the staging directory; ProviderWorkspace::open
\* refuses a scratch directory that is not empty.
OpenWorkspace ==
  /\ pvAt = "idle" /\ pvAttempts < MaxMaterialisations
  /\ pvAttempts' = pvAttempts + 1
  /\ pvAt' = IF pvScratch = {} THEN "open" ELSE "refused"
  /\ pvRan' = {}
  /\ UNCHANGED <<pvLive, pvInspected, pvApproved, pvSnap, pvScratch, pvExecuted, pvStates, pvTorn, pvTampered>>

Screened(source) == source # Unsafe
\* inspect_inputs: preflight, validate_version, then the digests.
InspectInputs ==
  /\ pvAt = "open"
  /\ \/ Screened(pvLive.source) /\ pvAt' = "inspected" /\ pvInspected' = pvLive /\ UNCHANGED pvScratch
     \/ PipelineEnds /\ UNCHANGED pvInspected
  /\ UNCHANGED <<pvLive, pvApproved, pvSnap, pvRan, pvKept, pvTampered>>
\* materialize looks at the inputs again, and digests them after that.
PreflightLive ==
  /\ pvAt = "inspected"
  /\ \/ Screened(pvLive.source) /\ pvAt' = "screened" /\ UNCHANGED pvScratch
     \/ PipelineEnds
  /\ UNCHANGED <<pvLive, pvInspected, pvApproved, pvSnap, pvRan, pvKept, pvTampered>>
DigestInputs ==
  /\ PipelineAt("screened", "digested")
  /\ pvApproved' = pvLive
  /\ UNCHANGED <<pvLive, pvInspected, pvSnap, pvScratch, pvRan, pvKept, pvTampered>>

\* snapshot_inputs: create_private_snapshot_root, then each file is copied and its
\* copy compared with the digest (require_snapshot_digest).
SnapshotProgram ==
  /\ pvAt = "digested"
  /\ pvSnap' = [pvSnap EXCEPT !.program = pvLive.program]
  /\ \/ pvLive.program = pvApproved.program /\ pvAt' = "program" /\ pvScratch' = pvScratch \cup {"snapshot"}
     \/ pvLive.program # pvApproved.program /\ PipelineEnds
  /\ UNCHANGED <<pvLive, pvInspected, pvApproved, pvRan, pvKept, pvTampered>>
SnapshotSource ==
  /\ pvAt = "program"
  /\ pvSnap' = [pvSnap EXCEPT !.source = pvLive.source]
  /\ \/ pvLive.source = pvApproved.source /\ pvAt' = "copied" /\ UNCHANGED pvScratch
     \/ pvLive.source # pvApproved.source /\ PipelineEnds
  /\ UNCHANGED <<pvLive, pvInspected, pvApproved, pvRan, pvKept, pvTampered>>

\* snapshot.verify before anything is looked at or run.
VerifyNothing == TRUE \* Mutant: the copies are not compared again.
SnapshotVerified == pvSnap = pvApproved
VerifyCopies ==
  /\ pvAt = "copied"
  /\ \/ SnapshotVerified /\ pvAt' = "verified" /\ UNCHANGED pvScratch
     \/ ~ SnapshotVerified /\ PipelineEnds
  /\ UNCHANGED <<pvLive, pvInspected, pvApproved, pvSnap, pvRan, pvKept, pvTampered>>
\* preflight_paths on the copies.
SnapshotScreened == Screened(pvSnap.source)
PreflightSnapshot ==
  /\ pvAt = "verified"
  /\ \/ SnapshotScreened /\ pvAt' = "run" /\ UNCHANGED pvScratch
     \/ ~ SnapshotScreened /\ PipelineEnds
  /\ UNCHANGED <<pvLive, pvInspected, pvApproved, pvSnap, pvRan, pvKept, pvTampered>>

PersistDiagnostics(kept) == kept \cup {"diagnostics"}
\* run: the version, then install, compile and audit (APM) or apply (chezmoi).
\* persist_private_diagnostics and the runtime directory stay in the scratch directory.
RunProvider ==
  /\ pvAt = "run"
  /\ pvRan' = pvRan \cup {pvSnap} /\ pvExecuted' = pvExecuted \cup {pvSnap}
  /\ \/ pvAt' = "ran" /\ pvScratch' = PersistDiagnostics(pvScratch)
     \/ pvAt' = "idle" /\ pvScratch' = PersistDiagnostics(pvScratch \ {"snapshot"})
  /\ UNCHANGED <<pvLive, pvInspected, pvApproved, pvSnap, pvStates, pvTorn, pvAttempts, pvTampered>>
\* snapshot.verify after each command.
VerifyAfterRun ==
  /\ pvAt = "ran"
  /\ \/ SnapshotVerified /\ pvAt' \in {"run", "staged"} /\ UNCHANGED pvScratch
     \/ ~ SnapshotVerified /\ PipelineEnds
  /\ UNCHANGED <<pvLive, pvInspected, pvApproved, pvSnap, pvRan, pvKept, pvTampered>>

\* scan_outputs, scan_destination: what was staged must be ordinary and portable;
\* the copies are dropped with the provider's frame.
ScanOutputs ==
  /\ pvAt = "staged"
  /\ pvAt' \in {"scanned", "idle"}
  /\ pvScratch' = pvScratch \ {"snapshot"}
  /\ UNCHANGED <<pvLive, pvInspected, pvApproved, pvSnap, pvRan, pvKept, pvTampered>>
\* finalize_with_capabilities: paths that clash or escape are refused.
FinalizeState ==
  /\ pvAt = "scanned"
  /\ pvAt' \in {"finalized", "idle"}
  /\ UNCHANGED <<pvLive, pvInspected, pvApproved, pvSnap, pvScratch, pvRan, pvKept, pvTampered>>
\* materialize_all: the inputs of the state are the inputs that were inspected.
MaterializeAll ==
  /\ pvAt = "finalized"
  /\ pvAt' = IF pvApproved = pvInspected THEN "final" ELSE "idle"
  /\ UNCHANGED <<pvLive, pvInspected, pvApproved, pvSnap, pvScratch, pvRan, pvKept, pvTampered>>
\* persist_state: a file that exists must hold the same bytes.
PersistState ==
  /\ PipelineAt("final", "idle")
  /\ pvStates' = IF pvApproved \in pvTorn THEN pvStates ELSE pvStates \cup {[inputs |-> pvApproved, from |-> pvRan]}
  /\ UNCHANGED <<pvLive, pvInspected, pvApproved, pvSnap, pvScratch, pvRan, pvExecuted, pvTorn, pvAttempts, pvTampered>>

(***************************************************************************)
(* The owner, other programs, a crash.                                     *)
(***************************************************************************)
EditInput(f) ==
  /\ pvLive[f] < MaxEdits
  /\ pvLive' = [pvLive EXCEPT ![f] = @ + 1]
  /\ UNCHANGED <<pvAt, pvInspected, pvApproved, pvSnap, pvScratch, pvRan, pvKept, pvTampered>>
\* The copies are ordinary files of the owner: either may be changed at any step, to
\* something harmless or to something preflight refuses, and stays changed.
TamperCopy ==
  /\ "snapshot" \in pvScratch /\ pvTampered = "never"
  /\ pvTampered' = pvAt
  /\ \E f \in {"program", "source"}, v \in {Odd, Unsafe} : pvSnap' = [pvSnap EXCEPT ![f] = v]
  /\ UNCHANGED <<pvLive, pvAt, pvInspected, pvApproved, pvScratch, pvRan, pvKept>>
PipelineDies ==
  /\ pvAt \notin {"idle", "refused"}
  /\ pvAt' = "idle"
  /\ pvTorn' = IF pvAt = "final" /\ ~ \E s \in pvStates : s.inputs = pvApproved THEN pvTorn \cup {pvApproved} ELSE pvTorn
  /\ UNCHANGED <<pvLive, pvInspected, pvApproved, pvSnap, pvScratch, pvRan, pvExecuted, pvStates, pvAttempts, pvTampered>>
RefusalSeen == PipelineAt("refused", "idle") /\ UNCHANGED <<pvLive, pvInspected, pvApproved, pvSnap, pvScratch, pvRan, pvKept, pvTampered>>

PipelineNext ==
  \/ OpenWorkspace \/ InspectInputs \/ PreflightLive \/ DigestInputs \/ SnapshotProgram \/ SnapshotSource
  \/ VerifyCopies \/ PreflightSnapshot \/ RunProvider \/ VerifyAfterRun
  \/ ScanOutputs \/ FinalizeState \/ MaterializeAll \/ PersistState
  \/ \E f \in {"program", "source"} : EditInput(f)
  \/ TamperCopy \/ PipelineDies \/ RefusalSeen

(***************************************************************************)
(* Properties.                                                             *)
(***************************************************************************)
\* A state that is kept was made by running the provider on exactly the inputs it
\* names, whatever was edited meanwhile (require_snapshot_digest, snapshot.verify).
StateMeansInputs == \A s \in pvStates : \A ran \in s.from : ran = s.inputs

\* A provider is never run on a source that preflight refuses, though the source may
\* become one between the first look and its digest (preflight_paths on the snapshot),
\* unless the copy itself was changed after that look; and then nothing is kept of it.
ExecutedWasScreened ==
  /\ pvTampered \notin {"run", "ran"} => \A x \in pvExecuted : Screened(x.source)
  /\ \A s \in pvStates : \A ran \in s.from : Screened(ran.source)

\* "APM command failed ...; fix the inputs, and retry" (run of apm.rs): once a
\* materialisation has ended by itself, its copies dropped, the next one is not
\* refused because of what it left behind.
RetryProceeds == [][pvAttempts' # pvAttempts /\ "snapshot" \notin pvScratch => pvAt' # "refused"]_pvVars
=============================================================================
