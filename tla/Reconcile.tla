----------------------------- MODULE Reconcile -----------------------------
(***************************************************************************)
(* The reconciliation engine of commonkit-reconcile: one durable run of a  *)
(* reviewed plan against one target, with restart recovery.                *)
(*                                                                         *)
(* A plan is a sequence of operations 1..N.  The operations in Forward are *)
(* package operations (RecoveryCapability::ConvergeForwardOnly, handled by *)
(* PackageAdapter); the others are file operations (ExactRollback, handled *)
(* by FileAdapter), those in Create having no file before the run.         *)
(*                                                                         *)
(* state, phase and exit are the durable receipt: what ReceiptStore::load  *)
(* returns (module ReceiptStore shows a persist to be atomic).  The code   *)
(* persists after every change of its journal, so the journal of a running *)
(* engine is the durable receipt and is not a variable of its own.         *)
(* pc, cur, todo and rollback_failed are the engine's locals, lost when it *)
(* stops; target is the machine the adapters act on.                       *)
(***************************************************************************)
EXTENDS Integers

CONSTANTS N,            \* number of operations of the plan
          Forward,      \* the converge-forward-only operations
          Create,       \* the file operations whose preimage is absent
          MaxCrashes,   \* bound on the stops of the engine
          MaxFaults     \* bound on the failures of adapter calls

Ops   == 1..N
Exact == Ops \ Forward

ASSUME PlanAssumption == /\ N \in Nat \ {0}
                         /\ Forward \subseteq Ops
                         /\ Create \subseteq Exact
ASSUME BoundAssumption == MaxCrashes \in Nat /\ MaxFaults \in Nat

States == {"Absent", "Prepared", "Applying", "Verifying", "ApplyingForward",
           "Succeeded", "Canceled", "RecoveryRequired", "RollingBack",
           "RolledBack", "RollbackFailed", "ForwardRecoveryRequired",
           "ConvergingForward", "ForwardRecovered", "ForwardRecoveryFailed"}

Phases == {"None", "Prepared", "PrepareFailed", "ApplyStarted", "Applied",
           "ApplyFailed", "Verified", "VerifyFailed", "RolledBack",
           "RollbackFailed", "ForwardRecovered", "ForwardRecoveryFailed"}

Exits == {"NotRun", "Failed", "Succeeded"}

\* What RecoveryObservation can say of a resource.
Worlds == {"Before", "After", "Other"}

\* Where the engine is: idle, or about to take the step of that name.
Steps == {"idle", "prepare", "prepareFailed", "cancel", "exact", "exactApply",
          "exactApplied", "exactApplyFailed", "recoveryRequired", "rollStart",
          "roll", "rolledBack", "rollFailed", "verify", "forward",
          "forwardApply", "forwardApplied", "forwardApplyFailed",
          "forwardVerify", "forwardExit", "forwardFailed", "forwardRequired",
          "convergeRequired", "convergeStart", "converge", "convergeApply",
          "convergeReobserve", "converged", "convergedExit",
          "convergeFailed", "convergeFailedExit", "convergeFailedState"}

VARIABLES state, phase, exit, target, pc, cur, todo, rollback_failed, up,
          crashes, faults

receipt == <<state, phase, exit>>
locals  == <<pc, cur, todo, rollback_failed>>
bounds  == <<up, crashes, faults>>
vars    == <<state, phase, exit, target, pc, cur, todo, rollback_failed, up,
             crashes, faults>>

TypeOK ==
    /\ state \in States
    /\ phase \in [Ops -> Phases]
    /\ exit \in [Ops -> Exits]
    /\ target \in [Ops -> Worlds]
    /\ pc \in Steps
    /\ cur \in Ops \cup {0}
    /\ todo \in SUBSET Ops
    /\ rollback_failed \in BOOLEAN
    /\ up \in BOOLEAN
    /\ crashes \in 0..MaxCrashes
    /\ faults \in 0..MaxFaults

-----------------------------------------------------------------------------
(* Helpers. *)

IsFirst(o, S) == o \in S /\ \A p \in S : o <= p
IsLast(o, S)  == o \in S /\ \A p \in S : p <= o

\* An adapter call fails although the target would have allowed it.
Fault   == faults < MaxFaults /\ faults' = faults + 1
NoFault == faults' = faults

\* legal_transition ("Absent": for_plan).
LegalTransition(from, to) ==
    \/ from = "Absent" /\ to = "Prepared"
    \/ from = "Prepared" /\ to \in {"Applying", "Canceled"}
    \/ from = "Applying" /\ to \in {"Verifying", "RecoveryRequired", "ForwardRecoveryRequired"}
    \/ from = "Verifying" /\ to \in {"Succeeded", "ApplyingForward", "RecoveryRequired",
                                     "ForwardRecoveryRequired"}
    \/ from = "ApplyingForward" /\ to \in {"Succeeded", "RecoveryRequired",
                                           "ForwardRecoveryRequired"}
    \/ from \in {"RecoveryRequired", "Succeeded"} /\ to = "RollingBack"
    \/ from \in {"ForwardRecoveryRequired", "ForwardRecoveryFailed", "ForwardRecovered"}
       /\ to = "ConvergingForward"
    \/ from = "ConvergingForward" /\ to \in {"ForwardRecovered", "ForwardRecoveryFailed"}
    \/ from = "RollingBack" /\ to \in {"RolledBack", "RollbackFailed"}

Undoing  == {"RolledBack", "RollbackFailed"}
Settling == {"ForwardRecovered", "ForwardRecoveryFailed"}

\* legal_operation_transition ("None": the operation has no progress entry).
LegalOperationTransition(from, to) ==
    \/ from = "None" /\ to \in {"Prepared", "PrepareFailed"}
    \/ from = "Prepared" /\ to \in {"ApplyStarted"} \cup Settling
    \/ from = "ApplyStarted" /\ to \in {"Applied", "ApplyFailed"} \cup Undoing \cup Settling
    \/ from = "Applied" /\ to \in {"Verified", "VerifyFailed"} \cup Undoing \cup Settling
    \/ from \in {"Verified", "VerifyFailed", "ApplyFailed"} /\ to \in Undoing \cup Settling
    \/ from = "ForwardRecoveryFailed" /\ to \in Settling
    \/ from = "ForwardRecovered" /\ to = "ForwardRecoveryFailed"

\* ReceiptJournal::transition, ::record_operation and ::record_package_exit,
\* each persisted.  The journal refuses an illegal step with an error.
Transition(s) ==
    /\ LegalTransition(state, s)
    /\ state' = s /\ UNCHANGED <<phase, exit>>

RecordOp(o, p) ==
    /\ LegalOperationTransition(phase[o], p)
    /\ phase' = [phase EXCEPT ![o] = p] /\ UNCHANGED <<state, exit>>

\* Mutant: a package failure is filed under the phase's name.
RecordExitAsPhase(o, e) ==
    /\ exit' = [exit EXCEPT ![o] = phase[o]]
    /\ UNCHANGED <<state, phase>>

RecordExit(o, e) ==
    /\ exit' = IF o \in Forward THEN [exit EXCEPT ![o] = e] ELSE exit
    /\ UNCHANGED <<state, phase>>

Goto(step) == pc' = step /\ UNCHANGED <<cur, todo, rollback_failed>>

\* The terminal states LocalPlanExecutor answers from without recovering.
Terminal == {"Succeeded", "ForwardRecovered", "Canceled", "RolledBack",
             "RollbackFailed"}

\* Mutant: an operation whose apply failed counts as never applied.
StartedUnlessFailed == {"ApplyStarted", "Applied", "Verified", "VerifyFailed"}

\* Phases after which recovery treats an operation as possibly applied.
Started == {"ApplyStarted", "Applied", "ApplyFailed", "Verified", "VerifyFailed"}

Init ==
    /\ state = "Absent"
    /\ phase = [o \in Ops |-> "None"]
    /\ exit = [o \in Ops |-> "NotRun"]
    /\ target = [o \in Ops |-> "Before"]
    /\ pc = "idle" /\ cur = 0 /\ todo = {} /\ rollback_failed = FALSE
    /\ up = TRUE
    /\ crashes = 0 /\ faults = 0

-----------------------------------------------------------------------------
(* execute_preflighted: prepare everything, apply and verify the exact     *)
(* operations, then take the forward operations one by one.                *)

\* LocalPlanExecutor finds no receipt and starts the run.
Execute ==
    /\ up /\ pc = "idle" /\ state = "Absent"
    /\ Transition("Prepared") /\ Goto("prepare")
    /\ UNCHANGED <<target, bounds>>

Prepare(o) ==
    /\ pc = "prepare" /\ IsFirst(o, {p \in Ops : phase[p] = "None"})
    /\ \/ RecordOp(o, "Prepared") /\ NoFault /\ UNCHANGED locals
       \/ /\ RecordOp(o, "PrepareFailed") /\ Fault
          /\ pc' = "prepareFailed" /\ cur' = o
          /\ UNCHANGED <<todo, rollback_failed>>
    /\ UNCHANGED <<target, up, crashes>>

PrepareFailedExit ==
    /\ pc = "prepareFailed"
    /\ RecordExit(cur, "Failed") /\ Goto("cancel")
    /\ UNCHANGED <<target, bounds>>

Cancel ==
    /\ pc = "cancel"
    /\ Transition("Canceled") /\ Goto("idle")
    /\ UNCHANGED <<target, bounds>>

StartApplying ==
    /\ pc = "prepare" /\ \A o \in Ops : phase[o] # "None"
    /\ Transition("Applying") /\ Goto("exact")
    /\ UNCHANGED <<target, bounds>>

\* Mutant: the adapter is called before the checkpoint is written.
ApplyStartUnlogged(o, S, step, next) ==
    /\ pc = step /\ IsFirst(o, {p \in S : phase[p] = "Prepared"})
    /\ pc' = next /\ cur' = o /\ UNCHANGED <<todo, rollback_failed>>
    /\ UNCHANGED <<receipt, target, bounds>>

\* The write-ahead checkpoint of one operation of class S.
ApplyStart(o, S, step, next) ==
    /\ pc = step /\ IsFirst(o, {p \in S : phase[p] = "Prepared"})
    /\ RecordOp(o, "ApplyStarted")
    /\ pc' = next /\ cur' = o /\ UNCHANGED <<todo, rollback_failed>>
    /\ UNCHANGED <<target, bounds>>

ExactStart(o)   == ApplyStart(o, Exact, "exact", "exactApply")
ForwardStart(o) == ApplyStart(o, Forward, "forward", "forwardApply")

\* Adapter::apply.  Both adapters refuse, or leave the after state; a fault
\* leaves any state behind, whatever the call then returns.
Apply(step, ok, failed) ==
    /\ pc = step
    /\ \/ /\ target[cur] = "Before" /\ NoFault
          /\ target' = [target EXCEPT ![cur] = "After"] /\ Goto(ok)
       \/ /\ Fault
          /\ \E w \in Worlds : target' = [target EXCEPT ![cur] = w]
          /\ \E next \in {ok, failed} : Goto(next)
    /\ UNCHANGED <<receipt, up, crashes>>

ExactApply   == Apply("exactApply", "exactApplied", "exactApplyFailed")
ForwardApply == Apply("forwardApply", "forwardApplied", "forwardApplyFailed")

RecordApplied ==
    /\ \/ pc = "exactApplied" /\ Goto("exact")
       \/ pc = "forwardApplied" /\ Goto("forwardVerify")
    /\ RecordOp(cur, "Applied")
    /\ UNCHANGED <<target, bounds>>

\* Mutant: a failed package operation takes the rollback path.
RecordApplyFailedRollback ==
    /\ pc \in {"exactApplyFailed", "forwardApplyFailed"} /\ Goto("recoveryRequired")
    /\ RecordOp(cur, "ApplyFailed")
    /\ UNCHANGED <<target, bounds>>

RecordApplyFailed ==
    /\ \/ pc = "exactApplyFailed" /\ Goto("recoveryRequired")
       \/ pc = "forwardApplyFailed" /\ Goto("forwardFailed")
    /\ RecordOp(cur, "ApplyFailed")
    /\ UNCHANGED <<target, bounds>>

StartVerifying ==
    /\ pc = "exact" /\ \A o \in Exact : phase[o] # "Prepared"
    /\ Transition("Verifying") /\ Goto("verify")
    /\ UNCHANGED <<target, bounds>>

\* Adapter::verify with the checkpoint of its answer.
Verify(o, ok, failed) ==
    /\ \/ target[o] = "After" /\ NoFault /\ RecordOp(o, "Verified") /\ Goto(ok)
       \/ /\ (target[o] # "After" /\ NoFault) \/ Fault
          /\ RecordOp(o, "VerifyFailed") /\ Goto(failed)
    /\ UNCHANGED <<target, up, crashes>>

ExactVerify(o) ==
    /\ pc = "verify" /\ IsFirst(o, {p \in Exact : phase[p] = "Applied"})
    /\ Verify(o, "verify", "recoveryRequired")

ForwardVerify ==
    /\ pc = "forwardVerify"
    /\ Verify(cur, "forwardExit", "forwardFailed")

\* Mutant: the barrier is crossed before the file operations are verified.
CrossBarrierEarly ==
    /\ pc = "verify" /\ Forward # {}
    /\ Transition("ApplyingForward") /\ Goto("forward")
    /\ UNCHANGED <<target, bounds>>

CrossBarrier ==
    /\ pc = "verify" /\ Forward # {} /\ \A o \in Exact : phase[o] # "Applied"
    /\ Transition("ApplyingForward") /\ Goto("forward")
    /\ UNCHANGED <<target, bounds>>

\* Mutant: the evidence of a verified package is not recorded.
ForwardExitSkipped ==
    /\ pc = "forwardExit" /\ Goto("forward")
    /\ UNCHANGED <<state, phase, exit, target, bounds>>

ForwardExit ==
    /\ pc = "forwardExit"
    /\ RecordExit(cur, "Succeeded") /\ Goto("forward")
    /\ UNCHANGED <<target, bounds>>

ForwardFailedExit ==
    /\ pc = "forwardFailed"
    /\ RecordExit(cur, "Failed") /\ Goto("forwardRequired")
    /\ UNCHANGED <<target, bounds>>

ForwardRequired ==
    /\ pc = "forwardRequired"
    /\ Transition("ForwardRecoveryRequired") /\ Goto("idle")
    /\ UNCHANGED <<target, bounds>>

Succeed ==
    /\ \/ pc = "verify" /\ Forward = {} /\ \A o \in Exact : phase[o] # "Applied"
       \/ pc = "forward" /\ \A o \in Forward : phase[o] # "Prepared"
    /\ Transition("Succeeded") /\ Goto("idle")
    /\ UNCHANGED <<target, bounds>>

-----------------------------------------------------------------------------
(* Rollback: recover, rollback_from_rolling_back and rollback_succeeded.   *)

RequireRecovery ==
    /\ pc = "recoveryRequired"
    /\ Transition("RecoveryRequired") /\ Goto("rollStart")
    /\ UNCHANGED <<target, bounds>>

StartRollback ==
    /\ pc = "rollStart"
    /\ Transition("RollingBack")
    /\ pc' = "roll" /\ todo' = {o \in Ops : phase[o] \in Started}
    /\ rollback_failed' = FALSE
    /\ UNCHANGED <<cur, target, bounds>>

\* FileAdapter::rollback restores the preimage of a file that is in its after
\* state or absent, and refuses any other content, the preimage included.
RollbackAccepts(o) == \/ target[o] = "After"
                      \/ target[o] = "Before" /\ o \in Create

\* Mutant: rollback in plan order.
RollbackOpInPlanOrder(o) ==
    /\ pc = "roll" /\ IsFirst(o, todo)
    /\ \/ /\ RollbackAccepts(o) /\ NoFault
          /\ target' = [target EXCEPT ![o] = "Before"] /\ pc' = "rolledBack"
       \/ /\ (~RollbackAccepts(o) /\ NoFault) \/ Fault
          /\ target' = target /\ pc' = "rollFailed"
    /\ cur' = o /\ UNCHANGED <<todo, rollback_failed, receipt, up, crashes>>

RollbackOp(o) ==
    /\ pc = "roll" /\ IsLast(o, todo)
    /\ \/ /\ RollbackAccepts(o) /\ NoFault
          /\ target' = [target EXCEPT ![o] = "Before"] /\ pc' = "rolledBack"
       \/ /\ (~RollbackAccepts(o) /\ NoFault) \/ Fault
          /\ target' = target /\ pc' = "rollFailed"
    /\ cur' = o /\ UNCHANGED <<todo, rollback_failed, receipt, up, crashes>>

RecordRollback ==
    /\ \/ /\ pc = "rolledBack" /\ RecordOp(cur, "RolledBack")
          /\ rollback_failed' = rollback_failed
       \/ /\ pc = "rollFailed" /\ RecordOp(cur, "RollbackFailed")
          /\ rollback_failed' = TRUE
    /\ pc' = "roll" /\ todo' = todo \ {cur}
    /\ UNCHANGED <<cur, target, bounds>>

FinishRollback ==
    /\ pc = "roll" /\ todo = {}
    /\ Transition(IF rollback_failed THEN "RollbackFailed" ELSE "RolledBack")
    /\ Goto("idle")
    /\ UNCHANGED <<target, bounds>>

\* rollback_succeeded_run: an explicit request, for plans without packages.
RollbackSucceeded ==
    /\ up /\ pc = "idle" /\ state = "Succeeded" /\ Forward = {}
    /\ Transition("RollingBack")
    /\ pc' = "roll" /\ todo' = Ops /\ rollback_failed' = FALSE
    /\ UNCHANGED <<cur, target, bounds>>

-----------------------------------------------------------------------------
(* recover_run_with_journal_locked: a later process takes the run up from  *)
(* its receipt alone.                                                      *)

AfterForwardBarrier ==
    \/ \E o \in Forward :
          \/ phase[o] \in Started \cup {"ForwardRecoveryFailed"}
          \/ phase[o] = "ForwardRecovered" /\ state # "ForwardRecovered"
    \/ state \in {"ForwardRecoveryRequired", "ConvergingForward",
                  "ApplyingForward", "ForwardRecoveryFailed"}

\* Forward operations converge_forward still has to settle.
Unrecovered == {o \in Forward : phase[o] # "ForwardRecovered"}

\* Mutant: a failed convergence is first set back to "required".
RecoverStepRequired ==
    \/ /\ AfterForwardBarrier
       /\ pc' = IF state = "ConvergingForward" THEN "converge" ELSE "convergeRequired"
    \/ /\ ~AfterForwardBarrier
       /\ \/ state = "Prepared" /\ pc' = "cancel"
          \/ state \in {"Applying", "Verifying"} /\ pc' = "recoveryRequired"
          \/ state = "RecoveryRequired" /\ pc' = "rollStart"
          \/ state = "RollingBack" /\ pc' = "roll"

\* Where the recovery of the receipt starts.
RecoverStep ==
    \/ /\ AfterForwardBarrier
       /\ \/ state \in {"Applying", "Verifying", "ApplyingForward"} /\ pc' = "convergeRequired"
          \/ /\ state \in {"ForwardRecoveryRequired", "ForwardRecoveryFailed"}
             /\ pc' = "convergeStart"
          \/ state = "ConvergingForward" /\ pc' = "converge"
    \/ /\ ~AfterForwardBarrier
       /\ \/ state = "Prepared" /\ pc' = "cancel"
          \/ state \in {"Applying", "Verifying"} /\ pc' = "recoveryRequired"
          \/ state = "RecoveryRequired" /\ pc' = "rollStart"
          \/ state = "RollingBack" /\ pc' = "roll"

\* Mutant: an interrupted rollback is taken for a terminal run.
RecoverUnlessRollingBack ==
    /\ up /\ pc = "idle" /\ state \notin Terminal \cup {"Absent", "RollingBack"}
    /\ RecoverStep
    /\ todo' = IF AfterForwardBarrier THEN Unrecovered
                                      ELSE {o \in Ops : phase[o] \in Started}
    /\ rollback_failed' = FALSE
    /\ UNCHANGED <<cur, receipt, target, bounds>>

Recover ==
    /\ up /\ pc = "idle" /\ state \notin Terminal \cup {"Absent"}
    /\ RecoverStep
    /\ todo' = IF AfterForwardBarrier THEN Unrecovered
                                      ELSE {o \in Ops : phase[o] \in Started}
    /\ rollback_failed' = FALSE
    /\ UNCHANGED <<cur, receipt, target, bounds>>

ConvergeRequired ==
    /\ pc = "convergeRequired"
    /\ Transition("ForwardRecoveryRequired") /\ Goto("convergeStart")
    /\ UNCHANGED <<target, bounds>>

ConvergeStart ==
    /\ pc = "convergeStart"
    /\ Transition("ConvergingForward") /\ Goto("converge")
    /\ UNCHANGED <<target, bounds>>

\* observe_recovery decides what one operation still needs.
ConvergeObserve(o) ==
    /\ pc = "converge" /\ IsFirst(o, todo)
    /\ \/ Fault /\ pc' = "convergeFailed"
       \/ target[o] = "After" /\ NoFault /\ pc' = "converged"
       \/ target[o] = "Before" /\ NoFault /\ pc' = "convergeApply"
       \/ target[o] = "Other" /\ NoFault /\ pc' = "convergeFailed"
    /\ cur' = o /\ UNCHANGED <<todo, rollback_failed, receipt, target, up, crashes>>

\* prepare_recovery and converge_recovery; a fault of either leaves any state.
ConvergeApply == Apply("convergeApply", "convergeReobserve", "convergeFailed")

ConvergeReobserve ==
    /\ pc = "convergeReobserve"
    /\ \/ target[cur] = "After" /\ NoFault /\ Goto("converged")
       \/ /\ (target[cur] # "After" /\ NoFault) \/ Fault
          /\ Goto("convergeFailed")
    /\ UNCHANGED <<receipt, target, up, crashes>>

\* Mutant: the old ordering, the phase first and the evidence never replaced.
ConvergedExitSkipped ==
    /\ pc = "converged" /\ Goto("convergedExit")
    /\ UNCHANGED <<receipt, target, bounds>>

\* The package evidence is durable before the operation counts as recovered.
ConvergedExit ==
    /\ pc = "converged"
    /\ RecordExit(cur, "Succeeded") /\ Goto("convergedExit")
    /\ UNCHANGED <<target, bounds>>

RecordForwardRecovered ==
    /\ pc = "convergedExit"
    /\ RecordOp(cur, "ForwardRecovered")
    /\ pc' = "converge" /\ todo' = todo \ {cur}
    /\ UNCHANGED <<cur, rollback_failed, target, bounds>>

RecordForwardFailed ==
    /\ pc = "convergeFailed"
    /\ RecordOp(cur, "ForwardRecoveryFailed") /\ Goto("convergeFailedExit")
    /\ UNCHANGED <<target, bounds>>

ConvergeFailedExit ==
    /\ pc = "convergeFailedExit"
    /\ RecordExit(cur, "Failed") /\ Goto("convergeFailedState")
    /\ UNCHANGED <<target, bounds>>

ConvergeFailed ==
    /\ pc = "convergeFailedState"
    /\ Transition("ForwardRecoveryFailed") /\ Goto("idle")
    /\ UNCHANGED <<target, bounds>>

ConvergeDone ==
    /\ pc = "converge" /\ todo = {}
    /\ Transition("ForwardRecovered") /\ Goto("idle")
    /\ UNCHANGED <<target, bounds>>

\* The engine stops between two checkpoints and its journal is lost: the daemon
\* dies, or a persist or an evidence read returns an error to the caller.
Stop(alive) ==
    /\ pc # "idle" /\ crashes < MaxCrashes
    /\ crashes' = crashes + 1 /\ up' = alive
    /\ pc' = "idle" /\ cur' = 0 /\ todo' = {} /\ rollback_failed' = FALSE
    /\ UNCHANGED <<receipt, target, faults>>

Crash == Stop(FALSE)
Abort == Stop(TRUE)

\* DaemonRuntime::bind_inner opens the executor and its receipt store; it does
\* not look for interrupted runs.
Restart ==
    /\ ~up /\ up' = TRUE
    /\ UNCHANGED <<receipt, locals, target, crashes, faults>>

-----------------------------------------------------------------------------
Engine ==
    \/ \E o \in Ops : \/ Prepare(o) \/ ExactStart(o) \/ ForwardStart(o)
                      \/ ExactVerify(o) \/ RollbackOp(o) \/ ConvergeObserve(o)
    \/ PrepareFailedExit \/ Cancel \/ StartApplying
    \/ ExactApply \/ ForwardApply \/ RecordApplied \/ RecordApplyFailed
    \/ StartVerifying \/ ForwardVerify \/ CrossBarrier \/ ForwardExit
    \/ ForwardFailedExit \/ ForwardRequired \/ Succeed
    \/ RequireRecovery \/ StartRollback \/ RecordRollback \/ FinishRollback
    \/ ConvergeRequired \/ ConvergeStart \/ ConvergeApply \/ ConvergeReobserve
    \/ ConvergedExit \/ RecordForwardRecovered \/ RecordForwardFailed
    \/ ConvergeFailedExit \/ ConvergeFailed \/ ConvergeDone

Requests == Execute \/ Recover \/ RollbackSucceeded

Next == Engine \/ Requests \/ Crash \/ Abort \/ Restart

Spec == Init /\ [][Next]_vars

\* A started engine runs to its next return and a dead daemon is restarted by the
\* service manager; requests come or do not come.
FairEngine == Spec /\ WF_vars(Engine) /\ WF_vars(Restart)

\* In addition, an interrupted run is eventually taken up again.
FairRecovery == FairEngine /\ WF_vars(Recover)

-----------------------------------------------------------------------------
(* Properties. *)

\* The durable forward barrier is one-way (comment at lib.rs:1365): a run that
\* is being, or has been, rolled back or canceled never touched a package.
NoRollbackPastBarrier ==
    state \in {"RecoveryRequired", "RollingBack", "RolledBack",
              "RollbackFailed", "Canceled"}
    => \A o \in Forward : /\ phase[o] \in {"None", "Prepared", "PrepareFailed"}
                          /\ target[o] = "Before"

\* Write-ahead: a resource differs from its before state only if a durable
\* checkpoint announced it, so no restart can overlook a mutation.
MutationsAreCheckpointed ==
    \A o \in Ops : target[o] # "Before" =>
        \/ phase[o] \in Started \cup Settling \cup {"RollbackFailed"}
        \/ o \in Forward /\ state = "ConvergingForward"

\* A run reported Succeeded or ForwardRecovered has every operation in its
\* after state and durable success evidence for every package, over any
\* sequence of crashes, failed verifications and re-converged operations.
CommitMeansApplied ==
    state \in {"Succeeded", "ForwardRecovered"} =>
        \A o \in Ops : /\ target[o] = "After"
                       /\ o \in Forward => exit[o] = "Succeeded"

\* A run reported Canceled or RolledBack left no operation behind except the
\* ones its receipt shows as RollbackFailed.
UndoneMeansRestored ==
    state \in {"Canceled", "RolledBack"} =>
        \A o \in Ops : phase[o] # "RollbackFailed" => target[o] = "Before"

\* Rollback goes in reverse plan order, resumed rollbacks included: when an
\* operation has been rolled back, no later one is still applied.
ReverseOrder ==
    \A o, p \in Exact : phase[o] \in Undoing /\ o < p => phase[p] \notin Started

\* "Package evidence must be durably present before the operation can be
\* marked ForwardRecovered" (lib.rs:1758), and the package is installed.
EvidenceBeforeRecovered ==
    \A o \in Forward : phase[o] = "ForwardRecovered"
                        => exit[o] = "Succeeded" /\ target[o] = "After"

\* What the engine is about to ask of its journal: the receipt states it moves
\* to at pc, and the phases it records for operation o.
StateWrites ==
    {s \in States :
        \/ pc = "prepare" /\ s = "Applying" /\ \A o \in Ops : phase[o] # "None"
        \/ pc = "cancel" /\ s = "Canceled"
        \/ pc = "exact" /\ s = "Verifying" /\ \A o \in Exact : phase[o] # "Prepared"
        \/ /\ pc = "verify" /\ \A o \in Exact : phase[o] # "Applied"
           /\ s = IF Forward = {} THEN "Succeeded" ELSE "ApplyingForward"
        \/ pc = "forward" /\ s = "Succeeded" /\ \A o \in Forward : phase[o] # "Prepared"
        \/ pc \in {"forwardRequired", "convergeRequired"} /\ s = "ForwardRecoveryRequired"
        \/ pc = "recoveryRequired" /\ s = "RecoveryRequired"
        \/ pc = "rollStart" /\ s = "RollingBack"
        \/ /\ pc = "roll" /\ todo = {}
           /\ s = IF rollback_failed THEN "RollbackFailed" ELSE "RolledBack"
        \/ pc = "convergeStart" /\ s = "ConvergingForward"
        \/ pc = "converge" /\ todo = {} /\ s = "ForwardRecovered"
        \/ pc = "convergeFailedState" /\ s = "ForwardRecoveryFailed"}

PhaseWrites(o) ==
    {p \in Phases :
        \/ /\ pc = "prepare" /\ IsFirst(o, {q \in Ops : phase[q] = "None"})
           /\ p \in {"Prepared", "PrepareFailed"}
        \/ /\ \/ pc = "exact" /\ IsFirst(o, {q \in Exact : phase[q] = "Prepared"})
              \/ pc = "forward" /\ IsFirst(o, {q \in Forward : phase[q] = "Prepared"})
           /\ p = "ApplyStarted"
        \/ /\ \/ pc = "verify" /\ IsFirst(o, {q \in Exact : phase[q] = "Applied"})
              \/ pc = "forwardVerify" /\ o = cur
           /\ p \in {"Verified", "VerifyFailed"}
        \/ /\ o = cur
           /\ \/ pc \in {"exactApplied", "forwardApplied"} /\ p = "Applied"
              \/ pc \in {"exactApplyFailed", "forwardApplyFailed"} /\ p = "ApplyFailed"
              \/ pc = "rolledBack" /\ p = "RolledBack"
              \/ pc = "rollFailed" /\ p = "RollbackFailed"
              \/ pc = "convergedExit" /\ p = "ForwardRecovered"
              \/ pc = "convergeFailed" /\ p = "ForwardRecoveryFailed"}

\* The steps that record package evidence, or only look at the target.
ExitSteps == {"prepareFailed", "forwardExit", "forwardFailed", "converged",
              "convergeFailedExit", "convergeReobserve"}

\* What a running engine can do next: write to its journal, apply to a resource
\* that still is as the adapter expects it, or take an operation of its list.
EngineHasStep ==
    \/ StateWrites # {} \/ \E o \in Ops : PhaseWrites(o) # {}
    \/ pc \in {"exactApply", "forwardApply", "convergeApply"} /\ target[cur] = "Before"
    \/ pc = "roll" /\ \E o \in Ops : IsLast(o, todo)
    \/ pc = "converge" /\ \E o \in Ops : IsFirst(o, todo)
    \/ pc \in ExitSteps

\* The receipts recovery can take up, on either side of the forward barrier.
RecoveryHasEntry ==
    IF AfterForwardBarrier
    THEN state \in {"Applying", "Verifying", "ApplyingForward", "ConvergingForward",
                    "ForwardRecoveryRequired", "ForwardRecoveryFailed"}
    ELSE state \in {"Prepared", "Applying", "Verifying", "RecoveryRequired",
                    "RollingBack"}

\* No receipt is a dead end (recover_run_with_journal_locked, lib.rs:1486): the
\* journal never refuses what the engine records, whatever the adapters answer,
\* a running engine has a step to take, and recovery has an entry for every
\* receipt a crash can leave.
JournalAcceptsEngine ==
    /\ \A s \in StateWrites : LegalTransition(state, s)
    /\ \A o \in Ops : \A p \in PhaseWrites(o) : LegalOperationTransition(phase[o], p)
    /\ pc # "idle" => EngineHasStep
    /\ state \notin Terminal \cup {"Absent"} => RecoveryHasEntry

\* A run that was started reaches a terminal receipt, or an explicit
\* ForwardRecoveryFailed one, when interrupted runs are taken up again.
RunSettles ==
    state # "Absent" ~> state \in Terminal \cup {"ForwardRecoveryFailed"}

\* A run interrupted by the death of the daemon after the forward barrier is
\* converged by the restarted daemon.
StartupConverges ==
    ~up /\ state = "ApplyingForward"
        ~> state \in Terminal \cup {"ForwardRecoveryFailed"}

\* A run reported RolledBack has restored every operation.
RolledBackRestores == state = "RolledBack" => \A o \in Ops : target[o] = "Before"

-----------------------------------------------------------------------------
(* The run implements RunContract. *)

Verdict ==
    IF state = "Absent" THEN "absent"
    ELSE IF state \in {"Succeeded", "ForwardRecovered"} THEN "committed"
    ELSE IF state \in {"Canceled", "RolledBack"} THEN "undone"
    ELSE IF state = "RollbackFailed" THEN "undo_failed"
    ELSE IF state \in {"Prepared", "Applying", "Verifying", "RecoveryRequired",
                      "RollingBack"} THEN "reversible"
    ELSE "oneway"

Contract == INSTANCE RunContract WITH verdict <- Verdict, world <- target

\* Every step of the engine, its crashes and its recoveries is a step RunContract
\* allows: files change only before the barrier, packages only after it, and
\* nothing is committed that is not in place.
ImplementsContract == Contract!Spec
=============================================================================
