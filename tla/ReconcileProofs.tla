-------------------------- MODULE ReconcileProofs --------------------------
(***************************************************************************)
(* Machine-checked facts about the reconciliation engine, for every plan   *)
(* and every bound on crashes and faults.                                  *)
(***************************************************************************)
EXTENDS Reconcile, TLAPS, WellFoundedInduction

-----------------------------------------------------------------------------
(* What the journal, the adapters' faults and the jumps do to the types.   *)

\* A transition of the receipt leads to a receipt state and leaves the rest
\* of the receipt alone (ReceiptJournal::transition).
LEMMA TransitionType ==
    ASSUME TypeOK, NEW s, Transition(s)
    PROVE  state' \in States /\ phase' = phase /\ exit' = exit
BY DEF Transition, TypeOK, LegalTransition, States

\* A recorded phase keeps the receipt well typed (record_operation).
LEMMA RecordOpType ==
    ASSUME TypeOK, NEW o, NEW p, RecordOp(o, p)
    PROVE  state' = state /\ phase' \in [Ops -> Phases] /\ exit' = exit
<1>1. p \in Phases
  BY DEF RecordOp, LegalOperationTransition, Phases, Undoing, Settling
<1>2. QED
  BY <1>1 DEF RecordOp, TypeOK

\* Package evidence keeps the receipt well typed (record_package_failure).
LEMMA RecordExitType ==
    ASSUME TypeOK, NEW o, NEW e \in Exits, RecordExit(o, e)
    PROVE  state' = state /\ phase' = phase /\ exit' \in [Ops -> Exits]
BY DEF RecordExit, TypeOK

\* The failures of adapter calls stay within their bound.
LEMMA FaultType ==
    ASSUME TypeOK, Fault \/ NoFault
    PROVE  faults' \in 0..MaxFaults
BY BoundAssumption DEF TypeOK, Fault, NoFault

-----------------------------------------------------------------------------
(* Type correctness. *)

\* Every step of the engine keeps the receipt, the target and the engine's
\* locals well typed.
LEMMA EngineType == TypeOK /\ Engine => TypeOK'
<1> SUFFICES ASSUME TypeOK, Engine PROVE TypeOK'
  OBVIOUS
<1> USE DEF Goto, bounds, locals, receipt
<1>1. ASSUME NEW o \in Ops, Prepare(o) PROVE TypeOK'
  BY <1>1, RecordOpType, FaultType DEF Prepare, TypeOK, Steps
<1>2. ASSUME NEW o \in Ops, ExactStart(o) \/ ForwardStart(o) PROVE TypeOK'
  BY <1>2, RecordOpType DEF ExactStart, ForwardStart, ApplyStart, TypeOK, Steps
<1>3. ASSUME NEW o \in Ops, ExactVerify(o) PROVE TypeOK'
  BY <1>3, RecordOpType, FaultType DEF ExactVerify, Verify, TypeOK, Steps
<1>4. ASSUME NEW o \in Ops, RollbackOp(o) PROVE TypeOK'
  BY <1>4, FaultType DEF RollbackOp, TypeOK, Steps, Worlds
<1>5. ASSUME NEW o \in Ops, ConvergeObserve(o) PROVE TypeOK'
  BY <1>5, FaultType DEF ConvergeObserve, TypeOK, Steps
<1>6. CASE PrepareFailedExit \/ ForwardExit \/ ForwardFailedExit \/ ConvergedExit
           \/ ConvergeFailedExit
  BY <1>6, RecordExitType DEF PrepareFailedExit, ForwardExit, ForwardFailedExit,
     ConvergedExit, ConvergeFailedExit, TypeOK, Steps, Exits
<1>7. CASE Cancel \/ StartApplying \/ StartVerifying \/ CrossBarrier \/ ForwardRequired
           \/ Succeed \/ RequireRecovery
  BY <1>7, TransitionType DEF Cancel, StartApplying, StartVerifying, CrossBarrier,
     ForwardRequired, Succeed, RequireRecovery, TypeOK, Steps
<1>8. CASE StartRollback \/ FinishRollback \/ ConvergeRequired \/ ConvergeStart
           \/ ConvergeFailed \/ ConvergeDone
  BY <1>8, TransitionType DEF StartRollback, FinishRollback, ConvergeRequired,
     ConvergeStart, ConvergeFailed, ConvergeDone, TypeOK, Steps
<1>9. CASE ExactApply \/ ForwardApply \/ ConvergeApply
  BY <1>9, FaultType DEF ExactApply, ForwardApply, ConvergeApply, Apply, TypeOK,
     Steps, Worlds
<1>10. CASE RecordApplied \/ RecordApplyFailed \/ RecordRollback
            \/ RecordForwardRecovered \/ RecordForwardFailed
  BY <1>10, RecordOpType DEF RecordApplied, RecordApplyFailed, RecordRollback,
     RecordForwardRecovered, RecordForwardFailed, TypeOK, Steps
<1>11. CASE ForwardVerify
  BY <1>11, RecordOpType, FaultType DEF ForwardVerify, Verify, TypeOK, Steps
<1>12. CASE ConvergeReobserve
  BY <1>12, FaultType DEF ConvergeReobserve, TypeOK, Steps
<1>13. QED
  BY <1>1, <1>2, <1>3, <1>4, <1>5, <1>6, <1>7, <1>8, <1>9, <1>10, <1>11, <1>12
     DEF Engine

\* Requests, stops and restarts keep the types, too.
LEMMA NextType == TypeOK /\ [Next]_vars => TypeOK'
<1> SUFFICES ASSUME TypeOK, [Next]_vars PROVE TypeOK'
  OBVIOUS
<1> USE DEF Goto, bounds, locals, receipt
<1>1. CASE Engine
  BY <1>1, EngineType
<1>2. CASE Execute \/ RollbackSucceeded
  BY <1>2, TransitionType DEF Execute, RollbackSucceeded, TypeOK, Steps
<1>3. CASE Recover
  <2>1. Unrecovered \subseteq Ops
    BY PlanAssumption DEF Unrecovered
  <2>2. QED
    BY <1>3, <2>1 DEF Recover, RecoverStep, TypeOK, Steps
<1>4. CASE Crash \/ Abort
  <2>1. crashes' \in 0..MaxCrashes
    BY <1>4, BoundAssumption DEF Crash, Abort, Stop, TypeOK
  <2>2. up' \in BOOLEAN
    BY <1>4 DEF Crash, Abort, Stop
  <2>3. QED
    BY <1>4, <2>1, <2>2 DEF Crash, Abort, Stop, TypeOK, Steps
<1>5. CASE Restart
  BY <1>5 DEF Restart, TypeOK
<1>6. CASE UNCHANGED vars
  BY <1>6 DEF vars, TypeOK
<1>7. QED
  BY <1>1, <1>2, <1>3, <1>4, <1>5, <1>6 DEF Next, Requests

\* Type correctness of the engine for every plan.
THEOREM TypeCorrect == Spec => []TypeOK
<1>1. Init => TypeOK
  <2>1. Init => up \in BOOLEAN /\ rollback_failed \in BOOLEAN
    BY Zenon DEF Init
  <2>2. 0 \in 0..MaxCrashes /\ 0 \in 0..MaxFaults
    BY BoundAssumption
  <2>3. QED
    BY <2>1, <2>2 DEF Init, TypeOK, States, Phases, Exits, Worlds, Steps
<1>2. QED
  BY <1>1, NextType, PTL DEF Spec

-----------------------------------------------------------------------------
(* The inductive invariant.                                                *)

PrepareSteps  == {"prepare", "prepareFailed", "cancel"}
ExactSteps    == {"exactApply", "exactApplied", "exactApplyFailed"}
RollSteps     == {"roll", "rolledBack", "rollFailed"}
ForwardSteps  == {"forwardApply", "forwardApplied", "forwardApplyFailed",
                  "forwardVerify", "forwardExit"}
GiveUpSteps   == {"forwardFailed", "forwardRequired"}
SettleSteps   == {"convergeApply", "convergeReobserve", "converged",
                  "convergedExit", "convergeFailed"}
FailedSteps   == {"convergeFailedExit", "convergeFailedState"}
ConvergeSteps == {"converge"} \cup SettleSteps \cup FailedSteps

\* The receipt state each step of the engine works in.
StateAt ==
    /\ pc \in PrepareSteps => state = "Prepared"
    /\ pc \in ExactSteps \cup {"exact"} => state = "Applying"
    /\ pc = "verify" => state = "Verifying"
    /\ pc = "recoveryRequired" => state \in {"Applying", "Verifying"}
    /\ pc = "rollStart" => state = "RecoveryRequired"
    /\ pc \in RollSteps => state = "RollingBack"
    /\ pc \in ForwardSteps \cup GiveUpSteps \cup {"forward", "convergeRequired"}
         => state = "ApplyingForward"
    /\ pc = "convergeStart"
         => state \in {"ForwardRecoveryRequired", "ForwardRecoveryFailed"}
    /\ pc \in ConvergeSteps => state = "ConvergingForward"

Unstarted == {"None", "Prepared", "PrepareFailed"}

\* Receipt states before the forward barrier, and after it.
Reversible == {"Absent", "Prepared", "Applying", "Verifying", "RecoveryRequired",
               "RollingBack", "RolledBack", "RollbackFailed", "Canceled"}
OneWay     == {"ApplyingForward", "ForwardRecoveryRequired", "ConvergingForward",
               "ForwardRecoveryFailed", "ForwardRecovered", "Succeeded"}

\* Before the barrier no package is touched; after it every file is in place.
Barrier ==
    /\ state \in Reversible =>
         \A o \in Forward : phase[o] \in Unstarted /\ target[o] = "Before"
    /\ state \in OneWay => \A o \in Exact : target[o] = "After"

\* Which operations the engine's locals speak of.
Locals ==
    /\ pc \in ExactSteps => cur \in Exact
    /\ pc \in {"rolledBack", "rollFailed"} => cur \in Exact
    /\ pc \in ForwardSteps \cup GiveUpSteps => cur \in Forward
    /\ pc \in RollSteps => todo \subseteq Exact
    /\ pc \in ConvergeSteps \cup {"convergeRequired", "convergeStart"}
         => todo = Unrecovered
    /\ pc \in SettleSteps \cup FailedSteps => IsFirst(cur, todo)

\* How far the operations are at each step of the engine.
Progress ==
    /\ state = "Absent" => \A o \in Ops : phase[o] = "None"
    /\ state = "Prepared" => \A o \in Ops : phase[o] \in Unstarted
    /\ pc = "prepare" => \A o \in Ops : phase[o] \in {"None", "Prepared"}
    /\ pc \in ExactSteps \cup {"exact"} =>
         \A o \in Exact : \/ phase[o] \in {"Prepared", "Applied"}
                          \/ pc # "exact" /\ o = cur /\ phase[o] = "ApplyStarted"
    /\ pc \in ExactSteps => phase[cur] = "ApplyStarted"
    /\ pc = "verify" =>
         \A o \in Exact : \/ phase[o] = "Applied"
                          \/ phase[o] = "Verified" /\ target[o] = "After"
    /\ pc \in ExactSteps \cup {"exact", "verify"} =>
         \A o \in Forward : phase[o] = "Prepared"
    /\ pc \in ForwardSteps \cup {"forward"} =>
         \A o \in Forward : \/ phase[o] = "Prepared"
                            \/ pc # "forward" /\ o = cur
                            \/ /\ phase[o] = "Verified" /\ target[o] = "After"
                               /\ exit[o] = "Succeeded"
    /\ pc \in {"forwardApply", "forwardApplied", "forwardApplyFailed"}
         => phase[cur] = "ApplyStarted"
    /\ pc = "forwardFailed" => phase[cur] \in {"ApplyFailed", "VerifyFailed"}
    /\ pc = "forwardVerify" => phase[cur] = "Applied"
    /\ pc = "forwardExit" => phase[cur] = "Verified" /\ target[cur] = "After"
    /\ pc \in {"converged", "convergedExit"} => target[cur] = "After"
    /\ pc = "convergedExit" => exit[cur] = "Succeeded"
    /\ pc \in FailedSteps => phase[cur] = "ForwardRecoveryFailed"
    /\ pc = "rolledBack" => target[cur] = "Before"

\* The phases that announce a change of the operation's resource.
Announced == Started \cup Settling \cup {"RollbackFailed"}

\* Only the operation convergence is working on may have changed without an
\* announcement of its own.
Checkpoints ==
    \A o \in Ops : target[o] # "Before" =>
        \/ phase[o] \in Announced
        \/ state = "ConvergingForward" /\ IsFirst(o, Unrecovered)

\* What a rollback, resumed ones included, still has to undo.
Rollbacks ==
    /\ \A o \in Exact : phase[o] \notin Settling
    /\ state \notin {"RollingBack", "RolledBack", "RollbackFailed"} =>
         \A o \in Exact : phase[o] \notin Undoing
    /\ pc \in RollSteps => \A o \in Ops : phase[o] \in Started => o \in todo
    /\ pc \in {"rolledBack", "rollFailed"} => IsLast(cur, todo)

SafetyFacts == /\ StateAt
               /\ Barrier
               /\ Locals
               /\ Progress
               /\ Checkpoints
               /\ Rollbacks
               /\ EvidenceBeforeRecovered
               /\ CommitMeansApplied
               /\ UndoneMeansRestored
               /\ ReverseOrder

SafetyInv == TypeOK /\ SafetyFacts


\* While one package is being settled the engine's locals keep their meaning.
LEMMA SettlingKeepsLocals ==
    ASSUME Locals, pc \in SettleSteps, pc' \in SettleSteps,
           UNCHANGED <<cur, todo, phase>>
    PROVE  Locals'
BY DEF Locals, SettleSteps, FailedSteps, ConvergeSteps, ExactSteps, RollSteps,
   ForwardSteps, GiveUpSteps, Unrecovered, IsFirst

\* An adapter call changes at most the resource of the current operation.
LEMMA ApplyEffect ==
    ASSUME TypeOK, NEW step, NEW ok, NEW failed, Apply(step, ok, failed)
    PROVE  /\ pc = step /\ pc' \in {ok, failed}
           /\ UNCHANGED <<state, phase, exit, cur, todo>>
           /\ target' \in [Ops -> Worlds]
           /\ \A o \in Ops : o # cur => target'[o] = target[o]
BY DEF TypeOK, Apply, Goto, receipt, Worlds

\* Every step of a running engine preserves the invariant.
LEMMA EngineSafe ==
    ASSUME TypeOK, SafetyFacts, Engine PROVE SafetyFacts'
<1> USE PlanAssumption DEF SafetyFacts, TypeOK, StateAt, Barrier, Locals, Progress,
      Checkpoints, Rollbacks, EvidenceBeforeRecovered, CommitMeansApplied,
      UndoneMeansRestored, ReverseOrder, PrepareSteps, ExactSteps, RollSteps,
      ForwardSteps, GiveUpSteps, SettleSteps, FailedSteps, ConvergeSteps,
      Unstarted, Reversible, OneWay, Announced, Started, Settling, Undoing,
      Unrecovered, Exact, Ops, States, IsFirst, IsLast
<1>1. ASSUME NEW o \in Ops, Prepare(o) PROVE SafetyFacts'
  <2>1. /\ state = "Prepared" /\ UNCHANGED <<state, exit, target, todo>>
        /\ phase[o] = "None"
        /\ \/ phase' = [phase EXCEPT ![o] = "Prepared"] /\ UNCHANGED <<pc, cur>>
           \/ /\ phase' = [phase EXCEPT ![o] = "PrepareFailed"]
              /\ pc' = "prepareFailed" /\ cur' = o
    BY <1>1 DEF Prepare, RecordOp, locals
  <2>2. pc = "prepare"
    BY <1>1 DEF Prepare
  <2>3. \A p \in Ops : phase[p] \in {"None", "Prepared"}
    BY <2>2
  <2>4. \A p \in Ops : phase'[p] \in Unstarted
    BY <2>1, <2>3
  <2>5. CASE pc' = "prepare"
    BY <2>1, <2>3, <2>4, <2>5, SMTT(30)
  <2>6. CASE pc' = "prepareFailed"
    BY <2>1, <2>3, <2>4, <2>6, SMTT(30)
  <2>7. QED
    BY <2>1, <2>2, <2>5, <2>6
<1>2. CASE PrepareFailedExit
  BY <1>2 DEF PrepareFailedExit, RecordExit, Goto, bounds
<1>3. CASE Cancel
  BY <1>3 DEF Cancel, Transition, Goto, bounds
<1>4. CASE StartApplying
  BY <1>4 DEF StartApplying, Transition, Goto, bounds
<1>5. ASSUME NEW o \in Ops, ExactStart(o) PROVE SafetyFacts'
  BY <1>5 DEF ExactStart, ApplyStart, RecordOp, bounds
<1>6. ASSUME NEW o \in Ops, ForwardStart(o) PROVE SafetyFacts'
  BY <1>6 DEF ForwardStart, ApplyStart, RecordOp, bounds
<1>7. CASE ExactApply
  <2>1. /\ pc = "exactApply" /\ pc' \in {"exactApplied", "exactApplyFailed"}
        /\ UNCHANGED <<state, phase, exit, cur, todo>>
        /\ target' \in [Ops -> Worlds]
        /\ \A o \in Ops : o # cur => target'[o] = target[o]
    BY <1>7, ApplyEffect DEF ExactApply
  <2>2. state = "Applying" /\ cur \in Exact /\ phase[cur] = "ApplyStarted"
    BY <2>1
  <2>3. \A o \in Forward : target'[o] = target[o]
    BY <2>1, <2>2
  <2>4. StateAt' /\ Barrier' /\ EvidenceBeforeRecovered' /\ CommitMeansApplied'
    BY <2>1, <2>2, <2>3
  <2>5. Locals'
    BY <2>1
  <2>6. Progress'
    BY <2>1, <2>2, <2>3
  <2>7. Checkpoints'
    BY <2>1, <2>2
  <2>8. Rollbacks' /\ UndoneMeansRestored' /\ ReverseOrder'
    BY <2>1, <2>2, <2>3
  <2>9. QED
    BY <2>4, <2>5, <2>6, <2>7, <2>8
<1>8. CASE ForwardApply
  <2>1. /\ pc = "forwardApply" /\ pc' \in {"forwardApplied", "forwardApplyFailed"}
        /\ UNCHANGED <<state, phase, exit, cur, todo>>
        /\ target' \in [Ops -> Worlds]
        /\ \A o \in Ops : o # cur => target'[o] = target[o]
    BY <1>8, ApplyEffect DEF ForwardApply
  <2>2. state = "ApplyingForward" /\ cur \in Forward /\ phase[cur] = "ApplyStarted"
    BY <2>1
  <2>3. \A o \in Exact : target'[o] = target[o]
    BY <2>1, <2>2
  <2>4. StateAt' /\ Barrier' /\ EvidenceBeforeRecovered' /\ CommitMeansApplied'
    BY <2>1, <2>2, <2>3
  <2>5. Locals'
    BY <2>1
  <2>6. Progress'
    BY <2>1, <2>2, <2>3
  <2>7. Checkpoints'
    BY <2>1, <2>2
  <2>8. Rollbacks' /\ UndoneMeansRestored' /\ ReverseOrder'
    BY <2>1, <2>2, <2>3
  <2>9. QED
    BY <2>4, <2>5, <2>6, <2>7, <2>8
<1>9. CASE RecordApplied
  BY <1>9 DEF RecordApplied, RecordOp, Goto, bounds
<1>10. CASE RecordApplyFailed
  BY <1>10 DEF RecordApplyFailed, RecordOp, Goto, bounds
<1>11. CASE StartVerifying
  BY <1>11 DEF StartVerifying, Transition, Goto, bounds
<1>12. ASSUME NEW o \in Ops, ExactVerify(o) PROVE SafetyFacts'
  BY <1>12, SMTT(30) DEF ExactVerify, Verify, RecordOp, Goto
<1>13. CASE ForwardVerify
  BY <1>13, SMTT(30) DEF ForwardVerify, Verify, RecordOp, Goto
<1>14. CASE CrossBarrier
  BY <1>14 DEF CrossBarrier, Transition, Goto, bounds
<1>15. CASE ForwardExit
  BY <1>15 DEF ForwardExit, RecordExit, Goto, bounds
<1>16. CASE ForwardFailedExit
  BY <1>16 DEF ForwardFailedExit, RecordExit, Goto, bounds
<1>17. CASE ForwardRequired
  BY <1>17 DEF ForwardRequired, Transition, Goto, bounds
<1>18. CASE Succeed
  BY <1>18 DEF Succeed, Transition, Goto, bounds
<1>19. CASE RequireRecovery
  BY <1>19 DEF RequireRecovery, Transition, Goto, bounds
<1>20. CASE StartRollback
  BY <1>20 DEF StartRollback, Transition, bounds
<1>21. ASSUME NEW o \in Ops, RollbackOp(o) PROVE SafetyFacts'
  BY <1>21 DEF RollbackOp, receipt
<1>22. CASE RecordRollback
  BY <1>22, SMTT(30) DEF RecordRollback, RecordOp, bounds
<1>23. CASE FinishRollback
  BY <1>23 DEF FinishRollback, Transition, Goto, bounds
<1>24. CASE ConvergeRequired
  BY <1>24 DEF ConvergeRequired, Transition, Goto, bounds
<1>25. CASE ConvergeStart
  BY <1>25 DEF ConvergeStart, Transition, Goto, bounds
<1>26. ASSUME NEW o \in Ops, ConvergeObserve(o) PROVE SafetyFacts'
  BY <1>26 DEF ConvergeObserve, receipt
<1>27. CASE ConvergeApply
  <2>1. /\ pc = "convergeApply" /\ pc' \in {"convergeReobserve", "convergeFailed"}
        /\ UNCHANGED <<state, phase, exit, cur, todo>>
        /\ target' \in [Ops -> Worlds]
        /\ \A o \in Ops : o # cur => target'[o] = target[o]
    BY <1>27, ApplyEffect DEF ConvergeApply
  <2>2. state = "ConvergingForward" /\ IsFirst(cur, Unrecovered)
    BY <2>1
  <2>3. \A o \in Exact : target'[o] = target[o]
    BY <2>1, <2>2
  <2>4. StateAt' /\ Barrier' /\ EvidenceBeforeRecovered' /\ CommitMeansApplied'
    BY <2>1, <2>2, <2>3
  <2>5. Locals'
    BY <2>1, SettlingKeepsLocals
  <2>6. Progress'
    BY <2>1, <2>2, <2>3
  <2>7. Checkpoints'
    BY <2>1, <2>2
  <2>8. Rollbacks' /\ UndoneMeansRestored' /\ ReverseOrder'
    BY <2>1, <2>2, <2>3
  <2>9. QED
    BY <2>4, <2>5, <2>6, <2>7, <2>8
<1>28. CASE ConvergeReobserve
  <2>1. /\ pc = "convergeReobserve" /\ UNCHANGED <<state, phase, exit, target, cur, todo>>
        /\ pc' = "convergeFailed" \/ (pc' = "converged" /\ target[cur] = "After")
    BY <1>28 DEF ConvergeReobserve, Goto, receipt
  <2>2. Locals'
    BY <2>1, SettlingKeepsLocals
  <2>3. Progress'
    BY <2>1
  <2>4. StateAt' /\ Barrier' /\ Checkpoints' /\ Rollbacks'
    BY <2>1
  <2>5. QED
    BY <2>1, <2>2, <2>3, <2>4
<1>29. CASE ConvergedExit
  BY <1>29 DEF ConvergedExit, RecordExit, Goto, bounds
<1>30. CASE RecordForwardRecovered
  BY <1>30 DEF RecordForwardRecovered, RecordOp, bounds
<1>31. CASE RecordForwardFailed
  BY <1>31, SMTT(30) DEF RecordForwardFailed, RecordOp, Goto, bounds
<1>32. CASE ConvergeFailedExit
  BY <1>32 DEF ConvergeFailedExit, RecordExit, Goto, bounds
<1>33. CASE ConvergeFailed
  BY <1>33 DEF ConvergeFailed, Transition, Goto, bounds
<1>34. CASE ConvergeDone
  BY <1>34, SMTT(30) DEF ConvergeDone, Transition, Goto, bounds
<1>35. QED
  BY <1>1, <1>2, <1>3, <1>4, <1>5, <1>6, <1>7, <1>8, <1>9, <1>10, <1>11,
     <1>12, <1>13, <1>14, <1>15, <1>16, <1>17, <1>18, <1>19, <1>20, <1>21,
     <1>22, <1>23, <1>24, <1>25, <1>26, <1>27, <1>28, <1>29, <1>30, <1>31,
     <1>32, <1>33, <1>34, Zenon DEF Engine

\* So do requests, recoveries, stops and restarts.
LEMMA NextSafe ==
    ASSUME TypeOK, SafetyFacts, [Next]_vars PROVE SafetyFacts'
<1> USE PlanAssumption DEF SafetyFacts, TypeOK, StateAt, Barrier, Locals, Progress,
      Checkpoints, Rollbacks, EvidenceBeforeRecovered, CommitMeansApplied,
      UndoneMeansRestored, ReverseOrder, PrepareSteps, ExactSteps, RollSteps,
      ForwardSteps, GiveUpSteps, SettleSteps, FailedSteps, ConvergeSteps,
      Unstarted, Reversible, OneWay, Announced, Started, Settling, Undoing,
      Unrecovered, Exact, Ops, States, IsFirst, IsLast
<1>1. CASE Execute
  BY <1>1 DEF Execute, Transition, Goto, bounds
<1>2. CASE RollbackSucceeded
  BY <1>2 DEF RollbackSucceeded, Transition, bounds
<1>3. CASE Recover
  BY <1>3, SMTT(30) DEF Recover, RecoverStep, AfterForwardBarrier, receipt,
     bounds
<1>4. CASE Crash
  BY <1>4 DEF Crash, Stop, receipt
<1>5. CASE Abort
  BY <1>5 DEF Abort, Stop, receipt
<1>6. CASE Restart
  BY <1>6 DEF Restart, receipt, locals
<1>7. CASE Engine
  BY <1>7, EngineSafe
<1>8. CASE UNCHANGED vars
  BY <1>8 DEF vars
<1>9. QED
  BY <1>1, <1>2, <1>3, <1>4, <1>5, <1>6, <1>7, <1>8 DEF Next,
     Requests

\* The inductive invariant holds in every reachable state.
THEOREM SafetyInvariant == Spec => []SafetyInv
<1>1. Init => SafetyFacts
  BY PlanAssumption DEF Init, SafetyFacts, StateAt, Barrier, Locals, Progress,
     Checkpoints, Rollbacks, EvidenceBeforeRecovered, CommitMeansApplied,
     UndoneMeansRestored, ReverseOrder, PrepareSteps, ExactSteps, RollSteps,
     ForwardSteps, GiveUpSteps, SettleSteps, FailedSteps, ConvergeSteps,
     Unstarted, OneWay, Settling, Undoing, Exact
<1>2. TypeOK /\ SafetyFacts /\ [Next]_vars => SafetyFacts'
  BY NextSafe
<1>3. QED
  BY <1>1, <1>2, TypeCorrect, PTL DEF Spec, SafetyInv

\* The forward barrier is one-way: a run that is rolled back or canceled has
\* touched no package (comment at lib.rs:1365).
THEOREM OneWayBarrier == Spec => []NoRollbackPastBarrier
<1>1. SafetyInv => NoRollbackPastBarrier
  BY DEF SafetyInv, SafetyFacts, Barrier, Reversible, Unstarted, NoRollbackPastBarrier
<1>2. QED
  BY <1>1, SafetyInvariant, PTL

\* No mutation of the machine escapes the durable receipt.
THEOREM WriteAhead == Spec => []MutationsAreCheckpointed
<1>1. SafetyInv => MutationsAreCheckpointed
  BY DEF SafetyInv, SafetyFacts, Checkpoints, Announced, Unrecovered, IsFirst,
     MutationsAreCheckpointed
<1>2. QED
  BY <1>1, SafetyInvariant, PTL

\* A run reported Succeeded or ForwardRecovered is in place, with its evidence.
THEOREM CommittedInPlace == Spec => []CommitMeansApplied
<1>1. SafetyInv => CommitMeansApplied
  BY DEF SafetyInv, SafetyFacts
<1>2. QED
  BY <1>1, SafetyInvariant, PTL

\* Package evidence is durable before an operation counts as recovered.
THEOREM EvidenceFirst == Spec => []EvidenceBeforeRecovered
<1>1. SafetyInv => EvidenceBeforeRecovered
  BY DEF SafetyInv, SafetyFacts
<1>2. QED
  BY <1>1, SafetyInvariant, PTL

\* A run reported Canceled or RolledBack restored all but its RollbackFailed
\* operations.
THEOREM UndoneRestored == Spec => []UndoneMeansRestored
<1>1. SafetyInv => UndoneMeansRestored
  BY DEF SafetyInv, SafetyFacts
<1>2. QED
  BY <1>1, SafetyInvariant, PTL

\* Interrupted and resumed rollbacks go in reverse plan order.
THEOREM RollbackReversed == Spec => []ReverseOrder
<1>1. SafetyInv => ReverseOrder
  BY DEF SafetyInv, SafetyFacts
<1>2. QED
  BY <1>1, SafetyInvariant, PTL

-----------------------------------------------------------------------------
(* The journal never refuses the engine.                                   *)

\* What the journal's tables need to know of the phases, beside SafetyFacts.
JournalFacts ==
    /\ state \notin {"Absent", "Prepared", "Canceled"} =>
         \A o \in Ops : phase[o] \notin {"None", "PrepareFailed"}
    /\ \A o \in Forward : phase[o] \notin Undoing
    /\ pc = "forward" => Forward # {}
    /\ state = "Succeeded" /\ Forward = {} => \A o \in Ops : phase[o] = "Verified"
    /\ pc \in RollSteps => \A o \in todo : phase[o] \in Started
    /\ pc \in {"exactApply", "forwardApply", "convergeApply"}
         => cur \in Ops /\ target[cur] = "Before"

JournalInv == SafetyInv /\ JournalFacts

\* Every step of a running engine preserves them.
LEMMA EngineJournal ==
    ASSUME TypeOK, SafetyFacts, JournalFacts, Engine PROVE JournalFacts'
<1> USE PlanAssumption DEF SafetyFacts, TypeOK, StateAt, Barrier, Locals, Progress,
      Checkpoints, Rollbacks, JournalFacts, PrepareSteps, ExactSteps, RollSteps,
      ForwardSteps, GiveUpSteps, SettleSteps, FailedSteps, ConvergeSteps,
      Unstarted, Reversible, OneWay, Announced, Started, Settling, Undoing,
      Unrecovered, Exact, Ops, IsFirst, IsLast
<1>1. ASSUME NEW o \in Ops, Prepare(o) PROVE JournalFacts'
  BY <1>1 DEF Prepare, RecordOp, locals
<1>2. CASE PrepareFailedExit
  BY <1>2 DEF PrepareFailedExit, RecordExit, Goto, bounds
<1>3. CASE Cancel
  BY <1>3 DEF Cancel, Transition, Goto, bounds
<1>4. CASE StartApplying
  BY <1>4 DEF StartApplying, Transition, Goto, bounds
<1>5. ASSUME NEW o \in Ops, ExactStart(o) PROVE JournalFacts'
  BY <1>5 DEF ExactStart, ApplyStart, RecordOp, bounds
<1>6. ASSUME NEW o \in Ops, ForwardStart(o) PROVE JournalFacts'
  BY <1>6 DEF ForwardStart, ApplyStart, RecordOp, bounds
<1>7. CASE ExactApply \/ ForwardApply \/ ConvergeApply
  <2>1. /\ pc' \in {"exactApplied", "exactApplyFailed", "forwardApplied",
                    "forwardApplyFailed", "convergeReobserve", "convergeFailed"}
        /\ UNCHANGED <<state, phase, exit, cur, todo>>
    BY <1>7, ApplyEffect DEF ExactApply, ForwardApply, ConvergeApply
  <2>2. QED
    BY <2>1
<1>9. CASE RecordApplied
  BY <1>9 DEF RecordApplied, RecordOp, Goto, bounds
<1>10. CASE RecordApplyFailed
  BY <1>10 DEF RecordApplyFailed, RecordOp, Goto, bounds
<1>11. CASE StartVerifying
  BY <1>11 DEF StartVerifying, Transition, Goto, bounds
<1>12. ASSUME NEW o \in Ops, ExactVerify(o) PROVE JournalFacts'
  BY <1>12 DEF ExactVerify, Verify, RecordOp, Goto
<1>13. CASE ForwardVerify
  BY <1>13 DEF ForwardVerify, Verify, RecordOp, Goto
<1>14. CASE CrossBarrier
  BY <1>14 DEF CrossBarrier, Transition, Goto, bounds
<1>15. CASE ForwardExit
  BY <1>15 DEF ForwardExit, RecordExit, Goto, bounds
<1>16. CASE ForwardFailedExit
  BY <1>16 DEF ForwardFailedExit, RecordExit, Goto, bounds
<1>17. CASE ForwardRequired
  BY <1>17 DEF ForwardRequired, Transition, Goto, bounds
<1>18. CASE Succeed
  BY <1>18 DEF Succeed, Transition, Goto, bounds
<1>19. CASE RequireRecovery
  BY <1>19 DEF RequireRecovery, Transition, Goto, bounds
<1>20. CASE StartRollback
  BY <1>20 DEF StartRollback, Transition, bounds
<1>21. ASSUME NEW o \in Ops, RollbackOp(o) PROVE JournalFacts'
  BY <1>21 DEF RollbackOp, receipt
<1>22. CASE RecordRollback
  BY <1>22 DEF RecordRollback, RecordOp, bounds
<1>23. CASE FinishRollback
  BY <1>23 DEF FinishRollback, Transition, Goto, bounds
<1>24. CASE ConvergeRequired
  BY <1>24 DEF ConvergeRequired, Transition, Goto, bounds
<1>25. CASE ConvergeStart
  BY <1>25 DEF ConvergeStart, Transition, Goto, bounds
<1>26. ASSUME NEW o \in Ops, ConvergeObserve(o) PROVE JournalFacts'
  BY <1>26 DEF ConvergeObserve, receipt
<1>28. CASE ConvergeReobserve
  BY <1>28 DEF ConvergeReobserve, Goto, receipt
<1>29. CASE ConvergedExit
  BY <1>29 DEF ConvergedExit, RecordExit, Goto, bounds
<1>30. CASE RecordForwardRecovered
  BY <1>30 DEF RecordForwardRecovered, RecordOp, bounds
<1>31. CASE RecordForwardFailed
  BY <1>31 DEF RecordForwardFailed, RecordOp, Goto, bounds
<1>32. CASE ConvergeFailedExit
  BY <1>32 DEF ConvergeFailedExit, RecordExit, Goto, bounds
<1>33. CASE ConvergeFailed
  BY <1>33 DEF ConvergeFailed, Transition, Goto, bounds
<1>34. CASE ConvergeDone
  BY <1>34 DEF ConvergeDone, Transition, Goto, bounds
<1>35. QED
  BY <1>1, <1>2, <1>3, <1>4, <1>5, <1>6, <1>7, <1>9, <1>10, <1>11,
     <1>12, <1>13, <1>14, <1>15, <1>16, <1>17, <1>18, <1>19, <1>20, <1>21,
     <1>22, <1>23, <1>24, <1>25, <1>26, <1>28, <1>29, <1>30, <1>31,
     <1>32, <1>33, <1>34, Zenon DEF Engine

\* So do requests, recoveries, stops and restarts.
LEMMA NextJournal ==
    ASSUME TypeOK, SafetyFacts, JournalFacts, [Next]_vars PROVE JournalFacts'
<1> USE PlanAssumption DEF TypeOK, JournalFacts, RollSteps, Started, Undoing,
      Exact, Ops
<1>1. CASE Execute
  BY <1>1 DEF Execute, Transition, Goto, bounds
<1>2. CASE RollbackSucceeded
  BY <1>2 DEF RollbackSucceeded, Transition, bounds
<1>3. CASE Recover
  BY <1>3 DEF Recover, RecoverStep, receipt
<1>4. CASE Crash \/ Abort
  BY <1>4 DEF Crash, Abort, Stop, receipt
<1>5. CASE Restart
  BY <1>5 DEF Restart, receipt, locals
<1>6. CASE Engine
  BY <1>6, EngineJournal
<1>7. CASE UNCHANGED vars
  BY <1>7 DEF vars
<1>8. QED
  BY <1>1, <1>2, <1>3, <1>4, <1>5, <1>6, <1>7 DEF Next, Requests

\* A set of operations that is not empty has a first one: the engine's loops
\* over the plan always find their next operation.
LEMMA FirstOp ==
    ASSUME NEW S, S \subseteq Ops, S # {} PROVE \E o \in S : IsFirst(o, S)
<1>1. S \subseteq Nat
  BY PlanAssumption DEF Ops
<1>2. IsWellFoundedOn({ss \in Nat \X Nat : ss[1] < ss[2]}, Nat)
  BY NatLessThanWellFounded DEF OpToRel
<1>3. PICK o \in S : \A p \in S : ~ (<<p, o>> \in {ss \in Nat \X Nat : ss[1] < ss[2]})
  BY <1>1, <1>2, WFMin
<1>4. \A p \in S : ~ (p < o)
  BY <1>1, <1>3
<1>5. QED
  BY <1>1, <1>4 DEF IsFirst

\* It has a last one, too, where rollback starts: the first of the operations
\* no other one is after.
LEMMA LastOp ==
    ASSUME NEW S, S \subseteq Ops, S # {} PROVE \E o \in S : IsLast(o, S)
<1> DEFINE U == {u \in Ops : \A p \in S : p <= u}
<1>1. N \in U
  BY PlanAssumption DEF Ops
<1>2. PICK u \in U : IsFirst(u, U)
  <2>1. U \subseteq Ops /\ U # {}
    BY <1>1
  <2> HIDE DEF U
  <2>2. QED
    BY <2>1, FirstOp
<1>3. u \in S
  <2>1. SUFFICES ASSUME u \notin S PROVE FALSE
    OBVIOUS
  <2>2. \A p \in S : p <= u - 1 /\ p \in Ops
    BY <2>1 DEF Ops
  <2>3. u - 1 \in U
    <3>1. PICK p \in S : p \in Ops /\ p <= u - 1
      BY <2>2
    <3>2. u - 1 \in Ops
      BY <1>2, <3>1, PlanAssumption DEF Ops
    <3>3. QED
      BY <2>2, <3>2
  <2>4. QED
    BY <1>2, <2>3 DEF IsFirst, Ops
<1>4. QED
  BY <1>3 DEF IsLast

\* Each transition the engine asks for is in the journal's table.
LEMMA LegalStates ==
    ASSUME SafetyFacts, NEW s \in StateWrites PROVE LegalTransition(state, s)
BY DEF StateWrites, LegalTransition, SafetyFacts, StateAt, PrepareSteps, ExactSteps,
   RollSteps, ForwardSteps, GiveUpSteps, SettleSteps, FailedSteps, ConvergeSteps

\* Each phase the engine records is in the journal's table.
LEMMA LegalPhases ==
    ASSUME TypeOK, SafetyFacts, JournalFacts, NEW o \in Ops, NEW p \in PhaseWrites(o)
    PROVE  LegalOperationTransition(phase[o], p)
<1> USE PlanAssumption DEF SafetyFacts, StateAt, Locals, Progress, Rollbacks,
      JournalFacts, PrepareSteps, ExactSteps, RollSteps, ForwardSteps, SettleSteps,
      FailedSteps, ConvergeSteps, Started, Settling, Undoing, IsFirst, IsLast
<1>1. CASE pc \in {"prepare", "exact", "forward", "verify", "forwardVerify"}
  BY <1>1 DEF PhaseWrites, LegalOperationTransition
<1>2. CASE pc \in {"exactApplied", "forwardApplied", "exactApplyFailed",
                   "forwardApplyFailed"}
  BY <1>2 DEF PhaseWrites, LegalOperationTransition
<1>3. CASE pc \in {"rolledBack", "rollFailed"}
  BY <1>3 DEF PhaseWrites, LegalOperationTransition
<1>4. CASE pc \in {"convergedExit", "convergeFailed"}
  <2>1. o = cur /\ p \in Settling /\ o \in Forward /\ phase[o] # "ForwardRecovered"
    BY <1>4 DEF PhaseWrites, Unrecovered
  <2>2. phase[o] \notin {"None", "PrepareFailed"} \cup Undoing
    BY <1>4, <2>1
  <2>3. phase[o] \in Phases
    BY DEF TypeOK
  <2>4. QED
    BY <2>1, <2>2, <2>3 DEF Phases, LegalOperationTransition
<1>5. QED
  BY <1>1, <1>2, <1>3, <1>4 DEF PhaseWrites

\* A running engine always has a step it can take.
LEMMA HasStep ==
    ASSUME TypeOK, SafetyFacts, JournalFacts, pc # "idle" PROVE EngineHasStep
<1> USE PlanAssumption DEF Ops, Exact
<1>1. CASE pc = "prepare"
  <2>1. CASE \A o \in Ops : phase[o] # "None"
    <3>1. "Applying" \in StateWrites
      BY <1>1, <2>1 DEF StateWrites, States
    <3>2. QED
      BY <3>1 DEF EngineHasStep
  <2>2. CASE {q \in Ops : phase[q] = "None"} # {}
    <3>1. PICK o \in Ops : IsFirst(o, {q \in Ops : phase[q] = "None"})
      BY <2>2, FirstOp DEF IsFirst
    <3>2. "Prepared" \in PhaseWrites(o)
      BY <1>1, <3>1 DEF PhaseWrites, Phases
    <3>3. QED
      BY <3>1, <3>2 DEF EngineHasStep
  <2>3. QED
    BY <2>1, <2>2
<1>2. CASE pc = "exact"
  <2>1. CASE \A o \in Exact : phase[o] # "Prepared"
    <3>1. "Verifying" \in StateWrites
      BY <1>2, <2>1 DEF StateWrites, States
    <3>2. QED
      BY <3>1 DEF EngineHasStep
  <2>2. CASE {q \in Exact : phase[q] = "Prepared"} # {}
    <3>1. PICK o \in Ops : IsFirst(o, {q \in Exact : phase[q] = "Prepared"})
      BY <2>2, FirstOp DEF IsFirst
    <3>2. "ApplyStarted" \in PhaseWrites(o)
      BY <1>2, <3>1 DEF PhaseWrites, Phases
    <3>3. QED
      BY <3>1, <3>2 DEF EngineHasStep
  <2>3. QED
    BY <2>1, <2>2
<1>3. CASE pc = "forward"
  <2>1. CASE \A o \in Forward : phase[o] # "Prepared"
    <3>1. "Succeeded" \in StateWrites
      BY <1>3, <2>1 DEF StateWrites, States
    <3>2. QED
      BY <3>1 DEF EngineHasStep
  <2>2. CASE {q \in Forward : phase[q] = "Prepared"} # {}
    <3>1. PICK o \in Ops : IsFirst(o, {q \in Forward : phase[q] = "Prepared"})
      BY <2>2, FirstOp DEF IsFirst
    <3>2. "ApplyStarted" \in PhaseWrites(o)
      BY <1>3, <3>1 DEF PhaseWrites, Phases
    <3>3. QED
      BY <3>1, <3>2 DEF EngineHasStep
  <2>3. QED
    BY <2>1, <2>2
<1>4. CASE pc = "verify"
  <2>1. CASE \A o \in Exact : phase[o] # "Applied"
    <3>1. (IF Forward = {} THEN "Succeeded" ELSE "ApplyingForward") \in StateWrites
      BY <1>4, <2>1 DEF StateWrites, States
    <3>2. QED
      BY <3>1 DEF EngineHasStep
  <2>2. CASE {q \in Exact : phase[q] = "Applied"} # {}
    <3>1. PICK o \in Ops : IsFirst(o, {q \in Exact : phase[q] = "Applied"})
      BY <2>2, FirstOp DEF IsFirst
    <3>2. "Verified" \in PhaseWrites(o)
      BY <1>4, <3>1 DEF PhaseWrites, Phases
    <3>3. QED
      BY <3>1, <3>2 DEF EngineHasStep
  <2>3. QED
    BY <2>1, <2>2
<1>5. CASE pc = "roll"
  <2>1. CASE todo = {}
    <3>1. (IF rollback_failed THEN "RollbackFailed" ELSE "RolledBack") \in StateWrites
      BY <1>5, <2>1 DEF StateWrites, States
    <3>2. QED
      BY <3>1 DEF EngineHasStep
  <2>2. CASE todo # {}
    BY <1>5, <2>2, LastOp DEF EngineHasStep, TypeOK
  <2>3. QED
    BY <2>1, <2>2
<1>6. CASE pc = "converge"
  <2>1. CASE todo = {}
    <3>1. "ForwardRecovered" \in StateWrites
      BY <1>6, <2>1 DEF StateWrites, States
    <3>2. QED
      BY <3>1 DEF EngineHasStep
  <2>2. CASE todo # {}
    BY <1>6, <2>2, FirstOp DEF EngineHasStep, TypeOK
  <2>3. QED
    BY <2>1, <2>2
<1>7. CASE pc \in ExitSteps
  BY <1>7 DEF EngineHasStep
<1>8. CASE pc \in {"exactApply", "forwardApply", "convergeApply"}
  BY <1>8 DEF EngineHasStep, JournalFacts
<1>9. CASE pc \in {"cancel", "forwardRequired", "convergeRequired", "recoveryRequired",
                   "rollStart", "convergeStart", "convergeFailedState"}
  <2>1. \E s \in States : s \in StateWrites
    BY <1>9 DEF StateWrites, States
  <2>2. QED
    BY <2>1 DEF EngineHasStep
<1>10. CASE pc \in {"exactApplied", "forwardApplied", "exactApplyFailed",
                    "forwardApplyFailed", "rolledBack", "rollFailed", "forwardVerify",
                    "convergedExit", "convergeFailed"}
  <2>1. cur \in Ops
    BY <1>10 DEF SafetyFacts, Locals, ExactSteps, ForwardSteps, SettleSteps,
       ConvergeSteps, IsFirst, Unrecovered
  <2>2. \E p \in Phases : p \in PhaseWrites(cur)
    BY <1>10 DEF PhaseWrites, Phases
  <2>3. QED
    BY <2>1, <2>2 DEF EngineHasStep
<1>11. QED
  BY <1>1, <1>2, <1>3, <1>4, <1>5, <1>6, <1>7, <1>8, <1>9, <1>10
     DEF TypeOK, Steps, ExitSteps

\* Recovery has an entry for every receipt that is not terminal: before the
\* barrier no package makes it look past it, and no other receipt is left out.
LEMMA EveryReceiptRecovers ==
    ASSUME TypeOK, SafetyFacts, state \notin Terminal \cup {"Absent"}
    PROVE  RecoveryHasEntry
<1>1. CASE state \in Reversible
  <2>1. ~AfterForwardBarrier
    BY <1>1 DEF SafetyFacts, Barrier, Reversible, Unstarted, AfterForwardBarrier, Started
  <2>2. QED
    BY <1>1, <2>1 DEF Reversible, Terminal, RecoveryHasEntry
<1>2. CASE state \notin Reversible
  BY <1>2 DEF TypeOK, States, Reversible, Terminal, AfterForwardBarrier, RecoveryHasEntry
<1>3. QED
  BY <1>1, <1>2

\* The journal never refuses the engine, from whatever receipt it resumes: a
\* run that is taken up again reaches its next return.
THEOREM JournalAccepts == Spec => []JournalAcceptsEngine
<1>1. Init => JournalFacts
  BY PlanAssumption DEF Init, JournalFacts, RollSteps, Undoing
<1>2. JournalInv /\ [Next]_vars => JournalFacts'
  BY NextJournal DEF JournalInv, SafetyInv
<1>3. JournalInv => JournalAcceptsEngine
  BY LegalStates, LegalPhases, HasStep, EveryReceiptRecovers
     DEF JournalInv, SafetyInv, JournalAcceptsEngine
<1>4. QED
  BY <1>1, <1>2, <1>3, SafetyInvariant, PTL DEF Spec, JournalInv

\* StateWrites and PhaseWrites name every write of the engine: no step changes
\* the receipt in a way they do not list.
THEOREM WritesAreNamed ==
    Spec => [][Engine => /\ state' # state => state' \in StateWrites
                         /\ \A o \in Ops : phase'[o] # phase[o]
                                             => phase'[o] \in PhaseWrites(o)]_vars
<1> DEFINE Named == /\ state' # state => state' \in StateWrites
                    /\ \A o \in Ops : phase'[o] # phase[o] => phase'[o] \in PhaseWrites(o)
<1>1. ASSUME TypeOK, TypeOK', Engine PROVE Named
  <2> USE PlanAssumption DEF Goto
  <2>1. ASSUME NEW o, NEW p \in PhaseWrites(o), UNCHANGED state,
               phase' = [phase EXCEPT ![o] = p]
        PROVE  Named
    BY <1>1, <2>1 DEF TypeOK
  <2>2. CASE \/ ForwardVerify \/ RecordApplied \/ RecordApplyFailed \/ RecordRollback
             \/ RecordForwardRecovered \/ RecordForwardFailed
    <3>1. /\ UNCHANGED state
          /\ \E p \in PhaseWrites(cur) : phase' = [phase EXCEPT ![cur] = p]
      BY <2>2 DEF ForwardVerify, Verify, RecordApplied, RecordApplyFailed,
         RecordRollback, RecordForwardRecovered, RecordForwardFailed, RecordOp,
         PhaseWrites, Phases
    <3>2. QED
      BY <2>1, <3>1
  <2>3. ASSUME NEW o \in Ops, Prepare(o) \/ ExactStart(o) \/ ForwardStart(o)
        PROVE  Named
    <3>1. /\ UNCHANGED state
          /\ \E p \in PhaseWrites(o) : phase' = [phase EXCEPT ![o] = p]
      BY <2>3 DEF Prepare, ExactStart, ForwardStart, ApplyStart, RecordOp, PhaseWrites,
         Phases
    <3>2. QED
      BY <2>1, <3>1
  <2>4. ASSUME NEW o \in Ops, ExactVerify(o) PROVE Named
    <3>1. /\ UNCHANGED state
          /\ \E p \in PhaseWrites(o) : phase' = [phase EXCEPT ![o] = p]
      BY <2>4 DEF ExactVerify, Verify, RecordOp, PhaseWrites, Phases
    <3>2. QED
      BY <2>1, <3>1
  <2>5. CASE \/ Cancel \/ StartApplying \/ StartVerifying \/ CrossBarrier
             \/ ForwardRequired \/ Succeed \/ RequireRecovery
    <3>1. state' \in StateWrites /\ UNCHANGED phase
      BY <2>5 DEF Cancel, StartApplying, StartVerifying, CrossBarrier, ForwardRequired,
         Succeed, RequireRecovery, Transition, StateWrites, States
    <3>2. QED
      BY <3>1
  <2>6. CASE StartRollback \/ ConvergeRequired \/ ConvergeStart \/ ConvergeFailed
             \/ ConvergeDone
    <3>1. state' \in StateWrites /\ UNCHANGED phase
      BY <2>6 DEF StartRollback, ConvergeRequired, ConvergeStart, ConvergeFailed,
         ConvergeDone, Transition, StateWrites, States
    <3>2. QED
      BY <3>1
  <2>7. CASE FinishRollback
    <3>1. state' \in StateWrites /\ UNCHANGED phase
      BY <2>7 DEF FinishRollback, Transition, StateWrites, States
    <3>2. QED
      BY <3>1
  <2>8. CASE \/ PrepareFailedExit \/ ForwardExit \/ ForwardFailedExit \/ ConvergedExit
             \/ ConvergeFailedExit \/ ExactApply \/ ForwardApply \/ ConvergeApply
             \/ ConvergeReobserve
             \/ \E o \in Ops : RollbackOp(o) \/ ConvergeObserve(o)
    BY <2>8 DEF PrepareFailedExit, ForwardExit, ForwardFailedExit, ConvergedExit,
       ConvergeFailedExit, ExactApply, ForwardApply, ConvergeApply, Apply,
       ConvergeReobserve, RollbackOp, ConvergeObserve, RecordExit, receipt
  <2>9. QED
    BY <2>2, <2>3, <2>4, <2>5, <2>6, <2>7, <2>8, <1>1, Zenon DEF Engine
<1>2. TypeOK /\ TypeOK' /\ [Next]_vars => [Engine => Named]_vars
  BY <1>1
<1>3. QED
  BY <1>2, TypeCorrect, PTL DEF Spec

-----------------------------------------------------------------------------
(* A call of the engine ends: each of its steps brings it closer to its     *)
(* return, in an order without infinite descent.                            *)

\* The part of the call the engine is in; a call only ever goes down.
Stage ==
    IF pc = "idle" THEN 0
    ELSE IF pc \in {"cancel", "forwardRequired"} \cup RollSteps \cup ConvergeSteps THEN 1
    ELSE IF pc \in {"prepareFailed", "forwardFailed", "rollStart", "convergeStart"} THEN 2
    ELSE IF pc \in {"forward", "recoveryRequired", "convergeRequired"} \cup ForwardSteps
         THEN 3
    ELSE IF pc = "verify" THEN 4
    ELSE IF pc \in {"exact"} \cup ExactSteps THEN 5
    ELSE 6

\* The operations the loop of that part still has to visit.
Left ==
    IF pc = "prepare" THEN {o \in Ops : phase[o] = "None"}
    ELSE IF pc \in {"exact"} \cup ExactSteps THEN {o \in Exact : phase[o] = "Prepared"}
    ELSE IF pc = "verify" THEN {o \in Exact : phase[o] = "Applied"}
    ELSE IF pc \in {"forward"} \cup ForwardSteps THEN {o \in Forward : phase[o] = "Prepared"}
    ELSE IF pc \in RollSteps \cup ConvergeSteps THEN todo
    ELSE {}

\* How many steps the loop's body has left for the operation it is at.
InBody ==
    IF pc = "converge" THEN 6
    ELSE IF pc \in {"forwardApply", "convergeApply"} THEN 5
    ELSE IF pc \in {"forwardApplied", "forwardApplyFailed", "convergeReobserve"} THEN 4
    ELSE IF pc \in {"exactApply", "forwardVerify", "converged", "convergeFailed"} THEN 3
    ELSE IF pc \in {"exactApplied", "exactApplyFailed", "forwardExit", "convergedExit",
                    "convergeFailedExit", "roll"} THEN 2
    ELSE 1

Closer == \/ Stage' < Stage
          \/ Stage' = Stage /\ Left' \subseteq Left /\ Left' # Left
          \/ Stage' = Stage /\ Left' = Left /\ InBody' < InBody

\* No call of the engine goes round: what it does next is in a lower part, has
\* fewer operations to visit, or is further in the loop's body.
EngineAdvances == [][Engine => Closer]_vars

\* Parts, loops and bodies are bounded by the plan.
LEMMA MeasureBounded ==
    ASSUME TypeOK PROVE Stage \in 0..6 /\ Left \in SUBSET Ops /\ InBody \in 1..6
<1>1. Left \in SUBSET Ops
  BY PlanAssumption DEF Left, Exact, TypeOK
<1>2. QED
  BY <1>1 DEF Stage, InBody

\* A step of the engine brings its call closer to the return.
LEMMA EngineCloser == ASSUME TypeOK, SafetyFacts, Engine PROVE Closer
<1> USE PlanAssumption DEF Closer, Stage, Left, InBody, PrepareSteps, ExactSteps, RollSteps,
      ForwardSteps, SettleSteps, FailedSteps, ConvergeSteps, IsFirst, IsLast, Goto
<1>1. ASSUME NEW o \in Ops, Prepare(o) PROVE Closer
  BY <1>1 DEF Prepare, RecordOp, locals, TypeOK
<1>2. ASSUME NEW o \in Ops, ExactStart(o) PROVE Closer
  BY <1>2 DEF ExactStart, ApplyStart, RecordOp, TypeOK, Exact
<1>3. ASSUME NEW o \in Ops, ForwardStart(o) PROVE Closer
  BY <1>3 DEF ForwardStart, ApplyStart, RecordOp, TypeOK
<1>4. ASSUME NEW o \in Ops, ExactVerify(o) PROVE Closer
  BY <1>4 DEF ExactVerify, Verify, RecordOp, TypeOK, Exact
<1>5. ASSUME NEW o \in Ops, RollbackOp(o) PROVE Closer
  BY <1>5 DEF RollbackOp
<1>6. ASSUME NEW o \in Ops, ConvergeObserve(o) PROVE Closer
  BY <1>6 DEF ConvergeObserve
<1>7. CASE \/ PrepareFailedExit \/ Cancel \/ StartApplying \/ StartVerifying
           \/ CrossBarrier \/ Succeed
  BY <1>7 DEF PrepareFailedExit, Cancel, StartApplying, StartVerifying, CrossBarrier,
     Succeed
<1>8. CASE ExactApply \/ ForwardApply \/ ConvergeApply
  <2>1. UNCHANGED <<phase, todo>>
    BY <1>8, ApplyEffect DEF ExactApply, ForwardApply, ConvergeApply
  <2>2. \/ pc = "exactApply" /\ pc' \in {"exactApplied", "exactApplyFailed"}
        \/ pc = "forwardApply" /\ pc' \in {"forwardApplied", "forwardApplyFailed"}
        \/ pc = "convergeApply" /\ pc' \in {"convergeReobserve", "convergeFailed"}
    BY <1>8, ApplyEffect DEF ExactApply, ForwardApply, ConvergeApply
  <2>3. QED
    BY <2>1, <2>2
<1>9. CASE RecordApplied \/ RecordApplyFailed
  <2>1. /\ phase[cur] = "ApplyStarted"
        /\ \E p \in {"Applied", "ApplyFailed"} : phase' = [phase EXCEPT ![cur] = p]
    BY <1>9 DEF RecordApplied, RecordApplyFailed, RecordOp, SafetyFacts, Progress
  <2>2. \A o \in Ops : phase'[o] = "Prepared" <=> phase[o] = "Prepared"
    BY <2>1 DEF TypeOK
  <2>3. /\ {o \in Exact : phase'[o] = "Prepared"} = {o \in Exact : phase[o] = "Prepared"}
        /\ {o \in Forward : phase'[o] = "Prepared"} = {o \in Forward : phase[o] = "Prepared"}
    BY <2>2 DEF Exact
  <2>4. \/ pc = "exactApplied" /\ pc' = "exact"
        \/ pc = "forwardApplied" /\ pc' = "forwardVerify"
        \/ pc = "exactApplyFailed" /\ pc' = "recoveryRequired"
        \/ pc = "forwardApplyFailed" /\ pc' = "forwardFailed"
    BY <1>9 DEF RecordApplied, RecordApplyFailed
  <2>5. QED
    BY <2>3, <2>4
<1>10. CASE ForwardVerify
  <2>1. /\ phase[cur] = "Applied" /\ pc = "forwardVerify" /\ UNCHANGED todo
        /\ \/ phase' = [phase EXCEPT ![cur] = "Verified"] /\ pc' = "forwardExit"
           \/ pc' = "forwardFailed"
    BY <1>10 DEF ForwardVerify, Verify, RecordOp, SafetyFacts, Progress
  <2>2. QED
    BY <2>1 DEF TypeOK
<1>11. CASE \/ ForwardExit \/ ForwardFailedExit \/ ForwardRequired \/ RequireRecovery
            \/ StartRollback \/ FinishRollback
  BY <1>11 DEF ForwardExit, ForwardFailedExit, ForwardRequired, RequireRecovery,
     StartRollback, FinishRollback, RecordExit
<1>12. CASE RecordRollback \/ RecordForwardRecovered
  <2>1. cur \in todo
    BY <1>12 DEF RecordRollback, RecordForwardRecovered, SafetyFacts, Rollbacks, Locals
  <2>2. todo' = todo \ {cur} /\ Stage = 1 /\ Stage' = 1 /\ Left = todo /\ Left' = todo'
    BY <1>12 DEF RecordRollback, RecordForwardRecovered
  <2>3. QED
    BY <2>1, <2>2
<1>13. CASE \/ ConvergeRequired \/ ConvergeStart \/ ConvergeReobserve \/ ConvergedExit
            \/ RecordForwardFailed \/ ConvergeFailedExit \/ ConvergeFailed \/ ConvergeDone
  BY <1>13 DEF ConvergeRequired, ConvergeStart, ConvergeReobserve, ConvergedExit,
     RecordForwardFailed, ConvergeFailedExit, ConvergeFailed, ConvergeDone
<1>14. QED
  BY <1>1, <1>2, <1>3, <1>4, <1>5, <1>6, <1>7, <1>8, <1>9, <1>10, <1>11, <1>12, <1>13,
     Zenon DEF Engine

\* For every plan, each step of the engine goes down a measure that is bounded
\* by the plan. With JournalAccepts, by which a running engine has a step, a call
\* that is not stopped returns.
THEOREM CallsEnd == Spec => EngineAdvances
<1>1. SafetyInv /\ [Next]_vars => [Engine => Closer]_vars
  BY EngineCloser DEF SafetyInv
<1>2. QED
  BY <1>1, SafetyInvariant, PTL DEF Spec, EngineAdvances

-----------------------------------------------------------------------------
(* The engine implements RunContract.                                      *)

\* A step that leaves the receipt state and the target alone is a stutter of
\* the contract.
LEMMA QuietStep ==
    ASSUME UNCHANGED <<state, target>>
    PROVE  UNCHANGED Contract!vars
BY DEF Contract!vars, Verdict

\* Every step of the engine is a step of the contract, or a stutter.
LEMMA ContractStep ==
    ASSUME TypeOK, SafetyFacts, SafetyFacts', [Next]_vars
    PROVE  [Contract!Next]_Contract!vars
<1> USE DEF Goto, bounds, locals, receipt
<1>1. CASE Execute
  BY <1>1 DEF Execute, Transition, Contract!Next, Contract!Begin, Verdict
<1>2. CASE Cancel \/ FinishRollback
  BY <1>2 DEF Cancel, FinishRollback, Transition, SafetyFacts, StateAt,
     PrepareSteps, RollSteps, Contract!Next, Contract!Undo, Verdict
<1>3. CASE StartApplying \/ StartVerifying \/ RequireRecovery \/ StartRollback
  <2>1. Verdict = "reversible" /\ Verdict' = "reversible" /\ UNCHANGED target
    BY <1>3 DEF StartApplying, StartVerifying, RequireRecovery, StartRollback,
       Transition, SafetyFacts, StateAt, PrepareSteps, ExactSteps, Verdict
  <2>2. QED
    BY <2>1 DEF Contract!vars
<1>4. CASE ForwardRequired \/ ConvergeRequired \/ ConvergeStart \/ ConvergeFailed
  <2>1. Verdict = "oneway" /\ Verdict' = "oneway" /\ UNCHANGED target
    BY <1>4 DEF ForwardRequired, ConvergeRequired, ConvergeStart, ConvergeFailed,
       Transition, SafetyFacts, StateAt, GiveUpSteps, FailedSteps, ConvergeSteps,
       Verdict
  <2>2. QED
    BY <2>1 DEF Contract!vars
<1>5. CASE CrossBarrier
  <2>1. /\ Verdict = "reversible" /\ Verdict' = "oneway" /\ UNCHANGED target
        /\ state' = "ApplyingForward"
    BY <1>5 DEF CrossBarrier, Transition, SafetyFacts, StateAt, Verdict
  <2>2. \A o \in Exact : target[o] = "After"
    BY <2>1 DEF SafetyFacts, Barrier, OneWay
  <2>3. QED
    BY <2>1, <2>2 DEF Contract!Next, Contract!Cross, Contract!Exact, Exact
<1>6. CASE Succeed \/ ConvergeDone
  <2>1. /\ Verdict = "oneway" \/ (Verdict = "reversible" /\ Forward = {})
        /\ Verdict' = "committed" /\ UNCHANGED target
        /\ state' \in {"Succeeded", "ForwardRecovered"}
    BY <1>6 DEF Succeed, ConvergeDone, Transition, SafetyFacts, StateAt,
       ForwardSteps, ConvergeSteps, Verdict
  <2>2. \A o \in Ops : target[o] = "After"
    BY <2>1 DEF SafetyFacts, CommitMeansApplied
  <2>3. QED
    BY <2>1, <2>2 DEF Contract!Next, Contract!Commit
<1>7. CASE RollbackSucceeded
  BY <1>7 DEF RollbackSucceeded, Transition, Contract!Next, Contract!Reopen, Verdict
<1>8. CASE ExactApply \/ \E o \in Ops : RollbackOp(o)
  <2>1. state \in {"Applying", "RollingBack"} /\ UNCHANGED state
    BY <1>8 DEF ExactApply, RollbackOp, Apply, SafetyFacts, StateAt, ExactSteps,
       RollSteps
  <2>2. \A o \in Forward : target'[o] = target[o]
    BY <1>8, PlanAssumption DEF ExactApply, RollbackOp, Apply, SafetyFacts, Locals,
       ExactSteps, RollSteps, Exact, IsLast, TypeOK
  <2>3. QED
    BY <2>1, <2>2 DEF Contract!Next, Contract!Mutate, Verdict
<1>9. CASE ForwardApply \/ ConvergeApply
  <2>1. state \in {"ApplyingForward", "ConvergingForward"} /\ UNCHANGED state
    BY <1>9 DEF ForwardApply, ConvergeApply, Apply, SafetyFacts, StateAt,
       ForwardSteps, SettleSteps, ConvergeSteps
  <2>2. cur \in Forward
    BY <1>9 DEF ForwardApply, ConvergeApply, Apply, SafetyFacts, Locals,
       ForwardSteps, SettleSteps, ConvergeSteps, IsFirst, Unrecovered
  <2>3. \A o \in Exact : target'[o] = target[o]
    BY <1>9, <2>2 DEF ForwardApply, ConvergeApply, Apply, Exact, TypeOK
  <2>4. QED
    BY <2>1, <2>3 DEF Contract!Next, Contract!Converge, Contract!Exact, Exact, Verdict
<1>10. CASE \/ RecordApplied \/ RecordApplyFailed \/ RecordRollback
            \/ RecordForwardRecovered \/ RecordForwardFailed \/ ForwardVerify
            \/ \E o \in Ops : \/ Prepare(o) \/ ExactStart(o) \/ ForwardStart(o)
                              \/ ExactVerify(o)
  BY <1>10, QuietStep DEF RecordApplied, RecordApplyFailed, RecordRollback,
     RecordForwardRecovered, RecordForwardFailed, ForwardVerify, Prepare, ExactStart,
     ForwardStart, ApplyStart, ExactVerify, Verify, RecordOp
<1>11. CASE \/ PrepareFailedExit \/ ForwardExit \/ ForwardFailedExit
            \/ ConvergedExit \/ ConvergeFailedExit
  BY <1>11, QuietStep DEF PrepareFailedExit, ForwardExit, ForwardFailedExit,
     ConvergedExit, ConvergeFailedExit, RecordExit
<1>12. CASE \/ ConvergeReobserve \/ Recover \/ Crash \/ Abort \/ Restart
            \/ UNCHANGED vars \/ \E o \in Ops : ConvergeObserve(o)
  BY <1>12, QuietStep DEF ConvergeReobserve, Recover, Crash, Abort, Stop, Restart,
     ConvergeObserve, vars
<1>13. QED
  BY <1>1, <1>2, <1>3, <1>4, <1>5, <1>6, <1>7, <1>8, <1>9, <1>10, <1>11, <1>12
     DEF Next, Requests, Engine

\* The engine with its receipts, crashes and recoveries implements the abstract
\* contract of a run: reversible until the barrier, one-way after it, and
\* committed only when every operation is in place.
THEOREM Implementation == Spec => ImplementsContract
<1>1. Init => Contract!Init
  BY DEF Init, Contract!Init, Verdict
<1>2. SafetyInv /\ SafetyInv' /\ [Next]_vars => [Contract!Next]_Contract!vars
  BY ContractStep DEF SafetyInv
<1>3. QED
  BY <1>1, <1>2, SafetyInvariant, PTL DEF Spec, ImplementsContract, Contract!Spec

=============================================================================
