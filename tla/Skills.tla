------------------------------- MODULE Skills -------------------------------
(***************************************************************************)
(* The life of a skill, the providers that propose changes to it, and its  *)
(* deployment to the canary.                                               *)
(***************************************************************************)
EXTENDS Integers, FiniteSets

(***************************************************************************)
(* The life of a skill: an optimizer run stages a candidate for the source *)
(* it read, a reviewer approves it as a promotion plan, the promotion      *)
(* replaces the source and leaves a receipt, and the receipt allows the    *)
(* promotion to be undone.  Requests are served concurrently and without a *)
(* lock; the daemon may die anywhere.  The provider that proposes          *)
(* candidates is itself installed, tried and activated in steps.           *)
(*                                                                         *)
(* Candidates, plans and receipts are named by digests of their content:   *)
(* here they are their content.                                            *)
(***************************************************************************)
CONSTANTS SkillWorkers,   \* requests served at the same time
          Proposals,      \* contents a provider may propose
          MaxCandidates,  \* bound: candidates on disk
          MaxOwnerMoves   \* bound: edits, commits and policy changes

ASSUME SkillBounds == MaxCandidates \in Nat /\ MaxOwnerMoves \in Nat

VARIABLES skillFile,    \* content of SKILL.md
          context,      \* git revision and policy of the repository
          candidates,   \* candidate records
          approved,     \* stored promotion plans, each of a candidate
          promotions,   \* stored promotion receipts
          skillServing,      \* what each worker is doing
          cutShort,     \* candidates whose last promotion did not end with its receipt
          written,      \* candidate whose promotion wrote the file last
          ownerMoves

skillVars == <<skillFile, context, candidates, approved, promotions, skillServing, cutShort, written, ownerMoves>>

Nobody    == [parent |-> "none"]
Unserved  == [pc |-> "idle", cand |-> Nobody, alive |-> FALSE]
Busy(w, pc) == skillServing[w].pc = pc
Finish(w)   == skillServing' = [skillServing EXCEPT ![w] = Unserved]
Goes(w, pc, cand) == skillServing' = [skillServing EXCEPT ![w] = [pc |-> pc, cand |-> cand, alive |-> FALSE]]

SkillInit ==
    /\ skillFile = "original" /\ context = [head |-> 1, policy |-> 1]
    /\ candidates = {} /\ approved = {} /\ promotions = {}
    /\ skillServing = [w \in SkillWorkers |-> Unserved]
    /\ cutShort = {} /\ written = Nobody /\ ownerMoves = 0

-----------------------------------------------------------------------------
(* optimize: the manifest must describe the repository as it is now.       *)

StartOptimize(w) ==
    /\ Busy(w, "idle") /\ Cardinality(candidates) < MaxCandidates
    /\ skillServing' = [skillServing EXCEPT ![w] =
                     [pc |-> "provider", alive |-> TRUE,
                      cand |-> [parent |-> skillFile, after |-> "none", passed |-> FALSE, context |-> context]]]
    /\ UNCHANGED <<skillFile, context, candidates, approved, promotions, cutShort, written, ownerMoves>>

\* terminate_process_group: also the descendants of a provider that exited.
Reap(alive) == FALSE

\* The provider ran in its sandbox, kept its input, accepted its edit with a
\* better score and proposed a content inside the staging directory; or any
\* of the checks failed, it wrote too much, or it ran out of time.
ProviderEnds(w, proposal) ==
    /\ Busy(w, "provider")
    /\ IF proposal = "none"
       THEN Finish(w)
       ELSE skillServing' = [skillServing EXCEPT ![w].pc = "harness", ![w].cand.after = proposal,
                                       ![w].alive = Reap(@)]
    /\ UNCHANGED <<skillFile, context, candidates, approved, promotions, cutShort, written, ownerMoves>>

\* The harness runs on the held-out cases, in a directory of its own.
HarnessEnds(w, judgement) ==
    /\ Busy(w, "harness")
    /\ IF judgement = "unusable"
       THEN Finish(w)
       ELSE Goes(w, "stage", [skillServing[w].cand EXCEPT !.passed = (judgement = "passed")])
    /\ UNCHANGED <<skillFile, context, candidates, approved, promotions, cutShort, written, ownerMoves>>

\* The id of a candidate is the digest of its manifest and its content.
SameCandidate(c, d) == [c EXCEPT !.passed = TRUE] = [d EXCEPT !.passed = TRUE]

\* persist_immutable: a different record under the same id is a conflict.
StageCandidate(w) ==
    LET c == skillServing[w].cand IN
    /\ Busy(w, "stage")
    /\ candidates' = IF \E d \in candidates : SameCandidate(c, d) THEN candidates ELSE candidates \cup {c}
    /\ Finish(w)
    /\ UNCHANGED <<skillFile, context, approved, promotions, cutShort, written, ownerMoves>>

-----------------------------------------------------------------------------
(* plan_promotion and apply_promotion.                                     *)

Approvable(c) == c.passed /\ c.context = context

PlanPromotion(c) ==
    /\ c \in candidates /\ Approvable(c) /\ c \notin approved
    /\ approved' = approved \cup {c}
    /\ UNCHANGED <<skillFile, context, candidates, promotions, skillServing, cutShort, written, ownerMoves>>

Promotable(c) == c \in approved /\ c.context = context /\ skillFile = c.parent

\* apply_promotion up to the last check ...
ApplyPromotion(w, c) ==
    /\ Busy(w, "idle") /\ Promotable(c)
    /\ Goes(w, "checked", c)
    /\ UNCHANGED <<skillFile, context, candidates, approved, promotions, cutShort, written, ownerMoves>>

\* ... atomic_replace ...
ReplaceSource(w) ==
    LET c == skillServing[w].cand IN
    /\ Busy(w, "checked")
    /\ skillFile' = c.after /\ written' = c
    /\ Goes(w, "replaced", c)
    /\ UNCHANGED <<context, candidates, approved, promotions, cutShort, ownerMoves>>

\* ... and the check of what was written: something else is answered by
\* writing the parent back.
VerifyPromotion(w) ==
    LET c == skillServing[w].cand IN
    /\ Busy(w, "replaced")
    /\ IF skillFile = c.after
       THEN Goes(w, "verified", c) /\ UNCHANGED <<skillFile, written>>
       ELSE Finish(w) /\ skillFile' = c.parent /\ written' = Nobody
    /\ UNCHANGED <<context, candidates, approved, promotions, cutShort, ownerMoves>>

SkillReceipt(c, state)    == [cand |-> c, state |-> state]
Promoting(w)         == skillServing[w].pc \in {"replaced", "verified", "recording"}

\* persist_immutable: the receipt is created empty under its name and then
\* written; one that is whole already is this promotion's too, and one that is
\* not is a conflict, for ever (PromotionFails).
RecordPromotion(w) ==
    LET c == skillServing[w].cand IN
    /\ Busy(w, "verified")
    /\ \/ /\ {SkillReceipt(c, "promoted"), SkillReceipt(c, "torn")} \cap promotions = {}
          /\ promotions' = promotions \cup {SkillReceipt(c, "torn")}
          /\ Goes(w, "recording", c)
          /\ UNCHANGED cutShort
       \/ /\ SkillReceipt(c, "promoted") \in promotions
          /\ cutShort' = cutShort \ {c} /\ Finish(w)
          /\ UNCHANGED promotions
    /\ UNCHANGED <<skillFile, context, candidates, approved, written, ownerMoves>>

WriteReceipt(w) ==
    LET c == skillServing[w].cand IN
    /\ Busy(w, "recording")
    /\ promotions' = (promotions \ {SkillReceipt(c, "torn")}) \cup {SkillReceipt(c, "promoted")}
    /\ cutShort' = cutShort \ {c} /\ Finish(w)
    /\ UNCHANGED <<skillFile, context, candidates, approved, written, ownerMoves>>

\* A step of apply_promotion fails.  Before the rename nothing has happened;
\* after it (the sync of the directory, the second read, the parent's artifact,
\* the receipt) the call returns its error and puts nothing back.
PromotionFails(w) ==
    /\ Busy(w, "checked") \/ Promoting(w)
    /\ cutShort' = IF Promoting(w) THEN cutShort \cup {skillServing[w].cand} ELSE cutShort
    /\ Finish(w)
    /\ UNCHANGED <<skillFile, context, candidates, approved, promotions, written, ownerMoves>>

-----------------------------------------------------------------------------
(* rollback_promotion.  Nothing is asked of the repository's context.      *)

RollbackPromotion(w, r) ==
    /\ Busy(w, "idle")
    /\ r \in promotions /\ r.state = "promoted" /\ skillFile = r.cand.after
    /\ Goes(w, "undo", r.cand)
    /\ UNCHANGED <<skillFile, context, candidates, approved, promotions, cutShort, written, ownerMoves>>

RestoreSource(w) ==
    LET c == skillServing[w].cand IN
    /\ Busy(w, "undo")
    /\ skillFile' = c.parent /\ written' = Nobody
    /\ Goes(w, "undone", c)
    /\ UNCHANGED <<context, candidates, approved, promotions, cutShort, ownerMoves>>

RecordRollback(w) ==
    LET c == skillServing[w].cand IN
    /\ Busy(w, "undone")
    /\ promotions' = IF skillFile = c.parent
                     THEN promotions \cup {SkillReceipt(c, "rolled_back")}
                     ELSE promotions
    /\ Finish(w)
    /\ UNCHANGED <<skillFile, context, candidates, approved, cutShort, written, ownerMoves>>

\* The restored file stays, with or without a receipt of it.
RollbackFails(w) ==
    /\ skillServing[w].pc \in {"undo", "undone"} /\ Finish(w)
    /\ UNCHANGED <<skillFile, context, candidates, approved, promotions, cutShort, written, ownerMoves>>

-----------------------------------------------------------------------------
(* The owner and the end of the daemon.                                    *)

OwnerMoves ==
    /\ ownerMoves < MaxOwnerMoves /\ ownerMoves' = ownerMoves + 1
    /\ \/ skillFile' = "edited" /\ written' = Nobody /\ UNCHANGED context
       \/ \E f \in {"head", "policy"} :
            context' = [context EXCEPT ![f] = 3 - @] /\ UNCHANGED <<skillFile, written>>
    /\ UNCHANGED <<candidates, approved, promotions, skillServing, cutShort>>

SkillDaemonDies ==
    /\ \E w \in SkillWorkers : ~Busy(w, "idle")
    /\ skillServing' = [w \in SkillWorkers |-> Unserved]
    /\ cutShort' = cutShort \cup {skillServing[w].cand : w \in {v \in SkillWorkers : Promoting(v)}}
    /\ UNCHANGED <<skillFile, context, candidates, approved, promotions, written, ownerMoves>>

SkillNext ==
    \/ \E w \in SkillWorkers :
         \/ StartOptimize(w)
         \/ \E p \in Proposals \cup {"none"} : ProviderEnds(w, p)
         \/ \E j \in {"passed", "rejected", "unusable"} : HarnessEnds(w, j)
         \/ StageCandidate(w)
         \/ \E c \in approved : ApplyPromotion(w, c)
         \/ ReplaceSource(w) \/ VerifyPromotion(w) \/ RecordPromotion(w) \/ WriteReceipt(w)
         \/ PromotionFails(w) \/ RollbackFails(w)
         \/ \E r \in promotions : RollbackPromotion(w, r)
         \/ RestoreSource(w) \/ RecordRollback(w)
    \/ \E c \in candidates : PlanPromotion(c)
    \/ OwnerMoves \/ SkillDaemonDies

-----------------------------------------------------------------------------
(* Properties.                                                             *)

(* Held-out cases reach the disk only after the provider and everything it
   started are gone (run_in_staging: "Terminate and reap the entire isolated
   job before any held-out state ... is created"). *)
HeldOutUnseen == \A w \in SkillWorkers : Busy(w, "harness") => ~skillServing[w].alive

(* Whatever the interleaving of promotions, rollbacks and edits, a file whose
   content came last from a promotion belongs to a candidate that passed the
   harness and that a reviewer approved. *)
PromotedWasApproved == written # Nobody => written.passed /\ written \in approved /\ written \in candidates

(* A promotion in force can be undone: its whole receipt is on disk, also when
   the same promotion was undone and applied again, unless the last promotion
   of the candidate ended with an error or with its worker, or is on its way. *)
PromotionUndoable ==
    written # Nobody =>
      \/ SkillReceipt(written, "promoted") \in promotions
      \/ written \in cutShort
      \/ \E w \in SkillWorkers : Promoting(w) /\ skillServing[w].cand = written

-----------------------------------------------------------------------------
(***************************************************************************)
(* Installing an optimizer provider (SkillOptProviderManager): an upgrade  *)
(* builds an environment in a directory of its own, checks it, tries it on *)
(* fixtures, moves it to its final place and reports; a second request     *)
(* activates a reported provider.                                          *)
(***************************************************************************)
CONSTANTS ProviderLocks   \* provider versions, each with its upgrade plan

VARIABLES upRoot,     \* upgrade directory of each plan: how far it got
          finalEnv,   \* final environment: "none", "fresh" or "changed"
          reports,    \* upgrades whose report was returned
          activeLock, \* the lock file
          tried,      \* environments that passed the fixtures
          upgrading,  \* upgrades being executed
          abandoned   \* upgrades whose daemon died

upgradeVars == <<upRoot, finalEnv, reports, activeLock, tried, upgrading, abandoned>>

UpgradeInit ==
    /\ upRoot = [v \in ProviderLocks |-> "none"]
    /\ finalEnv = [v \in ProviderLocks |-> "none"]
    /\ reports = {} /\ activeLock = "none" /\ tried = {}
    /\ upgrading = {} /\ abandoned = {}

\* plan_upgrade and the start of execute_upgrade.  An existing directory
\* refuses the plan.
BeginUpgrade(v) ==
    /\ v \notin upgrading /\ upRoot[v] = "none"
    /\ upRoot' = [upRoot EXCEPT ![v] = "made"]
    /\ upgrading' = upgrading \cup {v}
    /\ UNCHANGED <<finalEnv, reports, activeLock, tried, abandoned>>

Cleaned(v) == [upRoot EXCEPT ![v] = "none"]

\* Any step that fails ends the upgrade and removes its directory.
UpgradeFails(v) ==
    /\ v \in upgrading
    /\ upRoot' = Cleaned(v)
    /\ upgrading' = upgrading \ {v}
    /\ UNCHANGED <<finalEnv, reports, activeLock, tried, abandoned>>

Steps(v, from, to) ==
    /\ v \in upgrading /\ upRoot[v] = from
    /\ upRoot' = [upRoot EXCEPT ![v] = to]

\* The compiled requirements must pin the provider with the locked hash.
SyncEnvironment(v) == Steps(v, "made", "synced") /\ UNCHANGED <<finalEnv, reports, activeLock, tried, upgrading, abandoned>>

\* The marker records the measured content of the installation.
CheckEnvironment(v) == Steps(v, "synced", "checked") /\ UNCHANGED <<finalEnv, reports, activeLock, tried, upgrading, abandoned>>

\* The mock optimization on the fixtures, which must come out unchanged.
TryEnvironment(v) ==
    /\ Steps(v, "checked", "tried") /\ tried' = tried \cup {v}
    /\ UNCHANGED <<finalEnv, reports, activeLock, upgrading, abandoned>>

Installable(v) == upRoot[v] = "tried" /\ finalEnv[v] = "none"

\* An existing environment is an error (UpgradeFails).
InstallProvider(v) ==
    /\ v \in upgrading /\ Installable(v)
    /\ upRoot' = [upRoot EXCEPT ![v] = "moved"]
    /\ finalEnv' = [finalEnv EXCEPT ![v] = "fresh"]
    /\ UNCHANGED <<reports, activeLock, tried, upgrading, abandoned>>

\* The report is written last; the directory stays.
ReportUpgrade(v) ==
    /\ Steps(v, "moved", "reported")
    /\ reports' = reports \cup {v} /\ upgrading' = upgrading \ {v}
    /\ UNCHANGED <<finalEnv, activeLock, tried, abandoned>>

\* check_skillopt_provider: the marker still describes what is installed.
Compatible(v) == finalEnv[v] = "fresh"

ActivateProvider(v) ==
    /\ v \in reports /\ Compatible(v) /\ activeLock # v
    /\ activeLock' = v
    /\ UNCHANGED <<upRoot, finalEnv, reports, tried, upgrading, abandoned>>

EnvironmentEdited(v) ==
    /\ finalEnv[v] = "fresh" /\ finalEnv' = [finalEnv EXCEPT ![v] = "changed"]
    /\ UNCHANGED <<upRoot, reports, activeLock, tried, upgrading, abandoned>>

UpgradeDaemonDies ==
    /\ upgrading # {} /\ upgrading' = {}
    /\ abandoned' = abandoned \cup upgrading
    /\ UNCHANGED <<upRoot, finalEnv, reports, activeLock, tried>>

UpgradeNext ==
    \/ \E v \in ProviderLocks :
         \/ BeginUpgrade(v) \/ UpgradeFails(v) \/ SyncEnvironment(v) \/ CheckEnvironment(v)
         \/ TryEnvironment(v) \/ InstallProvider(v) \/ ReportUpgrade(v) \/ ActivateProvider(v)
         \/ EnvironmentEdited(v)
    \/ UpgradeDaemonDies

-----------------------------------------------------------------------------
(* Properties.                                                             *)

(* An environment at its final place has passed the fixtures, at every point
   of an upgrade and after every failure (execute_upgrade_in). *)
InstalledTried == \A v \in ProviderLocks : finalEnv[v] # "none" => v \in tried

(* An upgrade that failed, and did not die, can be tried again: its directory
   is gone unless it got as far as its report (execute_upgrade). *)
UpgradeRepeatable ==
    \A v \in ProviderLocks \ (upgrading \cup abandoned \cup reports) : upRoot[v] = "none"

(* A provider becomes active only when the environment its report names is
   still the one that was tried (activate_upgrade). *)
ActivatesTried ==
    [activeLock' # activeLock => finalEnv[activeLock'] = "fresh" /\ activeLock' \in tried]_upgradeVars

-----------------------------------------------------------------------------
(***************************************************************************)
(* Deploying a promoted skill to the canary (SkillDeploymentWorkflow and   *)
(* SkillCanaryRuntime): the intent of a run is written and anchored, the   *)
(* run is reconciled, its receipt is written and anchored; a rollback      *)
(* request undoes a verified run; opening the runtime recovers the runs    *)
(* that have an intent and neither a receipt nor a recovery receipt.       *)
(* Deployments are serialised by a mutex, rollbacks are not.               *)
(*                                                                         *)
(* Run r deploys content r.  A record is "torn" when its writer died after *)
(* creating the file.                                                      *)
(***************************************************************************)
CONSTANTS CanaryRuns,    \* run ids of requests
          MaxCanaryBoots \* bound: times the runtime is opened

ASSUME CanaryBounds == CanaryRuns \subseteq Nat \ {0} /\ MaxCanaryBoots \in Nat

VARIABLES canary,     \* content of the canary target; 0 before any deployment
          saw,        \* content the plan of each run observed
          ledger,     \* reconcile state of each run
          paper,      \* records of each run
          anchored,   \* anchors of each run
          runtime,    \* "up", "down" or "opening"
          deployer,   \* the deployment holding the mutex
          undoer,     \* the rollback request in progress
          boots,
          carried     \* runs begun before the runtime was last opened

canaryVars == <<canary, saw, ledger, paper, anchored, runtime, deployer, undoer, boots, carried>>

Labels  == {"intent", "receipt", "recovery", "rollback", "failure"}
CanaryAt(pc, r) == [pc |-> pc, run |-> r]
Rest    == CanaryAt("idle", 0)
Terminal == {"succeeded", "rolled_back", "rollback_failed", "canceled"}

CanaryInit ==
    /\ canary = 0
    /\ saw = [r \in CanaryRuns |-> -1]
    /\ ledger = [r \in CanaryRuns |-> "none"]
    /\ paper = [r \in CanaryRuns |-> [l \in Labels |-> "none"]]
    /\ anchored = [r \in CanaryRuns |-> {}]
    /\ runtime = "up" /\ deployer = Rest /\ undoer = Rest
    /\ boots = 0 /\ carried = {}

\* persist_receipt: an equal record is accepted, another one is refused.
Persisted(r, l, v) ==
    /\ paper[r][l] \in {"none", v}
    /\ paper' = [paper EXCEPT ![r][l] = v]
Anchor(r, l)   == anchored' = [anchored EXCEPT ![r] = @ \cup {l}]
Verified(r, l) == paper[r][l] \notin {"none", "torn"} /\ l \in anchored[r]

-----------------------------------------------------------------------------
(* apply.                                                                  *)

\* The compiler binds the plan to what it observes on the target.
Compiled(r) == saw' = [saw EXCEPT ![r] = canary]

\* prepare authenticates the promotion and compiles it.
WriteIntent(r) ==
    /\ runtime = "up" /\ deployer = Rest /\ paper[r].intent = "none"
    /\ Compiled(r)
    /\ Persisted(r, "intent", "whole")
    /\ deployer' = CanaryAt("anchor_intent", r)
    /\ UNCHANGED <<canary, ledger, anchored, runtime, undoer, boots, carried>>

AnchorIntent ==
    /\ deployer.pc = "anchor_intent"
    /\ Anchor(deployer.run, "intent")
    /\ deployer' = CanaryAt("execute", deployer.run)
    /\ UNCHANGED <<canary, saw, ledger, paper, runtime, undoer, boots, carried>>

OpenJournal ==
    /\ deployer.pc = "execute"
    /\ ledger' = [ledger EXCEPT ![deployer.run] = "prepared"]
    /\ deployer' = CanaryAt("run", deployer.run)
    /\ UNCHANGED <<canary, saw, paper, anchored, runtime, undoer, boots, carried>>

\* The file adapter replaces only what the plan saw.
ApplyCanary ==
    LET r == deployer.run IN
    /\ deployer.pc = "run" /\ ledger[r] = "prepared"
    /\ ledger' = [ledger EXCEPT ![r] = "open"]
    /\ canary' = IF canary = saw[r] THEN r ELSE canary
    /\ UNCHANGED <<saw, paper, anchored, runtime, deployer, undoer, boots, carried>>

\* A preparation that fails cancels the run.
CancelRun ==
    /\ deployer.pc = "run" /\ ledger[deployer.run] = "prepared"
    /\ ledger' = [ledger EXCEPT ![deployer.run] = "canceled"]
    /\ deployer' = Rest
    /\ UNCHANGED <<canary, saw, paper, anchored, runtime, undoer, boots, carried>>

\* Verified, or undone: a file is restored only while it holds what the run
\* wrote.  A receipt that cannot be stored leaves the run as it is.
FinishRun(outcome) ==
    LET r == deployer.run IN
    /\ deployer.pc = "run" /\ ledger[r] = "open"
    /\ \/ outcome = "succeeded" /\ canary = r /\ UNCHANGED canary
       \/ outcome = "rolled_back" /\ canary = r /\ canary' = saw[r]
       \/ outcome \in {"rollback_failed", "open"} /\ UNCHANGED canary
    /\ ledger' = [ledger EXCEPT ![r] = outcome]
    /\ deployer' = IF outcome = "succeeded" THEN CanaryAt("receipt", r) ELSE Rest
    /\ UNCHANGED <<saw, paper, anchored, runtime, undoer, boots, carried>>

WriteDeployment ==
    /\ deployer.pc = "receipt"
    /\ Persisted(deployer.run, "receipt", "whole")
    /\ deployer' = CanaryAt("anchor_receipt", deployer.run)
    /\ UNCHANGED <<canary, saw, ledger, anchored, runtime, undoer, boots, carried>>

AnchorDeployment ==
    /\ deployer.pc = "anchor_receipt"
    /\ Anchor(deployer.run, "receipt")
    /\ deployer' = Rest
    /\ UNCHANGED <<canary, saw, ledger, paper, runtime, undoer, boots, carried>>

-----------------------------------------------------------------------------
(* load and rollback.                                                      *)

\* The receipt names the version of the reconcile receipt that succeeded.
Loadable(r) == Verified(r, "intent") /\ Verified(r, "receipt") /\ ledger[r] = "succeeded"

StartUndo(r) ==
    /\ runtime = "up" /\ undoer = Rest /\ Loadable(r)
    /\ ledger' = [ledger EXCEPT ![r] = "rolling"]
    /\ undoer' = CanaryAt("undo", r)
    /\ UNCHANGED <<canary, saw, paper, anchored, runtime, deployer, boots, carried>>

UndoRun(outcome) ==
    LET r == undoer.run IN
    /\ undoer.pc = "undo"
    /\ \/ outcome = "rolled_back" /\ canary = r /\ canary' = saw[r]
       \/ outcome = "rollback_failed" /\ UNCHANGED canary
    /\ ledger' = [ledger EXCEPT ![r] = outcome]
    /\ undoer' = CanaryAt(outcome, r)
    /\ UNCHANGED <<saw, paper, anchored, runtime, deployer, boots, carried>>

\* observe_digest may fail, and then counts as a difference.
UndoObserved(r) == canary = saw[r]

WriteUndo(seen) ==
    LET r == undoer.run
        l == IF undoer.pc = "rolled_back" /\ seen THEN "rollback" ELSE "failure" IN
    /\ undoer.pc \in {"rolled_back", "rollback_failed"}
    /\ seen => UndoObserved(r)
    /\ Persisted(r, l, "whole")
    /\ undoer' = CanaryAt(IF l = "rollback" THEN "anchor_rollback" ELSE "anchor_failure", r)
    /\ UNCHANGED <<canary, saw, ledger, anchored, runtime, deployer, boots, carried>>

AnchorUndo ==
    /\ undoer.pc \in {"anchor_rollback", "anchor_failure"}
    /\ Anchor(undoer.run, IF undoer.pc = "anchor_rollback" THEN "rollback" ELSE "failure")
    /\ undoer' = Rest
    /\ UNCHANGED <<canary, saw, ledger, paper, runtime, deployer, boots, carried>>

-----------------------------------------------------------------------------
(* The daemon dies, and opens the runtime again.                           *)

\* The record being written is left whole, torn or not at all.
Interrupted(a, pc, l) == IF a.pc = pc THEN {[run |-> a.run, label |-> l]} ELSE {}
CanaryDies(v) ==
    LET cut == Interrupted(deployer, "anchor_intent", "intent") \cup Interrupted(deployer, "anchor_receipt", "receipt") IN
    /\ runtime # "down" /\ runtime' = "down"
    /\ v = "torn" => cut # {}
    /\ paper' = [r \in CanaryRuns |-> [l \in Labels |->
                   IF v = "torn" /\ [run |-> r, label |-> l] \in cut THEN "torn" ELSE paper[r][l]]]
    /\ deployer' = Rest /\ undoer' = Rest
    /\ UNCHANGED <<canary, saw, ledger, anchored, boots, carried>>

OpenRuntime ==
    /\ runtime = "down" /\ boots < MaxCanaryBoots
    /\ runtime' = "opening" /\ boots' = boots + 1
    /\ carried' = {r \in CanaryRuns : paper[r].intent # "none"}
    /\ UNCHANGED <<canary, saw, ledger, paper, anchored, deployer, undoer>>

Pending(r) == paper[r].intent # "none" /\ paper[r].receipt = "none" /\ paper[r].recovery = "none"

NextPending(r) == Pending(r) /\ \A q \in CanaryRuns : Pending(q) => r <= q

\* recover: an intent that does not verify, or has no journal, fails the
\* start of the runtime.
RecoverRefused(r) ==
    /\ runtime = "opening" /\ NextPending(r)
    /\ ~Verified(r, "intent") \/ ledger[r] = "none"
    /\ runtime' = "down"
    /\ UNCHANGED <<canary, saw, ledger, paper, anchored, deployer, undoer, boots, carried>>

\* Mutant: a run whose content is in place counts as verified.
FinalizableInPlace(r) == ledger[r] = "succeeded" \/ (ledger[r] = "open" /\ canary = r)

Finalizable(r) == ledger[r] = "succeeded"

FinalizeRun(r) ==
    /\ runtime = "opening" /\ NextPending(r) /\ Verified(r, "intent") /\ Finalizable(r)
    /\ Persisted(r, "receipt", "whole")
    /\ Anchor(r, "receipt")
    /\ UNCHANGED <<canary, saw, ledger, runtime, deployer, undoer, boots, carried>>

RecordedAs(r, outcome) == Persisted(r, "recovery", outcome) /\ Anchor(r, "recovery")

\* recover_run, then the state of the target decides what is recorded.  A run
\* that is restored but not recognised is recorded as failed, and fails the
\* start once.
RecoverCanary(r, outcome) ==
    LET restored == IF outcome = "rolled_back" /\ ledger[r] \notin Terminal THEN saw[r] ELSE canary
        honest   == outcome = "rolled_back" => restored = saw[r] IN
    /\ runtime = "opening" /\ NextPending(r) /\ Verified(r, "intent")
    /\ ledger[r] \notin {"none", "succeeded"}
    /\ CASE ledger[r] \in Terminal -> outcome = ledger[r]
         [] ledger[r] = "prepared" -> outcome = "canceled"
         [] OTHER -> \/ outcome = "rolled_back" /\ canary = r
                     \/ outcome = "rollback_failed"
    /\ canary' = restored
    /\ ledger' = [ledger EXCEPT ![r] = outcome]
    /\ RecordedAs(r, IF honest THEN outcome ELSE "rollback_failed")
    /\ runtime' = IF honest THEN "opening" ELSE "down"
    /\ UNCHANGED <<saw, deployer, undoer, boots, carried>>

RuntimeOpens ==
    /\ runtime = "opening" /\ \A r \in CanaryRuns : ~Pending(r)
    /\ runtime' = "up"
    /\ UNCHANGED <<canary, saw, ledger, paper, anchored, deployer, undoer, boots, carried>>

CanaryNext ==
    \/ \E r \in CanaryRuns : WriteIntent(r) \/ StartUndo(r) \/ RecoverRefused(r) \/ FinalizeRun(r)
    \/ AnchorIntent \/ OpenJournal \/ CancelRun \/ ApplyCanary \/ WriteDeployment \/ AnchorDeployment
    \/ \E o \in {"succeeded", "rolled_back", "rollback_failed", "open"} : FinishRun(o)
    \/ \E o \in {"rolled_back", "rollback_failed"} : UndoRun(o)
    \/ \E seen \in BOOLEAN : WriteUndo(seen)
    \/ AnchorUndo
    \/ \E v \in {"as_is", "torn"} : CanaryDies(v)
    \/ OpenRuntime \/ RuntimeOpens
    \/ \E r \in CanaryRuns, o \in Terminal : RecoverCanary(r, o)

-----------------------------------------------------------------------------
(* Properties.                                                             *)

(* A deployment receipt that verifies belongs to a run that was verified on
   the canary, whether apply or a later start wrote it, and its intent
   verifies too: load never vouches for a run that was undone. *)
ReceiptMeansDeployed ==
    \A r \in CanaryRuns : Verified(r, "receipt") =>
      Verified(r, "intent") /\ ledger[r] \in {"succeeded", "rolling", "rolled_back", "rollback_failed"}
      /\ paper[r].recovery = "none"

(* A rollback receipt or a "rolled_back" recovery receipt is written only
   while the canary holds what the plan of that run had seen, also when
   another deployment runs at the same time. *)
RestoredIsSeen ==
    [\A r \in CanaryRuns :
         \/ paper[r].rollback = "none" /\ paper'[r].rollback = "whole"
         \/ paper[r].recovery = "none" /\ paper'[r].recovery = "rolled_back"
         => canary' = saw[r]]_canaryVars

(* A runtime that serves has settled every run an earlier daemon left behind,
   unless the run already had its receipt when a rollback of it died. *)
ServingSettled ==
    runtime = "up" => \A r \in carried :
      ledger[r] \in {"prepared", "open", "rolling"} => paper[r].receipt # "none" \/ paper[r].recovery # "none"
=============================================================================
