---------------------------- MODULE ReceiptStore ----------------------------
(***************************************************************************)
(* ReceiptStore of commonkit-reconcile: the immutable snapshots of one     *)
(* run, one file for each transition, and the writers that add to them.    *)
(*                                                                         *)
(* A history is the sequence of transitions of a receipt.  The name of a   *)
(* snapshot is its sequence number and the digest of its last transition,  *)
(* which covers all earlier ones, so a history stands for its own file     *)
(* name: files are the final snapshots and tmps the temporary ones.        *)
(*                                                                         *)
(* A writer is a call that uses one ReceiptStore value, StoreOf[w]; every  *)
(* ReceiptStore::open makes a new one with a recovery_lock of its own.     *)
(* Executors are calls that execute or recover the run; in the daemon they *)
(* come one at a time (ExecutionLock), callers of the library need not.    *)
(* The other writers are rollback requests.  Sessions (recover_run,        *)
(* rollback) hold the recovery_lock from load to return, executions take   *)
(* it for each persist.                                                    *)
(***************************************************************************)
EXTENDS Integers, Sequences

CONSTANTS Writers,      \* calls in flight
          Stores,       \* ReceiptStore values opened on the directory
          StoreOf,      \* the store each writer uses
          Executors,    \* calls that execute or recover the run
          ExecutionLock,\* they are serialized by LocalPlanExecutor
          Values,       \* what a transition may record
          Succeeded,    \* the transition to ReceiptState::Succeeded
          RollingBack,  \* the transition that must follow it
          MaxLen,       \* bound on the transitions of the run
          MaxStops,     \* bound on crashes and early returns
          None          \* no writer

ASSUME StoreAssumption == /\ StoreOf \in [Writers -> Stores]
                          /\ Executors \subseteq Writers
                          /\ ExecutionLock \in BOOLEAN
                          /\ {Succeeded, RollingBack} \subseteq Values
                          /\ None \notin Writers
ASSUME LimitAssumption == MaxLen \in Nat /\ MaxStops \in Nat

VARIABLES files, tmps, lock, session, mem, pc, stops

disk    == <<files, tmps>>
vars    == <<files, tmps, lock, session, mem, pc, stops>>

Steps == {"idle", "ensure", "ready", "persist", "create", "rename"}

Histories == {h \in Seq(Values) : Len(h) <= MaxLen}

TypeOK ==
    /\ files \subseteq Histories \ {<<>>}
    /\ tmps \subseteq Histories
    /\ lock \in [Stores -> Writers \cup {None}]
    /\ session \in [Writers -> BOOLEAN]
    /\ mem \in [Writers -> Histories]
    /\ pc \in [Writers -> Steps]
    /\ stops \in 0..MaxStops

-----------------------------------------------------------------------------
(* load_unlocked: the snapshots, ordered by sequence number, must have the *)
(* numbers 0, 1, 2, ... and each must extend the one before it.            *)

Prior(h) == SubSeq(h, 1, Len(h) - 1)

Loadable ==
    /\ files # {}
    /\ \A f \in files : Len(f) = 1 \/ Prior(f) \in files
    /\ \A f, g \in files : Len(f) = Len(g) => f = g

IsLatest(h) == h \in files /\ \A f \in files : Len(f) <= Len(h)

Init ==
    /\ files = {} /\ tmps = {}
    /\ lock = [s \in Stores |-> None]
    /\ session = [w \in Writers |-> FALSE]
    /\ mem = [w \in Writers |-> <<>>]
    /\ pc = [w \in Writers |-> "idle"]
    /\ stops = 0

Goto(w, step) == pc' = [pc EXCEPT ![w] = step]

\* recovery_lock is free, or this call already holds it.
CanLock(w) == lock[StoreOf[w]] \in {None, w}
Lock(w)    == lock' = [lock EXCEPT ![StoreOf[w]] = w]
Unlock(w)  == lock' = [lock EXCEPT ![StoreOf[w]] = None]

\* An execution gives the lock back after each persist.
UnlockUnlessSession(w) == IF session[w] THEN UNCHANGED lock ELSE Unlock(w)

\* The call returns, with an error or because it is done.
Return(w) ==
    /\ Goto(w, "idle")
    /\ mem' = [mem EXCEPT ![w] = <<>>]
    /\ session' = [session EXCEPT ![w] = FALSE]
    /\ IF lock[StoreOf[w]] = w THEN Unlock(w) ELSE UNCHANGED lock
    /\ UNCHANGED disk

\* execution_lock of LocalPlanExecutor.
Serial(w) == ExecutionLock /\ w \in Executors => \A x \in Executors : pc[x] = "idle"

IsSucceeded(h) == h # <<>> /\ h[Len(h)] = Succeeded

\* Mutant: the session loads its journal without taking the lock.
OpenSessionUnlocked(w) ==
    /\ pc[w] = "idle" /\ Serial(w) /\ Loadable
    /\ \E h \in files : /\ IsLatest(h) /\ mem' = [mem EXCEPT ![w] = h]
                        /\ IsSucceeded(h) <=> w \notin Executors
    /\ session' = [session EXCEPT ![w] = TRUE]
    /\ Goto(w, "ensure") /\ UNCHANGED <<lock, disk, stops>>

\* with_recovery_lock, load_validated_run: a session opens the run's receipt, to
\* roll a succeeded run back or to recover an interrupted one.
OpenSession(w) ==
    /\ pc[w] = "idle" /\ Serial(w) /\ CanLock(w) /\ Loadable
    /\ \E h \in files : /\ IsLatest(h) /\ mem' = [mem EXCEPT ![w] = h]
                        /\ IsSucceeded(h) <=> w \notin Executors
    /\ session' = [session EXCEPT ![w] = TRUE]
    /\ Goto(w, "ensure") /\ Lock(w) /\ UNCHANGED <<disk, stops>>

\* ensure_current_run, before any adapter is opened.
EnsureCurrent(w) ==
    /\ pc[w] = "ensure"
    /\ \/ /\ Loadable /\ IsLatest(mem[w])
          /\ Goto(w, "ready") /\ UNCHANGED <<disk, lock, session, mem, stops>>
       \/ ~(Loadable /\ IsLatest(mem[w])) /\ Return(w) /\ UNCHANGED stops

\* Mutant: the journal is persisted before it has its first transition.
StartExecuteEmpty(w) ==
    /\ w \in Executors /\ pc[w] = "idle" /\ Serial(w) /\ CanLock(w) /\ files = {}
    /\ Goto(w, "persist") /\ UNCHANGED <<disk, lock, session, mem, stops>>

\* execute_durable loads under the lock, finds no receipt and starts a journal.
StartExecute(w) ==
    /\ w \in Executors /\ pc[w] = "idle" /\ Serial(w) /\ CanLock(w) /\ files = {}
    /\ Goto(w, "ready") /\ UNCHANGED <<disk, lock, session, mem, stops>>

\* The call has recorded all it has to (or the bound is reached).
Ended(w) == \/ Len(mem[w]) = MaxLen
            \/ w \in Executors /\ IsSucceeded(mem[w])

\* A transition, a phase or an exit is added to the journal in memory.
Record(w, v) ==
    /\ pc[w] = "ready" /\ ~Ended(w)
    /\ IsSucceeded(mem[w]) <=> v = RollingBack
    /\ v = Succeeded => \A i \in 1..Len(mem[w]) : mem[w][i] # RollingBack
    /\ mem' = [mem EXCEPT ![w] = Append(@, v)]
    /\ Goto(w, "persist") /\ UNCHANGED <<disk, lock, session, stops>>

-----------------------------------------------------------------------------
(* persist_unlocked *)

\* current_count >= incoming_count
Overtaken(h) == Loadable /\ \E f \in files : Len(f) >= Len(h)

\* The loaded receipt is not a prefix of the incoming one.
Conflicts(h) ==
    Loadable /\ \E f \in files : Len(f) <= Len(h) /\ f # SubSeq(h, 1, Len(f))

\* Mutant: a snapshot that is already there counts as this one.
AlreadyDurableByCount(h) == Overtaken(h)

\* The receipt, or a file of its name, is already there.
AlreadyDurable(h) == \/ Overtaken(h) /\ IsLatest(h)
                     \/ ~Overtaken(h) /\ ~Conflicts(h) /\ h \in files

\* Mutant: only the incoming count is compared, not the history.
RefusedNever(h) == FALSE

\* StaleWrite or ConflictingHistory.
Refused(h) == (Overtaken(h) /\ ~IsLatest(h)) \/ (~Overtaken(h) /\ Conflicts(h))

Check(w) ==
    /\ pc[w] = "persist" /\ CanLock(w)
    /\ \/ /\ AlreadyDurable(mem[w])
          /\ Goto(w, "ready") /\ UNCHANGED <<disk, lock, session, mem, stops>>
       \/ ~AlreadyDurable(mem[w]) /\ Refused(mem[w]) /\ Return(w) /\ UNCHANGED stops
       \/ /\ ~AlreadyDurable(mem[w]) /\ ~Refused(mem[w])
          /\ Goto(w, "create") /\ Lock(w)
          /\ UNCHANGED <<disk, session, mem, stops>>

\* create_new, write_all, sync_all: fails if the temporary file exists.
CreateTemporary(w) ==
    /\ pc[w] = "create"
    /\ \/ /\ mem[w] \notin tmps
          /\ tmps' = tmps \cup {mem[w]}
          /\ Goto(w, "rename") /\ UNCHANGED <<files, lock, session, mem, stops>>
       \/ mem[w] \in tmps /\ Return(w) /\ UNCHANGED stops

Rename(w) ==
    /\ pc[w] = "rename"
    /\ files' = files \cup {mem[w]} /\ tmps' = tmps \ {mem[w]}
    /\ Goto(w, "ready") /\ UnlockUnlessSession(w)
    /\ UNCHANGED <<session, mem, stops>>

Finish(w) == pc[w] = "ready" /\ Ended(w) /\ Return(w) /\ UNCHANGED stops

\* The call returns early, with an error that has nothing to do with the store.
GiveUp(w) ==
    /\ pc[w] = "ready" /\ Return(w)
    /\ stops < MaxStops /\ stops' = stops + 1

\* Mutant: start-up clears the run directory.
CrashWiping ==
    /\ stops < MaxStops /\ stops' = stops + 1
    /\ lock' = [s \in Stores |-> None]
    /\ session' = [w \in Writers |-> FALSE]
    /\ mem' = [w \in Writers |-> <<>>]
    /\ pc' = [w \in Writers |-> "idle"]
    /\ files' = {} /\ tmps' = {}

\* The daemon dies: locks and journals in memory are gone, the disk is not.
Crash ==
    /\ stops < MaxStops /\ stops' = stops + 1
    /\ lock' = [s \in Stores |-> None]
    /\ session' = [w \in Writers |-> FALSE]
    /\ mem' = [w \in Writers |-> <<>>]
    /\ pc' = [w \in Writers |-> "idle"]
    /\ UNCHANGED disk

Step(w) == \/ EnsureCurrent(w) \/ Check(w) \/ CreateTemporary(w)
           \/ Rename(w) \/ Finish(w) \/ (\E v \in Values : Record(w, v))

Begin(w) == OpenSession(w) \/ StartExecute(w)

Next == (\E w \in Writers : Step(w) \/ Begin(w) \/ GiveUp(w)) \/ Crash

Spec == Init /\ [][Next]_vars

\* Started calls run on, and the client asks again until the run is complete.
FairSpec == Spec /\ \A w \in Writers : WF_vars(Step(w)) /\ WF_vars(Begin(w))

-----------------------------------------------------------------------------
(* Properties. *)

\* "A crash therefore exposes either the prior complete transition or the next
\* complete transition" (lib.rs:358): whatever interleaving of writers and
\* crashes, the snapshots on disk are one gap-free chain that load accepts.
SnapshotsFormChain == files # {} => Loadable

\* A journal whose persist returned Ok is on disk, also when the answer was
\* given without writing.
AckedIsDurable ==
    \A w \in Writers : pc[w] = "ready" /\ mem[w] # <<>> => mem[w] \in files

\* "Serializes recovery validation, adapter setup, and receipt mutation"
\* (lib.rs:2177): the journal of a session between its steps is the latest one.
SessionIsCurrent ==
    \A w \in Writers : pc[w] = "ready" /\ session[w] => IsLatest(mem[w])

\* The snapshots implement an append-only log.
Latest == IF files = {} THEN <<>> ELSE CHOOSE h \in files : IsLatest(h)

Log == INSTANCE ReceiptLog WITH log <- Latest

\* What load returns grows by one transition at a time and never changes.
ImplementsLog == Log!Spec

\* A run that is asked for again and again is completed.
RunCompletes == <>(\E h \in files : Len(h) = MaxLen \/ IsSucceeded(h))
=============================================================================
