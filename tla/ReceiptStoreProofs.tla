------------------------- MODULE ReceiptStoreProofs -------------------------
(***************************************************************************)
(* The receipt store keeps its promise for any number of calls, crashes    *)
(* and transitions, provided all calls use the same ReceiptStore value.    *)
(***************************************************************************)
EXTENDS ReceiptStore, SequenceTheorems, TLAPS

\* All calls go through one ReceiptStore value, hence one recovery_lock.
OneStore == \A w, x \in Writers : StoreOf[w] = StoreOf[x]

Writing == {"create", "rename"}

\* Who holds the lock.
LockHeld ==
    \A w \in Writers :
        \/ pc[w] = "idle"
        \/ pc[w] \in {"ready", "persist"} /\ ~session[w]
        \/ lock[StoreOf[w]] = w

\* The snapshots have distinct sequence numbers without a gap.
Chain == /\ \A f \in files : Len(f) = 1 \/ Prior(f) \in files
         /\ \A f, g \in files : Len(f) = Len(g) => f = g

\* How the journals in memory relate to the snapshots on disk.
Journals ==
    \A w \in Writers :
        /\ pc[w] = "idle" => mem[w] = <<>> /\ ~session[w]
        /\ pc[w] = "ready" => mem[w] = <<>> \/ mem[w] \in files
        /\ session[w] /\ pc[w] \in {"ensure", "ready"} => IsLatest(mem[w])
        /\ pc[w] = "ensure" => session[w]
        /\ pc[w] \in Writing \cup {"persist"} =>
             mem[w] # <<>> /\ (Len(mem[w]) = 1 \/ Prior(mem[w]) \in files)
        /\ pc[w] \in Writing \/ (pc[w] = "persist" /\ session[w]) =>
             \A f \in files : Len(f) < Len(mem[w])

StoreInv == TypeOK /\ LockHeld /\ Chain /\ Journals

-----------------------------------------------------------------------------
(* Facts about histories. *)

\* Adding a transition keeps the earlier ones (ReceiptJournal::transition).
LEMMA AppendHistory ==
    ASSUME NEW h \in Seq(Values), NEW v \in Values
    PROVE  /\ Append(h, v) \in Seq(Values) /\ Append(h, v) # <<>>
           /\ Len(Append(h, v)) = Len(h) + 1
           /\ Prior(Append(h, v)) = h
BY DEF Prior

\* A non-empty history is its last transition added to the prior history.
LEMMA PriorHistory ==
    ASSUME NEW h \in Seq(Values), h # <<>>
    PROVE  /\ Prior(h) \in Seq(Values) /\ Len(Prior(h)) = Len(h) - 1
           /\ \E v \in Values : h = Append(Prior(h), v)
<1>1. PICK s \in Seq(Values), v \in Values : h = Append(s, v)
  BY SequenceEmptyOrAppend
<1>2. Prior(h) = s /\ Len(h) = Len(s) + 1
  BY <1>1, AppendHistory
<1>3. QED
  BY <1>1, <1>2, LenProperties

-----------------------------------------------------------------------------
(* Type correctness. *)

\* A call that returns leaves everything well typed (with_recovery_lock).
LEMMA ReturnType ==
    ASSUME TypeOK, NEW w \in Writers, Return(w), stops' \in 0..MaxStops
    PROVE  TypeOK'
<1>1. <<>> \in Histories
  BY EmptySeq, LimitAssumption DEF Histories
<1>2. QED
  BY <1>1, StoreAssumption DEF TypeOK, Return, Unlock, Goto, disk, Steps

\* Every step keeps the snapshots, the locks and the journals well typed.
LEMMA StoreType ==
    ASSUME TypeOK, Journals, [Next]_vars
    PROVE  TypeOK'
<1> USE StoreAssumption, LimitAssumption DEF TypeOK, disk, Goto, Steps
<1>2. ASSUME NEW w \in Writers, OpenSession(w) PROVE TypeOK'
  BY <1>2 DEF OpenSession, Lock
<1>3. ASSUME NEW w \in Writers, EnsureCurrent(w) PROVE TypeOK'
  <2>1. CASE Return(w) /\ UNCHANGED stops
    BY <2>1, ReturnType
  <2>2. QED
    BY <1>3, <2>1 DEF EnsureCurrent
<1>4. ASSUME NEW w \in Writers, StartExecute(w) PROVE TypeOK'
  BY <1>4 DEF StartExecute
<1>5. ASSUME NEW w \in Writers, NEW v \in Values, Record(w, v) PROVE TypeOK'
  <2>1. Append(mem[w], v) \in Histories
    BY <1>5, AppendHistory, LenProperties DEF Record, Ended, Histories
  <2>2. QED
    BY <1>5, <2>1 DEF Record
<1>6. ASSUME NEW w \in Writers, Check(w) PROVE TypeOK'
  <2>1. CASE Return(w) /\ UNCHANGED stops
    BY <2>1, ReturnType
  <2>2. CASE Goto(w, "ready") /\ UNCHANGED <<disk, lock, session, mem, stops>>
    BY <2>2
  <2>3. CASE Goto(w, "create") /\ Lock(w) /\ UNCHANGED <<disk, session, mem, stops>>
    BY <2>3 DEF Lock
  <2>4. QED
    BY <1>6, <2>1, <2>2, <2>3, Zenon DEF Check
<1>7. ASSUME NEW w \in Writers, CreateTemporary(w) PROVE TypeOK'
  <2>1. CASE Return(w) /\ UNCHANGED stops
    BY <2>1, ReturnType
  <2>2. CASE tmps' = tmps \cup {mem[w]} /\ Goto(w, "rename")
             /\ UNCHANGED <<files, lock, session, mem, stops>>
    BY <2>2
  <2>3. QED
    BY <1>7, <2>1, <2>2, Zenon DEF CreateTemporary
<1>8. ASSUME NEW w \in Writers, Rename(w) PROVE TypeOK'
  <2>1. mem[w] # <<>>
    BY <1>8 DEF Rename, Journals, Writing
  <2>2. QED
    BY <1>8, <2>1 DEF Rename, UnlockUnlessSession, Unlock
<1>9. ASSUME NEW w \in Writers, Finish(w) PROVE TypeOK'
  BY <1>9, ReturnType DEF Finish
<1>10. ASSUME NEW w \in Writers, GiveUp(w) PROVE TypeOK'
  BY <1>10, ReturnType DEF GiveUp
<1>11. CASE Crash
  <2>1. <<>> \in Histories
    BY EmptySeq DEF Histories
  <2>2. [w \in Writers |-> FALSE] \in [Writers -> BOOLEAN]
    BY Zenon
  <2>3. QED
    BY <1>11, <2>1, <2>2 DEF Crash
<1>12. CASE UNCHANGED vars
  BY <1>12 DEF vars
<1>13. QED
  BY <1>2, <1>3, <1>4, <1>5, <1>6, <1>7, <1>8, <1>9, <1>10, <1>11, <1>12
     DEF Next, Step, Begin

-----------------------------------------------------------------------------
(* The invariant. *)

\* A call that returns disturbs no other call (with_recovery_lock).
LEMMA ReturnSafe ==
    ASSUME OneStore, StoreInv, NEW w \in Writers, Return(w)
    PROVE  LockHeld' /\ Chain' /\ Journals'
<1> USE StoreAssumption DEF StoreInv, TypeOK, Return, Goto, Unlock, disk
<1>1. LockHeld'
  BY DEF LockHeld
<1>2. Chain'
  BY DEF Chain
<1>3. Journals'
  BY DEF Journals, IsLatest, Writing
<1>4. QED
  BY <1>1, <1>2, <1>3

\* A step of one call that leaves the disk alone disturbs no other call, if it
\* takes only a lock that is free.
LEMMA QuietCall ==
    ASSUME OneStore, StoreInv, NEW w \in Writers, UNCHANGED files,
           \A x \in Writers \ {w} : /\ pc'[x] = pc[x] /\ mem'[x] = mem[x]
                                    /\ session'[x] = session[x],
           lock' = lock \/ (CanLock(w) /\ Lock(w)),
           \/ pc'[w] = "idle"
           \/ pc'[w] \in {"ready", "persist"} /\ ~session'[w]
           \/ lock'[StoreOf[w]] = w,
           /\ pc'[w] = "idle" => mem'[w] = <<>> /\ ~session'[w]
           /\ pc'[w] = "ready" => mem'[w] = <<>> \/ mem'[w] \in files
           /\ session'[w] /\ pc'[w] \in {"ensure", "ready"} => IsLatest(mem'[w])
           /\ pc'[w] = "ensure" => session'[w]
           /\ pc'[w] \in Writing \cup {"persist"} =>
                /\ mem'[w] # <<>>
                /\ Len(mem'[w]) = 1 \/ Prior(mem'[w]) \in files
           /\ pc'[w] \in Writing \/ (pc'[w] = "persist" /\ session'[w]) =>
                \A f \in files : Len(f) < Len(mem'[w])
    PROVE  LockHeld' /\ Chain' /\ Journals'
<1>1. LockHeld'
  BY StoreAssumption DEF StoreInv, TypeOK, LockHeld, CanLock, Lock, OneStore
<1>2. Chain'
  BY DEF StoreInv, Chain
<1>3. Journals'
  BY DEF StoreInv, Journals, IsLatest
<1>4. QED
  BY <1>1, <1>2, <1>3

\* Under the invariant, the check of persist_unlocked finds the newest snapshot.
LEMMA CheckFacts ==
    ASSUME StoreInv, NEW h \in Histories, h # <<>>
    PROVE  /\ AlreadyDurable(h) => IsLatest(h)
           /\ ~AlreadyDurable(h) /\ ~Refused(h) => \A f \in files : Len(f) < Len(h)
<1>1. files # {} => Loadable
  BY DEF StoreInv, Chain, Loadable
<1>2. \A f \in files : Len(f) \in Nat
  BY LenProperties DEF StoreInv, TypeOK, Histories
<1>3. Len(h) \in Nat
  BY LenProperties DEF Histories
<1>4. AlreadyDurable(h) => IsLatest(h)
  BY <1>1, <1>2, <1>3 DEF AlreadyDurable, Overtaken, IsLatest
<1>5. ~AlreadyDurable(h) /\ ~Refused(h) => \A f \in files : Len(f) < Len(h)
  BY <1>1, <1>2, <1>3 DEF AlreadyDurable, Refused, Overtaken
<1>6. QED
  BY <1>4, <1>5

\* Every step preserves the invariant when the calls share one store.
LEMMA StoreSafe ==
    ASSUME OneStore, StoreInv, [Next]_vars
    PROVE  LockHeld' /\ Chain' /\ Journals'
<1> USE StoreAssumption DEF StoreInv, TypeOK, disk, Goto
<1>1. ASSUME NEW w \in Writers, OpenSession(w) PROVE LockHeld' /\ Chain' /\ Journals'
  <2>1. PICK h \in files : IsLatest(h) /\ mem' = [mem EXCEPT ![w] = h]
    BY <1>1 DEF OpenSession
  <2>2. /\ pc'[w] = "ensure" /\ session'[w] /\ mem'[w] = h
        /\ CanLock(w) /\ Lock(w) /\ UNCHANGED files
        /\ lock'[StoreOf[w]] = w
    BY <1>1, <2>1 DEF OpenSession, Lock
  <2>3. \A x \in Writers \ {w} : /\ pc'[x] = pc[x] /\ mem'[x] = mem[x]
                                 /\ session'[x] = session[x]
    BY <1>1, <2>1 DEF OpenSession
  <2>4. QED
    BY <2>1, <2>2, <2>3, QuietCall DEF Writing
<1>2. ASSUME NEW w \in Writers, EnsureCurrent(w) PROVE LockHeld' /\ Chain' /\ Journals'
  <2>1. CASE Return(w)
    BY <2>1, ReturnSafe
  <2>2. CASE Loadable /\ IsLatest(mem[w]) /\ Goto(w, "ready")
             /\ UNCHANGED <<disk, lock, session, mem, stops>>
    <3>1. lock[StoreOf[w]] = w
      BY <1>2 DEF EnsureCurrent, LockHeld
    <3>2. QED
      BY <2>2, <3>1, QuietCall DEF Writing, IsLatest
  <2>3. QED
    BY <1>2, <2>1, <2>2, Zenon DEF EnsureCurrent
<1>3. ASSUME NEW w \in Writers, StartExecute(w) PROVE LockHeld' /\ Chain' /\ Journals'
  <2>1. /\ pc'[w] = "ready" /\ UNCHANGED <<files, lock, session, mem>>
        /\ \A x \in Writers \ {w} : pc'[x] = pc[x]
    BY <1>3 DEF StartExecute
  <2>2. mem[w] = <<>> /\ ~session[w]
    BY <1>3 DEF StartExecute, Journals
  <2>3. QED
    BY <2>1, <2>2, QuietCall DEF Writing
<1>4. ASSUME NEW w \in Writers, NEW v \in Values, Record(w, v)
      PROVE  LockHeld' /\ Chain' /\ Journals'
  <2>1. /\ mem[w] \in Seq(Values)
        /\ mem[w] = <<>> => Len(mem[w]) = 0
    BY EmptySeq DEF Histories
  <2>2. /\ mem'[w] # <<>> /\ Prior(mem'[w]) = mem[w]
        /\ Len(mem'[w]) = Len(mem[w]) + 1
    BY <1>4, <2>1, AppendHistory DEF Record
  <2>3. session[w] => \A f \in files : Len(f) < Len(mem'[w])
    BY <1>4, <2>1, <2>2, LenProperties DEF Record, Journals, IsLatest, Histories
  <2>4. /\ pc'[w] = "persist" /\ UNCHANGED <<files, lock, session>>
        /\ \A x \in Writers \ {w} : /\ pc'[x] = pc[x] /\ mem'[x] = mem[x]
                                    /\ session'[x] = session[x]
    BY <1>4 DEF Record
  <2>5. ~session'[w] \/ lock'[StoreOf[w]] = w
    BY <1>4, <2>4 DEF Record, LockHeld
  <2>6. Len(mem'[w]) = 1 \/ Prior(mem'[w]) \in files
    BY <1>4, <2>1, <2>2 DEF Record, Journals
  <2>7. QED
    BY <2>2, <2>3, <2>4, <2>5, <2>6, QuietCall DEF Writing
<1>5. ASSUME NEW w \in Writers, Check(w) PROVE LockHeld' /\ Chain' /\ Journals'
  <2>1. pc[w] = "persist" /\ mem[w] # <<>> /\ CanLock(w)
    BY <1>5 DEF Check, Journals
  <2>2. CASE Return(w)
    BY <2>2, ReturnSafe
  <2>3. CASE AlreadyDurable(mem[w]) /\ Goto(w, "ready")
             /\ UNCHANGED <<disk, lock, session, mem, stops>>
    <3>1. IsLatest(mem[w])
      BY <2>1, <2>3, CheckFacts
    <3>2. ~session[w] \/ lock[StoreOf[w]] = w
      BY <2>1 DEF LockHeld
    <3>3. QED
      BY <2>3, <3>1, <3>2, QuietCall DEF Writing, IsLatest
  <2>4. CASE /\ ~AlreadyDurable(mem[w]) /\ ~Refused(mem[w]) /\ Goto(w, "create")
             /\ Lock(w) /\ UNCHANGED <<disk, session, mem, stops>>
    <3>1. \A f \in files : Len(f) < Len(mem[w])
      BY <2>1, <2>4, CheckFacts
    <3>2. Len(mem[w]) = 1 \/ Prior(mem[w]) \in files
      BY <2>1 DEF Journals
    <3>3. lock'[StoreOf[w]] = w
      BY <2>4 DEF Lock
    <3>4. QED
      BY <2>1, <2>4, <3>1, <3>2, <3>3, QuietCall DEF Writing
  <2>5. QED
    BY <1>5, <2>2, <2>3, <2>4, Zenon DEF Check
<1>6. ASSUME NEW w \in Writers, CreateTemporary(w)
      PROVE  LockHeld' /\ Chain' /\ Journals'
  <2>1. CASE Return(w)
    BY <2>1, ReturnSafe
  <2>2. CASE Goto(w, "rename") /\ UNCHANGED <<files, lock, session, mem, stops>>
    <3>1. lock[StoreOf[w]] = w
      BY <1>6 DEF CreateTemporary, LockHeld
    <3>2. /\ mem[w] # <<>> /\ (Len(mem[w]) = 1 \/ Prior(mem[w]) \in files)
          /\ \A f \in files : Len(f) < Len(mem[w])
      BY <1>6 DEF CreateTemporary, Journals, Writing
    <3>3. QED
      BY <2>2, <3>1, <3>2, QuietCall
  <2>3. QED
    BY <1>6, <2>1, <2>2, Zenon DEF CreateTemporary
<1>7. ASSUME NEW w \in Writers, Rename(w) PROVE LockHeld' /\ Chain' /\ Journals'
  <2>1. /\ pc[w] = "rename" /\ lock[StoreOf[w]] = w /\ mem[w] # <<>>
        /\ Len(mem[w]) = 1 \/ Prior(mem[w]) \in files
        /\ \A f \in files : Len(f) < Len(mem[w])
    BY <1>7 DEF Rename, LockHeld, Journals, Writing
  <2>2. /\ files' = files \cup {mem[w]} /\ UNCHANGED <<session, mem>>
        /\ pc' = [pc EXCEPT ![w] = "ready"]
    BY <1>7 DEF Rename
  <2>3. \A x \in Writers \ {w} : \/ pc[x] = "idle"
                                 \/ pc[x] \in {"ready", "persist"} /\ ~session[x]
    BY <2>1 DEF LockHeld, OneStore
  <2>4. LockHeld'
    BY <1>7, <2>1, <2>2, <2>3 DEF Rename, UnlockUnlessSession, Unlock, LockHeld
  <2>5. \A f \in files \cup {mem[w]} : Len(f) \in Nat
    BY LenProperties DEF Histories
  <2>6. Chain'
    BY <2>1, <2>2, <2>5 DEF Chain
  <2>7. \A x \in Writers \ {w} :
          /\ pc[x] = "ready" => mem[x] = <<>> \/ mem[x] \in files
          /\ pc[x] = "persist" =>
               mem[x] # <<>> /\ (Len(mem[x]) = 1 \/ Prior(mem[x]) \in files)
          /\ pc[x] = "idle" => mem[x] = <<>> /\ ~session[x]
    BY DEF Journals
  <2>8. Journals'
    BY <2>1, <2>2, <2>3, <2>5, <2>7 DEF Journals, IsLatest, Writing
  <2>9. QED
    BY <2>4, <2>6, <2>8
<1>8. ASSUME NEW w \in Writers, Finish(w) \/ GiveUp(w)
      PROVE  LockHeld' /\ Chain' /\ Journals'
  BY <1>8, ReturnSafe DEF Finish, GiveUp
<1>9. CASE Crash
  BY <1>9 DEF Crash, LockHeld, Chain, Journals, Writing
<1>10. CASE UNCHANGED vars
  BY <1>10 DEF vars, LockHeld, Chain, Journals, IsLatest
<1>11. QED
  BY <1>1, <1>2, <1>3, <1>4, <1>5, <1>6, <1>7, <1>8, <1>9, <1>10
     DEF Next, Step, Begin

\* The invariant holds in every reachable state.
THEOREM StoreInvariant ==
    ASSUME OneStore
    PROVE  Spec => []StoreInv
<1>1. Init => StoreInv
  <2>1. <<>> \in Histories
    BY EmptySeq, LimitAssumption DEF Histories
  <2>2. [w \in Writers |-> FALSE] \in [Writers -> BOOLEAN]
    BY Zenon
  <2>3. Init => TypeOK
    BY <2>1, <2>2, StoreAssumption, LimitAssumption DEF Init, TypeOK, Steps
  <2>4. QED
    BY <2>3 DEF Init, StoreInv, LockHeld, Chain, Journals, Writing
<1>2. StoreInv /\ [Next]_vars => StoreInv'
  BY OneStore, StoreType, StoreSafe DEF StoreInv
<1>3. QED
  BY <1>1, <1>2, PTL DEF Spec

\* The types of the store's state are kept, whatever is interleaved.
THEOREM StoreTypeCorrect ==
    ASSUME OneStore
    PROVE  Spec => []TypeOK
<1>1. StoreInv => TypeOK
  BY DEF StoreInv
<1>2. QED
  BY <1>1, OneStore, StoreInvariant, PTL

\* The snapshots on disk are always one gap-free chain that load accepts.
THEOREM ChainIntact ==
    ASSUME OneStore
    PROVE  Spec => []SnapshotsFormChain
<1>1. StoreInv => SnapshotsFormChain
  BY DEF StoreInv, Chain, SnapshotsFormChain, Loadable
<1>2. QED
  BY <1>1, OneStore, StoreInvariant, PTL

\* A journal whose persist returned Ok is on disk.
THEOREM AckedDurable ==
    ASSUME OneStore
    PROVE  Spec => []AckedIsDurable
<1>1. StoreInv => AckedIsDurable
  BY DEF StoreInv, Journals, AckedIsDurable
<1>2. QED
  BY <1>1, OneStore, StoreInvariant, PTL

\* A session under the recovery lock works on the latest receipt.
THEOREM SessionsCurrent ==
    ASSUME OneStore
    PROVE  Spec => []SessionIsCurrent
<1>1. StoreInv => SessionIsCurrent
  BY DEF StoreInv, Journals, SessionIsCurrent
<1>2. QED
  BY <1>1, OneStore, StoreInvariant, PTL

-----------------------------------------------------------------------------
(* The store implements an append-only log. *)

\* The newest snapshot is unique: load has one answer.
LEMMA LatestUnique ==
    ASSUME TypeOK, Chain, NEW h \in files, \A f \in files : Len(f) <= Len(h)
    PROVE  Latest = h
<1>1. \A f \in files : Len(f) \in Nat
  BY LenProperties DEF TypeOK, Histories
<1>2. IsLatest(h)
  BY DEF IsLatest
<1>3. \A g \in files : IsLatest(g) => g = h
  BY <1>1 DEF IsLatest, Chain
<1>4. QED
  BY <1>2, <1>3 DEF Latest

\* A rename adds one transition to what load returns.
LEMMA RenameAppends ==
    ASSUME StoreInv, StoreInv', NEW w \in Writers, Rename(w)
    PROVE  \E v \in Values : Latest' = Append(Latest, v)
<1>1. /\ mem[w] \in Seq(Values) /\ mem[w] # <<>>
      /\ Len(mem[w]) = 1 \/ Prior(mem[w]) \in files
      /\ \A f \in files : Len(f) < Len(mem[w])
  BY DEF StoreInv, TypeOK, Histories, Rename, Journals, Writing
<1>2. files' = files \cup {mem[w]}
  BY DEF Rename
<1>3. \A f \in files : f # <<>> /\ Len(f) \in Nat \ {0}
  BY EmptySeq, LenProperties DEF StoreInv, TypeOK, Histories
<1>4. Len(mem[w]) \in Nat
  BY <1>1, LenProperties
<1>5. Latest' = mem[w]
  <2>1. mem[w] \in files' /\ \A f \in files' : Len(f) <= Len(mem[w])
    BY <1>1, <1>2, <1>3, <1>4
  <2>2. \A g \in files' : (\A f \in files' : Len(f) <= Len(g)) => g = mem[w]
    BY <1>1, <1>2, <1>3, <1>4
  <2>3. QED
    BY <2>1, <2>2 DEF Latest, IsLatest
<1>6. Latest = Prior(mem[w])
  <2>1. CASE Len(mem[w]) = 1
    <3>1. files = {}
      BY <1>1, <1>3, <2>1
    <3>2. Len(Prior(mem[w])) = 0 /\ Prior(mem[w]) \in Seq(Values)
      BY <1>1, <2>1, PriorHistory
    <3>3. Prior(mem[w]) = <<>>
      BY <3>2, EmptySeq
    <3>4. QED
      BY <3>1, <3>3 DEF Latest
  <2>2. CASE Prior(mem[w]) \in files
    <3>1. \A f \in files : Len(f) <= Len(Prior(mem[w]))
      BY <1>1, <1>3, <1>4, PriorHistory
    <3>2. QED
      BY <2>2, <3>1, LatestUnique DEF StoreInv
  <2>3. QED
    BY <1>1, <2>1, <2>2
<1>7. QED
  BY <1>1, <1>5, <1>6, PriorHistory

\* What load returns is an append-only log, over any interleaving of calls that
\* share the store and any number of crashes.
THEOREM AppendOnly ==
    ASSUME OneStore
    PROVE  Spec => ImplementsLog
<1>1. Init => Log!Init
  BY DEF Init, Log!Init, Latest
<1>2. StoreInv /\ StoreInv' /\ [Next]_vars => [Log!Checkpoint]_Latest
  <2> SUFFICES ASSUME StoreInv, StoreInv', [Next]_vars, ~UNCHANGED Latest
               PROVE  Log!Checkpoint
    OBVIOUS
  <2>1. UNCHANGED files => UNCHANGED Latest
    BY DEF Latest, IsLatest
  <2>2. ASSUME ~\E w \in Writers : Rename(w) PROVE UNCHANGED files
    BY <2>2 DEF Next, Step, Begin, OpenSession, EnsureCurrent, StartExecute, Record,
       Check, CreateTemporary, Finish, GiveUp, Return, Crash, vars, disk
  <2>3. QED
    BY <2>1, <2>2, RenameAppends DEF Log!Checkpoint
<1>3. QED
  BY <1>1, <1>2, OneStore, StoreInvariant, PTL DEF Spec, ImplementsLog, Log!Spec

=============================================================================
