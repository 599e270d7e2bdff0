-------------------------- MODULE PublicationProofs --------------------------
(***************************************************************************)
(* The authority of a database stays one shared history for any number of  *)
(* machines, promotions and commits, and whatever crashes in between.      *)
(***************************************************************************)
EXTENDS Publication, SequenceTheorems, TLAPS

Histories == {s \in Seq(Record) : s # <<>>}
Commits   == [by : Targets, run : Runs \cup {"create", "none"}, history : Histories]

\* A change of authority that has its expected parent.
Working == [pc : {"checked", "pending", "pushed", "reffed", "installed"},
            read : Histories, run : Runs \cup {"create"}, next : Record,
            parent : Nat]

Ops == {Idle, Down}
       \cup [pc : {"exported"}, read : Histories, run : {"create"}, next : Record]
       \cup Working
       \cup [pc : {"confirm", "confirmed"}, run : Runs]

PromotionPlans == [from : Targets, to : Targets, digest : Contents \cup {NoHead}]

Prepared == [phase : {"prepared", "confirmed", "committed", "aborted"},
             plan : PromotionPlans, at : Nat]

Promotions == {NoRun} \cup Prepared

PublicationType ==
    /\ remote \in Seq(Commits) /\ remote # <<>>
    /\ head \in [Hosts -> Nat] /\ \A h \in Hosts : head[h] \in 1 .. Len(remote)
    /\ tree \in [Hosts -> Histories]
    /\ anchor \in [Hosts -> Histories]
    /\ pending \in [Hosts -> {NoPending} \cup [parent : Nat \ {0}, commit : Commits]]
    /\ cache \in [Hosts -> Targets]
    /\ promotion \in [Hosts -> [Runs -> Promotions]]
    /\ op \in [Hosts -> Ops]
    /\ db \in [Targets -> Contents]

\* No commit takes anything out of the history of an earlier one.
BranchGrows ==
    \A i, j \in 1 .. Len(remote) :
        i <= j => IsPrefixOf(remote[i].history, remote[j].history)

\* The worktree is HEAD's, except while the publication is being installed:
\* then the pending file names a commit that is on the branch.
Interrupted(h) == pending[h] # NoPending /\ Published(h)

WorktreeOf(h) ==
    \/ tree[h] = remote[head[h]].history
    \/ op[h].pc \in {"reffed", "down"} /\ Interrupted(h)

Worktrees == \A h \in Hosts : WorktreeOf(h)

Busy == {"checked", "pending", "pushed", "reffed", "installed"}

\* What the operation of a host has read, committed and pushed.
OperationOf(h) ==
    /\ op[h].pc \in {"exported"} \cup Busy =>
         \/ op[h].next.writer = Now(op[h].read).writer
         \/ op[h].next.head = Now(op[h].read).head
    /\ op[h].pc \in {"exported", "checked", "pending", "pushed", "reffed"} =>
         op[h].read = tree[h]
    /\ op[h].pc \in {"checked", "pending", "pushed"} =>
         op[h].parent = head[h]
    /\ op[h].pc \in {"reffed", "installed"} => head[h] = op[h].parent + 1
    /\ op[h].pc \in {"pushed", "reffed", "installed"} =>
         op[h].parent < Len(remote) /\ remote[op[h].parent + 1] = Staged(h)
    /\ op[h].pc \in {"pending", "pushed", "reffed"} =>
         pending[h] = [parent |-> op[h].parent, commit |-> Staged(h)]

Operations == \A h \in Hosts : OperationOf(h)

\* The promotion of a run is in the history.
Happened(run, history) ==
    \E i \in 1 .. Len(history), j \in 2 .. Len(history) :
        i < j /\ history[i].writer = run.plan.from /\ history[j].writer = run.plan.to

\* What the record of a promotion says about the history.
Recorded(run, history) == run # NoRun =>
    /\ run.phase = "prepared" =>
         \E i \in 1 .. Len(history) : history[i].writer = run.plan.from
    /\ run.at \in 0 .. Len(history)
    /\ run.phase \in {"confirmed", "committed"} => Happened(run, history)

\* The promotion the host is working on, and those it has recorded.
CurrentOf(h) ==
    LET run == promotion[h][op[h].run] IN
    /\ op[h].pc \in Busy /\ op[h].run # "create" =>
         /\ run # NoRun
         /\ run.plan.from = Now(op[h].read).writer /\ run.plan.to = op[h].next.writer
    /\ op[h].pc = "confirm" => run # NoRun /\ Happened(run, Shared)
    /\ op[h].pc = "confirmed" => run.phase = "confirmed"

RunsOf(h) == CurrentOf(h) /\ \A r \in Runs : Recorded(promotion[h][r], Shared)

PromotionRuns == \A h \in Hosts : RunsOf(h)

\* A commit of a promotion names the candidate as the writer.
PromotionCommits ==
    \A h \in Hosts, r \in Runs, i \in 1 .. Len(remote) :
        remote[i].by = h /\ remote[i].run = r =>
            /\ promotion[h][r] # NoRun
            /\ Now(remote[i].history).writer = promotion[h][r].plan.to

PublicationInv ==
    /\ PublicationType /\ BranchGrows /\ TrustShared /\ Worktrees
    /\ Operations /\ PromotionRuns /\ PromotionCommits /\ AbortedOrReversed

-----------------------------------------------------------------------------
(* Facts about histories. *)

\* Every history is a prefix of itself.
LEMMA PrefixReflexive ==
    ASSUME NEW s \in Histories
    PROVE  IsPrefixOf(s, s)
BY DEF IsPrefixOf, Histories

\* A record added at the end keeps every prefix.
LEMMA PrefixAppend ==
    ASSUME NEW s \in Histories, NEW r \in Record
    PROVE  /\ Append(s, r) \in Histories /\ IsPrefixOf(s, Append(s, r))
           /\ Now(Append(s, r)) = r /\ Len(Append(s, r)) = Len(s) + 1
           /\ \A i \in 1 .. Len(s) : Append(s, r)[i] = s[i]
BY DEF IsPrefixOf, Histories, Now

\* The elements of a prefix are those of the history.
LEMMA PrefixElements ==
    ASSUME NEW s \in Histories, NEW u \in Histories, IsPrefixOf(s, u)
    PROVE  Len(s) <= Len(u) /\ \A i \in 1 .. Len(s) : s[i] = u[i]
BY DEF IsPrefixOf, Histories

\* And a history with the same elements up to its length is a prefix.
LEMMA ElementsPrefix ==
    ASSUME NEW s \in Histories, NEW u \in Histories,
           Len(s) <= Len(u), \A i \in 1 .. Len(s) : s[i] = u[i]
    PROVE  IsPrefixOf(s, u)
<1> DEFINE p == SubSeq(u, 1, Len(s))
<1>1. s \in Seq(Record) /\ u \in Seq(Record) /\ Len(s) \in Nat
  BY DEF Histories
<1>2. p \in Seq(Record) /\ Len(p) = Len(s) /\ \A i \in 1 .. Len(s) : p[i] = u[i]
  BY <1>1
<1>3. s = p
  BY <1>1, <1>2, SeqEqual
<1>4. QED
  BY <1>3 DEF IsPrefixOf

\* Prefixes compose.
LEMMA PrefixTransitive ==
    ASSUME NEW s \in Histories, NEW t \in Histories, NEW u \in Histories,
           IsPrefixOf(s, t), IsPrefixOf(t, u)
    PROVE  IsPrefixOf(s, u)
<1>1. Len(s) \in Nat /\ Len(t) \in Nat /\ Len(u) \in Nat
  BY DEF Histories
<1>2. Len(s) <= Len(u) /\ \A i \in 1 .. Len(s) : s[i] = u[i]
  BY <1>1, PrefixElements
<1>3. QED
  BY <1>2, ElementsPrefix

\* The latest record of a history is a record.
LEMMA NowRecord ==
    ASSUME NEW s \in Histories
    PROVE  /\ Now(s) \in Record /\ Len(s) \in Nat /\ Len(s) >= 1
           /\ Now(s).writer \in Targets /\ Now(s).head \in Contents \cup {NoHead}
<1>1. Len(s) \in Nat /\ Len(s) >= 1 /\ Now(s) \in Record
  BY DEF Now, Histories
<1>2. QED
  BY <1>1 DEF Record

-----------------------------------------------------------------------------
(* How a step changes the branch. *)

\* The history of a commit on the branch is a prefix of the shared one.
LEMMA BranchHistories ==
    ASSUME PublicationType, BranchGrows
    PROVE  /\ Len(remote) \in Nat /\ Len(remote) >= 1 /\ Shared \in Histories
           /\ \A i \in 1 .. Len(remote) :
                 /\ remote[i] \in Commits /\ remote[i].history \in Histories
                 /\ IsPrefixOf(remote[i].history, Shared)
<1>1. Len(remote) \in Nat /\ Len(remote) >= 1
  BY DEF PublicationType
<1>2. \A i \in 1 .. Len(remote) : remote[i] \in Commits
  BY DEF PublicationType
<1>3. \A i \in 1 .. Len(remote) : remote[i].history \in Histories
  BY <1>2 DEF Commits
<1>4. QED
  BY <1>1, <1>2, <1>3 DEF BranchGrows, Shared, AuthorityOf

\* What is staged extends the history that was read.
LEMMA StagedCommit ==
    ASSUME PublicationType, NEW h \in Hosts, op[h].pc \in Busy
    PROVE  /\ Staged(h) \in Commits /\ op[h].read \in Histories
           /\ op[h].next \in Record /\ op[h].parent \in Nat
           /\ op[h].run \in Runs \cup {"create"}
           /\ Staged(h).history = Append(op[h].read, op[h].next)
           /\ Staged(h).by = h /\ Staged(h).run = op[h].run
<1>1. op[h] \in Working
  <2>1. op[h] \in Ops
    BY DEF PublicationType
  <2>2. op[h] # Idle /\ op[h] # Down
    BY DEF Busy, Idle, Down
  <2>3. op[h] \notin [pc : {"exported"}, read : Histories, run : {"create"},
                     next : Record]
    BY DEF Busy
  <2>4. op[h] \notin [pc : {"confirm", "confirmed"}, run : Runs]
    BY DEF Busy
  <2>5. QED
    BY <2>1, <2>2, <2>3, <2>4 DEF Ops
<1>2. /\ op[h].read \in Histories /\ op[h].next \in Record /\ op[h].parent \in Nat
      /\ op[h].run \in Runs \cup {"create"}
  BY <1>1 DEF Working
<1>3. Append(op[h].read, op[h].next) \in Histories
  BY <1>2, PrefixAppend
<1>4. QED
  BY <1>2, <1>3, HostsAssumption DEF Staged, Commits

\* A commit c is added whose history extends the shared one: for a push, by
\* the record made from the latest one; otherwise the authority stays.
Grown(c) ==
    /\ c \in Commits /\ remote' = Append(remote, c)
    /\ \/ c.run = "none" /\ c.history = Shared
       \/ \E h \in Hosts :
             /\ op[h].pc = "pending" /\ c = Staged(h) /\ op[h].read = Shared
             /\ head[h] = Len(remote) /\ op[h].parent = Len(remote)

\* A push adds a commit to what the pushing host has read (publish).
LEMMA PushGrows ==
    ASSUME PublicationInv, NEW h \in Hosts, Push(h)
    PROVE  Grown(Staged(h))
<1> USE DEF PublicationInv
<1>1. op[h].pc = "pending" /\ Len(remote) = op[h].parent
  BY DEF Push, FastForward
<1>2. op[h].read = tree[h] /\ op[h].parent = head[h]
  BY <1>1 DEF Operations, OperationOf
<1>3. tree[h] = Shared
  BY <1>1, <1>2 DEF Worktrees, WorktreeOf, Shared, AuthorityOf
<1>4. SubSeq(remote, 1, Len(remote)) = remote
  BY DEF PublicationType
<1>5. remote' = Append(remote, Staged(h))
  BY <1>1, <1>4 DEF Push
<1>6. QED
  BY <1>1, <1>2, <1>3, <1>5, StagedCommit DEF Grown, Busy

\* The branch stays or grows by one commit.
LEMMA BranchStep ==
    ASSUME PublicationInv, [PublicationNext]_pubVars
    PROVE  remote' = remote \/ \E c \in Commits : Grown(c)
<1>1. ASSUME NEW h \in Hosts, Push(h) PROVE \E c \in Commits : Grown(c)
  BY <1>1, PushGrows DEF Grown
<1>2. ASSUME NEW t \in Targets, OtherCommit(t) PROVE \E c \in Commits : Grown(c)
  <2> DEFINE c == [by |-> t, run |-> "none", history |-> Shared]
  <2>1. Shared \in Histories
    BY BranchHistories DEF PublicationInv
  <2>2. c \in Commits
    BY <2>1 DEF Commits
  <2>3. Grown(c)
    BY <1>2, <2>2 DEF Grown, OtherCommit
  <2>4. QED
    BY <2>2, <2>3
<1>3. ASSUME NEW h \in Hosts, NEW r \in Runs, NEW t \in Targets,
             PreparePromotion(h, r, t)
      PROVE  remote' = remote
  BY <1>3 DEF PreparePromotion
<1>4. ASSUME NEW h \in Hosts, Open(h) PROVE remote' = remote
  BY <1>4 DEF Open
<1>5. QED
  BY <1>1, <1>2, <1>3, <1>4 DEF PublicationNext, HostNext, pubVars, CreateRead,
     CreateCheck, CreateRefused, Commit, CommitRefused, PushFails, Fail,
     RefRefused, UpdateRef, Install, Copy, ConfirmPromotion, CommitPromotion,
     PromotionFails, Crash, RecoverPublication, Pull, Change

\* When it grows, every earlier commit stays where it is.
LEMMA GrownBranch ==
    ASSUME PublicationType, BranchGrows, NEW c \in Commits, Grown(c)
    PROVE  /\ Len(remote') = Len(remote) + 1
           /\ \A i \in 1 .. Len(remote) : remote'[i] = remote[i]
           /\ remote'[Len(remote) + 1] = c
           /\ Shared' = c.history /\ c.history \in Histories
           /\ IsPrefixOf(Shared, Shared')
<1>1. /\ Len(remote') = Len(remote) + 1
      /\ \A i \in 1 .. Len(remote) : remote'[i] = remote[i]
      /\ remote'[Len(remote) + 1] = c
  BY DEF PublicationType, Grown
<1>2. Shared' = c.history /\ c.history \in Histories
  BY <1>1 DEF Shared, AuthorityOf, Commits
<1>3. IsPrefixOf(Shared, c.history)
  <2>1. CASE c.history = Shared
    BY <2>1, BranchHistories, PrefixReflexive
  <2>2. ASSUME NEW h \in Hosts, op[h].pc = "pending", c = Staged(h),
               op[h].read = Shared
        PROVE  IsPrefixOf(Shared, c.history)
    <3>1. op[h].read \in Histories /\ op[h].next \in Record
          /\ c.history = Append(op[h].read, op[h].next)
      BY <2>2, StagedCommit DEF Busy
    <3>2. QED
      BY <2>2, <3>1, PrefixAppend
  <2>3. QED
    BY <2>1, <2>2 DEF Grown
<1>4. QED
  BY <1>1, <1>2, <1>3

\* A step never takes anything out of the branch or out of its histories.
LEMMA BranchGrowsStep ==
    ASSUME PublicationInv, [PublicationNext]_pubVars
    PROVE  BranchGrows'
<1> USE DEF PublicationInv
<1>1. CASE remote' = remote
  BY <1>1 DEF BranchGrows, IsPrefixOf
<1>2. ASSUME NEW c \in Commits, Grown(c) PROVE BranchGrows'
  <2>1. SUFFICES ASSUME NEW i \in 1 .. Len(remote'), NEW j \in 1 .. Len(remote'),
                        i <= j
                 PROVE  IsPrefixOf(remote'[i].history, remote'[j].history)
    BY DEF BranchGrows, IsPrefixOf
  <2>2. Len(remote) \in Nat
    BY DEF PublicationType
  <2>3. CASE j \in 1 .. Len(remote)
    BY <1>2, <2>1, <2>2, <2>3, GrownBranch DEF BranchGrows
  <2>4. CASE j = Len(remote) + 1 /\ i = j
    BY <1>2, <2>4, GrownBranch, PrefixReflexive
  <2>5. CASE j = Len(remote) + 1 /\ i \in 1 .. Len(remote)
    <3>1. IsPrefixOf(remote[i].history, Shared) /\ Shared \in Histories
          /\ remote[i].history \in Histories
      BY <2>5, BranchHistories
    <3>2. IsPrefixOf(Shared, c.history) /\ c.history \in Histories
      BY <1>2, GrownBranch
    <3>3. IsPrefixOf(remote[i].history, c.history)
      BY <3>1, <3>2, PrefixTransitive
    <3>4. QED
      BY <1>2, <2>5, <3>3, GrownBranch
  <2>6. QED
    BY <1>2, <2>2, <2>3, <2>4, <2>5, GrownBranch
<1>3. QED
  BY <1>1, <1>2, BranchStep

-----------------------------------------------------------------------------
(* Type correctness. *)

\* What an operation holds at each of its points.
LEMMA OperationTypes ==
    ASSUME PublicationType, NEW h \in Hosts
    PROVE  /\ op[h].pc = "exported" =>
                op[h].read \in Histories /\ op[h].next \in Record
           /\ op[h].pc \in {"confirm", "confirmed"} =>
                /\ op[h].run \in Runs
                /\ op[h] \in [pc : {"confirm", "confirmed"}, run : Runs]
           /\ op[h].pc \in Busy => op[h] \in Working
<1> DEFINE Exported == [pc : {"exported"}, read : Histories, run : {"create"},
                        next : Record]
           Confirming == [pc : {"confirm", "confirmed"}, run : Runs]
<1>1. op[h] \in {Idle, Down} \cup Exported \cup Working \cup Confirming
  BY DEF PublicationType, Ops
<1>2. CASE op[h] \in {Idle, Down}
  BY <1>2 DEF Idle, Down, Busy
<1>3. CASE op[h] \in Exported
  BY <1>3 DEF Busy
<1>4. CASE op[h] \in Working
  BY <1>4 DEF Working
<1>5. CASE op[h] \in Confirming
  BY <1>5 DEF Busy
<1>6. QED
  BY <1>1, <1>2, <1>3, <1>4, <1>5

\* A new value of one host's operation keeps the type of all of them.
LEMMA OperationUpdate ==
    ASSUME PublicationType, NEW h \in Hosts, NEW o \in Ops,
           op' = [op EXCEPT ![h] = o]
    PROVE  op' \in [Hosts -> Ops]
BY DEF PublicationType

\* An operation that goes on holds the same values at another point.
LEMMA OperationMoves ==
    ASSUME PublicationType, NEW h \in Hosts, op[h].pc \in Busy, NEW p \in Busy,
           op' = [op EXCEPT ![h].pc = p]
    PROVE  op' \in [Hosts -> Ops]
<1>1. op[h] \in Working
  BY OperationTypes
<1>2. [op[h] EXCEPT !.pc = p] \in Working
  BY <1>1 DEF Working, Busy
<1>3. op \in [Hosts -> Ops] /\ op' = [op EXCEPT ![h] = [op[h] EXCEPT !.pc = p]]
  BY DEF PublicationType
<1>4. QED
  BY <1>2, <1>3 DEF Ops

\* Recovery keeps the plan of a run; it ends every run it does not get stuck
\* on, and aborts one that is prepared and whose writer is still the old one.
LEMMA SettledRun ==
    ASSUME NEW run \in Promotions, NEW s \in Histories,
           Recovered(run, Now(s).writer) # "stuck"
    PROVE  LET n == Settled(run, s) IN
           /\ n \in Promotions
           /\ run = NoRun => n = NoRun
           /\ run # NoRun =>
                /\ n # NoRun /\ n.plan = run.plan
                /\ n.phase \in {"committed", "aborted"}
                /\ run.phase = "prepared" => n.at = Len(s)
                /\ run.phase # "prepared" => n.at = run.at
                /\ n.phase = "aborted" =>
                     \/ run.phase = "aborted"
                     \/ run.phase = "prepared" /\ Now(s).writer = run.plan.from
                /\ n.phase = "committed" =>
                     \/ run.phase \in {"confirmed", "committed"}
                     \/ /\ run.phase = "prepared" /\ Now(s).writer # run.plan.from
                        /\ Now(s).writer = run.plan.to
<1> DEFINE w == Now(s).writer
           f == Recovered(run, w)
<1>1. CASE run = NoRun
  BY <1>1 DEF Settled
<1>2. CASE run \in Prepared
  <2>1. run # NoRun
    BY <1>2 DEF Prepared, NoRun
  <2>2. Len(s) \in Nat
    BY DEF Histories
  <2>3. /\ f \in {"committed", "aborted"}
        /\ f = "aborted" => \/ run.phase = "aborted"
                            \/ run.phase = "prepared" /\ w = run.plan.from
        /\ f = "committed" => \/ run.phase \in {"confirmed", "committed"}
                              \/ run.phase = "prepared" /\ w # run.plan.from
                                 /\ w = run.plan.to
    BY <1>2 DEF Recovered, Prepared
  <2> HIDE DEF f
  <2>4. CASE run.phase = "prepared"
    <3> DEFINE n == [run EXCEPT !.phase = f, !.at = Len(s)]
    <3>1. Settled(run, s) = n
      BY <2>1, <2>4 DEF Settled, f
    <3>2. n \in Prepared /\ n.plan = run.plan /\ n.phase = f /\ n.at = Len(s)
      BY <1>2, <2>2, <2>3 DEF Prepared
    <3>3. n # NoRun
      BY <3>2 DEF Prepared, NoRun
    <3> HIDE DEF n
    <3>4. QED
      BY <2>1, <2>3, <2>4, <3>1, <3>2, <3>3 DEF Promotions
  <2>5. CASE run.phase # "prepared"
    <3> DEFINE n == [run EXCEPT !.phase = f]
    <3>1. Settled(run, s) = n
      BY <2>1, <2>5 DEF Settled, f
    <3>2. n \in Prepared /\ n.plan = run.plan /\ n.phase = f /\ n.at = run.at
      BY <1>2, <2>3 DEF Prepared
    <3>3. n # NoRun
      BY <3>2 DEF Prepared, NoRun
    <3> HIDE DEF n
    <3>4. QED
      BY <2>1, <2>3, <2>5, <3>1, <3>2, <3>3 DEF Promotions
  <2>6. QED
    BY <2>4, <2>5
<1>3. QED
  BY <1>1, <1>2 DEF Promotions

\* Every step keeps the state well typed.
LEMMA PublicationTypeStep ==
    ASSUME PublicationInv, [PublicationNext]_pubVars
    PROVE  PublicationType'
<1>t. PublicationType /\ BranchGrows
  BY DEF PublicationInv
<1>i. Idle \in Ops /\ Down \in Ops
  BY DEF Ops
<1>b. Len(remote) \in Nat /\ Len(remote) >= 1 /\ Shared \in Histories
  BY <1>t, BranchHistories
<1>1. ASSUME NEW h \in Hosts, CreateRead(h) PROVE PublicationType'
  <2> DEFINE w == Now(tree[h]).writer
             n == [Now(tree[h]) EXCEPT !.head = db[w]]
             o == [pc |-> "exported", read |-> tree[h], run |-> "create", next |-> n]
  <2>1. tree[h] \in Histories /\ w \in Targets /\ Now(tree[h]) \in Record
    BY <1>t, NowRecord DEF PublicationType
  <2>2. n \in Record
    BY <1>t, <2>1 DEF PublicationType, Record
  <2>3. o \in Ops
    BY <2>1, <2>2 DEF Ops
  <2>4. op' \in [Hosts -> Ops]
    BY <1>t, <1>1, <2>3, OperationUpdate DEF CreateRead, PublicationType
  <2>5. anchor' \in [Hosts -> Histories] /\ cache' \in [Hosts -> Targets]
    BY <1>t, <1>1, <2>1 DEF CreateRead, Advance, PublicationType
  <2>6. QED
    BY <1>t, <1>1, <2>4, <2>5 DEF CreateRead, PublicationType
<1>2. ASSUME NEW h \in Hosts, CreateCheck(h) PROVE PublicationType'
  <2> DEFINE o == [pc |-> "checked", read |-> op[h].read, run |-> "create",
                   next |-> op[h].next, parent |-> head[h]]
  <2>1. op[h].read \in Histories /\ op[h].next \in Record
    BY <1>t, <1>2, OperationTypes DEF CreateCheck
  <2>2. o \in Ops
    BY <1>t, <2>1 DEF Ops, Working, PublicationType
  <2>3. op' \in [Hosts -> Ops]
    BY <1>t, <1>2, <2>2, OperationUpdate DEF CreateCheck
  <2>4. QED
    BY <1>t, <1>2, <2>3 DEF CreateCheck, PublicationType
<1>3. ASSUME NEW h \in Hosts, Fail(h) PROVE PublicationType'
  <2>1. op' \in [Hosts -> Ops]
    BY <1>t, <1>i, <1>3, OperationUpdate DEF Fail
  <2>2. QED
    BY <1>t, <1>3, <2>1 DEF Fail, PublicationType
<1>4. ASSUME NEW h \in Hosts, NEW r \in Runs, NEW t \in Targets,
             PreparePromotion(h, r, t)
      PROVE  PublicationType'
  <2> DEFINE o == [pc |-> "checked", read |-> tree[h], run |-> r,
                   next |-> Promoted(h, t), parent |-> head[h]]
             p == NewRun(PlanOf(h, t))
  <2>1. tree[h] \in Histories /\ Now(tree[h]).writer \in Targets
        /\ Now(tree[h]) \in Record
    BY <1>t, NowRecord DEF PublicationType
  <2>2. Promoted(h, t) \in Record
    BY <2>1 DEF Promoted, Record
  <2>3. o \in Ops
    BY <1>t, <2>1, <2>2 DEF Ops, Working, PublicationType
  <2>4. op' \in [Hosts -> Ops]
    BY <1>t, <1>4, <2>3, OperationUpdate DEF PreparePromotion
  <2>5. p \in Promotions
    <3>1. PlanOf(h, t) \in PromotionPlans
      BY <2>1 DEF PlanOf, PromotionPlans, Record
    <3>2. QED
      BY <3>1 DEF NewRun, Prepared, Promotions
  <2>6. promotion' \in [Hosts -> [Runs -> Promotions]]
    <3>1. promotion \in [Hosts -> [Runs -> Promotions]]
      BY <1>t DEF PublicationType
    <3>2. promotion' = promotion \/ promotion' = [promotion EXCEPT ![h][r] = p]
      BY <1>4 DEF PreparePromotion
    <3> HIDE DEF p
    <3>3. QED
      BY <2>5, <3>1, <3>2
  <2>7. anchor' \in [Hosts -> Histories]
    BY <1>t, <1>4, <2>1 DEF PreparePromotion, Advance, PublicationType
  <2>8. QED
    BY <1>t, <1>4, <2>4, <2>6, <2>7 DEF PreparePromotion, PublicationType
<1>5. ASSUME NEW h \in Hosts, Commit(h) PROVE PublicationType'
  <2>1. op[h].pc \in Busy /\ op[h].parent = head[h]
    BY <1>5 DEF Commit, CanCommit, Busy
  <2>2. op' \in [Hosts -> Ops]
    BY <1>t, <1>5, <2>1, OperationMoves DEF Commit, Busy
  <2>3. Staged(h) \in Commits /\ op[h].parent \in Nat \ {0}
    BY <1>t, <2>1, StagedCommit DEF PublicationType
  <2>4. [parent |-> op[h].parent, commit |-> Staged(h)]
          \in [parent : Nat \ {0}, commit : Commits]
    BY <2>3
  <2>5. pending' \in [Hosts -> {NoPending} \cup [parent : Nat \ {0}, commit : Commits]]
    BY <1>t, <1>5, <2>4 DEF Commit, PublicationType
  <2>6. QED
    BY <1>t, <1>5, <2>2, <2>5 DEF Commit, PublicationType
<1>6. ASSUME NEW h \in Hosts, Push(h) PROVE PublicationType'
  <2>1. op' \in [Hosts -> Ops]
    BY <1>t, <1>6, OperationMoves DEF Push, Busy
  <2>2. Staged(h) \in Commits /\ Grown(Staged(h))
    BY <1>6, PushGrows DEF Grown
  <2>3. remote' \in Seq(Commits) /\ Len(remote') = Len(remote) + 1
    BY <1>t, <2>2 DEF PublicationType, Grown
  <2>4. QED
    BY <1>t, <1>b, <1>6, <2>1, <2>3 DEF Push, PublicationType
<1>7. ASSUME NEW h \in Hosts, UpdateRef(h) PROVE PublicationType'
  <2>1. op' \in [Hosts -> Ops]
    BY <1>t, <1>7, OperationMoves DEF UpdateRef, Busy
  <2>2. op[h].parent \in Nat /\ op[h].parent < Len(remote)
    BY <1>t, <1>7, StagedCommit DEF UpdateRef, Busy, PublicationInv, Operations, OperationOf
  <2>3. QED
    BY <1>t, <1>b, <1>7, <2>1, <2>2 DEF UpdateRef, PublicationType
<1>8. ASSUME NEW h \in Hosts, Install(h) PROVE PublicationType'
  <2>1. op' \in [Hosts -> Ops]
    BY <1>t, <1>8, OperationMoves DEF Install, Busy
  <2>2. Staged(h).history \in Histories
    BY <1>t, <1>8, StagedCommit DEF Install, Busy, Commits
  <2>3. QED
    BY <1>t, <1>8, <2>1, <2>2 DEF Install, PublicationType
<1>9. ASSUME NEW h \in Hosts, Copy(h) PROVE PublicationType'
  <2>1. Staged(h).history \in Histories /\ op[h].run \in Runs \cup {"create"}
    BY <1>t, <1>9, StagedCommit DEF Copy, Busy, Commits
  <2>2. op[h].run # "create" => [pc |-> "confirm", run |-> op[h].run] \in Ops
    BY <2>1 DEF Ops
  <2>3. op' \in [Hosts -> Ops]
    BY <1>t, <1>i, <1>9, <2>2, OperationUpdate DEF Copy
  <2>4. tree' \in [Hosts -> Histories] /\ anchor' \in [Hosts -> Histories]
    BY <1>t, <1>9, <2>1 DEF Copy, Advance, PublicationType
  <2>5. QED
    BY <1>t, <1>9, <2>3, <2>4 DEF Copy, PublicationType
<1>10. ASSUME NEW h \in Hosts, ConfirmPromotion(h) PROVE PublicationType'
  <2> DEFINE p == promotion[h][op[h].run]
  <2>1. op[h].run \in Runs
    BY <1>t, <1>10, OperationTypes DEF ConfirmPromotion
  <2>2. p \in Promotions /\ p # NoRun
    <3>1. p \in Promotions
      BY <1>t, <2>1 DEF PublicationType
    <3>2. p.phase = "prepared"
      BY <1>10 DEF ConfirmPromotion
    <3>3. QED
      BY <3>1, <3>2 DEF NoRun
  <2> DEFINE c == [p EXCEPT !.phase = "confirmed", !.at = Len(tree[h])]
  <2>3. c \in Promotions
    <3>1. Len(tree[h]) \in Nat
      BY <1>t DEF PublicationType, Histories
    <3>2. QED
      BY <2>2, <3>1 DEF Promotions, Prepared
  <2>4. promotion' \in [Hosts -> [Runs -> Promotions]]
    BY <1>t, <1>10, <2>1, <2>3 DEF ConfirmPromotion, PublicationType
  <2>5. op[h] \in [pc : {"confirm", "confirmed"}, run : Runs]
    BY <1>t, <1>10, OperationTypes DEF ConfirmPromotion
  <2>6. [op[h] EXCEPT !.pc = "confirmed"] \in Ops
    BY <2>5 DEF Ops
  <2>7. op' \in [Hosts -> Ops]
    BY <1>t, <1>10, <2>6 DEF ConfirmPromotion, PublicationType
  <2>8. QED
    BY <1>t, <1>10, <2>4, <2>7 DEF ConfirmPromotion, PublicationType
<1>11. ASSUME NEW h \in Hosts, CommitPromotion(h) PROVE PublicationType'
  <2> DEFINE p == promotion[h][op[h].run]
  <2>1. op[h].run \in Runs
    BY <1>t, <1>11, OperationTypes DEF CommitPromotion
  <2>2. p \in Promotions /\ p # NoRun
    <3>1. p \in Promotions
      BY <1>t, <2>1 DEF PublicationType
    <3>2. p.phase = "confirmed"
      BY <1>11 DEF CommitPromotion, PublicationInv, PromotionRuns, RunsOf, CurrentOf
    <3>3. QED
      BY <3>1, <3>2 DEF NoRun
  <2>3. [p EXCEPT !.phase = "committed"] \in Promotions /\ p.plan.to \in Targets
    BY <2>2 DEF Promotions, Prepared, PromotionPlans
  <2>4. promotion' \in [Hosts -> [Runs -> Promotions]] /\ cache' \in [Hosts -> Targets]
    BY <1>t, <1>11, <2>1, <2>3 DEF CommitPromotion, PublicationType
  <2>5. op' \in [Hosts -> Ops]
    BY <1>t, <1>i, <1>11, OperationUpdate DEF CommitPromotion
  <2>6. QED
    BY <1>t, <1>11, <2>4, <2>5 DEF CommitPromotion, PublicationType
<1>12. ASSUME NEW h \in Hosts, Crash(h) PROVE PublicationType'
  <2>1. op' \in [Hosts -> Ops]
    BY <1>t, <1>i, <1>12, OperationUpdate DEF Crash
  <2>2. QED
    BY <1>t, <1>12, <2>1 DEF Crash, PublicationType
<1>13. ASSUME NEW h \in Hosts, RecoverPublication(h) PROVE PublicationType'
  BY <1>t, <1>b, <1>13 DEF RecoverPublication, PublicationType
<1>14. ASSUME NEW h \in Hosts, Open(h) PROVE PublicationType'
  <2> DEFINE w == Now(tree[h]).writer
  <2>1. op' \in [Hosts -> Ops]
    BY <1>t, <1>i, <1>14, OperationUpdate DEF Open
  <2>2. ASSUME NEW r \in Runs
        PROVE  Settled(promotion[h][r], tree[h]) \in Promotions
    <3>1. promotion[h][r] \in Promotions /\ tree[h] \in Histories
      BY <1>t DEF PublicationType
    <3>2. Recovered(promotion[h][r], w) # "stuck"
      BY <1>14 DEF Open
    <3>3. QED
      BY <3>1, <3>2, SettledRun
  <2>3. promotion' \in [Hosts -> [Runs -> Promotions]]
    BY <1>t, <1>14, <2>2 DEF Open, PublicationType
  <2>4. tree[h] \in Histories /\ w \in Targets
    BY <1>t, NowRecord DEF PublicationType
  <2>5. anchor' \in [Hosts -> Histories] /\ cache' \in [Hosts -> Targets]
    BY <1>t, <1>14, <2>4 DEF Open, Advance, PublicationType
  <2>6. QED
    BY <1>t, <1>14, <2>1, <2>3, <2>5 DEF Open, PublicationType
<1>15. ASSUME NEW h \in Hosts, Pull(h) PROVE PublicationType'
  BY <1>t, <1>b, <1>15 DEF Pull, PublicationType
<1>16. ASSUME NEW t \in Targets, OtherCommit(t) PROVE PublicationType'
  <2>1. [by |-> t, run |-> "none", history |-> Shared] \in Commits
    BY <1>b DEF Commits
  <2>2. remote' \in Seq(Commits) /\ Len(remote') = Len(remote) + 1
    BY <1>t, <1>16, <2>1 DEF OtherCommit, PublicationType
  <2>3. QED
    BY <1>t, <1>b, <1>16, <2>2 DEF OtherCommit, PublicationType
<1>17. ASSUME NEW t \in Targets, NEW c \in Contents, Change(t, c) PROVE PublicationType'
  BY <1>t, <1>17 DEF Change, PublicationType
<1>18. CASE UNCHANGED pubVars
  BY <1>t, <1>18 DEF PublicationType, pubVars
<1>19. QED
  BY <1>1, <1>2, <1>3, <1>4, <1>5, <1>6, <1>7, <1>8, <1>9, <1>10, <1>11, <1>12,
     <1>13, <1>14, <1>15, <1>16, <1>17, <1>18
     DEF PublicationNext, HostNext, CreateRefused, CommitRefused, PushFails, RefRefused,
     PromotionFails, PromotionFails

-----------------------------------------------------------------------------
(* What the hosts trust, and their worktrees. *)

\* What was part of the shared history stays part of it.
LEMMA SharedStep ==
    ASSUME PublicationInv, [PublicationNext]_pubVars
    PROVE  /\ Shared \in Histories /\ Shared' \in Histories
           /\ IsPrefixOf(Shared, Shared')
           /\ \A s \in Histories : IsPrefixOf(s, Shared) => IsPrefixOf(s, Shared')
<1>1. Shared \in Histories
  BY BranchHistories DEF PublicationInv
<1>2. CASE remote' = remote
  BY <1>1, <1>2, PrefixReflexive DEF Shared
<1>3. CASE \E c \in Commits : Grown(c)
  BY <1>1, <1>3, GrownBranch, PrefixTransitive DEF PublicationInv
<1>4. QED
  BY <1>2, <1>3, BranchStep

\* What is pushed is part of the shared history.
LEMMA PushedShared ==
    ASSUME PublicationInv, NEW h \in Hosts,
           op[h].pc \in {"pushed", "reffed", "installed"}
    PROVE  /\ Staged(h).history \in Histories
           /\ IsPrefixOf(Staged(h).history, Shared)
           /\ op[h].parent \in Nat /\ op[h].parent + 1 \in 1 .. Len(remote)
           /\ remote[op[h].parent + 1] = Staged(h)
<1>1. op[h].pc \in Busy
  BY DEF Busy
<1>2. op[h].parent \in Nat /\ Len(remote) \in Nat
  BY <1>1, StagedCommit, BranchHistories DEF PublicationInv
<1>3. op[h].parent < Len(remote) /\ remote[op[h].parent + 1] = Staged(h)
  BY DEF PublicationInv, Operations, OperationOf
<1>4. QED
  BY <1>2, <1>3, BranchHistories DEF PublicationInv

\* Where the anchor and the worktree of a host can go in one step.
LEMMA TrustMoves ==
    ASSUME [PublicationNext]_pubVars, PublicationType, NEW k \in Hosts
    PROVE  /\ \/ anchor'[k] = anchor[k]
              \/ anchor'[k] = tree[k]
              \/ anchor'[k] = Staged(k).history /\ op[k].pc = "installed"
           /\ \/ tree'[k] = tree[k]
              \/ tree'[k] = Shared
              \/ tree'[k] = Staged(k).history /\ op[k].pc \in {"reffed", "installed"}
<1> USE DEF PublicationType
<1>1. ASSUME NEW h \in Hosts, HostNext(h)
      PROVE  /\ \/ anchor'[k] = anchor[k]
                \/ anchor'[k] = tree[k]
                \/ anchor'[k] = Staged(k).history /\ op[k].pc = "installed"
             /\ \/ tree'[k] = tree[k]
                \/ tree'[k] = Shared
                \/ tree'[k] = Staged(k).history /\ op[k].pc \in {"reffed", "installed"}
  BY <1>1 DEF HostNext, CreateRead, CreateCheck, Advance,
     CreateRefused, PreparePromotion, Commit, CommitRefused, PushFails, Fail, Push,
     RefRefused, UpdateRef, Install, Copy, ConfirmPromotion, CommitPromotion,
     PromotionFails, Crash, RecoverPublication, Open, Pull
<1>2. QED
  BY <1>1 DEF PublicationNext, pubVars, OtherCommit, Change

\* Neither an anchor nor a worktree leaves the shared history.
LEMMA TrustStep ==
    ASSUME PublicationInv, [PublicationNext]_pubVars
    PROVE  TrustShared'
<1>1. SUFFICES ASSUME NEW k \in Hosts
               PROVE  IsPrefixOf(anchor'[k], Shared') /\ IsPrefixOf(tree'[k], Shared')
  BY DEF TrustShared, IsPrefixOf
<1>2. /\ anchor[k] \in Histories /\ IsPrefixOf(anchor[k], Shared)
      /\ tree[k] \in Histories /\ IsPrefixOf(tree[k], Shared)
  BY DEF PublicationInv, PublicationType, TrustShared
<1>3. op[k].pc \in {"reffed", "installed"} =>
        Staged(k).history \in Histories /\ IsPrefixOf(Staged(k).history, Shared)
  BY PushedShared
<1>4. QED
  BY <1>2, <1>3, SharedStep, TrustMoves DEF PublicationInv

\* The commits that are on the branch stay on it.
LEMMA CommitsStay ==
    ASSUME PublicationInv, [PublicationNext]_pubVars
    PROVE  /\ Len(remote) \in Nat /\ Len(remote') \in Nat /\ Len(remote) <= Len(remote')
           /\ \A i \in 1 .. Len(remote) : remote'[i] = remote[i]
<1>1. Len(remote) \in Nat
  BY BranchHistories DEF PublicationInv
<1>2. QED
  BY <1>1, BranchStep, GrownBranch DEF PublicationInv

\* The state of a host that takes no part in a step.
Stands(k) ==
    /\ op'[k] = op[k] /\ head'[k] = head[k] /\ tree'[k] = tree[k]
    /\ pending'[k] = pending[k] /\ promotion'[k] = promotion[k]

\* A step is one of the host, or leaves the host's state alone.
LEMMA OthersStand ==
    ASSUME PublicationType, [PublicationNext]_pubVars, NEW k \in Hosts
    PROVE  Stands(k) \/ HostNext(k)
<1> USE DEF PublicationType, Stands
<1>1. ASSUME NEW h \in Hosts, HostNext(h), h # k PROVE Stands(k)
  BY <1>1 DEF HostNext, CreateRead, CreateCheck, CreateRefused, PreparePromotion,
     Commit, CommitRefused, PushFails, Fail, Push, RefRefused, UpdateRef, Install,
     Copy, ConfirmPromotion, CommitPromotion, PromotionFails, Crash, RecoverPublication,
     Open, Pull
<1>2. QED
  BY <1>1 DEF PublicationNext, pubVars, OtherCommit, Change

\* The facts about a host survive what the other hosts push.
LEMMA StandingHost ==
    ASSUME PublicationInv, [PublicationNext]_pubVars, NEW k \in Hosts, Stands(k)
    PROVE  WorktreeOf(k)' /\ OperationOf(k)'
<1>1. head[k] \in 1 .. Len(remote) /\ WorktreeOf(k) /\ OperationOf(k)
  BY DEF PublicationInv, PublicationType, Worktrees, Operations
<1>2. /\ Len(remote) \in Nat /\ Len(remote') \in Nat /\ Len(remote) <= Len(remote')
      /\ \A i \in 1 .. Len(remote) : remote'[i] = remote[i]
  BY CommitsStay
<1>3. pending[k] # NoPending => pending[k].parent \in Nat
  BY DEF PublicationInv, PublicationType
<1>4. Interrupted(k) => Interrupted(k)'
  <2>1. SUFFICES ASSUME Interrupted(k) PROVE Interrupted(k)'
    OBVIOUS
  <2>2. /\ pending[k] # NoPending /\ pending[k].parent \in Nat
        /\ pending[k].parent < Len(remote)
        /\ remote[pending[k].parent + 1] = pending[k].commit
    BY <1>3, <2>1 DEF Interrupted, Published
  <2>3. pending[k].parent < Len(remote') /\ remote'[pending[k].parent + 1] = pending[k].commit
    BY <1>2, <2>2
  <2>4. QED
    BY <2>1, <2>2, <2>3 DEF Interrupted, Published, Stands
<1>5. WorktreeOf(k)'
  BY <1>1, <1>2, <1>4 DEF WorktreeOf, Stands
<1>6. Staged(k)' = Staged(k)
  BY DEF Staged, Stands
<1>7. op[k].pc \in {"pushed", "reffed", "installed"} =>
        op[k].parent < Len(remote') /\ remote'[op[k].parent + 1] = Staged(k)
  <2>1. SUFFICES ASSUME op[k].pc \in {"pushed", "reffed", "installed"}
                 PROVE  op[k].parent < Len(remote')
                        /\ remote'[op[k].parent + 1] = Staged(k)
    OBVIOUS
  <2>2. /\ op[k].parent \in Nat /\ op[k].parent + 1 \in 1 .. Len(remote)
        /\ remote[op[k].parent + 1] = Staged(k)
    BY <2>1, PushedShared
  <2>3. QED
    BY <1>2, <2>2
<1>8. OperationOf(k)'
  BY <1>1, <1>6, <1>7 DEF OperationOf, Stands
<1>9. QED
  BY <1>5, <1>8

\* The worktree is HEAD's or its publication is pending after every step.
LEMMA WorktreeStep ==
    ASSUME PublicationInv, [PublicationNext]_pubVars
    PROVE  Worktrees'
<1>1. SUFFICES ASSUME NEW k \in Hosts, HostNext(k) PROVE WorktreeOf(k)'
  BY StandingHost, OthersStand DEF Worktrees, PublicationInv
<1>t. /\ PublicationType /\ WorktreeOf(k) /\ OperationOf(k)
      /\ head[k] \in 1 .. Len(remote)
  BY DEF PublicationInv, Worktrees, Operations, PublicationType
<1>r. /\ Len(remote) \in Nat /\ Len(remote') \in Nat /\ Len(remote) <= Len(remote')
      /\ \A i \in 1 .. Len(remote) : remote'[i] = remote[i]
  BY CommitsStay
<1>2. CASE \/ CreateRead(k) \/ CreateCheck(k) \/ Commit(k) \/ ConfirmPromotion(k)
           \/ CommitPromotion(k) \/ (op[k].pc \notin {"reffed", "down"} /\ Fail(k))
           \/ Push(k) \/ \E r \in Runs, t \in Targets : PreparePromotion(k, r, t)
  <2>1. tree' = tree /\ head' = head
    BY <1>2 DEF CreateRead, CreateCheck, Commit, ConfirmPromotion,
       CommitPromotion, Fail, Push, PreparePromotion
  <2>2. op[k].pc \notin {"reffed", "down"}
    <3>1. op[k] = Idle => op[k].pc = "idle"
      BY DEF Idle
    <3>2. QED
      BY <1>2, <3>1 DEF CreateRead, CreateCheck, Commit, ConfirmPromotion,
         CommitPromotion, Push, PreparePromotion
  <2>3. QED
    BY <1>t, <1>r, <2>1, <2>2 DEF WorktreeOf
<1>3. CASE UpdateRef(k)
  <2>1. /\ op[k].pc = "pushed" /\ op[k].read = tree[k]
        /\ pending[k] = [parent |-> op[k].parent, commit |-> Staged(k)]
    BY <1>t, <1>3 DEF UpdateRef, OperationOf
  <2>2. op[k].parent \in Nat
    BY <1>t, <2>1, StagedCommit DEF Busy
  <2>4. op[k].parent < Len(remote) /\ remote[op[k].parent + 1] = Staged(k)
    BY <1>t, <2>1 DEF OperationOf
  <2>5. /\ head'[k] = op[k].parent + 1 /\ tree' = tree /\ pending' = pending
        /\ remote' = remote /\ op'[k].pc = "reffed"
    BY <1>t, <1>3 DEF UpdateRef, PublicationType, Ops, Working
  <2>6. Interrupted(k)'
    BY <2>1, <2>2, <2>4, <2>5 DEF Interrupted, Published, NoPending
  <2>7. QED
    BY <2>5, <2>6 DEF WorktreeOf
<1>4. CASE Install(k) \/ Copy(k)
  <2>1. op[k].pc \in {"reffed", "installed"}
    BY <1>4 DEF Install, Copy
  <2>2. head[k] = op[k].parent + 1 /\ remote[op[k].parent + 1] = Staged(k)
    BY <1>t, <2>1 DEF OperationOf
  <2>3. tree'[k] = Staged(k).history /\ head' = head /\ remote' = remote
    BY <1>t, <1>4 DEF Install, Copy, PublicationType
  <2>4. QED
    BY <2>2, <2>3 DEF WorktreeOf
<1>5. CASE Crash(k)
  <2>1. op'[k].pc = "down"
    BY <1>t, <1>5 DEF Crash, Down, PublicationType
  <2>2. QED
    BY <1>t, <1>5, <2>1 DEF Crash, WorktreeOf, Interrupted, Published
<1>6. CASE RecoverPublication(k) \/ Pull(k)
  <2>1. tree'[k] = Shared /\ head'[k] = Len(remote) /\ remote' = remote
    BY <1>t, <1>6 DEF RecoverPublication, Pull, PublicationType
  <2>2. QED
    BY <2>1 DEF WorktreeOf, Shared, AuthorityOf
<1>7. CASE Open(k)
  BY <1>t, <1>7 DEF Open, WorktreeOf, Interrupted
<1>8. QED
  BY <1>1, <1>2, <1>3, <1>4, <1>5, <1>6, <1>7 DEF HostNext, CreateRefused,
     CommitRefused, PushFails, RefRefused, PromotionFails

\* What an operation holds stays true of the branch, the clone and the file.
LEMMA OperationStep ==
    ASSUME PublicationInv, [PublicationNext]_pubVars
    PROVE  Operations'
<1>1. SUFFICES ASSUME NEW k \in Hosts, HostNext(k) PROVE OperationOf(k)'
  BY StandingHost, OthersStand DEF Operations, PublicationInv
<1>t. /\ PublicationType /\ WorktreeOf(k) /\ OperationOf(k)
      /\ op \in [Hosts -> Ops]
  BY DEF PublicationInv, Worktrees, Operations, PublicationType
<1>2. CASE CreateRead(k)
  <2>1. tree[k] \in Histories /\ Now(tree[k]) \in Record
    BY <1>t, NowRecord DEF PublicationType
  <2>2. \/ op'[k] = Idle
        \/ op'[k] = [pc |-> "exported", read |-> tree[k], run |-> "create",
             next |-> [Now(tree[k]) EXCEPT !.head = db[Now(tree[k]).writer]]]
    BY <1>t, <1>2 DEF CreateRead
  <2>3. tree' = tree
    BY <1>2 DEF CreateRead
  <2>4. QED
    BY <2>1, <2>2, <2>3 DEF OperationOf, Idle, Record, Now, Busy
<1>3. CASE CreateCheck(k)
  <2>1. op'[k] = [pc |-> "checked", read |-> op[k].read,
                  run |-> "create", next |-> op[k].next, parent |-> head[k]]
    BY <1>t, <1>3 DEF CreateCheck
  <2>2. op[k].pc = "exported" /\ tree' = tree /\ head' = head
    BY <1>3 DEF CreateCheck
  <2>3. QED
    BY <1>t, <2>1, <2>2 DEF OperationOf, Busy, Now
<1>4. CASE Fail(k) \/ CommitPromotion(k) \/ Crash(k) \/ Open(k)
           \/ RecoverPublication(k) \/ Pull(k) \/ ConfirmPromotion(k) \/ Copy(k)
  <2>1. op'[k].pc \in {"idle", "down", "confirm", "confirmed"}
    <3>1. CASE ConfirmPromotion(k)
      <4>1. op[k] \in [pc : {"confirm", "confirmed"}, run : Runs]
        BY <1>t, <3>1, OperationTypes DEF ConfirmPromotion
      <4>2. QED
        BY <1>t, <3>1, <4>1 DEF ConfirmPromotion
    <3>2. QED
      BY <1>t, <1>4, <3>1 DEF Fail, CommitPromotion, Crash, Open, RecoverPublication,
         Pull, Copy, Idle, Down
  <2>2. QED
    BY <2>1 DEF OperationOf, Busy
<1>5. ASSUME NEW r \in Runs, NEW t \in Targets, PreparePromotion(k, r, t)
      PROVE  OperationOf(k)'
  <2>1. tree[k] \in Histories /\ Now(tree[k]) \in Record
    BY <1>t, NowRecord DEF PublicationType
  <2>2. op'[k] = [pc |-> "checked", read |-> tree[k], run |-> r,
                  next |-> Promoted(k, t), parent |-> head[k]]
    BY <1>t, <1>5 DEF PreparePromotion
  <2>3. Promoted(k, t).head = Now(tree[k]).head
    BY <2>1 DEF Promoted, Record
  <2>4. tree' = tree /\ head' = head
    BY <1>5 DEF PreparePromotion
  <2>5. QED
    BY <2>2, <2>3, <2>4 DEF OperationOf, Busy, Now
<1>6. CASE Commit(k) \/ Push(k) \/ UpdateRef(k) \/ Install(k)
  <2> DEFINE Same == /\ op'[k].read = op[k].read /\ op'[k].run = op[k].run
                     /\ op'[k].next = op[k].next /\ op'[k].parent = op[k].parent
                     /\ Staged(k)' = Staged(k)
                     /\ Now(op'[k].read) = Now(op[k].read)
  <2>1. op[k] \in Working
    BY <1>t, <1>6, OperationTypes DEF Commit, Push, UpdateRef, Install, Busy
  <2>2. Same
    <3>1. \E p \in Busy : op' = [op EXCEPT ![k].pc = p]
      BY <1>6 DEF Commit, Push, UpdateRef, Install, Busy
    <3>2. PICK p \in Busy : op'[k] = [op[k] EXCEPT !.pc = p]
      BY <1>t, <3>1
    <3>3. /\ op'[k].read = op[k].read /\ op'[k].run = op[k].run
          /\ op'[k].next = op[k].next /\ op'[k].parent = op[k].parent
      BY <2>1, <3>2 DEF Working
    <3>4. QED
      BY <3>3 DEF Staged, Now
  <2>3. op[k].parent \in Nat
    BY <2>1 DEF Working
  <2>4. CASE Commit(k)
    <3>1. op'[k].pc = "pending" /\ tree' = tree /\ head' = head
      BY <1>t, <2>1, <2>4 DEF Commit, Working
    <3>2. pending'[k] = [parent |-> op[k].parent, commit |-> Staged(k)]
      BY <1>t, <2>4 DEF Commit, PublicationType
    <3>3. op[k].pc = "checked"
      BY <2>4 DEF Commit
    <3>4. QED
      BY <1>t, <2>2, <3>1, <3>2, <3>3 DEF OperationOf, Busy
  <2>5. CASE Push(k)
    <3>1. op'[k].pc = "pushed" /\ tree' = tree /\ head' = head /\ pending' = pending
      BY <1>t, <2>1, <2>5 DEF Push, Working
    <3>2. op[k].pc = "pending"
      BY <2>5 DEF Push
    <3>3. Grown(Staged(k)) /\ Staged(k) \in Commits /\ op[k].parent = Len(remote)
      BY <2>5, PushGrows DEF Grown, Push, FastForward
    <3>4. op[k].parent < Len(remote') /\ remote'[op[k].parent + 1] = Staged(k)
      BY <2>3, <3>3, GrownBranch DEF PublicationInv
    <3>5. QED
      BY <1>t, <2>2, <3>1, <3>2, <3>4 DEF OperationOf, Busy
  <2>6. CASE UpdateRef(k)
    <3>1. op'[k].pc = "reffed" /\ tree' = tree /\ pending' = pending /\ remote' = remote
      BY <1>t, <2>1, <2>6 DEF UpdateRef, Working
    <3>2. head'[k] = op[k].parent + 1
      BY <1>t, <2>6 DEF UpdateRef, PublicationType
    <3>3. op[k].pc = "pushed"
      BY <2>6 DEF UpdateRef
    <3>4. QED
      BY <1>t, <2>2, <3>1, <3>2, <3>3 DEF OperationOf, Busy
  <2>7. CASE Install(k)
    <3>1. op'[k].pc = "installed" /\ head' = head /\ remote' = remote
      BY <1>t, <2>1, <2>7 DEF Install, Working
    <3>2. op[k].pc = "reffed"
      BY <2>7 DEF Install
    <3>3. QED
      BY <1>t, <2>2, <3>1, <3>2 DEF OperationOf, Busy
  <2>8. QED
    BY <1>6, <2>4, <2>5, <2>6, <2>7
<1>7. QED
  BY <1>1, <1>2, <1>3, <1>4, <1>5, <1>6 DEF HostNext, CreateRefused,
     CommitRefused, PushFails, RefRefused, PromotionFails

-----------------------------------------------------------------------------
(* Promotions. *)

\* What happened stays in the history.
LEMMA RecordedStays ==
    ASSUME PublicationInv, [PublicationNext]_pubVars, NEW p
    PROVE  /\ Happened(p, Shared) => Happened(p, Shared')
           /\ Recorded(p, Shared) => Recorded(p, Shared')
<1>1. Shared \in Histories /\ Shared' \in Histories /\ IsPrefixOf(Shared, Shared')
  BY SharedStep
<1>2. Len(Shared) \in Nat /\ Len(Shared') \in Nat
  BY <1>1 DEF Histories
<1>3. Len(Shared) <= Len(Shared') /\ \A i \in 1 .. Len(Shared) : Shared[i] = Shared'[i]
  BY <1>1, PrefixElements
<1>4. Happened(p, Shared) => Happened(p, Shared')
  BY <1>2, <1>3 DEF Happened
<1>5. (\E i \in 1 .. Len(Shared) : Shared[i].writer = p.plan.from) =>
        \E i \in 1 .. Len(Shared') : Shared'[i].writer = p.plan.from
  BY <1>2, <1>3
<1>6. 0 .. Len(Shared) \subseteq 0 .. Len(Shared')
  BY <1>2, <1>3
<1>7. QED
  BY <1>4, <1>5, <1>6 DEF Recorded

\* The latest writer of a worktree is in the shared history.
LEMMA TreeWriter ==
    ASSUME PublicationInv, NEW s \in Histories, IsPrefixOf(s, Shared)
    PROVE  Len(s) \in 1 .. Len(Shared) /\ Shared[Len(s)] = Now(s)
<1>1. Shared \in Histories
  BY BranchHistories DEF PublicationInv
<1>2. QED
  BY <1>1, PrefixElements DEF Histories, Now

\* The promotions of a host stay what the history says of them.
LEMMA RunsStep ==
    ASSUME PublicationInv, [PublicationNext]_pubVars
    PROVE  PromotionRuns'
<1>1. SUFFICES ASSUME NEW k \in Hosts PROVE RunsOf(k)'
  BY DEF PromotionRuns
<1>t. /\ PublicationType /\ CurrentOf(k) /\ OperationOf(k)
      /\ \A r \in Runs : Recorded(promotion[k][r], Shared)
      /\ op \in [Hosts -> Ops] /\ promotion \in [Hosts -> [Runs -> Promotions]]
  BY DEF PublicationInv, PromotionRuns, RunsOf, Operations, PublicationType
<1>p. ASSUME NEW r \in Runs, NEW t \in Targets, PreparePromotion(k, r, t)
      PROVE  /\ CurrentOf(k)'
             /\ \/ promotion'[k] = promotion[k]
                \/ promotion'[k] = [promotion[k] EXCEPT ![r] = NewRun(PlanOf(k, t))]
  <2>1. \/ promotion'[k] = promotion[k] /\ promotion[k][r] # NoRun
           /\ promotion[k][r].plan = PlanOf(k, t)
        \/ promotion'[k] = [promotion[k] EXCEPT ![r] = NewRun(PlanOf(k, t))]
    BY <1>t, <1>p DEF PreparePromotion
  <2>2. promotion'[k][r] # NoRun /\ promotion'[k][r].plan = PlanOf(k, t)
    BY <1>t, <2>1 DEF NewRun, NoRun
  <2>3. op'[k] = [pc |-> "checked", read |-> tree[k], run |-> r,
                  next |-> Promoted(k, t), parent |-> head[k]]
    BY <1>t, <1>p DEF PreparePromotion
  <2>4. Promoted(k, t).writer = t
    <3>1. Now(tree[k]) \in Record
      BY NowRecord DEF PublicationInv, PublicationType
    <3>2. QED
      BY <3>1 DEF Promoted, Record
  <2>5. CurrentOf(k)'
    BY <2>2, <2>3, <2>4 DEF CurrentOf, Now, Busy, PlanOf
  <2>6. QED
    BY <2>1, <2>5
<1>r. CASE promotion'[k] = promotion[k]
  <2>1. \A r \in Runs : Recorded(promotion'[k][r], Shared')
    BY <1>t, <1>r, RecordedStays
  <2>2. CurrentOf(k)'
    <3>1. CASE Stands(k)
      BY <1>t, <3>1, RecordedStays DEF Stands, CurrentOf, Now
    <3>2. CASE CreateRead(k) \/ CreateCheck(k) \/ Fail(k) \/ Crash(k)
               \/ RecoverPublication(k) \/ Pull(k)
      <4>1. \/ op'[k].pc \in {"idle", "down", "exported"}
            \/ op'[k].pc = "checked" /\ op'[k].run = "create"
        BY <1>t, <3>2 DEF CreateRead, CreateCheck, Fail, Crash, RecoverPublication,
           Pull, Idle, Down
      <4>2. QED
        BY <4>1 DEF CurrentOf, Busy
    <3>3. CASE Commit(k) \/ Push(k) \/ UpdateRef(k) \/ Install(k)
      <4>1. op[k] \in Working /\ op[k].pc \in Busy
        BY <1>t, <3>3, OperationTypes DEF Commit, Push, UpdateRef, Install, Busy
      <4>2. \E p \in Busy : op' = [op EXCEPT ![k].pc = p]
        BY <3>3 DEF Commit, Push, UpdateRef, Install, Busy
      <4>3. PICK p \in Busy : op'[k] = [op[k] EXCEPT !.pc = p]
        BY <1>t, <4>2
      <4>4. /\ op'[k].read = op[k].read /\ op'[k].run = op[k].run
            /\ op'[k].next = op[k].next /\ op'[k].pc \in Busy
        BY <4>1, <4>3 DEF Working
      <4>5. QED
        BY <1>t, <1>r, <4>1, <4>4 DEF CurrentOf, Now, Busy
    <3>4. CASE Copy(k)
      <4> DEFINE p == promotion[k][op[k].run]
      <4>1. SUFFICES ASSUME op[k].run # "create", op'[k] = [pc |-> "confirm", run |-> op[k].run]
                     PROVE  p # NoRun /\ Happened(p, Shared')
        BY <1>t, <1>r, <3>4 DEF Copy, CurrentOf, Busy, Idle
      <4>2. op[k].pc = "installed"
        BY <3>4 DEF Copy
      <4>3. /\ p # NoRun /\ p.plan.from = Now(op[k].read).writer
            /\ p.plan.to = op[k].next.writer
        BY <1>t, <4>1, <4>2 DEF CurrentOf, Busy
      <4>4. /\ op[k].read \in Histories /\ op[k].next \in Record
            /\ Staged(k).history = Append(op[k].read, op[k].next)
            /\ Staged(k).history \in Histories
            /\ IsPrefixOf(Staged(k).history, Shared)
        BY <1>t, <4>2, StagedCommit, PushedShared DEF Busy
      <4> DEFINE i == Len(op[k].read)
      <4>5. /\ i \in Nat /\ i >= 1 /\ Len(Staged(k).history) = i + 1
            /\ Staged(k).history[i] = Now(op[k].read)
            /\ Staged(k).history[i + 1] = op[k].next
        BY <4>4, PrefixAppend, NowRecord DEF Now
      <4>6. /\ i + 1 \in 1 .. Len(Shared) /\ Shared[i] = Now(op[k].read)
            /\ Shared[i + 1] = op[k].next
        <5>1. Shared \in Histories /\ Len(Shared) \in Nat
          BY BranchHistories DEF PublicationInv, Histories
        <5>2. /\ i + 1 <= Len(Shared)
              /\ \A j \in 1 .. i + 1 : Staged(k).history[j] = Shared[j]
          BY <4>4, <4>5, <5>1, PrefixElements
        <5>3. i \in 1 .. i + 1 /\ i + 1 \in 1 .. i + 1
          BY <4>5
        <5>4. QED
          BY <4>5, <5>1, <5>2, <5>3
      <4>7. Happened(p, Shared)
        <5>1. Len(Shared) \in Nat
          BY BranchHistories DEF PublicationInv, Histories
        <5>2. QED
          BY <4>3, <4>5, <4>6, <5>1 DEF Happened
      <4>8. QED
        BY <4>3, <4>7, RecordedStays
    <3>5. CASE \E r \in Runs, t \in Targets : PreparePromotion(k, r, t)
      BY <1>p, <3>5
    <3>6. CASE ConfirmPromotion(k) \/ CommitPromotion(k)
      <4>1. op[k].run \in Runs
        BY <1>t, <3>6, OperationTypes DEF ConfirmPromotion, CommitPromotion
      <4>2. promotion[k][op[k].run] \in Promotions
            /\ promotion[k][op[k].run].phase \in {"prepared", "confirmed"}
        BY <1>t, <3>6, <4>1 DEF ConfirmPromotion, CommitPromotion, CurrentOf
      <4>3. promotion'[k][op[k].run].phase
              \in {"confirmed", "committed"} \ {promotion[k][op[k].run].phase}
        <5>1. promotion[k][op[k].run] \in Prepared
          BY <4>2 DEF Promotions, NoRun
        <5>2. CASE ConfirmPromotion(k)
          <6>1. promotion'[k][op[k].run] =
                  [promotion[k][op[k].run] EXCEPT !.phase = "confirmed", !.at = Len(tree[k])]
            BY <1>t, <4>1, <5>2 DEF ConfirmPromotion
          <6>2. promotion[k][op[k].run].phase = "prepared"
            BY <5>2 DEF ConfirmPromotion
          <6>3. promotion'[k][op[k].run].phase = "confirmed"
            BY <5>1, <6>1 DEF Prepared
          <6>4. QED
            BY <6>2, <6>3
        <5>3. CASE CommitPromotion(k)
          <6>1. promotion'[k][op[k].run] = [promotion[k][op[k].run] EXCEPT !.phase = "committed"]
            BY <1>t, <4>1, <5>3 DEF CommitPromotion
          <6>2. promotion[k][op[k].run].phase = "confirmed"
            BY <1>t, <5>3 DEF CommitPromotion, CurrentOf
          <6>3. QED
            BY <5>1, <6>1, <6>2 DEF Prepared
        <5>4. QED
          BY <3>6, <5>2, <5>3
      <4>4. QED
        BY <1>r, <4>3
    <3>7. CASE Open(k)
      BY <1>t, <3>7 DEF Open, Idle, CurrentOf, Busy
    <3>8. QED
      BY <1>t, <3>1, <3>2, <3>3, <3>4, <3>5, <3>6, <3>7, OthersStand
         DEF HostNext, CreateRefused, CommitRefused, PushFails, RefRefused, PromotionFails
  <2>3. QED
    BY <2>1, <2>2 DEF RunsOf
<1>2. ASSUME NEW r \in Runs, NEW t \in Targets, PreparePromotion(k, r, t)
      PROVE  RunsOf(k)'
  <2>1. /\ tree[k] \in Histories /\ IsPrefixOf(tree[k], Shared)
    BY DEF PublicationInv, PublicationType, TrustShared
  <2>2. Len(tree[k]) \in 1 .. Len(Shared) /\ Shared[Len(tree[k])] = Now(tree[k])
    BY <2>1, TreeWriter
  <2> DEFINE p == NewRun(PlanOf(k, t))
  <2>3. Recorded(p, Shared)
    BY <2>2 DEF Recorded, NewRun, PlanOf
  <2>4. CASE promotion'[k] = promotion[k]
    BY <1>r, <2>4
  <2>5. CASE promotion'[k] = [promotion[k] EXCEPT ![r] = p]
    <3>1. \A q \in Runs : promotion'[k][q] = IF q = r THEN p ELSE promotion[k][q]
      BY <1>t, <2>5
    <3>2. ASSUME NEW q \in Runs PROVE Recorded(promotion'[k][q], Shared')
      <4>1. Recorded(promotion'[k][q], Shared)
        BY <1>t, <2>3, <3>1
      <4>2. QED
        BY <4>1, RecordedStays
    <3>3. QED
      BY <1>2, <1>p, <3>2 DEF RunsOf
  <2>6. QED
    BY <1>2, <1>p, <2>4, <2>5
<1>3. CASE ConfirmPromotion(k) \/ CommitPromotion(k)
  <2> DEFINE r == op[k].run
             p == promotion[k][r]
  <2>1. r \in Runs /\ op[k] \in [pc : {"confirm", "confirmed"}, run : Runs]
    BY <1>t, <1>3, OperationTypes DEF ConfirmPromotion, CommitPromotion
  <2>2. /\ p \in Promotions /\ p # NoRun /\ Happened(p, Shared)
    BY <1>t, <1>3, <2>1 DEF ConfirmPromotion, CommitPromotion, CurrentOf,
       Recorded, NoRun
  <2>3. PICK f \in {"confirmed", "committed"}, a \in 0 .. Len(Shared) :
          /\ promotion'[k] = [promotion[k] EXCEPT ![r] = [p EXCEPT !.phase = f, !.at = a]]
          /\ op[k].pc = "confirm" => f = "confirmed"
    <3>1. CASE ConfirmPromotion(k)
      <4>1. tree[k] \in Histories /\ IsPrefixOf(tree[k], Shared)
        BY DEF PublicationInv, PublicationType, TrustShared
      <4>2. Len(tree[k]) \in 0 .. Len(Shared)
        BY <4>1, TreeWriter
      <4>3. promotion'[k] = [promotion[k] EXCEPT ![r] =
              [p EXCEPT !.phase = "confirmed", !.at = Len(tree[k])]]
        BY <1>t, <2>1, <3>1 DEF ConfirmPromotion
      <4>4. "confirmed" \in {"confirmed", "committed"}
        OBVIOUS
      <4>5. QED
        BY <4>2, <4>3, <4>4, Zenon
    <3>2. CASE CommitPromotion(k)
      <4>1. p \in Prepared /\ p.at \in 0 .. Len(Shared)
        BY <1>t, <2>1, <2>2 DEF Promotions, Recorded
      <4>2. "committed" \in {"confirmed", "committed"}
            /\ [p EXCEPT !.phase = "committed", !.at = p.at] = [p EXCEPT !.phase = "committed"]
        BY <4>1 DEF Prepared
      <4>3. promotion'[k] = [promotion[k] EXCEPT ![r] = [p EXCEPT !.phase = "committed"]]
            /\ op[k].pc # "confirm"
        BY <1>t, <2>1, <3>2 DEF CommitPromotion
      <4>4. QED
        BY <4>1, <4>2, <4>3, Zenon
    <3>3. QED
      BY <1>3, <3>1, <3>2
  <2> DEFINE n == [p EXCEPT !.phase = f, !.at = a]
  <2>4. n.phase = f /\ n.plan = p.plan /\ n.at = a
    BY <2>2 DEF Promotions, Prepared
  <2>5. Recorded(n, Shared)
    BY <2>2, <2>3, <2>4 DEF Recorded, Happened
  <2>6. \A q \in Runs : promotion'[k][q] = IF q = r THEN n ELSE promotion[k][q]
    BY <1>t, <2>1, <2>3
  <2>7. \A q \in Runs : Recorded(promotion'[k][q], Shared')
    <3>1. SUFFICES ASSUME NEW q \in Runs PROVE Recorded(promotion'[k][q], Shared')
      OBVIOUS
    <3>2. Recorded(promotion'[k][q], Shared)
      BY <1>t, <2>5, <2>6
    <3>3. QED
      BY <3>2, RecordedStays
  <2>8. CurrentOf(k)'
    <3>1. CASE ConfirmPromotion(k)
      <4>1. op'[k].pc = "confirmed" /\ op'[k].run = r
        BY <1>t, <2>1, <3>1 DEF ConfirmPromotion
      <4>2. promotion'[k][r].phase = "confirmed"
        BY <2>1, <2>3, <2>4, <2>6, <3>1 DEF ConfirmPromotion
      <4>3. QED
        BY <4>1, <4>2 DEF CurrentOf, Busy
    <3>2. CASE CommitPromotion(k)
      BY <1>t, <3>2 DEF CommitPromotion, CurrentOf, Idle, Busy
    <3>3. QED
      BY <1>3, <3>1, <3>2
  <2>9. QED
    BY <2>7, <2>8 DEF RunsOf
<1>4. CASE Open(k)
  <2> DEFINE w == Now(tree[k]).writer
  <2>1. tree[k] = Shared /\ Shared \in Histories
    BY <1>4, BranchHistories DEF Open, Anchored, PublicationInv
  <2>2. Len(Shared) \in Nat /\ Len(Shared) >= 1 /\ w = Shared[Len(Shared)].writer
    BY <2>1, NowRecord DEF Now
  <2>3. ASSUME NEW r \in Runs PROVE Recorded(promotion'[k][r], Shared)
    <3> DEFINE p == promotion[k][r]
               n == Settled(p, tree[k])
    <3>1. promotion'[k][r] = n
      BY <1>t, <1>4 DEF Open
    <3>2. p \in Promotions /\ Recorded(p, Shared) /\ Recovered(p, w) # "stuck"
      BY <1>t, <1>4 DEF Open
    <3>3. /\ p = NoRun => n = NoRun
          /\ p # NoRun =>
               /\ n # NoRun /\ n.plan = p.plan
               /\ n.phase \in {"committed", "aborted"}
               /\ p.phase = "prepared" => n.at = Len(Shared)
               /\ p.phase # "prepared" => n.at = p.at
               /\ n.phase = "committed" =>
                     \/ p.phase \in {"confirmed", "committed"}
                     \/ p.phase = "prepared" /\ w # p.plan.from /\ w = p.plan.to
      BY <2>1, <3>2, SettledRun
    <3> HIDE DEF n
    <3>4. CASE p = NoRun
      BY <3>1, <3>3, <3>4 DEF Recorded
    <3>5. CASE p # NoRun
      <4>1. n.at \in 0 .. Len(Shared)
        BY <2>2, <3>2, <3>3, <3>5 DEF Recorded
      <4>2. n.phase = "committed" => Happened(p, Shared)
        <5>1. CASE p.phase = "prepared" /\ w # p.plan.from /\ w = p.plan.to
          <6>1. PICK i \in 1 .. Len(Shared) : Shared[i].writer = p.plan.from
            BY <3>2, <3>5, <5>1 DEF Recorded
          <6>2. i # Len(Shared)
            BY <2>2, <5>1, <6>1
          <6>3. i < Len(Shared) /\ Len(Shared) \in 2 .. Len(Shared)
            BY <2>2, <6>1, <6>2
          <6>4. QED
            BY <2>2, <5>1, <6>1, <6>3 DEF Happened
        <5>2. CASE p.phase \in {"confirmed", "committed"}
          BY <3>2, <3>5, <5>2 DEF Recorded
        <5>3. QED
          BY <3>3, <3>5, <5>1, <5>2
      <4>3. QED
        BY <3>1, <3>3, <3>5, <4>1, <4>2 DEF Recorded, Happened
    <3>6. QED
      BY <3>4, <3>5
  <2>4. \A r \in Runs : Recorded(promotion'[k][r], Shared')
    BY <2>3, RecordedStays
  <2>5. CurrentOf(k)'
    BY <1>t, <1>4 DEF Open, Idle, CurrentOf, Busy
  <2>6. QED
    BY <2>4, <2>5 DEF RunsOf
<1>5. QED
  <2>1. Stands(k) => promotion'[k] = promotion[k]
    BY DEF Stands
  <2>2. CASE HostNext(k)
    BY <1>r, <1>2, <1>3, <1>4, <2>2 DEF HostNext, CreateRead, CreateCheck,
       CreateRefused, Commit, CommitRefused, Push, PushFails, RefRefused, Fail,
       PromotionFails, UpdateRef, Install, Copy, Crash, RecoverPublication, Pull
  <2>3. QED
    BY <1>t, <1>r, <2>1, <2>2, OthersStand

\* A promotion keeps what it is about; it is aborted by start-up only, which
\* has found the writer it was to replace (recover_promotion_against_portable).
LEMMA PromotionMoves ==
    ASSUME PublicationInv, [PublicationNext]_pubVars, NEW h \in Hosts, NEW r \in Runs
    PROVE  /\ promotion[h][r] # NoRun =>
                /\ promotion'[h][r] # NoRun
                /\ promotion'[h][r].plan = promotion[h][r].plan
           /\ promotion'[h][r].phase = "aborted" =>
                /\ promotion[h][r] # NoRun
                /\ \/ promotion'[h][r] = promotion[h][r]
                   \/ /\ promotion[h][r].phase = "prepared" /\ remote' = remote
                      /\ promotion'[h][r].at = Len(Shared)
                      /\ Now(Shared).writer = promotion[h][r].plan.from
<1> DEFINE p == promotion[h][r]
<1>t. /\ PublicationType /\ p \in Promotions
      /\ promotion \in [Hosts -> [Runs -> Promotions]]
  BY DEF PublicationInv, PublicationType
<1>1. CASE promotion'[h] = promotion[h]
  BY <1>1 DEF NoRun
<1>2. ASSUME NEW q \in Runs, NEW t \in Targets, PreparePromotion(h, q, t)
      PROVE  /\ p # NoRun => promotion'[h][r] = p
             /\ promotion'[h][r].phase = "aborted" =>
                  p # NoRun /\ promotion'[h][r] = p
  <2> DEFINE n == NewRun(PlanOf(h, t))
  <2>1. \/ promotion'[h] = promotion[h]
        \/ promotion'[h] = [promotion[h] EXCEPT ![q] = n] /\ promotion[h][q] = NoRun
    BY <1>t, <1>2 DEF PreparePromotion
  <2>2. n.phase # "aborted"
    BY DEF NewRun
  <2> HIDE DEF n
  <2>3. CASE promotion'[h] = promotion[h]
    BY <2>3 DEF NoRun
  <2>4. CASE promotion'[h] = [promotion[h] EXCEPT ![q] = n] /\ promotion[h][q] = NoRun
    <3>1. promotion'[h][r] = IF q = r THEN n ELSE p
      BY <1>t, <2>4
    <3>2. QED
      BY <2>2, <2>4, <3>1 DEF NoRun
  <2>5. QED
    BY <2>1, <2>3, <2>4
<1>3. CASE ConfirmPromotion(h) \/ CommitPromotion(h)
  <2>1. op[h].run \in Runs
    BY <1>t, <1>3, OperationTypes DEF ConfirmPromotion, CommitPromotion
  <2> DEFINE o == promotion[h][op[h].run]
  <2>2. PICK n : /\ promotion'[h] = [promotion[h] EXCEPT ![op[h].run] = n]
                 /\ \/ n = [o EXCEPT !.phase = "confirmed", !.at = Len(tree[h])]
                    \/ n = [o EXCEPT !.phase = "committed"]
    BY <1>t, <1>3 DEF ConfirmPromotion, CommitPromotion
  <2>3. CASE op[h].run = r
    <3>1. p.phase \in {"prepared", "confirmed"}
      BY <1>3, <2>3 DEF ConfirmPromotion, CommitPromotion, PublicationInv,
         PromotionRuns, RunsOf, CurrentOf
    <3>2. p \in Prepared
      BY <1>t, <3>1 DEF Promotions, NoRun
    <3>3. n.phase \in {"confirmed", "committed"} /\ n.plan = p.plan
      BY <2>2, <2>3, <3>2 DEF Prepared
    <3>4. promotion'[h][r] = n
      BY <1>t, <2>2, <2>3
    <3>5. QED
      BY <3>3, <3>4 DEF NoRun
  <2>4. CASE op[h].run # r
    <3>1. promotion'[h][r] = p
      BY <1>t, <2>1, <2>2, <2>4
    <3>2. QED
      BY <3>1 DEF NoRun
  <2>5. QED
    BY <2>3, <2>4
<1>4. CASE Open(h)
  <2> DEFINE n == Settled(p, tree[h])
  <2>1. tree[h] = Shared /\ remote' = remote /\ Shared \in Histories
    BY <1>4, BranchHistories DEF Open, Anchored, PublicationInv
  <2>2. promotion'[h][r] = n /\ Recovered(p, Now(tree[h]).writer) # "stuck"
    BY <1>t, <1>4 DEF Open
  <2>3. /\ p = NoRun => n = NoRun
        /\ p # NoRun =>
             /\ n # NoRun /\ n.plan = p.plan
             /\ p.phase = "prepared" => n.at = Len(Shared)
             /\ n.phase = "aborted" =>
                  \/ p.phase = "aborted"
                  \/ p.phase = "prepared" /\ Now(Shared).writer = p.plan.from
    BY <1>t, <2>1, <2>2, SettledRun
  <2>4. p.phase = "aborted" => n = p
    <3>1. SUFFICES ASSUME p.phase = "aborted" PROVE n = p
      OBVIOUS
    <3>2. p \in Prepared
      BY <1>t, <3>1 DEF Promotions, NoRun
    <3>3. Recovered(p, Now(tree[h]).writer) = p.phase
      BY <3>1 DEF Recovered
    <3>4. n = [p EXCEPT !.phase = p.phase]
      BY <3>1, <3>2, <3>3 DEF Settled, NoRun
    <3>5. QED
      BY <3>2, <3>4 DEF Prepared
  <2> HIDE DEF n
  <2>5. QED
    BY <2>1, <2>2, <2>3, <2>4 DEF NoRun
<1>5. QED
  <2>1. Stands(h) => promotion'[h] = promotion[h]
    BY DEF Stands
  <2>2. CASE HostNext(h)
    BY <1>1, <1>2, <1>3, <1>4, <2>2 DEF HostNext, CreateRead, CreateCheck,
       CreateRefused, Commit, CommitRefused, Push, PushFails, RefRefused, Fail,
       PromotionFails, UpdateRef, Install, Copy, Crash, RecoverPublication, Pull
  <2>3. QED
    BY <1>t, <1>1, <2>1, <2>2, OthersStand

\* A new commit of a promotion is the push of the host that prepared it.
LEMMA NewCommit ==
    ASSUME PublicationInv, [PublicationNext]_pubVars, NEW h \in Hosts, NEW r \in Runs,
           NEW i \in 1 .. Len(remote'), i \notin 1 .. Len(remote),
           remote'[i].by = h, remote'[i].run = r
    PROVE  /\ promotion[h][r] # NoRun
           /\ Now(remote'[i].history).writer = promotion[h][r].plan.to
           /\ Len(remote'[i].history) = Len(Shared) + 1
<1>1. PICK c \in Commits : Grown(c)
  BY BranchStep
<1>2. Len(remote) \in Nat
  BY CommitsStay
<1>3. i = Len(remote) + 1 /\ remote'[i] = c
  BY <1>1, <1>2, GrownBranch DEF PublicationInv
<1>4. c.run # "none"
  BY <1>3, RunsAssumption
<1>5. PICK g \in Hosts : op[g].pc = "pending" /\ c = Staged(g) /\ op[g].read = Shared
  BY <1>1, <1>4 DEF Grown
<1>6. /\ op[g].read \in Histories /\ op[g].next \in Record
      /\ c.history = Append(op[g].read, op[g].next) /\ c.by = g /\ c.run = op[g].run
  BY <1>5, StagedCommit DEF PublicationInv, Busy
<1>7. g = h /\ op[h].run = r /\ r # "create"
  BY <1>3, <1>6, RunsAssumption
<1>8. promotion[h][r] # NoRun /\ promotion[h][r].plan.to = op[h].next.writer
  BY <1>5, <1>7 DEF PublicationInv, PromotionRuns, RunsOf, CurrentOf, Busy
<1>9. Now(c.history) = op[h].next /\ Len(c.history) = Len(Shared) + 1
  BY <1>5, <1>6, <1>7, PrefixAppend
<1>10. QED
  BY <1>3, <1>8, <1>9

\* A commit of a promotion names its candidate, after every step.
LEMMA CommitsStep ==
    ASSUME PublicationInv, [PublicationNext]_pubVars
    PROVE  PromotionCommits'
<1>1. SUFFICES ASSUME NEW h \in Hosts, NEW r \in Runs, NEW i \in 1 .. Len(remote'),
                      remote'[i].by = h, remote'[i].run = r
               PROVE  /\ promotion'[h][r] # NoRun
                      /\ Now(remote'[i].history).writer = promotion'[h][r].plan.to
  BY DEF PromotionCommits, Now
<1>2. promotion[h][r] # NoRun /\ Now(remote'[i].history).writer = promotion[h][r].plan.to
  <2>1. CASE i \in 1 .. Len(remote)
    BY <1>1, <2>1, CommitsStay DEF PublicationInv, PromotionCommits
  <2>2. CASE i \notin 1 .. Len(remote)
    BY <1>1, <2>2, NewCommit DEF NoRun
  <2>3. QED
    BY <2>1, <2>2
<1>3. QED
  BY <1>2, PromotionMoves

\* An aborted promotion keeps the revision of its abort: what was published by
\* then stays reversed, and what is published later is of a later generation.
LEMMA AbortedStep ==
    ASSUME PublicationInv, [PublicationNext]_pubVars
    PROVE  AbortedOrReversed'
<1> DEFINE now(h, r) == promotion'[h][r]
<1>1. SUFFICES ASSUME NEW h \in Hosts, NEW r \in Runs, NEW i \in 1 .. Len(remote'),
                      now(h, r).phase = "aborted",
                      now(h, r).plan.from # now(h, r).plan.to,
                      remote'[i].by = h, remote'[i].run = r,
                      Len(remote'[i].history) <= now(h, r).at
               PROVE  \E j \in i + 1 .. Len(remote') :
                        /\ Len(remote'[j].history) <= now(h, r).at
                        /\ Now(remote'[j].history).writer = now(h, r).plan.from
  BY DEF AbortedOrReversed, Now
<1> DEFINE p == promotion[h][r]
<1>2. /\ Len(remote) \in Nat /\ Len(remote') \in Nat /\ Len(remote) <= Len(remote')
      /\ \A j \in 1 .. Len(remote) : remote'[j] = remote[j]
  BY CommitsStay
<1>3. p # NoRun /\ now(h, r).plan = p.plan
  BY <1>1, PromotionMoves
<1>4. /\ Shared \in Histories /\ Len(Shared) \in Nat /\ p.at \in Nat
      /\ p.at <= Len(Shared)
  BY <1>3, BranchHistories DEF PublicationInv, PublicationType, Promotions, Prepared,
     PromotionRuns, RunsOf, Recorded, Histories
<1>5. CASE now(h, r) = p
  <2>1. i \in 1 .. Len(remote)
    BY <1>1, <1>4, <1>5, NewCommit
  <2>2. PICK j \in i + 1 .. Len(remote) :
          /\ Len(remote[j].history) <= p.at
          /\ Now(remote[j].history).writer = p.plan.from
    BY <1>1, <1>2, <1>5, <2>1 DEF PublicationInv, AbortedOrReversed
  <2>3. j \in i + 1 .. Len(remote') /\ remote'[j] = remote[j]
    BY <1>2, <2>1, <2>2
  <2>4. QED
    BY <1>5, <2>2, <2>3
<1>6. CASE now(h, r) # p
  <2>1. /\ remote' = remote /\ now(h, r).at = Len(Shared)
        /\ Now(Shared).writer = p.plan.from
    BY <1>1, <1>6, PromotionMoves
  <2>2. Now(remote[i].history).writer = p.plan.to
    BY <1>1, <2>1 DEF PublicationInv, PromotionCommits
  <2>3. Now(remote[Len(remote)].history).writer = p.plan.from
        /\ remote[Len(remote)].history = Shared
    BY <2>1 DEF Shared, AuthorityOf
  <2>4. i # Len(remote)
    BY <1>1, <1>3, <2>2, <2>3
  <2>5. Len(remote) \in i + 1 .. Len(remote)
    BY <1>2, <2>1, <2>4
  <2>6. QED
    BY <1>3, <1>4, <2>1, <2>3, <2>5
<1>7. QED
  BY <1>5, <1>6

-----------------------------------------------------------------------------
(* The theorems. *)

\* The initial states: one record, which every host has and trusts.
LEMMA PublicationStart ==
    ASSUME PublicationInit
    PROVE  PublicationInv
<1>1. PICK w \in Targets, c \in Contents :
        LET genesis == <<[writer |-> w, head |-> NoHead]>> IN
        /\ remote = <<[by |-> w, run |-> "none", history |-> genesis]>>
        /\ head = [h \in Hosts |-> 1]
        /\ tree = [h \in Hosts |-> genesis]
        /\ anchor = [h \in Hosts |-> genesis]
        /\ pending = [h \in Hosts |-> NoPending]
        /\ cache = [h \in Hosts |-> w]
        /\ promotion = [h \in Hosts |-> [r \in Runs |-> NoRun]]
        /\ op = [h \in Hosts |-> Idle]
        /\ db = [t \in Targets |-> c]
  BY DEF PublicationInit
<1> DEFINE genesis == <<[writer |-> w, head |-> NoHead]>>
<1>2. genesis \in Histories
  BY DEF Histories, Record
<1>3. /\ Len(remote) = 1 /\ remote[1].history = genesis /\ remote[1].run = "none"
      /\ Shared = genesis
  BY <1>1 DEF Shared, AuthorityOf
<1>4. PublicationType
  <2>1. remote \in Seq(Commits) /\ remote # <<>>
    <3>1. [by |-> w, run |-> "none", history |-> genesis] \in Commits
      BY <1>2 DEF Commits
    <3>2. QED
      BY <1>1, <3>1
  <2>2. QED
    BY <1>1, <1>2, <1>3, <2>1 DEF PublicationType, Promotions, Ops
<1>5. IsPrefixOf(genesis, genesis)
  BY <1>2, PrefixReflexive
<1>6. BranchGrows /\ TrustShared /\ Worktrees
  BY <1>1, <1>3, <1>5 DEF BranchGrows, TrustShared, Worktrees, WorktreeOf
<1>7. Operations /\ PromotionRuns
  BY <1>1 DEF Operations, OperationOf, PromotionRuns, RunsOf, CurrentOf, Recorded,
     Idle, NoRun, Busy
<1>8. PromotionCommits /\ AbortedOrReversed
  BY <1>1, <1>3, RunsAssumption DEF PromotionCommits, AbortedOrReversed, NoRun
<1>9. QED
  BY <1>4, <1>6, <1>7, <1>8 DEF PublicationInv

\* The inductive invariant of the protocol holds in every reachable state.
THEOREM PublicationInvariant == PublicationSpec => []PublicationInv
<1>1. PublicationInit => PublicationInv
  BY PublicationStart
<1>2. PublicationInv /\ [PublicationNext]_pubVars => PublicationInv'
  BY PublicationTypeStep, BranchGrowsStep, TrustStep, WorktreeStep, OperationStep,
     RunsStep, CommitsStep, AbortedStep DEF PublicationInv
<1>3. QED
  BY <1>1, <1>2, PTL DEF PublicationSpec

\* No anchor and no worktree ever leaves the history all hosts share
\* (validate_trusted_anchor, publish, recover_pending_publication).
THEOREM HostsTrustShared == PublicationSpec => []TrustShared
<1>1. PublicationInv => TrustShared
  BY DEF PublicationInv
<1>2. QED
  BY <1>1, PublicationInvariant, PTL

\* A promotion with a receipt is in the shared history
\* (commit_promotion, recover_promotion_against_portable).
THEOREM PromotionsHappened == PublicationSpec => []ReceiptsHappened
<1>1. PublicationInv => ReceiptsHappened
  <2>1. SUFFICES ASSUME PublicationInv, NEW h \in Hosts, NEW r \in Runs,
                        promotion[h][r].phase = "committed"
                 PROVE  Happened(promotion[h][r], Shared)
    BY DEF ReceiptsHappened, Happened
  <2>2. promotion[h][r] # NoRun
    BY <2>1 DEF NoRun
  <2>3. QED
    BY <2>1, <2>2 DEF PublicationInv, PromotionRuns, RunsOf, Recorded
<1>2. QED
  BY <1>1, PublicationInvariant, PTL

\* A promotion that start-up gave up was not published by the revision that the
\* abort names, or was reversed by then (recover_promotion_against_portable).
THEOREM AbortsAreSafe == PublicationSpec => []AbortedOrReversed
<1>1. PublicationInv => AbortedOrReversed
  BY DEF PublicationInv
<1>2. QED
  BY <1>1, PublicationInvariant, PTL

\* After a crash a worktree that is not HEAD's has its pending publication,
\* whose commit is on the branch (recover_pending_publication).
THEOREM CrashesLeavePending == PublicationSpec => []InterruptedIsPending
<1>1. PublicationInv => InterruptedIsPending
  BY DEF PublicationInv, Worktrees, WorktreeOf, Interrupted, InterruptedIsPending
<1>2. QED
  BY <1>1, PublicationInvariant, PTL

\* The machines, their clones, pushes and crashes implement one log of
\* records, each made from the latest one (publish).
THEOREM PublicationRefinesAuthority == PublicationSpec => ImplementsAuthority
<1>1. PublicationInit => SharedAuthority!AuthorityInit
  <2>1. SUFFICES ASSUME PublicationInit PROVE SharedAuthority!AuthorityInit
    OBVIOUS
  <2>2. PICK w \in Targets : Shared = <<[writer |-> w, head |-> NoHead]>>
    BY <2>1 DEF PublicationInit, Shared, AuthorityOf
  <2>3. [writer |-> w, head |-> NoHead] \in SharedAuthority!Records
    BY DEF SharedAuthority!Records
  <2>4. QED
    BY <2>2, <2>3 DEF SharedAuthority!AuthorityInit
<1>2. PublicationInv /\ [PublicationNext]_pubVars =>
        [\E r \in SharedAuthority!Records : SharedAuthority!Accept(r)]_Shared
  <2>1. SUFFICES ASSUME PublicationInv, [PublicationNext]_pubVars, Shared' # Shared
                 PROVE  \E r \in SharedAuthority!Records : SharedAuthority!Accept(r)
    OBVIOUS
  <2>2. PICK c \in Commits : Grown(c)
    BY <2>1, BranchStep DEF Shared
  <2>3. Shared' = c.history
    BY <2>1, <2>2, GrownBranch DEF PublicationInv
  <2>4. PICK h \in Hosts : op[h].pc = "pending" /\ c = Staged(h) /\ op[h].read = Shared
    BY <2>1, <2>2, <2>3 DEF Grown
  <2>5. Shared' = Append(Shared, op[h].next) /\ op[h].next \in Record
    BY <2>1, <2>3, <2>4, StagedCommit DEF PublicationInv, Busy
  <2>6. op[h].next.writer = Now(Shared).writer \/ op[h].next.head = Now(Shared).head
    BY <2>1, <2>4 DEF PublicationInv, Operations, OperationOf, Busy
  <2>7. QED
    BY <2>5, <2>6 DEF SharedAuthority!Records, SharedAuthority!Accept, Record, Now
<1>3. QED
  BY <1>1, <1>2, PublicationInvariant, PTL
     DEF PublicationSpec, ImplementsAuthority, SharedAuthority!AuthoritySpec
=============================================================================
