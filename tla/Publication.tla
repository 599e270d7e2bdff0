----------------------------- MODULE Publication -----------------------------
(***************************************************************************)
(* The snapshot authority of one database, shared by several machines      *)
(* through a Git branch.  Every machine has a clone (HEAD and the portable *)
(* subtree of its worktree), a trusted anchor outside the clone, a file    *)
(* with the publication it has under way, and the promotions it prepared.  *)
(* A change of authority is committed in an isolated clone of the parent,  *)
(* pushed without force together with the anchor reference, and installed  *)
(* in the machine's own clone afterwards.  Machines crash between any two  *)
(* durable steps; start-up completes the pending publication and the       *)
(* promotions before anything else.                                        *)
(*                                                                         *)
(* The revision of a record is the digest of the record and of its         *)
(* predecessor's revision, hence of the whole history: a history stands    *)
(* for the record, its generation (length - 1) and its revision.           *)
(***************************************************************************)
EXTENDS Naturals, Sequences, FiniteSets

CONSTANTS Hosts,        \* machines that run the daemon
          Targets,      \* places of the database; a host is a target
          Contents,     \* digests of database contents
          NoHead,       \* accepted_head = None
          MaxCommits,   \* bound: commits of the remote branch
          Runs          \* confirmation ids of promotions, per host

ASSUME HostsAssumption == Hosts \subseteq Targets /\ NoHead \notin Contents
ASSUME BoundsAssumption == MaxCommits \in Nat /\ MaxCommits > 0
ASSUME RunsAssumption == Runs \cap {"create", "none"} = {}

VARIABLES remote,     \* the branch: commits with author, run and authority
          head,       \* HEAD of every clone: how much of the branch it has
          tree,       \* the authority in the worktree of every clone
          anchor,     \* the trusted anchor of every host
          pending,    \* pending-git-publication.json
          cache,      \* the writer in the host's AuthorityStore
          promotion,  \* the promotion runs of every host
          op,         \* what the daemon of the host is doing
          db          \* the database of every target

pubVars == <<remote, head, tree, anchor, pending, cache, promotion, op, db>>

Record == [writer : Targets, head : Contents \cup {NoHead}]

Now(history)  == history[Len(history)]
AuthorityOf(branch) == branch[Len(branch)].history
Shared        == AuthorityOf(remote)

NoPending == [parent |-> 0]
NoRun     == [phase |-> "none"]
Down      == [pc |-> "down"]
Idle      == [pc |-> "idle"]
Up(h)     == op[h].pc # "down"

PublicationInit ==
    \E w \in Targets, c \in Contents :
      LET genesis == <<[writer |-> w, head |-> NoHead]>> IN
      /\ remote = <<[by |-> w, run |-> "none", history |-> genesis]>>
      /\ head = [h \in Hosts |-> 1]
      /\ tree = [h \in Hosts |-> genesis]
      /\ anchor = [h \in Hosts |-> genesis]
      /\ pending = [h \in Hosts |-> NoPending]
      /\ cache = [h \in Hosts |-> w]
      /\ promotion = [h \in Hosts |-> [r \in Runs |-> NoRun]]
      /\ op = [h \in Hosts |-> Idle]
      /\ db = [t \in Targets |-> c]

-----------------------------------------------------------------------------
(* Reading the authority.                                                  *)

\* validate_trusted_anchor: the same generation or a later one.
Trusted(h, history) ==
    \/ Len(anchor[h]) < Len(history)
    \/ anchor[h] = history

\* verify_remote_trust_anchor: the message of the anchored commit names the
\* generation and the revision, and nothing changed the subtree since.
Anchored(history) == history = Shared

\* Mutant: the anchor also follows an operation that is not published yet.
AdvanceEarly(h, history) ==
    anchor' = [anchor EXCEPT ![h] = Append(history, [Now(history) EXCEPT
                   !.head = db[Now(history).writer]])]

Advance(h, history) == anchor' = [anchor EXCEPT ![h] = history]

\* A failed step returns an error and leaves what was written.
Fail(h) ==
    /\ op' = [op EXCEPT ![h] = Idle]
    /\ UNCHANGED <<remote, head, tree, anchor, pending, cache, promotion, db>>

-----------------------------------------------------------------------------
(* create and promote, up to the compare-and-swap.                         *)

\* initialize_authority, then the export of the writer's database.
CreateRead(h) ==
    LET current == Now(tree[h]) IN
    /\ op[h] = Idle
    /\ Trusted(h, tree[h]) /\ Anchored(tree[h])
    /\ Advance(h, tree[h])
    /\ cache' = [cache EXCEPT ![h] = current.writer]
    /\ IF db[current.writer] = current.head
       THEN UNCHANGED op
       ELSE op' = [op EXCEPT ![h] =
              [pc |-> "exported", read |-> tree[h], run |-> "create",
               next |-> [current EXCEPT !.head = db[current.writer]]]]
    /\ UNCHANGED <<remote, head, tree, pending, promotion, db>>

\* checked_out_revision = trusted_remote_revision is the expected parent.
CreateCheck(h) ==
    /\ op[h].pc = "exported" /\ head[h] = Len(remote)
    /\ op' = [op EXCEPT ![h] = [pc |-> "checked", read |-> op[h].read,
                  run |-> "create", next |-> op[h].next, parent |-> head[h]]]
    /\ UNCHANGED <<remote, head, tree, anchor, pending, cache, promotion, db>>

CreateRefused(h) == op[h].pc = "exported" /\ head[h] # Len(remote) /\ Fail(h)

\* validate_promotion, with the digests just observed on both targets.
ValidPromotion(h, t) ==
    /\ db[Now(tree[h]).writer] = Now(tree[h]).head
    /\ db[t] = Now(tree[h]).head

\* Mutant: the accepted head is not carried over to the new writer.
PromotedWithoutHead(h, t) == [writer |-> t, head |-> NoHead]

Promoted(h, t) == [Now(tree[h]) EXCEPT !.writer = t]

\* PromotionPlan, whose digests are all the accepted head.
PlanOf(h, t) == [from |-> Now(tree[h]).writer, to |-> t, digest |-> Now(tree[h]).head]

\* A promotion holds its plan, its phase and the generation of the portable
\* revision that the phase was entered with.
NewRun(plan) == [phase |-> "prepared", plan |-> plan, at |-> 0]

\* read_at_repository_revision and prepare_promotion: the plan is durable.  A
\* run that has the same plan goes on, in whatever phase it is.
PreparePromotion(h, r, t) ==
    /\ op[h] = Idle
    /\ head[h] = Len(remote) /\ Trusted(h, tree[h])
    /\ ValidPromotion(h, t) /\ cache[h] = Now(tree[h]).writer
    /\ Advance(h, tree[h])
    /\ \/ /\ promotion[h][r] = NoRun
          /\ promotion' = [promotion EXCEPT ![h][r] = NewRun(PlanOf(h, t))]
       \/ /\ promotion[h][r] # NoRun /\ promotion[h][r].plan = PlanOf(h, t)
          /\ UNCHANGED promotion
    /\ op' = [op EXCEPT ![h] = [pc |-> "checked", read |-> tree[h], run |-> r,
           next |-> Promoted(h, t), parent |-> head[h]]]
    /\ UNCHANGED <<remote, head, tree, pending, cache, db>>

-----------------------------------------------------------------------------
(* compare_and_swap_published and publish.                                 *)

\* The subtree staged is the worktree's, which must still have the revision
\* that was read; HEAD and the branch must both be the expected parent.
CanCommit(h) ==
    /\ tree[h] = op[h].read
    /\ head[h] = op[h].parent /\ Len(remote) = op[h].parent

Staged(h) == [by |-> h, run |-> op[h].run,
              history |-> Append(op[h].read, op[h].next)]

Commit(h) ==
    /\ op[h].pc = "checked" /\ CanCommit(h) /\ op[h].parent < MaxCommits
    /\ pending' = [pending EXCEPT ![h] =
           [parent |-> op[h].parent, commit |-> Staged(h)]]
    /\ op' = [op EXCEPT ![h].pc = "pending"]
    /\ UNCHANGED <<remote, head, tree, anchor, cache, promotion, db>>

CommitRefused(h) == op[h].pc = "checked" /\ ~CanCommit(h) /\ Fail(h)

FastForward(h) == Len(remote) = op[h].parent

Push(h) ==
    /\ op[h].pc = "pending" /\ FastForward(h)
    /\ remote' = Append(SubSeq(remote, 1, op[h].parent), Staged(h))
    /\ op' = [op EXCEPT ![h].pc = "pushed"]
    /\ UNCHANGED <<head, tree, anchor, pending, cache, promotion, db>>

\* The push is rejected, or fails; the pending file stays.
PushFails(h) ==
    /\ op[h].pc = "pending" /\ Fail(h)

\* The branch moved on, or HEAD did: somebody pulled the commit already.
RefRefused(h) ==
    /\ op[h].pc = "pushed"
    /\ Len(remote) > op[h].parent + 1 \/ head[h] # op[h].parent
    /\ Fail(h)

\* Mutant: the pending file is removed before the worktree is installed.
UpdateRefAndForget(h) ==
    /\ op[h].pc = "pushed" /\ head[h] = op[h].parent
    /\ head' = [head EXCEPT ![h] = op[h].parent + 1]
    /\ pending' = [pending EXCEPT ![h] = NoPending]
    /\ op' = [op EXCEPT ![h].pc = "reffed"]
    /\ UNCHANGED <<remote, tree, anchor, cache, promotion, db>>

\* fetch and update-ref, whose old value is the expected parent.
UpdateRef(h) ==
    /\ op[h].pc = "pushed" /\ head[h] = op[h].parent
    /\ head' = [head EXCEPT ![h] = op[h].parent + 1]
    /\ op' = [op EXCEPT ![h].pc = "reffed"]
    /\ UNCHANGED <<remote, tree, anchor, pending, cache, promotion, db>>

\* checkout of the subtree and removal of the pending file.  The checkout is taken
\* to succeed or to die with the process: a process that goes on after a failed
\* one has a worktree older than HEAD until its next start.
Install(h) ==
    /\ op[h].pc = "reffed"
    /\ tree' = [tree EXCEPT ![h] = Staged(h).history]
    /\ pending' = [pending EXCEPT ![h] = NoPending]
    /\ op' = [op EXCEPT ![h].pc = "installed"]
    /\ UNCHANGED <<remote, head, anchor, cache, promotion, db>>

\* The staged files are copied over the worktree's, the anchor advances.
Copy(h) ==
    LET staged == Staged(h).history IN
    /\ op[h].pc = "installed"
    /\ tree' = [tree EXCEPT ![h] = staged]
    /\ \/ Trusted(h, staged) /\ Advance(h, staged)
       \/ ~Trusted(h, staged) /\ UNCHANGED anchor
    /\ op' = [op EXCEPT ![h] = IF Trusted(h, staged) /\ op[h].run # "create"
                               THEN [pc |-> "confirm", run |-> op[h].run]
                               ELSE Idle]
    /\ UNCHANGED <<remote, head, pending, cache, promotion, db>>

\* confirm_portable_promotion, with the revision just published.
ConfirmPromotion(h) ==
    /\ op[h].pc = "confirm" /\ promotion[h][op[h].run].phase = "prepared"
    /\ promotion' = [promotion EXCEPT ![h][op[h].run] =
           [@ EXCEPT !.phase = "confirmed", !.at = Len(tree[h])]]
    /\ op' = [op EXCEPT ![h].pc = "confirmed"]
    /\ UNCHANGED <<remote, head, tree, anchor, pending, cache, db>>

\* A repeated run that is not prepared any more is refused only here, after its
\* publication: a confirmed one has another revision.  A write may fail as well.
PromotionFails(h) == op[h].pc \in {"confirm", "confirmed"} /\ Fail(h)

\* synchronize_from_portable, the authority file and the receipt: start-up
\* writes the cache again, so only the receipt tells the steps apart.
CommitPromotion(h) ==
    /\ op[h].pc = "confirmed"
    /\ cache' = [cache EXCEPT ![h] = promotion[h][op[h].run].plan.to]
    /\ promotion' = [promotion EXCEPT ![h][op[h].run].phase = "committed"]
    /\ op' = [op EXCEPT ![h] = Idle]
    /\ UNCHANGED <<remote, head, tree, anchor, pending, db>>

-----------------------------------------------------------------------------
(* Crashes and start-up.                                                   *)

Crash(h) ==
    /\ Up(h) /\ op' = [op EXCEPT ![h] = Down]
    /\ UNCHANGED <<remote, head, tree, anchor, pending, cache, promotion, db>>

\* The pending commit is on the branch.
Published(h) ==
    /\ pending[h].parent < Len(remote)
    /\ remote[pending[h].parent + 1] = pending[h].commit

\* Every authority commit after it adds one generation.
Chained(h) ==
    \A i \in pending[h].parent + 1 .. Len(remote) - 1 :
        remote[i + 1].history # remote[i].history =>
            Len(remote[i + 1].history) = Len(remote[i].history) + 1

\* recover_pending_publication: the clone is taken to the head of the branch.
RecoverPublication(h) ==
    /\ op[h] = Down /\ pending[h] # NoPending
    /\ Published(h) /\ Chained(h)
    /\ head[h] \in {pending[h].parent, pending[h].parent + 1, Len(remote)}
    /\ head' = [head EXCEPT ![h] = Len(remote)]
    /\ tree' = [tree EXCEPT ![h] = Shared]
    /\ pending' = [pending EXCEPT ![h] = NoPending]
    /\ UNCHANGED <<remote, anchor, cache, promotion, op, db>>

\* Mutant: a prepared promotion counts as done.
RecoveredBlindly(run, writer) ==
    CASE run.phase \in {"prepared", "confirmed"} -> "committed"
      [] OTHER -> run.phase

\* Mutant: a prepared promotion is always given up.
RecoveredAborting(run, writer) ==
    IF run.phase \in {"prepared", "confirmed"} THEN "aborted" ELSE run.phase

\* recover_promotion_against_portable; "stuck" is StalePortableAuthority.
Recovered(run, writer) ==
    IF run.phase \notin {"prepared", "confirmed"} THEN run.phase
    ELSE IF run.phase = "prepared" /\ writer = run.plan.from THEN "aborted"
    ELSE IF writer = run.plan.to THEN "committed"
    ELSE "stuck"

\* The phase that recovery writes names the revision it has read.
Settled(run, history) ==
    LET phase == Recovered(run, Now(history).writer) IN
    IF run = NoRun THEN NoRun
    ELSE IF run.phase = "prepared" THEN [run EXCEPT !.phase = phase, !.at = Len(history)]
    ELSE [run EXCEPT !.phase = phase]

\* Start-up of the snapshot domain; any error is that of the whole daemon.
Open(h) ==
    LET writer == Now(tree[h]).writer IN
    /\ op[h] = Down /\ pending[h] = NoPending
    /\ head[h] = Len(remote)
    /\ Trusted(h, tree[h]) /\ Anchored(tree[h])
    /\ \A r \in Runs : Recovered(promotion[h][r], writer) # "stuck"
    /\ Advance(h, tree[h])
    /\ cache' = [cache EXCEPT ![h] = writer]
    /\ promotion' = [promotion EXCEPT ![h] =
           [r \in Runs |-> Settled(promotion[h][r], tree[h])]]
    /\ op' = [op EXCEPT ![h] = Idle]
    /\ UNCHANGED <<remote, head, tree, pending, db>>

-----------------------------------------------------------------------------
(* What goes on around the daemons.                                        *)

\* A fast-forward needs a clean worktree; the owner pulls between operations.
Pull(h) ==
    /\ head[h] < Len(remote)
    /\ tree[h] = remote[head[h]].history
    /\ op[h] \in {Idle, Down}
    /\ head' = [head EXCEPT ![h] = Len(remote)]
    /\ tree' = [tree EXCEPT ![h] = Shared]
    /\ UNCHANGED <<remote, anchor, pending, cache, promotion, op, db>>

\* Somebody pushes a commit that leaves the portable subtree alone.
OtherCommit(t) ==
    /\ Len(remote) < MaxCommits
    /\ remote' = Append(remote, [by |-> t, run |-> "none", history |-> Shared])
    /\ UNCHANGED <<head, tree, anchor, pending, cache, promotion, op, db>>

\* An application writes, or an accepted snapshot is restored.
Change(t, c) ==
    /\ db[t] # c /\ db' = [db EXCEPT ![t] = c]
    /\ UNCHANGED <<remote, head, tree, anchor, pending, cache, promotion, op>>

HostNext(h) ==
    \/ CreateRead(h) \/ CreateCheck(h) \/ CreateRefused(h)
    \/ \E r \in Runs, t \in Targets : PreparePromotion(h, r, t)
    \/ Commit(h) \/ CommitRefused(h) \/ Push(h) \/ PushFails(h)
    \/ RefRefused(h) \/ UpdateRef(h) \/ Install(h)
    \/ Copy(h) \/ ConfirmPromotion(h) \/ CommitPromotion(h)
    \/ PromotionFails(h) \/ Crash(h) \/ RecoverPublication(h) \/ Open(h) \/ Pull(h)

PublicationNext ==
    \/ \E h \in Hosts : HostNext(h)
    \/ \E t \in Targets : OtherCommit(t)
    \/ \E t \in Targets, c \in Contents : Change(t, c)

PublicationSpec == PublicationInit /\ [][PublicationNext]_pubVars

-----------------------------------------------------------------------------
(* Properties.                                                             *)

IsPrefixOf(s, u) == Len(s) <= Len(u) /\ s = SubSeq(u, 1, Len(s))

(* What a host trusts is part of the history every host shares: neither    *)
(* its anchor nor, between operations, its worktree is on another branch   *)
(* of the authority, whatever was lost, refused or interrupted.            *)
TrustShared ==
    \A h \in Hosts : IsPrefixOf(anchor[h], Shared)
                    /\ IsPrefixOf(tree[h], Shared)

(* A promotion with a receipt did happen: in the shared history its        *)
(* candidate is the writer at some time after the writer it replaced.      *)
ReceiptsHappened ==
    \A h \in Hosts, r \in Runs :
        promotion[h][r].phase = "committed" =>
            \E i \in 1 .. Len(Shared), j \in 2 .. Len(Shared) :
                /\ i < j
                /\ Shared[i].writer = promotion[h][r].plan.from
                /\ Shared[j].writer = promotion[h][r].plan.to

(* What start-up aborted had not been published by the revision that the   *)
(* abort names, or the writer had gone back to the one it replaced by then *)
(* (recovery sees only the current writer and cannot tell the two apart).  *)
(* A repetition of the same request may still publish the run afterwards.  *)
AbortedOrReversed ==
    \A h \in Hosts, r \in Runs, i \in 1 .. Len(remote) :
        LET run == promotion[h][r] IN
        /\ run.phase = "aborted" /\ run.plan.from # run.plan.to
        /\ remote[i].by = h /\ remote[i].run = r
        /\ Len(remote[i].history) <= run.at
        => \E j \in i + 1 .. Len(remote) :
               /\ Len(remote[j].history) <= run.at
               /\ Now(remote[j].history).writer = run.plan.from

(* A crash never leaves a worktree that differs from HEAD without the file *)
(* from which start-up completes the publication.                          *)
InterruptedIsPending ==
    \A h \in Hosts :
        op[h] = Down /\ tree[h] # remote[head[h]].history
            => pending[h] # NoPending /\ Published(h)

SharedAuthority == INSTANCE Authority WITH
    Writers <- Targets, Heads <- Contents \cup {NoHead}, log <- Shared

(* The shared history is one log to which every publication adds a record  *)
(* made from the latest one; nothing is ever taken out of it (publish).    *)
ImplementsAuthority == SharedAuthority!AuthoritySpec
=============================================================================
