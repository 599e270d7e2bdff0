---------------------------- MODULE RemoteFiles ----------------------------
(***************************************************************************)
(* One managed path on an SSH target (adapters/src/ssh_files.rs, target.rs,*)
(* ssh.rs): an operation is planned against what the target has, backed    *)
(* up, applied by the helper on the target, verified, and rolled back when *)
(* something fails or the controller restarts.  Each request is a helper   *)
(* process of its own; a connection may break before it, between two of    *)
(* its writes, or after it.  The owner of the target edits the path, makes *)
(* the root read-only and changes the host key at any time.                *)
(*                                                                         *)
(* A resource is a kind and a value: a file's content, a directory's mode  *)
(* (plus whether it has entries), a link's target.  Digests are what they  *)
(* digest.                                                                 *)
(***************************************************************************)
EXTENDS Naturals, Sequences

CONSTANTS StartsAs,      \* resources the path may hold at first
          RemoteIntents, \* intents that may be planned for it
          MaxRemoteMoves \* bound on the owner's changes

VARIABLES
  rfTarget,   \* the resource at the path
  rfWritable, \* the root allows writes
  rfPinned,   \* the host presents the pinned key
  rfOp,       \* the operation: intent, before, after
  rfBackup,   \* its backup record
  rfStep,     \* where the run is
  rfUndo,     \* rollback sent its write
  rfMoves     \* the owner's changes since the plan

remoteVars == <<rfTarget, rfWritable, rfPinned, rfOp, rfBackup, rfStep, rfUndo, rfMoves>>

Resource(kind, value, full) == [kind |-> kind, value |-> value, full |-> full]
Nothing   == Resource("absent", "-", FALSE)
NoRemoteOp == [intent |-> Nothing, before |-> Nothing, after |-> Nothing]
AnyMode   == "any"       \* a directory intent without a mode
NewMode   == "umask"     \* the mode of a directory that was just created
RunOver   == {"none", "succeeded", "canceled", "rolled_back", "rollback_failed"}

\* A resource is nothing, a file, a link, or a directory with a mode of its own and
\* perhaps entries; an intent may leave the mode of a directory open.
ASSUME RemoteShapes ==
  /\ MaxRemoteMoves \in Nat
  /\ \A r \in StartsAs : \/ r = Nothing
                         \/ r.kind \in {"file", "link"} /\ r = Resource(r.kind, r.value, FALSE)
                         \/ r.value # AnyMode /\ r.full \in BOOLEAN /\ r = Resource("dir", r.value, r.full)
  /\ \A i \in RemoteIntents : i = Nothing \/ (i.kind \in {"file", "dir", "link"} /\ i = Resource(i.kind, i.value, FALSE))

RemoteInit ==
  /\ rfTarget \in StartsAs
  /\ rfWritable = TRUE /\ rfPinned = TRUE
  /\ rfOp = NoRemoteOp /\ rfBackup = Nothing
  /\ rfStep = "none" /\ rfUndo = FALSE /\ rfMoves = 0
-----------------------------------------------------------------------------
(* What a request does on the target.                                      *)

\* remove_target_entry: a directory with entries is not removed.
Removable(r) == ~r.full

\* write_file: written aside and renamed, over a file or nothing only.
WritesFile(r, c) ==
  IF r.kind \in {"absent", "file"} THEN <<Resource("file", c, FALSE)>> ELSE <<>>

\* write_directory: anything else is removed first, the mode comes last.
WritesDirectory(r, mode) ==
  LET made == IF r.kind = "dir" THEN r ELSE Resource("dir", NewMode, FALSE)
      done == IF mode = AnyMode THEN made ELSE [made EXCEPT !.value = mode]
  IN IF r.kind \in {"dir", "absent"} THEN <<made, done>>
     ELSE <<Nothing, made, done>>

\* write_symlink: removed first, whatever it is.
WritesSymlink(r, t) ==
  IF Removable(r) THEN <<Nothing, Resource("link", t, FALSE)>> ELSE <<>>

\* remove_resource
Removes(r) == IF Removable(r) THEN <<Nothing>> ELSE <<>>

\* The states of the path during a request; none when it is refused.
Effect(r, intent) ==
  IF ~rfWritable THEN <<>>
  ELSE CASE intent.kind = "file" -> WritesFile(r, intent.value)
         [] intent.kind = "dir"  -> WritesDirectory(r, intent.value)
         [] intent.kind = "link" -> WritesSymlink(r, intent.value)
         [] OTHER                -> Removes(r)

\* project_preimage_for_intent and preimage_digest: a mode that the intent
\* does not set is not looked at, entries of a directory never are.
View(intent, r) ==
  [kind |-> r.kind,
   value |-> IF intent.kind = "dir" /\ intent.value = AnyMode /\ r.kind = "dir"
             THEN AnyMode ELSE r.value]

Digest(r) == [kind |-> r.kind, value |-> r.value]

\* verify_host_key: without the pinned key nothing is asked.
Reachable == rfPinned
-----------------------------------------------------------------------------
(* The run.                                                                *)

\* register_materialized_resource: no operation when nothing would change.
PlanRemote(intent) ==
  /\ rfStep \in RunOver /\ Reachable
  /\ LET before == View(intent, rfTarget) IN
     /\ before # Digest(intent)
     /\ rfOp' = [intent |-> intent, before |-> before, after |-> Digest(intent)]
  /\ rfStep' = "prepare" /\ rfBackup' = Nothing /\ rfUndo' = FALSE /\ rfMoves' = 0
  /\ UNCHANGED <<rfTarget, rfWritable, rfPinned>>

\* prepare: the preimage is inspected, compared, and recorded as it is.
PrepareRemote ==
  /\ rfStep = "prepare"
  /\ IF Reachable /\ View(rfOp.intent, rfTarget) = rfOp.before
     THEN rfBackup' = rfTarget /\ rfStep' = "apply"
     ELSE rfStep' = "canceled" /\ UNCHANGED rfBackup
  /\ UNCHANGED <<rfTarget, rfWritable, rfPinned, rfOp, rfUndo, rfMoves>>

\* apply_bound: answered, refused, or cut off after some of the writes.
ApplyRemote ==
  /\ rfStep = "apply"
  /\ LET e == IF Reachable THEN Effect(rfTarget, rfOp.intent) ELSE <<>> IN
     \/ e # <<>> /\ rfTarget' = e[Len(e)] /\ rfStep' = "verify"
     \/ e = <<>> /\ rfStep' = "rollback" /\ UNCHANGED rfTarget
     \/ rfStep' = "rollback" /\ \E i \in DOMAIN e : rfTarget' = e[i]
  /\ UNCHANGED <<rfWritable, rfPinned, rfOp, rfBackup, rfUndo, rfMoves>>

VerifyRemote ==
  /\ rfStep = "verify"
  /\ rfStep' = IF Reachable /\ View(rfOp.intent, rfTarget) = rfOp.after
               THEN "succeeded" ELSE "rollback"
  /\ UNCHANGED <<rfTarget, rfWritable, rfPinned, rfOp, rfBackup, rfUndo, rfMoves>>

\* The engine's other reasons to roll back: a later operation failed, or the
\* controller restarted in the middle.
RunFails ==
  /\ rfStep \in {"apply", "verify"}
  /\ rfStep' = "rollback"
  /\ UNCHANGED <<rfTarget, rfWritable, rfPinned, rfOp, rfBackup, rfUndo, rfMoves>>

\* What rollback asks for: the backup as an intent.
UndoRequest == rfBackup

\* rollback: nothing to do, refused because it changed after the apply, or
\* the backup is written and the result inspected by another request; the
\* connection may break before, between or after the writes, which fails the
\* rollback whatever it did.
RollbackRemote ==
  /\ rfStep = "rollback" /\ ~rfUndo
  /\ LET now == View(rfOp.intent, rfTarget)
         e   == Effect(rfTarget, UndoRequest)
     IN IF ~Reachable THEN rfStep' = "rollback_failed" /\ UNCHANGED <<rfTarget, rfUndo>>
        ELSE IF now = rfOp.before THEN rfStep' = "rolled_back" /\ UNCHANGED <<rfTarget, rfUndo>>
        ELSE IF now # rfOp.after \/ e = <<>>
        THEN rfStep' = "rollback_failed" /\ UNCHANGED <<rfTarget, rfUndo>>
        ELSE /\ rfUndo' = TRUE
             /\ \/ rfTarget' = e[Len(e)] /\ UNCHANGED rfStep
                \/ /\ rfStep' = "rollback_failed"
                   /\ rfTarget' = rfTarget \/ \E i \in DOMAIN e : rfTarget' = e[i]
  /\ UNCHANGED <<rfWritable, rfPinned, rfOp, rfBackup, rfMoves>>

\* Mutant: the answer of the helper is taken for the result.
UndoVerifiedNot == TRUE

UndoVerified == Reachable /\ View(rfOp.intent, rfTarget) = rfOp.before

EndRollback ==
  /\ rfStep = "rollback" /\ rfUndo
  /\ rfStep' = IF UndoVerified THEN "rolled_back" ELSE "rollback_failed"
  /\ UNCHANGED <<rfTarget, rfWritable, rfPinned, rfOp, rfBackup, rfUndo, rfMoves>>

TargetOwnerMoves(r) ==
  /\ rfMoves < MaxRemoteMoves /\ rfMoves' = rfMoves + 1
  /\ \/ rfTarget' = r /\ rfTarget # r /\ UNCHANGED <<rfWritable, rfPinned>>
     \/ rfTarget.kind = "dir" /\ rfTarget' = [rfTarget EXCEPT !.full = ~@]
        /\ UNCHANGED <<rfWritable, rfPinned>>
     \/ rfWritable' = ~rfWritable /\ UNCHANGED <<rfTarget, rfPinned>>
     \/ rfPinned' = ~rfPinned /\ UNCHANGED <<rfTarget, rfWritable>>
  /\ UNCHANGED <<rfOp, rfBackup, rfStep, rfUndo>>

RemoteNext ==
  \/ \E i \in RemoteIntents : PlanRemote(i)
  \/ PrepareRemote \/ ApplyRemote \/ VerifyRemote \/ RunFails
  \/ RollbackRemote \/ EndRollback
  \/ \E r \in StartsAs : TargetOwnerMoves(r)
-----------------------------------------------------------------------------
\* From the first write on, and whatever is cut off in between, the record
\* that is needed to restore the path by hand is there: a path that no longer
\* is what the plan saw has its preimage in the backup, unless its owner
\* changed it (prepare before apply_bound).
PreimageKept ==
  /\ rfStep \notin {"none", "prepare", "canceled", "succeeded"} /\ rfMoves = 0
  /\ View(rfOp.intent, rfTarget) # rfOp.before
  => View(rfOp.intent, rfBackup) = rfOp.before

\* A run that says it was rolled back has put back the very resource it
\* found, the mode of a directory included, even if the owner or a broken
\* connection came in between (rollback).
RolledBackExactly ==
  [rfStep' = "rolled_back" /\ rfStep # "rolled_back" =>
       /\ View(rfOp.intent, rfTarget') = rfOp.before
       /\ (rfUndo /\ rfMoves = 0 => Digest(rfTarget') = Digest(rfBackup))]_remoteVars

Plain(v) == v.kind \in {"absent", "file"}

\* Writing and removing regular files can be undone: while the owner stays
\* away, a rollback between two of those fails only when its own connection
\* broke, and the path then holds what was found or what was applied, never
\* something in between (docs/HEADLESS-DOMAINS.md on regular-file writes and
\* removals).
FilesRollBack ==
  /\ rfStep = "rollback_failed" /\ rfMoves = 0 /\ rfWritable /\ rfPinned
  /\ Plain(rfOp.before) /\ Plain(rfOp.after)
  => rfUndo /\ View(rfOp.intent, rfTarget) \in {rfOp.before, rfOp.after}
=============================================================================
