------------------------------ MODULE LocalFiles ------------------------------
(***************************************************************************)
(* One managed path of this machine (FileAdapter of adapters/src/files.rs):*)
(* an operation is registered against what is there, its preimage backed   *)
(* up, applied in the writes the file system offers, verified, and rolled  *)
(* back when a step fails or the process was killed.  The owner goes on    *)
(* working at the path.  A legacy operation (register, managed) knows the  *)
(* content of a file only; the others (register_resource, semantic) know   *)
(* files, directories and links with their modes.  Digests are what they   *)
(* digest.                                                                 *)
(***************************************************************************)
EXTENDS Naturals, Sequences

CONSTANTS
  FoundAs,        \* resources the path may hold at first
  FileIntents,    \* intents that may be registered for it
  OwnerWork,      \* resources the owner may put there
  MaxFileMoves   \* the owner's changes (a bound)

VARIABLES
  lfTarget,       \* the resource at the path
  lfOp,           \* the operation: intent, before, after; found at prepare
  lfBackup,       \* its backup record
  lfAt,           \* the step of the run
  lfTodo,         \* writes still to be made, as the resources they leave
  lfMine,         \* the owner put what is there now, after planning: entries of a
                  \* directory, or what is neither the before nor the after
  lfLost,         \* work of the owner that was overwritten
  lfRaced,        \* the owner worked at the path between two writes
  lfKilled,       \* the process was killed while it applied
  lfMoves

lfVars == <<lfTarget, lfOp, lfBackup, lfAt, lfTodo, lfMine, lfLost, lfRaced, lfKilled, lfMoves>>
lfOwner == <<lfMine, lfLost, lfRaced, lfMoves>>

Entry(kind, value, mode, full) == [kind |-> kind, value |-> value, mode |-> mode, full |-> full]
NoEntry == Entry("absent", "-", "-", FALSE)
NoFileOp == [intent |-> [kind |-> "none", value |-> "-", mode |-> "-", legacy |-> FALSE], before |-> NoEntry, after |-> NoEntry, found |-> NoEntry]
AnyFileMode == "any"
PrivateMode == "0600"    \* the mode of a file written without one
UmaskMode == "umask"     \* the mode of a directory just created

\* A resource is nothing, a file, a link, or a directory with a mode of its own and
\* perhaps entries.
ASSUME FileShapes ==
  /\ MaxFileMoves \in Nat
  /\ \A e \in FoundAs \cup OwnerWork :
       \/ e = NoEntry
       \/ e.kind \in {"file", "link"} /\ e = Entry(e.kind, e.value, e.mode, FALSE)
       \/ e.full \in BOOLEAN /\ e.mode # AnyFileMode /\ e = Entry("dir", "-", e.mode, e.full)
  /\ \A i \in FileIntents : i.kind \in {"file", "dir", "link", "removal"} /\ i.legacy \in BOOLEAN

FilesInit ==
  /\ lfTarget \in FoundAs
  /\ lfOp = NoFileOp /\ lfBackup = NoEntry /\ lfAt = "none" /\ lfTodo = <<>>
  /\ lfMine = FALSE /\ lfLost = FALSE /\ lfRaced = FALSE /\ lfKilled = FALSE /\ lfMoves = 0

(***************************************************************************)
(* What is compared.                                                       *)
(***************************************************************************)
\* project_preimage_for_intent and semantic_digest: a mode the intent leaves open is
\* not part of the digest, and neither are the entries of a directory.
Projected(intent, e) ==
  Entry(e.kind, IF e.kind = "dir" THEN "-" ELSE e.value,
        IF e.kind = "link" \/ intent.legacy \/ (intent.mode = AnyFileMode /\ e.kind \in {"file", "dir"}) THEN "-" ELSE e.mode, FALSE)
\* desired_preimage.
Desired(intent) ==
  CASE intent.kind = "removal" -> NoEntry
    [] OTHER -> Projected(intent, Entry(intent.kind, intent.value, intent.mode, FALSE))
Here(intent) == Projected(intent, lfTarget)
\* A legacy operation refuses anything but an ordinary file (read_optional_in).
Readable(intent) == ~ intent.legacy \/ lfTarget.kind \in {"absent", "file"}

(***************************************************************************)
(* What is written: the resources each write leaves, in order.             *)
(***************************************************************************)
\* replace_file_in: an empty directory is removed first, then the new file is written
\* aside and renamed over what is there.
ReplaceTarget(e, content, mode) ==
  LET file == Entry("file", content, mode, FALSE) IN IF e.kind = "dir" THEN <<NoEntry, file>> ELSE <<file>>
MakesDirectory(mode) ==
  <<Entry("dir", "-", UmaskMode, FALSE)>> \o IF mode = AnyFileMode THEN <<>> ELSE <<Entry("dir", "-", mode, FALSE)>>
\* apply_intent_in.
Writes(e, intent) ==
  CASE intent.kind = "file" -> ReplaceTarget(e, intent.value, IF intent.legacy \/ intent.mode = AnyFileMode THEN PrivateMode ELSE intent.mode)
    [] intent.kind = "dir" /\ e.kind = "dir" -> <<Entry("dir", "-", IF intent.mode = AnyFileMode THEN e.mode ELSE intent.mode, e.full)>>
    [] intent.kind = "dir" /\ e.kind # "dir" -> (IF e.kind = "absent" THEN <<>> ELSE <<NoEntry>>) \o MakesDirectory(intent.mode)
    [] intent.kind = "link" -> <<NoEntry, Entry("link", intent.value, "-", FALSE)>>
    [] intent.kind = "removal" -> <<NoEntry>>
\* restore_preimage_in: a directory that has entries is never replaced.
Restores(e, pre) ==
  CASE pre.kind = "file" -> ReplaceTarget(e, pre.value, IF lfOp.intent.legacy THEN PrivateMode ELSE pre.mode)
    [] pre.kind # "file" /\ e.full -> IF pre.kind = "dir" THEN <<Entry("dir", "-", pre.mode, TRUE)>> ELSE <<e>>
    [] pre.kind = "absent" /\ ~ e.full -> <<NoEntry>>
    [] pre.kind = "dir" /\ ~ e.full -> <<NoEntry>> \o MakesDirectory(pre.mode)
    [] pre.kind = "link" /\ ~ e.full -> <<NoEntry, pre>>
\* remove_dir fails on a directory with entries; a rollback refuses to put a link or a
\* file in its place.
Stuck(next) == lfTarget.full /\ next.kind # "dir" /\ next # lfTarget

(***************************************************************************)
(* The run.                                                                *)
(***************************************************************************)
\* register: NoChange when the path already holds what is wanted.
Changes(intent) == Readable(intent) /\ Here(intent) # Desired(intent)
\* register_resource_with_provenance: the operation record is written.
RegisterResource(intent) ==
  /\ lfAt = "none" /\ Changes(intent)
  /\ lfOp' = [intent |-> intent, before |-> Here(intent), after |-> Desired(intent), found |-> NoEntry]
  /\ lfAt' = "planned" /\ lfMine' = FALSE
  /\ UNCHANGED <<lfTarget, lfBackup, lfTodo, lfLost, lfRaced, lfKilled, lfMoves>>

\* prepare, prepare_semantic: the preimage is kept whole, with its mode.
Preimage == Entry(lfTarget.kind, lfTarget.value, lfTarget.mode, FALSE)
PrepareOperation ==
  /\ lfAt = "planned"
  /\ IF Readable(lfOp.intent) /\ Here(lfOp.intent) = lfOp.before
     THEN lfAt' = "prepared" /\ lfBackup' = Preimage /\ lfOp' = [lfOp EXCEPT !.found = lfTarget]
     ELSE lfAt' = "canceled" /\ UNCHANGED <<lfBackup, lfOp>>
  /\ UNCHANGED <<lfTarget, lfTodo, lfOwner, lfKilled>>

\* apply_bound, apply_semantic: compared again, then written.
ApplyAnyway == Readable(lfOp.intent) \* Mutant: the preimage is not compared again.
StillBefore == Readable(lfOp.intent) /\ Here(lfOp.intent) = lfOp.before
ApplyBound ==
  /\ lfAt = "prepared"
  /\ IF StillBefore THEN lfAt' = "applying" /\ lfTodo' = Writes(lfTarget, lfOp.intent)
                    ELSE lfAt' = "undo" /\ UNCHANGED lfTodo
  /\ UNCHANGED <<lfTarget, lfOp, lfBackup, lfOwner, lfKilled>>

\* One write of an apply or a rollback.
WriteEntry ==
  /\ lfAt \in {"applying", "undoing"}
  /\ IF lfTodo = <<>> THEN /\ lfAt' = IF lfAt = "applying" THEN "applied" ELSE "rolled_back"
                           /\ UNCHANGED <<lfTarget, lfTodo, lfMine, lfLost>>
     ELSE IF Stuck(Head(lfTodo)) THEN /\ lfAt' = IF lfAt = "applying" THEN "undo" ELSE "rollback_failed"
                                      /\ lfTodo' = <<>> /\ UNCHANGED <<lfTarget, lfMine, lfLost>>
     ELSE /\ lfTarget' = Head(lfTodo) /\ lfTodo' = Tail(lfTodo)
          /\ lfLost' = (lfLost \/ (lfMine /\ (lfTarget'.kind # lfTarget.kind \/ lfTarget'.value # lfTarget.value)))
          /\ lfMine' = (lfMine /\ lfTarget'.kind = lfTarget.kind /\ lfTarget'.value = lfTarget.value)
          /\ UNCHANGED lfAt
  /\ UNCHANGED <<lfOp, lfBackup, lfRaced, lfKilled, lfMoves>>

\* verify, verify_semantic.
VerifyOperation ==
  /\ lfAt = "applied"
  /\ lfAt' = IF Readable(lfOp.intent) /\ Here(lfOp.intent) = lfOp.after THEN "succeeded" ELSE "undo"
  /\ UNCHANGED <<lfTarget, lfOp, lfBackup, lfTodo, lfOwner, lfKilled>>

\* rollback, rollback_semantic: only what the operation left, or nothing, is replaced.
MayUndo == Here(lfOp.intent) = lfOp.after \/ lfTarget.kind = "absent"
RollbackOperation ==
  /\ lfAt = "undo"
  /\ IF Readable(lfOp.intent) /\ MayUndo THEN lfAt' = "undoing" /\ lfTodo' = Restores(lfTarget, lfBackup)
                                         ELSE lfAt' = "rollback_failed" /\ UNCHANGED lfTodo
  /\ UNCHANGED <<lfTarget, lfOp, lfBackup, lfOwner, lfKilled>>

\* The process is killed between two writes; the run is rolled back by the next one.
KilledHere ==
  /\ lfAt \in {"applying", "applied", "undoing"}
  /\ lfAt' = "undo" /\ lfTodo' = <<>>
  /\ lfKilled' = TRUE
  /\ UNCHANGED <<lfTarget, lfOp, lfBackup, lfOwner>>

\* observe_recovery.
Observation == IF Here(lfOp.intent) = lfOp.after THEN "after" ELSE IF Here(lfOp.intent) = lfOp.before THEN "before" ELSE "other"

(***************************************************************************)
(* The owner.                                                              *)
(***************************************************************************)
\* What is done after the end of the run is not followed.
RunEnds == {"succeeded", "canceled", "rolled_back", "rollback_failed"}
FileMoves(e) ==
  /\ lfAt \notin RunEnds
  /\ lfMoves < MaxFileMoves /\ lfTarget # e
  /\ lfMoves' = lfMoves + 1
  /\ lfTarget' = e
  /\ lfMine' = (/\ lfAt # "none" /\ e.kind # "absent"
                /\ e.full \/ Projected(lfOp.intent, e) \notin {lfOp.before, lfOp.after})
  /\ lfRaced' = (lfRaced \/ lfAt \in {"applying", "undoing"})
  /\ UNCHANGED <<lfOp, lfBackup, lfAt, lfTodo, lfLost, lfKilled>>

FilesNext ==
  \/ \E intent \in FileIntents : RegisterResource(intent)
  \/ PrepareOperation \/ ApplyBound \/ WriteEntry \/ VerifyOperation \/ RollbackOperation \/ KilledHere
  \/ \E e \in OwnerWork : FileMoves(e)
  \/ lfTarget.kind = "dir" /\ FileMoves(Entry("dir", "-", lfTarget.mode, TRUE))

(***************************************************************************)
(* Properties.                                                             *)
(***************************************************************************)
\* A rollback that reports success has put the preimage back, with the mode the digest
\* may leave out; entries the owner put into a directory stay, and a legacy operation
\* does not know modes (rollback_semantic, restore_preimage_in).
RollbackIsExact ==
  lfAt = "rolled_back" /\ ~ lfRaced =>
    \/ lfTarget.full
    \/ /\ lfTarget.kind = lfOp.found.kind /\ lfTarget.value = lfOp.found.value
       /\ lfOp.intent.legacy \/ lfTarget.mode = lfOp.found.mode

\* What the owner put at the path after planning is not overwritten, by an apply nor
\* by a rollback, unless it was put there between the comparison and the write: a
\* resource is compared with what the plan saw or left, and a directory with entries
\* is not removed (apply_semantic, rollback_semantic, remove_dir).
OwnerWorkKept == lfLost => lfRaced

\* A run killed while it replaced a file leaves the file of before or of after, never
\* a part of it (replace_file_in), so recovery always recognises it.
KilledIsRecognised ==
  lfKilled /\ lfAt = "undo" /\ lfMoves = 0 /\ lfOp.intent.kind = "file" /\ lfOp.before.kind \in {"absent", "file"}
    => Observation # "other"
=============================================================================
