---------------------------- MODULE RemoteHelper ----------------------------
(***************************************************************************)
(* The helper program of a remote target: the chunked transfer of          *)
(* artifacts to it, the places it agrees to write to, and its recovery     *)
(* receipts.                                                               *)
(***************************************************************************)
EXTENDS Naturals, Sequences, SequencesExt

(***************************************************************************)
(* The chunked transfer of one package artifact to a target                *)
(* (adapters/src/remote_helper.rs, stage_artifacts of package_mutation.rs).*)
(* Every request is a helper process of its own, serialised by a file      *)
(* lock; two controllers may send the same artifact and then share one     *)
(* part file; a helper or a connection may die anywhere in a request, and  *)
(* then the chunk, or its acknowledgement, is lost.                        *)
(*                                                                         *)
(* A chunk is two units, so that a write can stop in the middle of one.    *)
(* Unit k of the artifact is the number k; a damaged copy has a 0 in it.   *)
(***************************************************************************)
CONSTANTS TotalChunks,   \* chunks of the artifact
          CopyOf,        \* the copy each sender reads from
          MaxParts       \* STAGING_MAX_PARTS

Senders == DOMAIN CopyOf
Whole == [k \in 1 .. 2 * TotalChunks |-> k]

ASSUME TransferShape == /\ TotalChunks \in Nat \ {0} /\ MaxParts \in Nat \ {0}
                        /\ \A s \in Senders : CopyOf[s] \in Seq(Nat) /\ Len(CopyOf[s]) = Len(Whole)

VARIABLES
  tPart,     \* the .part file
  tMeta,     \* the .meta file: absent, bare, blank, or touched
  tBlob,     \* the artifact in the target's store
  tAged,     \* nobody touched the transfer for a day
  tOthers,   \* parts of other transfers
  tSender    \* per sender: the next chunk, AllAcked, Sent or NotSending

transferVars == <<tPart, tMeta, tBlob, tAged, tOthers, tSender>>

NoFileYet  == <<0, 0, 0>>   \* no file (a part is never this)
Sending    == 0 .. TotalChunks - 1
AllAcked   == TotalChunks
Sent       == TotalChunks + 1
NotSending == TotalChunks + 2

TransferInit ==
  /\ tPart = NoFileYet /\ tMeta = "absent" /\ tBlob = NoFileYet
  /\ tAged = FALSE /\ tOthers = 0
  /\ tSender = [s \in Senders |-> NotSending]

\* What is on the target's disk.
Disk == [part |-> tPart, meta |-> tMeta, blob |-> tBlob]
-----------------------------------------------------------------------------
\* validate_chunk: the unit range of chunk k, its content in copy c.
ChunkOf(c, k) == SubSeq(c, 2 * k + 1, 2 * k + 2)

\* The part belongs to this artifact and size; the metadata of a transfer
\* that never got past its creation does not say so.
MetadataMatches == tPart # NoFileYet /\ tMeta = "touched"

\* Chunk 0 is the only one that may start over.
StartsOver(k) == k = 0 /\ ~MetadataMatches

\* staging_usage against the caps.
NoRoom(k) == (StartsOver(k) \/ tPart = NoFileYet) /\ tOthers >= MaxParts

\* Mutant: the last chunk is acknowledged once the part is gone.
AlreadyStoredAny(k) == k = TotalChunks - 1 /\ tPart = NoFileYet

\* The last chunk again, after the artifact was stored.
AlreadyStored(k) == k = TotalChunks - 1 /\ tPart = NoFileYet /\ tBlob = Whole

\* A chunk that is already in the part is compared with it.
Repeats(k, c) ==
  /\ Len(tPart) >= 2 * k + 2
  /\ SubSeq(tPart, 2 * k + 1, 2 * k + 2) = ChunkOf(c, k)

\* Neither a fresh start, nor the next chunk, nor a repetition.
Refused(k, c) ==
  \/ NoRoom(k)
  \/ ~StartsOver(k) /\ ~(MetadataMatches /\ (Len(tPart) = 2 * k \/ Repeats(k, c)))

\* put_file_handle: length and digest of what is then renamed into place.
Stores(p) == p = Whole

\* The disk after each write of one accepted chunk, in order: start over, the
\* content (in two halves), the new metadata, the touch (which truncates
\* first), and after the last chunk the artifact and the removal of both.
Reset(k) == IF StartsOver(k)
            THEN <<[Disk EXCEPT !.part = NoFileYet],
                   [Disk EXCEPT !.part = NoFileYet, !.meta = "absent"]>>
            ELSE <<Disk>>

Written(k, c) ==
  LET base == Reset(k)[Len(Reset(k))]
      old  == IF base.part = NoFileYet THEN <<>> ELSE base.part
      half == [base EXCEPT !.part = Append(old, ChunkOf(c, k)[1])]
      full == [base EXCEPT !.part = old \o ChunkOf(c, k)]
  IN IF StartsOver(k) THEN <<half, full, [full EXCEPT !.meta = "bare"]>>
     ELSE IF Len(tPart) = 2 * k THEN <<half, full>> ELSE <<Disk>>

Touched(d) == <<[d EXCEPT !.meta = "blank"], [d EXCEPT !.meta = "touched"]>>

Kept(k, d) ==
  IF k = TotalChunks - 1 /\ Stores(d.part)
  THEN <<[d EXCEPT !.blob = d.part],
         [d EXCEPT !.blob = d.part, !.part = NoFileYet],
         [d EXCEPT !.blob = d.part, !.part = NoFileYet, !.meta = "absent"]>>
  ELSE <<d>>

WritesOf(k, c) ==
  LET w == Written(k, c)
      t == Touched(w[Len(w)])
  IN Reset(k) \o w \o t \o Kept(k, t[Len(t)])

\* A last chunk whose artifact does not have the digest is an error.
Accepted(k, c) ==
  LET w == WritesOf(k, c) IN k = TotalChunks - 1 => w[Len(w)].blob = Whole

Becomes(d) == tPart' = d.part /\ tMeta' = d.meta /\ tBlob' = d.blob
-----------------------------------------------------------------------------
\* stage_artifacts: the chunks in order, each acknowledged exactly.
StartTransfer(s) ==
  /\ tSender[s] = NotSending
  /\ tSender' = [tSender EXCEPT ![s] = 0]
  /\ UNCHANGED <<tPart, tMeta, tBlob, tAged, tOthers>>

Acknowledge(s, k) ==
  tSender' = [tSender EXCEPT ![s] = k + 1]

\* One request, up to its acknowledgement.
StageChunk(s, k) ==
  /\ tSender[s] = k
  /\ IF AlreadyStored(k) THEN Becomes(Disk) /\ Acknowledge(s, k) /\ UNCHANGED tAged
     ELSE IF Refused(k, CopyOf[s])
     THEN /\ Becomes(Reset(k)[Len(Reset(k))])
          /\ tSender' = [tSender EXCEPT ![s] = NotSending] /\ UNCHANGED tAged
     ELSE LET w == WritesOf(k, CopyOf[s]) IN
          /\ Becomes(w[Len(w)]) /\ tAged' = FALSE
          /\ IF Accepted(k, CopyOf[s]) THEN Acknowledge(s, k)
             ELSE tSender' = [tSender EXCEPT ![s] = NotSending]
  /\ UNCHANGED tOthers

\* The helper or the connection dies after some of the writes, or after all
\* of them but before the acknowledgement.
StageInterrupted(s, k) ==
  /\ tSender[s] = k /\ ~AlreadyStored(k) /\ ~Refused(k, CopyOf[s])
  /\ LET w == WritesOf(k, CopyOf[s]) IN \E i \in DOMAIN w : Becomes(w[i])
  /\ tAged' = FALSE
  /\ tSender' = [tSender EXCEPT ![s] = NotSending]
  /\ UNCHANGED tOthers

\* VerifyArtifact after the last chunk.
VerifyArtifact(s) ==
  /\ tSender[s] = AllAcked
  /\ tSender' = [tSender EXCEPT ![s] = IF tBlob = Whole THEN Sent ELSE NotSending]
  /\ UNCHANGED <<tPart, tMeta, tBlob, tAged, tOthers>>

\* cleanup_staging, when a helper starts and the transfer is a day old.
CleanupStaging ==
  /\ tAged
  /\ tPart' = NoFileYet /\ tMeta' = "absent" /\ tAged' = FALSE
  /\ UNCHANGED <<tBlob, tOthers, tSender>>

DayPasses ==
  /\ ~tAged /\ (tPart # NoFileYet \/ tMeta # "absent")
  /\ tAged' = TRUE
  /\ UNCHANGED <<tPart, tMeta, tBlob, tOthers, tSender>>

OtherTransfers ==
  /\ tOthers' \in 0 .. MaxParts /\ tOthers' # tOthers
  /\ tOthers' > tOthers => tOthers' + (IF tPart = NoFileYet THEN 0 ELSE 1) <= MaxParts
  /\ UNCHANGED <<tPart, tMeta, tBlob, tAged, tSender>>

TransferNext ==
  \/ \E s \in Senders :
       \/ StartTransfer(s) \/ VerifyArtifact(s)
       \/ \E k \in Sending : StageChunk(s, k) \/ StageInterrupted(s, k)
  \/ CleanupStaging \/ DayPasses \/ OtherTransfers
-----------------------------------------------------------------------------
\* Only the artifact itself is ever in the store under its digest, although
\* two senders, one of them with a damaged copy, fill one part in turns and
\* writes stop half way (put_reader).
StoredIsWhole == tBlob \in {NoFileYet, Whole}

\* A sender that got all its acknowledgements finds the artifact stored:
\* the one for the last chunk is not given for a part that someone else or
\* the cleanup took away (stage_artifact_chunk).
AckedMeansStored == \A s \in Senders : tSender[s] \in {AllAcked, Sent} => tBlob = Whole

\* A transfer interrupted before its first chunk was acknowledged is taken up
\* by sending chunk 0 again, whatever it left behind, as long as there is
\* room ("a sequence-0 retry ... recover[s] an interrupted initialization").
InitialisationRecovers ==
  tMeta # "touched" /\ tOthers < MaxParts =>
     \A s \in Senders : ~Refused(0, CopyOf[s])

-----------------------------------------------------------------------------
(***************************************************************************)
(* The helper program of a remote target: which directories it agrees to   *)
(* write to (validate_configuration_internal, open_nofollow and            *)
(* ensure_unprotected of remote_helper.rs), and the recovery receipt of a  *)
(* run (BindRecoveryReceipt and RecoverRun of dispatch).  A process is     *)
(* started for every request and may be killed at any point.               *)
(***************************************************************************)
CONSTANTS
  RootPaths,      \* paths a root may be configured with
  ControlPath,    \* a path of the helper itself: its state, program, keyring
  ManagedPaths,   \* relative paths a request may name
  Alias,          \* a platform alias of a directory (/tmp), and
  AliasTarget,    \* what it stands for (/private/tmp)
  ReceiptDigests, \* digests of recovery receipts
  MaxSwaps        \* directories put in the place of the root (a bound)

\* Paths are sequences of names; a digest is no marker of a missing or a cut receipt.
ASSUME HelperPaths ==
  /\ RootPaths \subseteq Seq(STRING) /\ ManagedPaths \subseteq Seq(STRING)
  /\ ControlPath \in Seq(STRING) /\ Alias \in Seq(STRING) /\ AliasTarget \in Seq(STRING)
  /\ "none" \notin ReceiptDigests /\ "partial" \notin ReceiptDigests

VARIABLES
  thRoot,         \* the configured root
  thAccess,       \* its access
  thAt,           \* the step of the helper process
  thDirectory,    \* the identity of the directory at the root's path
  thValidated,    \* the identity validate_secure_path_with_identity saw
  thHeld,         \* the identity of the directory handle
  thWrites,       \* the resource written last
  thReceipt,      \* the content of receipts/<run>.digest
  thReady         \* digests for which RecoveryReady was answered

thVars == <<thRoot, thAccess, thAt, thDirectory, thValidated, thHeld, thWrites, thReceipt, thReady>>
thRun == <<thReceipt, thReady>>
NoReceipt == "none"
Partial == "partial"

HelperInit ==
  /\ thRoot \in RootPaths /\ thAccess \in {"read", "write"}
  /\ thAt = "idle" /\ thDirectory = 0 /\ thValidated = 0 /\ thHeld = 0 /\ thWrites = {}
  /\ thReceipt = NoReceipt /\ thReady = {}

\* canonicalize; no other link is accepted on the way (allowed_platform_alias).
Canonical(p) == IF IsPrefix(Alias, p) THEN AliasTarget \o SubSeq(p, Len(Alias) + 1, Len(p)) ELSE p
Overlap(p, q) == IsPrefix(p, q) \/ IsPrefix(q, p)

\* A writable root may not lie above or below what the helper itself depends on, as
\* it is written nor as it resolves.
OverlapsControl(p) == Overlap(p, ControlPath) \/ Overlap(Canonical(p), Canonical(ControlPath))
ValidateConfiguration ==
  /\ thAt = "idle"
  /\ thAt' = IF thAccess = "write" /\ OverlapsControl(thRoot) THEN "refused" ELSE "validated"
  /\ thValidated' = thDirectory
  /\ UNCHANGED <<thRoot, thAccess, thDirectory, thHeld, thWrites, thRun>>

\* open_nofollow: the directory opened must be the one that was validated.
SameDirectory == thDirectory = thValidated
OpenRoot ==
  /\ thAt = "validated"
  /\ thAt' = IF SameDirectory THEN "open" ELSE "refused"
  /\ thHeld' = thDirectory
  /\ UNCHANGED <<thRoot, thAccess, thDirectory, thValidated, thWrites, thRun>>

\* ensure_unprotected.
Unprotected(p) == ~ Overlap(Canonical(thRoot) \o p, ControlPath)
\* WriteFile, WriteDirectory, WriteSymlink and Remove of dispatch.
WriteResource(p) ==
  /\ thAt = "open"
  /\ thAt' = "idle"
  /\ thWrites' = IF Unprotected(p) /\ thAccess = "write"
                 THEN {[path |-> Canonical(thRoot) \o p, held |-> thHeld, validated |-> thValidated]} ELSE thWrites
  /\ UNCHANGED <<thRoot, thAccess, thDirectory, thValidated, thHeld, thRun>>

\* BindRecoveryReceipt: create_new, or a file with the same content; the write may be
\* cut short.
BoundTo(d) == IF thReceipt = NoReceipt THEN d ELSE thReceipt
BindRecoveryReceipt(d) ==
  /\ thAt = "open"
  /\ thAt' = "idle"
  /\ \/ thReceipt' = BoundTo(d)
     \/ thReceipt = NoReceipt /\ thReceipt' = Partial
  /\ UNCHANGED <<thRoot, thAccess, thDirectory, thValidated, thHeld, thWrites, thReady>>
\* RecoverRun answers only for the digest that was bound.
RecoverRun(d) ==
  /\ thAt = "open"
  /\ thAt' = "idle"
  /\ thReady' = IF thReceipt = d THEN thReady \cup {d} ELSE thReady
  /\ UNCHANGED <<thRoot, thAccess, thDirectory, thValidated, thHeld, thWrites, thReceipt>>

\* The process ends, the target's owner moves another directory to the root's path,
\* or configures another root.
HelperExits ==
  /\ thAt # "idle" /\ thAt' = "idle"
  /\ UNCHANGED <<thRoot, thAccess, thDirectory, thValidated, thHeld, thWrites, thRun>>
SwapDirectory ==
  /\ thDirectory < MaxSwaps
  /\ thDirectory' = thDirectory + 1
  /\ UNCHANGED <<thRoot, thAccess, thAt, thValidated, thHeld, thWrites, thRun>>
ConfigureRoot(p) ==
  /\ thAt = "idle" /\ thRoot' = p
  /\ UNCHANGED <<thAccess, thAt, thDirectory, thValidated, thHeld, thWrites, thRun>>

HelperNext ==
  \/ ValidateConfiguration \/ OpenRoot \/ HelperExits \/ SwapDirectory
  \/ \E p \in ManagedPaths : WriteResource(p)
  \/ \E d \in ReceiptDigests : BindRecoveryReceipt(d) \/ RecoverRun(d)
  \/ \E p \in RootPaths : ConfigureRoot(p)

(***************************************************************************)
(* Properties.                                                             *)
(***************************************************************************)
\* Nothing a request writes or removes holds, or is held by, a control path of the
\* helper, also when one of them is configured through a platform alias
\* (validate_configuration_internal compares both forms).
ControlPathsKept == \A w \in thWrites : ~ Overlap(w.path, Canonical(ControlPath))

\* What is written goes to the directory that was validated, not to one that took
\* its place since (TargetDirectoryIdentity).
WrittenWhereValidated == \A w \in thWrites : w.held = w.validated

\* Recovery of a run is confirmed for one receipt only, whichever requests to bind
\* were repeated, reordered or cut short.
OneReceiptEach == \A d, e \in thReady : d = e
=============================================================================
