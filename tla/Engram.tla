-------------------------------- MODULE Engram --------------------------------
(***************************************************************************)
(* Reconciliation of the engram memory of a project between two targets    *)
(* (commonkit-adapters engram.rs, engram_reconcile of production_domains): *)
(* each target holds chunk files and a manifest that names them.  Runs take*)
(* no lock: they overlap, and the engram program of a target goes on       *)
(* exporting chunks.                                                       *)
(***************************************************************************)
EXTENDS Naturals

CONSTANTS
  ChunkIds,     \* ids of chunks: eight hexadecimal digits, so that two targets may choose one id
  EngramRuns    \* requests of engram_reconcile

VARIABLES
  egChunk,      \* the chunk files of each target: the content, named by the target it is from
  egManifest,   \* the manifest of each target: the creator of each chunk it names
  egMemory,     \* the chunks engram has imported at each target
  egRun,        \* each run: stage, and the manifests it read
  egReceipt,    \* the receipt of each run
  egOverlap     \* two runs have overlapped

egVars == <<egChunk, egManifest, egMemory, egRun, egReceipt, egOverlap>>
egFiles == <<egChunk, egManifest, egMemory>>

Left == "left"
Right == "right"
Sides == {Left, Right}
Peer(t) == IF t = Left THEN Right ELSE Left
NoChunks == [c \in ChunkIds |-> "none"]
Names(manifest) == {c \in ChunkIds : manifest[c] # "none"}

EngramInit ==
  /\ egChunk = [t \in Sides |-> NoChunks]
  /\ egManifest = [t \in Sides |-> NoChunks]
  /\ egMemory = [t \in Sides |-> {}]
  /\ egRun = [r \in EngramRuns |-> [at |-> "new", read |-> [t \in Sides |-> NoChunks]]]
  /\ egReceipt = [r \in EngramRuns |-> "none"]
  /\ egOverlap = FALSE

RunGoes(r, from, to) ==
  /\ egRun[r].at = from
  /\ egRun' = [egRun EXCEPT ![r].at = to]
\* persist_engram_receipt with the reason, or an error and no receipt.
EndsUnresolved(r, at) ==
  /\ egRun[r].at = at
  /\ egRun' = [egRun EXCEPT ![r].at = "ended"]
  /\ \E receipt \in {"unresolved", "none"} : egReceipt' = [egReceipt EXCEPT ![r] = receipt]
Unavailable(r, at) == EndsUnresolved(r, at) /\ UNCHANGED <<egFiles, egOverlap>>

\* engram sync: a chunk file, then the entry that names it.
EngramExport(t, c) ==
  /\ egChunk[t][c] = "none"
  /\ egChunk' = [egChunk EXCEPT ![t][c] = t]
  /\ egManifest' = [egManifest EXCEPT ![t][c] = t]
  /\ UNCHANGED <<egMemory, egRun, egReceipt, egOverlap>>

\* engram_reconcile up to the exports: both owners are the one of the request.
OpenTargets(r) ==
  /\ \/ RunGoes(r, "new", "readleft") /\ UNCHANGED <<egFiles, egReceipt>>
     \/ EndsUnresolved(r, "new") /\ UNCHANGED egFiles
  /\ egOverlap' = (egOverlap \/ \E q \in EngramRuns \ {r} : egRun[q].at \notin {"new", "ended"})

\* recover_target_stage_files, read_target_manifest: the left manifest, then the right one.
ReadManifest(r, t) ==
  LET from == IF t = Left THEN "readleft" ELSE "readright"
  IN \/ /\ egRun[r].at = from
        /\ egRun' = [egRun EXCEPT ![r] = [at |-> IF t = Left THEN "readright" ELSE "copy",
                                          read |-> [@.read EXCEPT ![t] = egManifest[t]]]]
        /\ UNCHANGED <<egFiles, egReceipt, egOverlap>>
     \/ Unavailable(r, from)

\* The chunks that only one of the manifests names, with their side.
ToCopy(r) == UNION {{t} \X (Names(egRun[r].read[t]) \ Names(egRun[r].read[Peer(t)])) : t \in Sides}
\* copy_target_chunk: the file is written over whatever the other target has, read
\* again and compared.  Repeating a copy is harmless, so the order is left open.
CopyTargetChunk(r, t, c) ==
  /\ egRun[r].at = "copy" /\ <<t, c>> \in ToCopy(r)
  /\ egChunk[Peer(t)][c] # egChunk[t][c]
  /\ egChunk' = [egChunk EXCEPT ![Peer(t)][c] = egChunk[t][c]]
  /\ UNCHANGED <<egManifest, egMemory, egRun, egReceipt, egOverlap>>
Copied(r) == \A p \in ToCopy(r) : egChunk[Peer(p[1])][p[2]] = egChunk[p[1]][p[2]]
\* manifest_map and the digests of the chunks that both manifests name.
Collisions(r) ==
  {c \in ChunkIds : /\ \A t \in Sides : c \in Names(egRun[r].read[t])
                    /\ egChunk[Left][c] # egChunk[Right][c] \/ egRun[r].read[Left][c] # egRun[r].read[Right][c]}
\* The comparison and merge_manifests: a collision of either kind is an error.
CompareChunks(r) ==
  \/ /\ Copied(r) /\ Collisions(r) = {}
     /\ RunGoes(r, "copy", "writeleft")
     /\ UNCHANGED <<egFiles, egReceipt, egOverlap>>
  \/ Unavailable(r, "copy")

MergeManifests(r) ==
  [c \in ChunkIds |-> IF egRun[r].read[Left][c] # "none" THEN egRun[r].read[Left][c] ELSE egRun[r].read[Right][c]]
\* write_target_manifest: the left target, then the right one.
WriteManifest(r, t) ==
  LET from == IF t = Left THEN "writeleft" ELSE "writeright"
  IN \/ /\ RunGoes(r, from, IF t = Left THEN "writeright" ELSE "importleft")
        /\ egManifest' = [egManifest EXCEPT ![t] = MergeManifests(r)]
        /\ UNCHANGED <<egChunk, egMemory, egReceipt, egOverlap>>
     \/ Unavailable(r, from)

\* sync --import loads the chunks the manifest names.
Imported(t) == {<<c, egChunk[t][c]>> : c \in Names(egManifest[t])}
ImportChunks(r, t) ==
  LET from == IF t = Left THEN "importleft" ELSE "importright"
  IN \/ /\ RunGoes(r, from, IF t = Left THEN "importright" ELSE "done")
        /\ egMemory' = [egMemory EXCEPT ![t] = @ \cup Imported(t)]
        /\ UNCHANGED <<egChunk, egManifest, egReceipt, egOverlap>>
     \/ Unavailable(r, from)
\* persist_engram_receipt of a run that moved every chunk.
PersistReceipt(r) ==
  /\ RunGoes(r, "done", "ended")
  /\ \E receipt \in {"resolved", "none"} : egReceipt' = [egReceipt EXCEPT ![r] = receipt]
  /\ UNCHANGED <<egFiles, egOverlap>>

EngramNext ==
  \/ \E t \in Sides, c \in ChunkIds : EngramExport(t, c)
  \/ \E r \in EngramRuns :
       \/ OpenTargets(r) \/ CompareChunks(r) \/ PersistReceipt(r)
       \/ \E t \in Sides : ReadManifest(r, t) \/ WriteManifest(r, t) \/ ImportChunks(r, t)
       \/ \E t \in Sides, c \in ChunkIds : CopyTargetChunk(r, t, c)

(***************************************************************************)
(* Properties.                                                             *)
(***************************************************************************)
\* A manifest names only chunks its target holds, whatever runs overlap and wherever
\* they end: chunks are copied before either manifest is written (reconcile_targets).
ManifestIsBacked == \A t \in Sides : \A c \in Names(egManifest[t]) : egChunk[t][c] # "none"

\* A chunk that a manifest names is dropped from it only by a run that read the
\* manifest before the entry was there (write_target_manifest replaces the file).
EntriesKept ==
  [\A t \in Sides : \A c \in Names(egManifest[t]) \ Names(egManifest'[t]) :
       \E r \in EngramRuns : egRun[r].at # egRun'[r].at /\ c \notin Names(egRun[r].read[t])]_egVars

\* Where runs do not overlap, a receipt without an unresolved reason means that both targets have imported, with
\* one content, every chunk either manifest named (engram_reconcile).
ResolvedMeansShared ==
  ~ egOverlap => \A r \in EngramRuns : egReceipt[r] = "resolved" =>
    \A c \in Names(egRun[r].read[Left]) \cup Names(egRun[r].read[Right]) :
      \E content \in Sides : \A t \in Sides : <<c, content>> \in egMemory[t]
=============================================================================
