------------------------------ MODULE Authority ------------------------------
(***************************************************************************)
(* What the portable snapshot authority promises: one history of records,  *)
(* each naming the single writer of a database and the snapshot accepted   *)
(* last.  A record is only ever added after the latest one, and changes    *)
(* either the head or the writer, never both.                              *)
(***************************************************************************)
EXTENDS Sequences

CONSTANTS Writers,    \* targets that can be the writer of the database
          Heads       \* digests of snapshots, and the mark of "no snapshot"

VARIABLE log

Records == [writer : Writers, head : Heads]

AuthorityInit == log \in {<<r>> : r \in Records}

Accept(r) ==
    /\ \/ r.writer = log[Len(log)].writer
       \/ r.head = log[Len(log)].head
    /\ log' = Append(log, r)

AuthoritySpec == AuthorityInit /\ [][\E r \in Records : Accept(r)]_log
=============================================================================
