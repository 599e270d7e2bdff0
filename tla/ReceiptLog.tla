----------------------------- MODULE ReceiptLog -----------------------------
(***************************************************************************)
(* What a receipt store promises its callers: the receipt of a run is one  *)
(* history that only ever grows, by one checkpoint at a time, whoever      *)
(* writes and whenever the process dies.                                   *)
(***************************************************************************)
EXTENDS Sequences

CONSTANT Values

VARIABLE log

Init == log = <<>>

Checkpoint == \E v \in Values : log' = Append(log, v)

Spec == Init /\ [][Checkpoint]_log
=============================================================================
