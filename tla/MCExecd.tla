------------------------------- MODULE MCExecd ------------------------------
(***************************************************************************)
(* Small instances of Execd: one job, whose attempts are all that the      *)
(* actors can compete for, and up to two remote sessions.                  *)
(***************************************************************************)
EXTENDS Execd

CONSTANTS j1, r1, r2
=============================================================================
