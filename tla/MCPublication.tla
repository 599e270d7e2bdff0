---------------------------- MODULE MCPublication ----------------------------
(***************************************************************************)
(* Small instances of Publication: two machines, whose clones hold the     *)
(* database's two places.  Machines and contents are interchangeable.      *)
(***************************************************************************)
EXTENDS Publication, TLC

CONSTANTS h1, h2, c1, c2, r1

Interchangeable == Permutations({h1, h2}) \cup Permutations({c1, c2})
=============================================================================
