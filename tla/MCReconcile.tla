---------------------------- MODULE MCReconcile ----------------------------
(* Small instances of Reconcile. *)
EXTENDS Reconcile

\* Two file operations around a package, and a package after them.
MixedForward == {2, 4}
MixedCreate  == {3}

\* Three file operations, the middle one creating its file.
FilesForward == {}
FilesCreate  == {2}
=============================================================================
