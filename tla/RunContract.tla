---------------------------- MODULE RunContract ----------------------------
(***************************************************************************)
(* What a reconciliation run promises, whatever the receipts, checkpoints  *)
(* and restarts that implement it.  A run is reversible until it crosses   *)
(* the forward barrier; from then on it is one-way.  File operations       *)
(* (Exact) change the machine only while the run is reversible, package    *)
(* operations (Forward) only once it is one-way, and a run is committed    *)
(* only when every operation is in its after state.                        *)
(***************************************************************************)
CONSTANTS Ops, Forward

VARIABLES verdict, world

vars == <<verdict, world>>

Exact == Ops \ Forward

Init == verdict = "absent" /\ world = [o \in Ops |-> "Before"]

Begin == verdict = "absent" /\ verdict' = "reversible" /\ UNCHANGED world

\* Applying or restoring files.
Mutate ==
    /\ verdict = "reversible" /\ UNCHANGED verdict
    /\ \A o \in Forward : world'[o] = world[o]

Undo ==
    /\ verdict = "reversible" /\ verdict' \in {"undone", "undo_failed"}
    /\ UNCHANGED world

\* The barrier is crossed with every file operation in place.
Cross ==
    /\ verdict = "reversible" /\ verdict' = "oneway"
    /\ \A o \in Exact : world[o] = "After"
    /\ UNCHANGED world

Converge ==
    /\ verdict = "oneway" /\ UNCHANGED verdict
    /\ \A o \in Exact : world'[o] = world[o]

Commit ==
    /\ verdict = "oneway" \/ (verdict = "reversible" /\ Forward = {})
    /\ verdict' = "committed"
    /\ \A o \in Ops : world[o] = "After"
    /\ UNCHANGED world

\* An explicit rollback request reopens a run that has no package operation.
Reopen ==
    /\ verdict = "committed" /\ Forward = {}
    /\ verdict' = "reversible" /\ UNCHANGED world

Next == Begin \/ Mutate \/ Undo \/ Cross \/ Converge \/ Commit \/ Reopen

Spec == Init /\ [][Next]_vars
=============================================================================
