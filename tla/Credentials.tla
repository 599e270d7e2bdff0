---------------------------- MODULE Credentials ----------------------------
(***************************************************************************)
(* Provisioning credential files (ProductionCredentialDomain): a plan      *)
(* binds what it observed, an apply backs up every destination, writes an  *)
(* "applying" receipt, overwrites the files in place one after the other   *)
(* and settles the receipt; an error undoes the files that were touched,   *)
(* and the next apply or the next start of the daemon undoes what a crash  *)
(* interrupted.  Writes may fail before or after they took effect: the     *)
(* directory is synced last.                                               *)
(*                                                                         *)
(* Attempt a writes secret a; "torn" is a file that was truncated.         *)
(***************************************************************************)
EXTENDS Integers, Sequences

CONSTANTS Files,         \* destinations of the plan, in plan order
          MaxAttempts    \* bound: applies

ASSUME CredentialBounds == MaxAttempts \in Nat /\ Files \in Seq(STRING) /\ Files # <<>>

VARIABLES secret,        \* content of each destination
          observed,      \* what the plan observed
          attempt,       \* applies so far
          papers,        \* receipt of each attempt
          kept,          \* backups of each attempt; <<>> when removed
          unsure,        \* attempts whose success could not be recorded for certain
          apply          \* what the domain is doing

credVars == <<secret, observed, attempt, papers, kept, unsure, apply>>

Attempts == 1 .. MaxAttempts
Positions == DOMAIN Files
Absent   == 0
Torn     == -1
Edited   == -2
Asleep   == [pc |-> "idle"]
Halted   == [pc |-> "down"]
Open     == {a \in Attempts : papers[a] \in {"applying", "recovery_required"}}

\* Attempts that were to be undone and whose receipt says that they succeeded.
Doubtful == {a \in unsure : papers[a] = "succeeded"}

CredentialInit ==
    /\ secret = [i \in Positions |-> IF i = 1 THEN Edited ELSE Absent]
    /\ observed = <<>> /\ attempt = 0
    /\ papers = [a \in Attempts |-> "none"]
    /\ kept = [a \in Attempts |-> <<>>]
    /\ unsure = {} /\ apply = Asleep

\* A receipt that cannot be written may or may not be on disk.
Receipt(a, state) == papers' = [papers EXCEPT ![a] = state]
MaybeReceipt(a, state) == papers' \in {papers, [papers EXCEPT ![a] = state]}

-----------------------------------------------------------------------------
(* plan and apply.                                                         *)

PlanCredentials ==
    /\ apply = Asleep /\ observed # secret
    /\ observed' = secret
    /\ UNCHANGED <<secret, attempt, papers, kept, apply, unsure>>

\* Nothing unfinished, a plan that still describes the files, and every
\* reference resolved; then the backups.  A crash leaves backups that no
\* receipt names.
CaptureBackups ==
    /\ apply = Asleep /\ Open = {} /\ observed = secret
    /\ attempt < MaxAttempts
    /\ attempt' = attempt + 1
    /\ kept' = [kept EXCEPT ![attempt + 1] = secret]
    /\ apply' = [pc |-> "backed_up"]
    /\ UNCHANGED <<secret, observed, papers, unsure>>

\* The checkpoint comes after all backups.
WriteApplying ==
    /\ apply.pc = "backed_up"
    /\ \/ Receipt(attempt, "applying") /\ apply' = [pc |-> "write", at |-> 1]
       \/ MaybeReceipt(attempt, "applying") /\ apply' = Asleep
    /\ UNCHANGED <<secret, observed, attempt, kept, unsure>>

\* LocalSensitiveFileStore::write truncates in place.
WriteFile(s) ==
    /\ apply.pc = "write"
    /\ \/ s = attempt /\ apply' = [apply EXCEPT !.pc = "tag"]
       \/ s \in {attempt, Torn, secret[apply.at]}
          /\ apply' = [pc |-> "undo", at |-> apply.at, ok |-> TRUE, tidy |-> TRUE]
    /\ secret' = [secret EXCEPT ![apply.at] = s]
    /\ UNCHANGED <<observed, attempt, papers, kept, unsure>>

\* The verification tag goes into the receipt, which stays "applying".
TagFile ==
    /\ apply.pc = "tag"
    /\ apply' \in {[pc |-> IF apply.at < Len(Files) THEN "write" ELSE "settle",
                    at |-> IF apply.at < Len(Files) THEN apply.at + 1 ELSE apply.at],
                   [pc |-> "undo", at |-> apply.at, ok |-> TRUE, tidy |-> FALSE]}
    /\ UNCHANGED <<secret, observed, attempt, papers, kept, unsure>>

\* The receipt may be in place although its directory could not be synced: the
\* files are undone under a receipt that says succeeded.
Succeed ==
    /\ apply.pc = "settle"
    /\ \/ Receipt(attempt, "succeeded") /\ apply' = [pc |-> "tidy"] /\ UNCHANGED unsure
       \/ /\ MaybeReceipt(attempt, "succeeded") /\ unsure' = unsure \cup {attempt}
          /\ apply' = [pc |-> "undo", at |-> apply.at, ok |-> TRUE, tidy |-> FALSE]
    /\ UNCHANGED <<secret, observed, attempt, kept>>

UndoFrom == apply.at

\* What restore_backup may leave of a destination: a file is truncated and
\* written in place, a new one is removed.
MayLeave(a, i) == {secret[i], kept[a][i]} \cup (IF kept[a][i] = Absent THEN {} ELSE {Torn})

\* restore_backup of the failing file and of the ones before it, in reverse.
UndoFile(s, ok) ==
    /\ apply.pc = "undo" /\ UndoFrom > 0
    /\ s \in MayLeave(attempt, UndoFrom) /\ (ok => s = kept[attempt][UndoFrom])
    /\ secret' = [secret EXCEPT ![UndoFrom] = s]
    /\ apply' = [pc |-> "undo", at |-> apply.at - 1, ok |-> apply.ok /\ ok, tidy |-> apply.tidy]
    /\ UNCHANGED <<observed, attempt, papers, kept, unsure>>

WriteUndone ==
    LET state == IF apply.ok THEN "rolled_back" ELSE "recovery_required" IN
    /\ apply.pc = "undo" /\ UndoFrom <= 0
    /\ \/ /\ Receipt(attempt, state)
          /\ apply' = IF apply.ok /\ apply.tidy THEN [pc |-> "tidy"] ELSE Asleep
       \/ MaybeReceipt(attempt, state) /\ apply' = Asleep
    /\ UNCHANGED <<secret, observed, attempt, kept, unsure>>

\* cleanup_backups, which may fail.
TidyBackups ==
    /\ apply.pc = "tidy"
    /\ kept' \in {kept, [kept EXCEPT ![attempt] = <<>>]}
    /\ apply' = Asleep
    /\ UNCHANGED <<secret, observed, attempt, papers, unsure>>

-----------------------------------------------------------------------------
(* recover_unfinished, at start-up and at the beginning of an apply.       *)

BeginRecovery ==
    /\ apply \in {Asleep, Halted}
    /\ apply' = [pc |-> "recover"]
    /\ UNCHANGED <<secret, observed, attempt, papers, kept, unsure>>

\* An unfinished receipt whose backups can all be loaded ...
BeginRestore(a) ==
    /\ apply.pc = "recover" /\ a \in Open /\ kept[a] # <<>>
    /\ apply' = [pc |-> "restore", of |-> a, at |-> Len(Files)]
    /\ UNCHANGED <<secret, observed, attempt, papers, kept, unsure>>

\* ... has its files restored in reverse; an error ends the request, or the
\* start, with a receipt that says so if it can be written ...
PutBackNext(s, ok) ==
    LET a == apply.of IN
    /\ apply.pc = "restore" /\ apply.at > 0
    /\ s \in MayLeave(a, apply.at) /\ (ok => s = kept[a][apply.at])
    /\ secret' = [secret EXCEPT ![apply.at] = s]
    /\ IF ok
       THEN apply' = [apply EXCEPT !.at = @ - 1] /\ UNCHANGED papers
       ELSE apply' = Halted /\ MaybeReceipt(a, "recovery_required")
    /\ UNCHANGED <<observed, attempt, kept, unsure>>

\* ... and is settled.
SettleRestored ==
    /\ apply.pc = "restore" /\ apply.at = 0
    /\ \/ Receipt(apply.of, "rolled_back") /\ apply' = [pc |-> "recover"]
       \/ MaybeReceipt(apply.of, "rolled_back") /\ apply' = Halted
    /\ UNCHANGED <<secret, observed, attempt, kept, unsure>>

\* cleanup_backups of a settled receipt, before or after the others are looked
\* at, and cleanup_orphan_backups of what no receipt names.
RemoveBackups(a) ==
    /\ apply.pc = "recover" /\ a \notin Open /\ kept[a] # <<>>
    /\ kept' = [kept EXCEPT ![a] = <<>>]
    /\ UNCHANGED <<secret, observed, attempt, papers, apply, unsure>>

EndRecovery ==
    /\ apply.pc = "recover" /\ Open = {}
    /\ apply' = Asleep
    /\ UNCHANGED <<secret, observed, attempt, papers, kept, unsure>>

\* The process dies, or the request ends with an error; a file that was being
\* written or restored may be truncated.
Die ==
    /\ apply # Halted
    /\ \/ UNCHANGED secret
       \/ /\ \/ apply.pc = "write"
             \/ apply.pc = "undo" /\ apply.at > 0 /\ Torn \in MayLeave(attempt, apply.at)
             \/ apply.pc = "restore" /\ apply.at > 0 /\ Torn \in MayLeave(apply.of, apply.at)
          /\ secret' = [secret EXCEPT ![apply.at] = Torn]
    /\ apply' = Halted
    /\ UNCHANGED <<observed, attempt, papers, kept, unsure>>

OwnerEdits(i) ==
    /\ apply \in {Asleep, Halted} /\ secret[i] \in Attempts
    /\ secret' = [secret EXCEPT ![i] = Edited]
    /\ UNCHANGED <<observed, attempt, papers, kept, apply, unsure>>

CredentialNext ==
    \/ PlanCredentials \/ CaptureBackups \/ WriteApplying
    \/ \E s \in Attempts \cup {Torn, Edited, Absent} : WriteFile(s)
    \/ TagFile \/ Succeed \/ WriteUndone \/ TidyBackups
    \/ \E s \in Attempts \cup {Torn, Edited, Absent}, ok \in BOOLEAN : UndoFile(s, ok) \/ PutBackNext(s, ok)
    \/ BeginRecovery \/ SettleRestored \/ EndRecovery \/ Die
    \/ \E a \in Attempts : BeginRestore(a) \/ RemoveBackups(a)
    \/ \E i \in Positions : OwnerEdits(i)

CredentialSpec == CredentialInit /\ [][CredentialNext]_credVars

-----------------------------------------------------------------------------
(* Properties.                                                             *)

(* A receipt that recovery has to act on always finds its backups, and so   *)
(* does the undoing of an apply that failed, to its last file.              *)
BackupsKept ==
    /\ \A a \in Open : kept[a] # <<>>
    /\ apply.pc \in {"write", "tag", "settle", "undo"} => kept[attempt] # <<>>

(* A destination holds the secret of an attempt, or a truncated file, only *)
(* while that attempt is unfinished or when it succeeded: nothing that     *)
(* was rolled back stays behind.  The one exception is an attempt whose    *)
(* success was on disk although the write of it reported an error: its     *)
(* undoing may be cut off, and no recovery looks at it again.              *)
NoHalfApplied ==
    \A i \in Positions :
        /\ secret[i] \in Attempts =>
              papers[secret[i]] \in {"applying", "recovery_required", "succeeded"}
        /\ secret[i] = Torn => Open # {} \/ Doubtful # {}

(* A receipt that becomes rolled back tells the truth: every file of the   *)
(* attempt is as its backup has it.                                        *)
RollbackRestores ==
    [\A a \in Attempts :
        papers[a] # "rolled_back" /\ papers'[a] = "rolled_back" => secret' = kept[a]]_credVars
=============================================================================
