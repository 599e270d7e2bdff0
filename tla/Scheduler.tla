----------------------------- MODULE Scheduler ------------------------------
(***************************************************************************)
(* Scheduler of commonkit-execution: the SQLite tables of durable jobs and *)
(* the transactions on them.  Every method is one transaction, made by a   *)
(* caller that holds the mutex of commonkit-execd, so it is one step here; *)
(* a step is enabled when the method returns Ok, and CanX is its test.     *)
(*                                                                         *)
(* The rows of attempts are last[j] (their number), state, revision and    *)
(* token (0 for NULL), by job and attempt number.  A manifest publishes    *)
(* one artifact name and one checkpoint stage: artifact and checkpoint are *)
(* the attempt of the row for the job, 0 when there is none.  Time is the  *)
(* flag live of a lease: Expire lets expires_at_ms go by, and a renewal    *)
(* that comes in time is a lease that has not expired.                     *)
(***************************************************************************)
EXTENDS Integers

CONSTANTS Jobs,
          MaxAttempts   \* retry.max_attempts of the manifests

ASSUME AttemptsAssumption == MaxAttempts \in Nat

VARIABLES last, state, revision, token, receipt, artifact, checkpoint, lease

tables == <<last, state, revision, token, receipt, artifact, checkpoint, lease>>

Limit   == IF MaxAttempts = 0 THEN 1 ELSE MaxAttempts
Numbers == 1..Limit

Terminal == {"succeeded", "failed", "canceled", "interrupted"}
States   == {"none", "queued", "assigned", "preparing", "running", "checkpointing"}
                \cup Terminal

ValidTransition(from, to) ==
    \/ from = "queued" /\ to \in {"assigned", "canceled"}
    \/ from = "assigned" /\ to \in {"preparing", "canceled", "interrupted"}
    \/ from = "preparing" /\ to \in {"running", "failed", "canceled", "interrupted"}
    \/ from = "running" /\ to \in {"checkpointing"} \cup Terminal
    \/ from = "checkpointing" /\ to = "running"

NoLease   == [number |-> 0, token |-> 0, live |-> FALSE]
NoReceipt == [state |-> "none", artifact |-> FALSE, checkpoint |-> FALSE]

TablesOK ==
    /\ last \in [Jobs -> 0..Limit]
    /\ state \in [Jobs -> [Numbers -> States]]
    /\ revision \in [Jobs -> [Numbers -> Nat]]
    /\ token \in [Jobs -> [Numbers -> Nat]]
    /\ receipt \in [Jobs -> [Numbers -> [state : {"none"} \cup Terminal,
                                         artifact : BOOLEAN, checkpoint : BOOLEAN]]]
    /\ artifact \in [Jobs -> 0..Limit] /\ checkpoint \in [Jobs -> 0..Limit]
    /\ lease \in [Jobs -> [number : 0..Limit, token : Nat, live : BOOLEAN]]

SchedulerInit ==
    /\ last = [j \in Jobs |-> 0]
    /\ state = [j \in Jobs |-> [n \in Numbers |-> "none"]]
    /\ revision = [j \in Jobs |-> [n \in Numbers |-> 0]]
    /\ token = [j \in Jobs |-> [n \in Numbers |-> 0]]
    /\ receipt = [j \in Jobs |-> [n \in Numbers |-> NoReceipt]]
    /\ artifact = [j \in Jobs |-> 0]
    /\ checkpoint = [j \in Jobs |-> 0]
    /\ lease = [j \in Jobs |-> NoLease]

-----------------------------------------------------------------------------
(* INSERT INTO attempts(..., number, revision, state), UNIQUE(job, number). *)
Queue(j, n) ==
    /\ last' = [last EXCEPT ![j] = n]
    /\ state' = [state EXCEPT ![j][n] = "queued"]
    /\ revision' = [revision EXCEPT ![j][n] = 0]
    /\ token' = [token EXCEPT ![j][n] = 0]

(* submit: a second submission with the key returns the existing job.      *)
Submit(j) ==
    /\ last[j] = 0
    /\ Queue(j, 1)
    /\ UNCHANGED <<receipt, artifact, checkpoint, lease>>

\* Mutant: a count that starts again with the lease.
NextTokenOfLease(j) == lease[j].token + 1

(* SELECT COALESCE(MAX(fencing_token), 0) + 1 *)
NextToken(j) ==
    CHOOSE t \in 1..(Limit + 1) : /\ \A n \in Numbers : token[j][n] < t
                                  /\ t = 1 \/ \E n \in Numbers : token[j][n] = t - 1

(* acquire: some queued attempt that fits the target; the lease of the job *)
(* is replaced, whoever holds it.                                          *)
Acquire(j, n) ==
    /\ state[j][n] = "queued"
    /\ state' = [state EXCEPT ![j][n] = "assigned"]
    /\ revision' = [revision EXCEPT ![j][n] = @ + 1]
    /\ token' = [token EXCEPT ![j][n] = NextToken(j)]
    /\ lease' = [lease EXCEPT ![j] = [number |-> n, token |-> NextToken(j), live |-> TRUE]]
    /\ UNCHANGED <<last, receipt, artifact, checkpoint>>

CanTransition(j, n, expected, to) ==
    /\ revision[j][n] = expected
    /\ ValidTransition(state[j][n], to)

Transition(j, n, expected, to) ==
    /\ CanTransition(j, n, expected, to)
    /\ state' = [state EXCEPT ![j][n] = to]
    /\ revision' = [revision EXCEPT ![j][n] = @ + 1]
    /\ UNCHANGED <<last, token, receipt, artifact, checkpoint, lease>>

\* Mutant: the expiry is not compared.
FencedForEver(j, n, t) == lease[j].number = n /\ lease[j].token = t

(* assert_fence: the caller's lease is the job's lease and has not expired *)
Fenced(j, n, t) == lease[j] = [number |-> n, token |-> t, live |-> TRUE]

(* checkpoint, commit_artifact: INSERT OR IGNORE, the first row stays.     *)
Checkpoint(j, n, t) ==
    /\ Fenced(j, n, t)
    /\ checkpoint' = [checkpoint EXCEPT ![j] = IF @ = 0 THEN n ELSE @]
    /\ UNCHANGED <<last, state, revision, token, receipt, artifact, lease>>

CommitArtifact(j, n, t) ==
    /\ Fenced(j, n, t)
    /\ artifact' = [artifact EXCEPT ![j] = IF @ = 0 THEN n ELSE @]
    /\ UNCHANGED <<last, state, revision, token, receipt, checkpoint, lease>>

CanComplete(j, n, t, to) ==
    /\ Fenced(j, n, t)
    /\ token[j][n] = t
    /\ state[j][n] \in Terminal => state[j][n] = to

\* Mutant: the lease survives.
CompleteKeepingLease(j, n, t, to) ==
    /\ CanComplete(j, n, t, to)
    /\ state' = [state EXCEPT ![j][n] = to]
    /\ revision' = [revision EXCEPT ![j][n] = IF state[j][n] \in Terminal THEN @ ELSE @ + 1]
    /\ receipt' = [receipt EXCEPT ![j][n] =
                     IF @ # NoReceipt THEN @
                     ELSE [state      |-> to,
                           artifact   |-> artifact[j] = n,
                           checkpoint |-> checkpoint[j] = n]]
    /\ UNCHANGED <<last, token, artifact, checkpoint, lease>>

Complete(j, n, t, to) ==
    /\ CanComplete(j, n, t, to)
    /\ state' = [state EXCEPT ![j][n] = to]
    /\ revision' = [revision EXCEPT ![j][n] = IF state[j][n] \in Terminal THEN @ ELSE @ + 1]
    /\ receipt' = [receipt EXCEPT ![j][n] =
                     IF @ # NoReceipt THEN @
                     ELSE [state      |-> to,
                           artifact   |-> artifact[j] = n,
                           checkpoint |-> checkpoint[j] = n]]
    /\ lease' = [lease EXCEPT ![j] = NoLease]
    /\ UNCHANGED <<last, token, artifact, checkpoint>>

(* cancel: the latest attempt; its lease stays, its worker finds out.      *)
Cancel(j) ==
    /\ last[j] # 0
    /\ state[j][last[j]] \notin Terminal
    /\ Transition(j, last[j], revision[j][last[j]], "canceled")

(* queue_followup, the common part of retry and resume.                    *)
QueueFollowup(j) ==
    /\ last[j] # 0 /\ last[j] < Limit
    /\ state[j][last[j]] \in Terminal
    /\ Queue(j, last[j] + 1)
    /\ UNCHANGED <<receipt, artifact, checkpoint, lease>>

Retry(j)  == QueueFollowup(j)
Resume(j) == checkpoint[j] # 0 /\ QueueFollowup(j)

Expired(j) == lease[j].number # 0 /\ ~lease[j].live

(* recover_expired, the transaction for one expired lease.  The number of  *)
(* the new attempt follows that of the lease: the insertion fails when the *)
(* attempt exists, and takes the transaction with it.                      *)
CanRecover(j) == lease[j].number < Limit => last[j] = lease[j].number

\* Mutant: terminal attempts are not spared.
InterruptedAlways(s) == "interrupted"

Interrupted(s) == IF s \in Terminal THEN s ELSE "interrupted"

Recover(j) ==
    LET n == lease[j].number IN
    /\ CanRecover(j)
    /\ IF n < Limit
       THEN /\ last' = [last EXCEPT ![j] = n + 1]
            /\ state' = [state EXCEPT ![j][n] = Interrupted(@), ![j][n + 1] = "queued"]
            /\ revision' = [revision EXCEPT
                              ![j][n] = IF state[j][n] \in Terminal THEN @ ELSE @ + 1,
                              ![j][n + 1] = 0]
            /\ token' = [token EXCEPT ![j][n + 1] = 0]
       ELSE /\ state' = [state EXCEPT ![j][n] = Interrupted(@)]
            /\ revision' = [revision EXCEPT ![j][n] = IF state[j][n] \in Terminal THEN @ ELSE @ + 1]
            /\ UNCHANGED <<last, token>>
    /\ lease' = [lease EXCEPT ![j] = NoLease]
    /\ UNCHANGED <<receipt, artifact, checkpoint>>

(* Time passes the expiry of a lease that was not renewed.                 *)
Expire(j) ==
    /\ lease[j].live
    /\ lease' = [lease EXCEPT ![j].live = FALSE]
    /\ UNCHANGED <<last, state, revision, token, receipt, artifact, checkpoint>>
=============================================================================
