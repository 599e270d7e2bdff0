------------------------------- MODULE Execd --------------------------------
(***************************************************************************)
(* commonkit-execd: the daemon around the scheduler.  Its embedded worker  *)
(* runs one job at a time (run_once), and gives up its mutex between any   *)
(* two calls of the scheduler; clients submit, cancel, retry and resume;   *)
(* sessions are workers that use the HTTP API with the same worker         *)
(* identity, repeat and delay their calls, and forget their lease; the     *)
(* daemon crashes and is started again, and only then recovers leases.     *)
(***************************************************************************)
EXTENDS Scheduler

CONSTANTS Sessions,   \* remote workers
          NoJob

ASSUME NoJobAssumption == NoJob \notin Jobs

VARIABLES daemon,      \* "down", "starting" (in recover_expired) or "up"
          recovering,  \* jobs whose expired lease startup has yet to recover
          pc,          \* where run_once is
          held,        \* the lease run_once holds
          seen,        \* the revision of the attempt it saw last
          exited,      \* its process has ended
          verdict,     \* the terminal state it has decided on
          session      \* the lease each session holds

workerVars == <<pc, held, seen, exited, verdict>>
vars == <<tables, daemon, recovering, workerVars, session>>

NoHold == [job |-> NoJob, number |-> 0, token |-> 0]
Holds  == [job : Jobs, number : Numbers, token : Nat \ {0}]
Stages == {"idle", "leased", "checked", "preparing", "running", "polled",
           "publish", "published", "finish"}

(* Every table, the daemon and every worker have values of their type.     *)
TypeOK ==
    /\ TablesOK
    /\ daemon \in {"down", "starting", "up"}
    /\ recovering \subseteq Jobs
    /\ pc \in Stages
    /\ held \in Holds \cup {NoHold} /\ (held = NoHold <=> pc = "idle")
    /\ seen \in Nat /\ exited \in BOOLEAN
    /\ verdict \in {"none"} \cup Terminal
    /\ session \in [Sessions -> Holds \cup {NoHold}]

\* Mutant: the lease of the last job is not forgotten.
IdleKeepingLease == /\ pc' = "idle" /\ seen' = 0 /\ UNCHANGED held
                    /\ exited' = FALSE /\ verdict' = "none"

Idle == /\ pc' = "idle" /\ held' = NoHold /\ seen' = 0
        /\ exited' = FALSE /\ verdict' = "none"

Init ==
    /\ SchedulerInit
    /\ daemon = "up" /\ recovering = {}
    /\ pc = "idle" /\ held = NoHold /\ seen = 0
    /\ exited = FALSE /\ verdict = "none"
    /\ session = [s \in Sessions |-> NoHold]

-----------------------------------------------------------------------------
(* run_once.  An error of the scheduler ends it and leaves the tables as   *)
(* they are: the lease then stays behind.                                  *)

Goto(stage) == pc' = stage

At(stage) == daemon = "up" /\ pc = stage /\ UNCHANGED <<daemon, recovering, session>>

WorkerAcquire(j, n) ==
    /\ At("idle") /\ Acquire(j, n) /\ Goto("leased")
    /\ held' = [job |-> j, number |-> n, token |-> NextToken(j)]
    /\ UNCHANGED <<seen, exited, verdict>>

\* snapshot: the revision is that of the latest attempt of the job.
WorkerSnapshot ==
    /\ At("leased") /\ Goto("checked")
    /\ seen' = revision[held.job][last[held.job]]
    /\ UNCHANGED <<tables, held, exited, verdict>>

\* complete(...)?; return, whatever the scheduler answers.
WorkerComplete(to) ==
    /\ \/ Complete(held.job, held.number, held.token, to)
       \/ ~CanComplete(held.job, held.number, held.token, to) /\ UNCHANGED tables
    /\ Idle

WorkerDenied == At("checked") /\ WorkerComplete("failed")

WorkerTransition(from, to) ==
    /\ At(from)
    /\ \/ /\ Transition(held.job, held.number, seen, to)
          /\ Goto(to) /\ seen' = seen + 1
          /\ UNCHANGED <<held, exited, verdict>>
       \/ /\ ~CanTransition(held.job, held.number, seen, to)
          /\ Idle /\ UNCHANGED tables

WorkerPrepare == WorkerTransition("checked", "preparing")
WorkerRun     == WorkerTransition("preparing", "running")

\* The workspace, the secrets, the sandbox, the time or the disk limit.
FailEnforcement ==
    \/ At("preparing") /\ WorkerComplete("failed")
    \/ At("running") /\ ~exited /\ WorkerComplete("failed")

ProcessExit ==
    /\ pc \in {"running", "polled"} /\ ~exited
    /\ exited' = TRUE
    /\ UNCHANGED <<tables, daemon, recovering, pc, held, seen, verdict, session>>

\* Mutant: a job that was canceled meanwhile is left to the poll.
WorkerReapUnlessCanceled ==
    /\ At("running") /\ exited /\ Goto("publish")
    /\ state[held.job][held.number] # "canceled"
    /\ UNCHANGED <<tables, held, seen, exited, verdict>>

WorkerReap ==
    /\ At("running") /\ exited /\ Goto("publish")
    /\ UNCHANGED <<tables, held, seen, exited, verdict>>

\* The loop looks at the latest attempt of the job for a cancellation.
Canceled == state[held.job][last[held.job]] = "canceled"

WorkerPoll ==
    /\ At("running") /\ ~exited
    /\ \/ Canceled /\ Goto("publish") /\ exited' = TRUE
       \/ ~Canceled /\ Goto("polled") /\ UNCHANGED exited
    /\ UNCHANGED <<tables, held, seen, verdict>>

\* renew, when less than 10 s of the worker's own copy are left.
WorkerRenew ==
    LET valid == Fenced(held.job, held.number, held.token)
        own   == lease[held.job].token = held.token
    IN
    /\ At("polled") /\ UNCHANGED tables
    /\ \/ (valid \/ ~own) /\ Goto("running") /\ UNCHANGED <<held, seen, exited, verdict>>
       \/ ~valid /\ Idle

\* An I/O error of finish, cancel or put, an artifact over its limit.
WorkerIOError ==
    /\ At("running") \/ At("publish")
    /\ exited
    /\ Idle /\ UNCHANGED tables

\* The logs are committed unless they are empty.
WorkerPublish ==
    /\ At("publish")
    /\ \/ /\ CommitArtifact(held.job, held.number, held.token) \/ UNCHANGED tables
          /\ Goto("published") /\ UNCHANGED <<held, seen, exited, verdict>>
       \/ ~Fenced(held.job, held.number, held.token) /\ Idle /\ UNCHANGED tables

WorkerDecide ==
    /\ At("published") /\ Goto("finish")
    /\ verdict' \in IF Canceled THEN {"canceled"} ELSE {"succeeded", "failed"}
    /\ UNCHANGED <<tables, held, seen, exited>>

WorkerFinish == At("finish") /\ WorkerComplete(verdict)

WorkerWork ==
    \/ \E j \in Jobs, n \in Numbers : WorkerAcquire(j, n)
    \/ WorkerSnapshot \/ WorkerPrepare \/ WorkerRun \/ WorkerReap \/ WorkerPoll
    \/ WorkerRenew \/ WorkerPublish \/ WorkerDecide \/ WorkerFinish

WorkerNext == WorkerWork \/ WorkerDenied \/ FailEnforcement \/ WorkerIOError

-----------------------------------------------------------------------------
(* The HTTP API.                                                           *)
Serving == daemon = "up" /\ UNCHANGED <<daemon, recovering, workerVars>>

ClientNext ==
    /\ Serving /\ UNCHANGED session
    /\ \E j \in Jobs : Submit(j) \/ Cancel(j) \/ Retry(j) \/ Resume(j)

SessionAcquire(s, j, n) ==
    /\ Serving /\ Acquire(j, n)
    /\ session' = [session EXCEPT ![s] = [job |-> j, number |-> n, token |-> NextToken(j)]]

SessionCheckpoint(s) ==
    /\ Serving /\ UNCHANGED session /\ session[s] # NoHold
    /\ Checkpoint(session[s].job, session[s].number, session[s].token)

SessionComplete(s, to) ==
    /\ Serving /\ UNCHANGED session /\ session[s] # NoHold
    /\ Complete(session[s].job, session[s].number, session[s].token, to)

\* The session ends, or the answer to its request for a lease is lost.
SessionForget(s) ==
    /\ session[s] # NoHold
    /\ session' = [session EXCEPT ![s] = NoHold]
    /\ UNCHANGED <<tables, daemon, recovering, workerVars>>

SessionNext ==
    \E s \in Sessions :
        \/ \E j \in Jobs, n \in Numbers : SessionAcquire(s, j, n)
        \/ SessionCheckpoint(s) \/ SessionForget(s)
        \/ \E to \in Terminal : SessionComplete(s, to)

-----------------------------------------------------------------------------
(* The process of the daemon.                                              *)
Crash ==
    /\ daemon # "down"
    /\ daemon' = "down" /\ recovering' = {} /\ Idle
    /\ UNCHANGED <<tables, session>>

Start ==
    /\ daemon = "down"
    /\ daemon' = "starting"
    /\ recovering' = {j \in Jobs : Expired(j)}
    /\ UNCHANGED <<tables, workerVars, session>>

StartupRecover(j) ==
    /\ daemon = "starting" /\ j \in recovering
    /\ \/ Recover(j) /\ recovering' = recovering \ {j} /\ UNCHANGED daemon
       \/ ~CanRecover(j) /\ daemon' = "down" /\ recovering' = {} /\ UNCHANGED tables
    /\ UNCHANGED <<workerVars, session>>

Serve ==
    /\ daemon = "starting" /\ recovering = {}
    /\ daemon' = "up"
    /\ UNCHANGED <<tables, recovering, workerVars, session>>

StartupNext == Start \/ Serve \/ \E j \in Jobs : StartupRecover(j)

TimePasses ==
    /\ \E j \in Jobs : Expire(j)
    /\ UNCHANGED <<daemon, recovering, workerVars, session>>

Next == \/ WorkerNext \/ ClientNext \/ SessionNext
        \/ StartupNext \/ Crash \/ TimePasses \/ ProcessExit

Spec == Init /\ [][Next]_vars

(* The worker task runs while the daemon does, the supervisor ends every   *)
(* process at its time limit, systemd starts the daemon again              *)
(* (Restart=on-failure), and time passes.  Nothing makes clients, sessions,*)
(* errors or crashes happen.                                               *)
Fairness == /\ WF_vars(WorkerWork) /\ WF_vars(ProcessExit)
            /\ WF_vars(StartupNext) /\ WF_vars(TimePasses)

LiveSpec == Spec /\ Fairness

-----------------------------------------------------------------------------
(* Properties.                                                             *)

\* No two workers were ever given the same fencing token of a job, however
\* stale the lease of one of them is: the fence tells them apart.
NoSharedFence ==
    /\ \A s \in Sessions : held # NoHold =>
          ~(session[s].job = held.job /\ session[s].token = held.token)
    /\ \A r, s \in Sessions : r # s /\ session[r] # NoHold =>
          ~(session[r].job = session[s].job /\ session[r].token = session[s].token)

\* A receipt is the truth about its attempt for ever: the state the attempt
\* has, the artifact and the checkpoint it owns, although other calls go on
\* after complete wrote the receipt.
ReceiptMatches ==
    \A j \in Jobs, n \in Numbers : receipt[j][n] # NoReceipt =>
        receipt[j][n] = [state      |-> state[j][n],
                         artifact   |-> artifact[j] = n,
                         checkpoint |-> checkpoint[j] = n]

\* "Expired or stale workers cannot checkpoint, publish artifacts, or
\* complete": a step that adds an artifact, a checkpoint or a receipt adds it
\* for the attempt with the newest token, while its lease is live.
FencedWrite ==
    \A j \in Jobs, n \in Numbers :
        \/ artifact'[j] = n /\ artifact[j] # n
        \/ checkpoint'[j] = n /\ checkpoint[j] # n
        \/ receipt'[j][n] # receipt[j][n]
        => /\ lease[j].live /\ lease[j].number = n
           /\ \A m \in Numbers : token[j][m] <= token[j][n]
FencedWrites == [][FencedWrite]_vars

\* The attempts of a job follow the contract: numbered without a gap up to
\* the limit, at most the last one open, an outcome is never changed; not by
\* a late worker, a cancellation, a retry or the recovery at startup.
Outcome == [j \in Jobs |-> [n \in Numbers |->
               IF state[j][n] \in Terminal \cup {"none"} THEN state[j][n] ELSE "open"]]
Contract == INSTANCE JobContract WITH Outcomes <- Terminal, outcome <- Outcome
ImplementsContract == Contract!Spec

\* run_once returns, so that the worker takes the next job: no cancellation,
\* retry or lost lease leaves it waiting.
WorkerReturns == pc # "idle" ~> pc = "idle"

\* docs/scopes/durable-execution-v1.md:94 "Startup opens WAL mode and
\* `recover_expired` turns abandoned attempts into interrupted attempts and
\* queues policy-permitted retries": the transaction for an expired lease that
\* startup has found can commit.
StartupCommits == \A j \in recovering : CanRecover(j)
=============================================================================
