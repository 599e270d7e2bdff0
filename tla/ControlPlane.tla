---------------------------- MODULE ControlPlane ----------------------------
(***************************************************************************)
(* The local daemon between requests: its control plane, its event history *)
(* and its scheduled drift check.  The three share no state.               *)
(***************************************************************************)
EXTENDS Integers, Sequences

(***************************************************************************)
(* The control plane of the local daemon: reviewed plans, confirmed apply  *)
(* requests bound to idempotency keys, the operations they become and the  *)
(* executors that carry them out.  Keys and operations live in memory, the *)
(* receipts of runs are durable; a run is named by its plan and its        *)
(* confirmation, so that keys may differ and restarts happen.  Reloading   *)
(* the domains replaces the executors, and with them their locks, while    *)
(* jobs are in flight.  An execution is two steps here: Reconcile has the  *)
(* rest.                                                                   *)
(***************************************************************************)
CONSTANTS Plans,
          AdaptersOf,    \* adapter ids of the operations of each plan
          Confirmations,
          Keys,          \* idempotency keys
          Bound,         \* targets that have an executor of their own
          TargetOf,      \* the target of each plan
          MaxReloads     \* bound: reloads of one daemon

ASSUME PlanShapes == /\ AdaptersOf \in [Plans -> SUBSET {"files", "ssh-files", "packages", "relay"}]
                     /\ TargetOf \in [Plans -> STRING]
                     /\ MaxReloads \in Nat

VARIABLES planned,       \* plans in the plan store
          current,       \* the authority a plan was built from still stands
          keys,          \* what each key is bound to
          operations,    \* status of each operation
          jobs,          \* execution jobs in flight
          generation,    \* which runtime is installed
          runs,          \* durable receipt state of each run
          serving        \* the daemon serves requests

controlVars == <<planned, current, keys, operations, jobs, generation, runs, serving>>

RunIds  == Plans \X Confirmations
OpIds   == Plans \X Confirmations \X Keys
RunOf(o) == <<o[1], o[2]>>
Free    == <<>>
Terminals == {"succeeded", "rolled_back"}

ControlInit ==
    /\ planned = {} /\ current = Plans
    /\ keys = [k \in Keys |-> Free]
    /\ operations = [o \in OpIds |-> "none"]
    /\ jobs = {} /\ generation = 0
    /\ runs = [r \in RunIds |-> "none"]
    /\ serving = TRUE

-----------------------------------------------------------------------------
(* Plans and reservations.                                                 *)

\* register_plan, by a domain that has just built it.
RegisterPlan(p) ==
    /\ serving /\ p \notin planned
    /\ planned' = planned \cup {p} /\ current' = current \cup {p}
    /\ UNCHANGED <<keys, operations, jobs, generation, runs, serving>>

\* Package operations need a consent for exactly this confirmation, others
\* refuse one.
ConsentFits(p, consent) == ("packages" \in AdaptersOf[p]) = consent

\* validate_plan_execution_authority and validate_relay_execution_authority
Authorised(p) == p \in current

Unbound(k) == keys[k] = Free

\* reserve_apply; a key that is bound answers with its operation or with a
\* conflict and changes nothing.
ReserveApply(p, c, k, consent) ==
    /\ serving /\ p \in planned /\ ConsentFits(p, consent) /\ Authorised(p)
    /\ Unbound(k)
    /\ keys' = [keys EXCEPT ![k] = <<p, c, k>>]
    /\ operations' = [operations EXCEPT ![<<p, c, k>>] = "running"]
    /\ jobs' = jobs \cup {[op |-> <<p, c, k>>, pc |-> "reserved", gen |-> generation]}
    /\ UNCHANGED <<planned, current, generation, runs, serving>>

-----------------------------------------------------------------------------
(* Executors.                                                              *)

\* TargetIdentityPlanExecutor, TargetDispatchPlanExecutor: a plan for both
\* file adapters is refused, a plan of target-bound operations needs the
\* executor of its target, and the others go to the local one, which has no
\* SSH.
TargetBound(p) == AdaptersOf[p] \subseteq {"files", "ssh-files", "packages"}
Mixed(p)       == {"files", "ssh-files"} \subseteq AdaptersOf[p]
Dispatched(p) ==
    IF TargetBound(p) /\ AdaptersOf[p] # {} THEN ~Mixed(p) /\ TargetOf[p] \in Bound
    ELSE "ssh-files" \notin AdaptersOf[p]

\* The executor is the one installed when the job begins.
BeginJob(j) ==
    /\ j \in jobs /\ j.pc = "reserved"
    /\ IF Dispatched(j.op[1])
       THEN /\ jobs' = (jobs \ {j}) \cup {[j EXCEPT !.pc = "queued", !.gen = generation]}
            /\ UNCHANGED operations
       ELSE /\ jobs' = jobs \ {j}
            /\ operations' = [operations EXCEPT ![j.op] = "failed"]
    /\ UNCHANGED <<planned, current, keys, generation, runs, serving>>

\* execution_lock of the executor
Unlocked(j) ==
    ~\E i \in jobs : /\ i.pc \in {"applying", "recovering"} /\ i.gen = j.gen
                     /\ TargetOf[i.op[1]] = TargetOf[j.op[1]]

Outcome(state) == IF state = "succeeded" THEN "succeeded" ELSE "failed"

\* Mutant: a retry of a run whose receipt is terminal runs it again.
TakeLockAgain(j) ==
    /\ j \in jobs /\ j.pc = "queued" /\ Unlocked(j)
    /\ runs' = [runs EXCEPT ![RunOf(j.op)] = "applying"]
    /\ jobs' = (jobs \ {j}) \cup {[j EXCEPT !.pc = "applying"]}
    /\ UNCHANGED <<planned, current, keys, operations, generation, serving>>

\* execute_durable: a run that is settled answers with its outcome, one that
\* is not is recovered, one without receipt starts.
TakeLock(j) ==
    LET r == RunOf(j.op) IN
    /\ j \in jobs /\ j.pc = "queued" /\ Unlocked(j)
    /\ \/ /\ runs[r] \in Terminals
          /\ jobs' = jobs \ {j}
          /\ operations' = [operations EXCEPT ![j.op] = Outcome(runs[r])]
          /\ UNCHANGED runs
       \/ /\ runs[r] = "applying"
          /\ jobs' = (jobs \ {j}) \cup {[j EXCEPT !.pc = "recovering"]}
          /\ UNCHANGED <<operations, runs>>
       \/ /\ runs[r] = "none"
          /\ runs' = [runs EXCEPT ![r] = "applying"]
          /\ jobs' = (jobs \ {j}) \cup {[j EXCEPT !.pc = "applying"]}
          /\ UNCHANGED operations
    /\ UNCHANGED <<planned, current, keys, generation, serving>>

\* The run settles; when somebody else has settled it meanwhile, the journal
\* refuses the transition and the operation fails.
EndRun(j, outcome) ==
    LET r == RunOf(j.op) IN
    /\ j \in jobs /\ j.pc \in {"applying", "recovering"}
    /\ IF runs[r] = "applying"
       THEN /\ runs' = [runs EXCEPT ![r] = outcome]
            /\ operations' = [operations EXCEPT ![j.op] = Outcome(outcome)]
       ELSE /\ operations' = [operations EXCEPT ![j.op] = "failed"]
            /\ UNCHANGED runs
    /\ jobs' = jobs \ {j}
    /\ UNCHANGED <<planned, current, keys, generation, serving>>

\* The engine could not write a receipt: the run stays as it is.
RunBreaks(j) ==
    /\ j \in jobs /\ j.pc \in {"applying", "recovering"}
    /\ operations' = [operations EXCEPT ![j.op] = "failed"]
    /\ jobs' = jobs \ {j}
    /\ UNCHANGED <<planned, current, keys, generation, runs, serving>>

-----------------------------------------------------------------------------
(* Reload, edits, crashes.                                                 *)

\* Mutant: the jobs of the replaced runtime are forgotten.
ReloadAndForget ==
    /\ serving /\ generation < MaxReloads
    /\ generation' = generation + 1
    /\ jobs' = {j \in jobs : j.pc # "queued"}
    /\ UNCHANGED <<planned, current, keys, operations, runs, serving>>

\* ProductionRuntimeReloader::reload; a configuration that is rejected
\* changes nothing.
Reload ==
    /\ serving /\ generation < MaxReloads
    /\ generation' = generation + 1
    /\ UNCHANGED <<planned, current, keys, operations, jobs, runs, serving>>

AuthorityMoves(p) ==
    /\ p \in current
    /\ current' = current \ {p}
    /\ UNCHANGED <<planned, keys, operations, jobs, generation, runs, serving>>

KillDaemon ==
    /\ serving
    /\ serving' = FALSE
    /\ jobs' = {} /\ generation' = 0
    /\ keys' = [k \in Keys |-> Free]
    /\ operations' = [o \in OpIds |-> "none"]
    /\ UNCHANGED <<planned, current, runs>>

\* recover_pending settles every run before the socket is bound.
RecoverPending(outcome) ==
    /\ ~serving
    /\ runs' = [r \in RunIds |-> IF runs[r] = "applying" THEN outcome[r] ELSE runs[r]]
    /\ serving' = TRUE
    /\ UNCHANGED <<planned, current, keys, operations, jobs, generation>>

ControlNext ==
    \/ \E p \in Plans : RegisterPlan(p) \/ AuthorityMoves(p)
    \/ \E p \in Plans, c \in Confirmations, k \in Keys, consent \in BOOLEAN :
            ReserveApply(p, c, k, consent)
    \/ \E j \in jobs : BeginJob(j) \/ TakeLock(j) \/ RunBreaks(j)
    \/ \E j \in jobs, outcome \in Terminals : EndRun(j, outcome)
    \/ Reload \/ KillDaemon
    \/ \E outcome \in [RunIds -> Terminals] : RecoverPending(outcome)

ControlSpec == ControlInit /\ [][ControlNext]_controlVars

-----------------------------------------------------------------------------
(* Properties.                                                             *)

(* Keys, operations, jobs and runs have their types.                       *)
ControlTypeOK ==
    /\ planned \subseteq Plans /\ current \subseteq Plans
    /\ keys \in [Keys -> OpIds \cup {Free}]
    /\ operations \in [OpIds -> {"none", "running", "succeeded", "failed"}]
    /\ jobs \subseteq [op : OpIds, gen : 0 .. MaxReloads,
                       pc : {"reserved", "queued", "applying", "recovering"}]
    /\ runs \in [RunIds -> {"none", "applying"} \cup Terminals]

(* A run that is settled stays what it is: no retry with another key, no   *)
(* reload and no restart that has forgotten the keys applies it again.     *)
AppliedOnce ==
    [\A r \in RunIds : runs[r] \in Terminals => runs'[r] = runs[r]]_controlVars

(* An operation says it succeeded only when the receipt of its run does.   *)
OperationsTruthful ==
    \A o \in OpIds : operations[o] = "succeeded" => runs[RunOf(o)] = "succeeded"

(* Whoever polls a running operation waits for a job that is still there,  *)
(* and a job reports to an operation that is still running.                *)
RunningHasJob ==
    \A o \in OpIds : (operations[o] = "running") <=> \E j \in jobs : j.op = o

(* A key answers for one operation in the life of a daemon, whatever other *)
(* keys, plans and confirmations arrive.                                   *)
KeyMeansOne ==
    \A o \in OpIds : operations[o] # "none" => keys[o[3]] = o

-----------------------------------------------------------------------------
(***************************************************************************)
(* The event history of the daemon (EventHub) and a client that polls it   *)
(* with a cursor.  Publishing assigns the next id and drops the oldest     *)
(* event of a full history; replay_after says that the cursor has expired  *)
(* when events after it are gone.  Histories are not durable: a new daemon *)
(* starts again with id 1, and the client keeps its cursor.                *)
(***************************************************************************)
CONSTANTS Capacity,      \* events the history keeps
          MaxEvents,     \* bound: events of one daemon
          MaxBoots       \* bound: daemons

ASSUME HubBounds == {Capacity, MaxEvents, MaxBoots} \subseteq Nat \ {0}

VARIABLES ring,          \* history: ids, oldest first
          boot,          \* which daemon this is
          cursor,        \* last id the client was given
          origin,        \* the daemon the client began to follow
          seen,          \* ids of this daemon the client received
          skipped        \* ids of this daemon it was told to resync over

hubVars == <<ring, boot, cursor, origin, seen, skipped>>

HubInit ==
    /\ ring = <<>> /\ boot = 1
    /\ cursor = 0 /\ origin = 1 /\ seen = {} /\ skipped = {}

NextId(r) == IF r = <<>> THEN 1 ELSE r[Len(r)] + 1

Publish ==
    /\ NextId(ring) <= MaxEvents
    /\ ring' = Append(IF Len(ring) = Capacity THEN Tail(ring) ELSE ring, NextId(ring))
    /\ UNCHANGED <<boot, cursor, origin, seen, skipped>>

Expired(after) == ring # <<>> /\ after + 1 < ring[1]

Replayed(after) == {ring[i] : i \in {j \in DOMAIN ring : ring[j] > after}}

\* get_events_snapshot: the cursor moves to the last event replayed.  A
\* client told that it expired reads the whole state again.
Poll ==
    LET events == Replayed(cursor) IN
    /\ seen' = seen \cup events
    /\ cursor' = IF events = {} THEN cursor ELSE ring[Len(ring)]
    /\ skipped' = IF Expired(cursor) THEN skipped \cup (1 .. (ring[1] - 1)) ELSE skipped
    /\ UNCHANGED <<ring, boot, origin>>

\* The first poll has no cursor and is never told that it expired.
FirstPoll ==
    /\ ring # <<>>
    /\ seen' = Replayed(0) /\ skipped' = 1 .. (ring[1] - 1)
    /\ cursor' = ring[Len(ring)] /\ origin' = boot
    /\ UNCHANGED <<ring, boot>>

NewDaemon ==
    /\ boot < MaxBoots
    /\ boot' = boot + 1 /\ ring' = <<>> /\ seen' = {} /\ skipped' = {}
    /\ UNCHANGED <<cursor, origin>>

HubNext == Publish \/ Poll \/ FirstPoll \/ NewDaemon

HubSpec == HubInit /\ [][HubNext]_hubVars

-----------------------------------------------------------------------------
(* Properties.                                                             *)

(* A client that follows this daemon has received every event up to its    *)
(* cursor, except the ones it was told it can no longer have.  (A cursor   *)
(* kept from an earlier daemon misses events silently: ids start again.)   *)
NothingMissed ==
    origin = boot => 1 .. cursor \subseteq seen \cup skipped

-----------------------------------------------------------------------------
(***************************************************************************)
(* The scheduled drift check of the daemon: SchedulerStore keeps the       *)
(* configuration and the last completed check in one file, the loop and    *)
(* the check share an overlap flag, and a check that times out leaves its  *)
(* blocking worker behind.  The configuration the loop uses is the watch   *)
(* value the store publishes, not the file.                                *)
(***************************************************************************)
CONSTANTS Intervals,     \* intervals a client asks for
          Shortest,      \* MIN_SCHEDULE_INTERVAL_SECONDS
          Longest,       \* MAX_SCHEDULE_INTERVAL_SECONDS
          MaxWorkers     \* bound: blocking workers the model counts

ASSUME IntervalBounds == /\ Intervals \subseteq Nat
                         /\ {Shortest, Longest, MaxWorkers} \subseteq Nat

VARIABLES stored,        \* scheduler.json: configuration and last check
          watched,       \* the configuration the watch channel holds
          torn,          \* a save failed after its rename
          status,        \* what /status reports of the last check
          check,         \* the check in progress
          busy,          \* worker_running
          workers,       \* threads inside checker.check
          alive          \* the daemon runs

driftVars == <<stored, watched, torn, status, check, busy, workers, alive>>

NoCheck  == "unknown"
Quiet    == [pc |-> "idle"]
Default  == [enabled |-> FALSE, interval |-> Shortest]
Configs  == [enabled : BOOLEAN, interval : Intervals \cup {Shortest}]

ConfigOf(s) == [enabled |-> s.enabled, interval |-> s.interval]
ValidInterval(i) == Shortest <= i /\ i <= Longest

DriftInit ==
    /\ stored = [enabled |-> FALSE, interval |-> Shortest, last |-> NoCheck]
    /\ watched = Default /\ torn = FALSE
    /\ status = NoCheck /\ check = Quiet
    /\ busy = FALSE /\ workers = 0 /\ alive = TRUE

-----------------------------------------------------------------------------
(* The store.                                                              *)

\* save: reads the state, replaces the file and publishes; when the
\* directory cannot be synced the file is new and nothing is published.
SaveConfig(c) ==
    /\ alive /\ ValidInterval(c.interval)
    /\ stored' = [stored EXCEPT !.enabled = c.enabled, !.interval = c.interval]
    /\ \/ watched' = c /\ torn' = FALSE
       \/ torn' = TRUE /\ UNCHANGED watched
    /\ UNCHANGED <<status, check, busy, workers, alive>>

\* save_completed_check reads the state again under the save lock.
WithCheck(v) == [stored EXCEPT !.last = v]

-----------------------------------------------------------------------------
(* try_check_now, by the loop or by a client.                              *)

\* check of the selected targets, or of the only sync domain.
CheckTargets(clean, failed) ==
    IF failed THEN "degraded" ELSE IF clean THEN "healthy" ELSE "drifted"

StartCheck ==
    /\ alive /\ check = Quiet
    /\ IF busy
       THEN /\ check' = [pc |-> "done", verdict |-> "degraded", from |-> stored]
            /\ UNCHANGED <<busy, workers>>
       ELSE /\ workers < MaxWorkers
            /\ check' = [pc |-> "wait", from |-> stored]
            /\ busy' = TRUE /\ workers' = workers + 1
    /\ UNCHANGED <<stored, watched, torn, status, alive>>

\* The worker answers in time; a panic counts as degraded.
Answered(clean, failed) ==
    /\ check.pc = "wait"
    /\ check' = [pc |-> "done", verdict |-> CheckTargets(clean, failed), from |-> check.from]
    /\ busy' = FALSE /\ workers' = workers - 1
    /\ UNCHANGED <<stored, watched, torn, status, alive>>

TimedOut ==
    /\ check.pc = "wait"
    /\ check' = [pc |-> "done", verdict |-> "degraded", from |-> check.from]
    /\ UNCHANGED <<stored, watched, torn, status, busy, workers, alive>>

\* A worker that was given up ends; its verdict goes nowhere.
WorkerEnds ==
    /\ alive /\ workers > 0 /\ check.pc # "wait"
    /\ workers' = workers - 1 /\ busy' = FALSE
    /\ UNCHANGED <<stored, watched, torn, status, check, alive>>

SaveCheck ==
    /\ check.pc = "done"
    /\ \/ stored' = WithCheck(check.verdict) /\ check' = [check EXCEPT !.pc = "saved"]
       \/ stored' \in {stored, WithCheck(check.verdict)}
          /\ check' = [check EXCEPT !.pc = "failed", !.verdict = "degraded"]
    /\ UNCHANGED <<watched, torn, status, busy, workers, alive>>

\* The status, the event and the overlap flag.
Report ==
    /\ check.pc \in {"saved", "failed"}
    /\ status' = check.verdict /\ check' = Quiet
    /\ UNCHANGED <<stored, watched, torn, busy, workers, alive>>

-----------------------------------------------------------------------------

StopDaemon ==
    /\ alive
    /\ alive' = FALSE /\ check' = Quiet /\ busy' = FALSE /\ workers' = 0
    /\ UNCHANGED <<stored, watched, torn, status>>

\* with_store
StartDaemon ==
    /\ ~alive
    /\ alive' = TRUE /\ watched' = ConfigOf(stored) /\ torn' = FALSE
    /\ status' = stored.last
    /\ UNCHANGED <<stored, check, busy, workers>>

DriftNext ==
    \/ \E c \in Configs : SaveConfig(c)
    \/ StartCheck \/ TimedOut \/ WorkerEnds \/ SaveCheck \/ Report
    \/ \E clean, failed \in BOOLEAN : Answered(clean, failed)
    \/ StopDaemon \/ StartDaemon

\* The blocking worker may hang for ever; everything else goes on.
DriftSpec == DriftInit /\ [][DriftNext]_driftVars

-----------------------------------------------------------------------------
(* Properties.                                                             *)

(* However often checks time out and are started again, one thread at most *)
(* is inside the checker.                                                  *)
OneWorker == workers <= 1

(* Saving the result of a check never brings back a configuration that was *)
(* replaced while it ran: the loop and the file agree, unless a save was   *)
(* reported as failed after it had replaced the file.                      *)
ConfigAgrees == alive /\ ~torn => watched = ConfigOf(stored)

(* Between checks, and after a restart, the status is the one on disk or   *)
(* says that something failed.                                             *)
StatusPersisted ==
    alive /\ check = Quiet => status = stored.last \/ status = "degraded"
=============================================================================
