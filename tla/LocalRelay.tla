----------------------------- MODULE LocalRelay -----------------------------
(***************************************************************************)
(* The local MCP relay (packages/mcp-local-relay): one upstream id of the  *)
(* relay manager. A state object holds what the manager knows of a         *)
(* server; `states` maps the id to at most one of them, and the            *)
(* configuration in memory lists its entries. Handlers run to their next   *)
(* await, so management calls and timers interleave there. What an         *)
(* upstream answers, and how a save of the file ends, is reduced to        *)
(* success or failure.                                                     *)
(***************************************************************************)
EXTENDS Naturals, Sequences, FiniteSets

CONSTANTS
  RelayJobs,     \* handlers and timers that may run at a time (a bound)
  MaxEntries,    \* entries of the id in one configuration (a bound)
  MaxStates      \* state objects alive at a time (a bound)

ASSUME LocalRelayBounds == RelayJobs # {} /\ MaxEntries \in Nat /\ MaxStates \in Nat \ {0}

VARIABLES
  lrMapped,   \* the object `states` holds for the id, or 0
  lrObj,      \* the state objects
  lrConfig,   \* config.servers: the enabled flag of each entry of the id
  lrJob,      \* the handlers in flight
  lrFailed    \* a handler has thrown after it changed something

lrVars == <<lrMapped, lrObj, lrConfig, lrJob, lrFailed>>

Objects == 1..MaxStates
Kinds == {"add", "update", "enable", "disable", "remove", "auto", "first"}
IdleJob == [kind |-> "none", obj |-> 0, on |-> FALSE, at |-> "none"]

\* A fresh RelayState.  "lapsed" is history: an update of it has failed.
NewState(on) == [enabled |-> on, timer |-> FALSE, lapsed |-> FALSE]

\* Objects nobody refers to.
Unused(mapped, job) ==
  {o \in Objects : o # mapped /\ ~ lrObj[o].timer /\ \A j \in RelayJobs : job[j].obj # o}

\* The constructor: the last entry of an id wins the map, all entries stay.
\* start refreshes each enabled server at once.
LocalRelayInit ==
  /\ lrConfig \in {<<>>, <<TRUE>>, <<FALSE>>}
  /\ lrMapped = IF lrConfig = <<>> THEN 0 ELSE 1
  /\ lrObj = [o \in Objects |-> NewState(lrConfig # <<>> /\ lrConfig[Len(lrConfig)])]
  /\ lrJob = [j \in RelayJobs |-> IF lrConfig = <<TRUE>> /\ j = CHOOSE k \in RelayJobs : TRUE
                                  THEN [IdleJob EXCEPT !.kind = "first", !.obj = 1, !.at = "refresh"]
                                  ELSE IdleJob]
  /\ lrFailed = FALSE

IdleState(j) == lrJob[j] = IdleJob
Begin(j, kind, o, on, at) ==
  lrJob' = [lrJob EXCEPT ![j] = [kind |-> kind, obj |-> o, on |-> on, at |-> at]]
Ends(j) == lrJob' = [lrJob EXCEPT ![j] = IdleJob]
\* writeConfig: a copy of the configuration is on its way to the file.
Saves(j) == lrJob' = [lrJob EXCEPT ![j].at = "save"]

\* clearAutoRefresh, then a new timer unless the server is disabled.
Scheduled(s) == [s EXCEPT !.timer = s.enabled, !.lapsed = FALSE]

(***************************************************************************)
(* Management handlers, up to their first await.                           *)
(***************************************************************************)
\* addServer: the id must be free now; the object is not in the map yet.
AddServer(j) ==
  /\ IdleState(j) /\ lrMapped = 0 /\ Unused(lrMapped, lrJob) # {}
  /\ \E on \in BOOLEAN : LET o == CHOOSE o \in Unused(lrMapped, lrJob) : TRUE IN
       /\ lrObj' = [lrObj EXCEPT ![o] = NewState(on)]
       /\ Begin(j, "add", o, on, "refresh")
  /\ UNCHANGED <<lrMapped, lrConfig, lrFailed>>

\* updateServer replaces the configuration of the object and drops its
\* timer before the new upstream has answered.
UpdateServer(j) ==
  /\ IdleState(j) /\ lrMapped # 0
  /\ \E on \in BOOLEAN :
       /\ lrObj' = [lrObj EXCEPT ![lrMapped] = NewState(on)]
       /\ Begin(j, "update", lrMapped, on, "refresh")
  /\ UNCHANGED <<lrMapped, lrConfig, lrFailed>>

RemoveServer(j) ==
  /\ IdleState(j) /\ lrMapped # 0
  /\ lrObj' = [lrObj EXCEPT ![lrMapped].timer = FALSE]
  /\ lrMapped' = 0
  /\ lrConfig' = <<>>
  /\ lrJob' = [lrJob EXCEPT ![j] = [IdleJob EXCEPT !.kind = "remove", !.at = "save"]]
  /\ UNCHANGED lrFailed

\* setEnabled marks the object and every entry first.  Enabling waits for
\* the tools; disabling clears the timer in the same turn.
SetEnabled(j, on) ==
  LET config == [i \in DOMAIN lrConfig |-> on] IN
  /\ IdleState(j) /\ lrMapped # 0
  /\ lrObj' = [lrObj EXCEPT ![lrMapped].enabled = on, ![lrMapped].timer = on /\ @]
  /\ lrConfig' = config
  /\ IF on THEN Begin(j, "enable", lrMapped, TRUE, "refresh")
     ELSE lrJob' = [lrJob EXCEPT ![j] = [IdleJob EXCEPT !.kind = "disable", !.at = "save"]]
  /\ UNCHANGED <<lrMapped, lrFailed>>

\* The timer of an object fires.  autoRefreshState leaves an object alone
\* that is not in the map any more, or disabled.
AutoRefresh(j, o) ==
  /\ IdleState(j) /\ lrObj[o].timer
  /\ lrObj' = [lrObj EXCEPT ![o].timer = FALSE]
  /\ IF lrMapped = o /\ lrObj[o].enabled
     THEN Begin(j, "auto", o, TRUE, "refresh")
     ELSE lrJob' = lrJob
  /\ UNCHANGED <<lrMapped, lrConfig, lrFailed>>

(***************************************************************************)
(* What follows the refresh.                                               *)
(***************************************************************************)
\* refreshTools succeeded: an added server enters the configuration, an
\* updated one replaces its entries; both are saved before anything else.
ListedTools(j) ==
  LET job == lrJob[j]
      config == IF job.kind = "add" THEN Append(lrConfig, job.on)
                ELSE [i \in DOMAIN lrConfig |-> job.on] IN
  /\ job.at = "refresh" /\ job.kind \in {"add", "update"} /\ Len(config) <= MaxEntries
  /\ lrConfig' = config
  /\ Saves(j)
  /\ UNCHANGED <<lrMapped, lrObj, lrFailed>>

\* refreshTools failed: add and update throw.
ListFails(j) ==
  LET job == lrJob[j] IN
  /\ job.at = "refresh" /\ job.kind \in {"add", "update"}
  /\ lrObj' = IF job.kind = "add" THEN lrObj ELSE [lrObj EXCEPT ![job.obj].lapsed = TRUE]
  /\ Ends(j)
  /\ UNCHANGED <<lrMapped, lrConfig, lrFailed>>

\* ensureToolsFresh hides failures: enabling arms the timer and saves, a
\* timed refresh arms it again, unless it was the first one of an object
\* that has left the map.
Refreshed(j) ==
  LET job == lrJob[j] IN
  /\ job.at = "refresh" /\ job.kind \in {"enable", "auto", "first"}
  /\ lrObj' = IF job.kind = "first" /\ lrMapped # job.obj
              THEN lrObj ELSE [lrObj EXCEPT ![job.obj] = Scheduled(@)]
  /\ IF job.kind = "enable" THEN Saves(j) ELSE Ends(j)
  /\ UNCHANGED <<lrMapped, lrConfig, lrFailed>>

\* The file is in place: an added server enters the map, and the timer of
\* an added or updated one is armed.
Saved(j) ==
  LET job == lrJob[j] IN
  /\ job.at = "save"
  /\ lrMapped' = IF job.kind = "add" THEN job.obj ELSE lrMapped
  /\ lrObj' = IF job.kind \in {"add", "update"} THEN [lrObj EXCEPT ![job.obj] = Scheduled(@)] ELSE lrObj
  /\ Ends(j)
  /\ UNCHANGED <<lrConfig, lrFailed>>

\* The write fails, or its temporary file was renamed by another save.
SaveFails(j) ==
  LET job == lrJob[j] IN
  /\ job.at = "save"
  /\ lrFailed' = TRUE
  /\ lrObj' = IF job.kind = "update" THEN [lrObj EXCEPT ![job.obj].lapsed = TRUE] ELSE lrObj
  /\ Ends(j)
  /\ UNCHANGED <<lrMapped, lrConfig>>

LocalRelayNext ==
  \E j \in RelayJobs :
    \/ AddServer(j) \/ UpdateServer(j) \/ RemoveServer(j)
    \/ \E on \in BOOLEAN : SetEnabled(j, on)
    \/ \E o \in Objects : AutoRefresh(j, o)
    \/ ListedTools(j) \/ ListFails(j) \/ Refreshed(j) \/ Saved(j) \/ SaveFails(j)

(***************************************************************************)
(* Properties.                                                             *)
(***************************************************************************)
\* No timer keeps a disabled server warm, whichever refresh was in flight
\* when it was disabled (relay-manager.ts scheduleAutoRefresh, setEnabled).
TimerMeansEnabled == \A o \in Objects : lrObj[o].timer => lrObj[o].enabled

\* An enabled server is kept warm: a timer is armed or a handler in flight
\* will arm one, except after an update that failed (relay-manager.ts
\* autoRefreshState, updateServer).
KeptWarm ==
  lrMapped # 0 /\ lrObj[lrMapped].enabled =>
    \/ lrObj[lrMapped].timer \/ lrObj[lrMapped].lapsed
    \/ \E j \in RelayJobs : lrJob[j].obj = lrMapped /\ lrJob[j].kind \in {"update", "enable", "auto", "first"}

\* A configured server is served: an entry of the configuration has its
\* object in the map, or its addition is still being saved, whatever
\* additions and removals of the same id overlap (relay-manager.ts addServer,
\* removeServer).
ConfiguredIsServed ==
  lrConfig # <<>> /\ ~ lrFailed =>
    lrMapped # 0 \/ \E j \in RelayJobs : lrJob[j].kind = "add" /\ lrJob[j].at = "save"
=============================================================================
