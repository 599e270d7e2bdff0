--------------------------- MODULE ServiceAdapter ---------------------------
(***************************************************************************)
(* The service adapter (service_lifecycle.rs): an operation of a plan that *)
(* brings one service of the platform to absent, stopped or running with a *)
(* definition.  The commands of the platform may fail or have their effect *)
(* and still report failure, and the owner may use them meanwhile.         *)
(***************************************************************************)
EXTENDS Naturals, Sequences

CONSTANTS
  Definitions,     \* definitions of the service
  MaxServiceFaults \* failing commands and commands of the owner (a bound)

VARIABLES
  svNow,      \* the service on the platform
  svIntent,   \* the registered intent
  svAt,       \* where the operation is
  svTodo,     \* the commands still to run
  svMet,      \* the owner changed the service since it was prepared
  svBroken,   \* a command of the apply failed
  svFaults

svVars == <<svNow, svIntent, svAt, svTodo, svMet, svBroken, svFaults>>

Missing == [installed |-> FALSE, running |-> FALSE, definition |-> "none"]
States == {Missing} \cup [installed : {TRUE}, running : BOOLEAN, definition : Definitions]
NoIntent == [spec |-> "none", desired |-> "none", before |-> Missing]

\* desired_observed.
DesiredObserved(spec, desired) ==
  IF desired = "absent" THEN Missing
  ELSE [installed |-> TRUE, running |-> desired = "running", definition |-> spec]

ServiceInit ==
  /\ svNow \in States
  /\ svIntent = NoIntent /\ svAt = "idle" /\ svTodo = <<>>
  /\ svMet = FALSE /\ svBroken = FALSE /\ svFaults = 0

\* The platform: what a command leaves behind.
Ran(state, command) ==
  CASE command = "install" -> [state EXCEPT !.installed = TRUE, !.definition = svIntent.spec]
    [] command = "start" -> [state EXCEPT !.running = state.installed]
    [] command = "stop" -> [state EXCEPT !.running = FALSE]
    [] command = "remove" -> Missing

(***************************************************************************)
(* The operation.                                                          *)
(***************************************************************************)
RegisterService ==
  /\ svAt = "idle"
  /\ \E spec \in Definitions, desired \in {"absent", "stopped", "running"} :
       /\ svNow # DesiredObserved(spec, desired)
       /\ svIntent' = [spec |-> spec, desired |-> desired, before |-> svNow]
  /\ svAt' = "planned"
  /\ UNCHANGED <<svNow, svTodo, svMet, svBroken, svFaults>>

\* apply_bound: the commands, from what was seen when the plan was made.
ApplyCommands ==
  LET b == svIntent.before IN
  IF svIntent.desired = "absent"
  THEN (IF b.running THEN <<"stop">> ELSE <<>>) \o (IF b.installed THEN <<"remove">> ELSE <<>>)
  ELSE (IF ~ b.installed \/ b.definition # svIntent.spec THEN <<"install">> ELSE <<>>)
       \o (IF svIntent.desired = "running" THEN <<"start">> ELSE <<"halt">>)

PreparedAsSeen == svNow = svIntent.before
PrepareService ==
  /\ svAt = "planned"
  /\ svAt' = IF PreparedAsSeen THEN "apply" ELSE "refused"
  /\ svTodo' = ApplyCommands
  /\ svMet' = FALSE
  /\ UNCHANGED <<svNow, svIntent, svBroken, svFaults>>

\* execute: the reinspection before a stop is part of the last step.
Does(command) ==
  svNow' = IF command = "halt" THEN (IF svNow.running THEN Ran(svNow, "stop") ELSE svNow)
           ELSE Ran(svNow, command)
ApplyService ==
  /\ svAt = "apply" /\ svTodo # <<>>
  /\ Does(Head(svTodo))
  /\ svTodo' = Tail(svTodo)
  /\ UNCHANGED <<svIntent, svAt, svMet, svBroken, svFaults>>

CommandFails ==
  /\ svAt \in {"apply", "rollback"} /\ svTodo # <<>> /\ svFaults < MaxServiceFaults
  /\ svFaults' = svFaults + 1
  /\ UNCHANGED svNow \/ Does(Head(svTodo))
  /\ svAt' = IF svAt = "apply" THEN "failed" ELSE "stuck"
  /\ svTodo' = <<>>
  /\ svBroken' = (svBroken \/ svAt = "apply")
  /\ UNCHANGED <<svIntent, svMet>>

VerifiesAs == svNow = DesiredObserved(svIntent.spec, svIntent.desired)
VerifyService ==
  /\ svAt = "apply" /\ svTodo = <<>>
  /\ svAt' = IF VerifiesAs THEN "verified" ELSE "failed"
  /\ UNCHANGED <<svNow, svIntent, svTodo, svMet, svBroken, svFaults>>

\* rollback: from what is there now and what was there before.  A service
\* that was installed gets the definition of the intent.
RollbackCommands ==
  IF ~ svIntent.before.installed
  THEN (IF svNow.running THEN <<"stop">> ELSE <<>>) \o (IF svNow.installed THEN <<"remove">> ELSE <<>>)
  ELSE <<"install", IF svIntent.before.running THEN "start" ELSE "stop">>
RollbackService ==
  /\ svAt = "failed"
  /\ svAt' = "rollback" /\ svTodo' = RollbackCommands
  /\ UNCHANGED <<svNow, svIntent, svMet, svBroken, svFaults>>
RollbackStep ==
  /\ svAt = "rollback"
  /\ IF svTodo = <<>> THEN svAt' = "undone" /\ UNCHANGED <<svNow, svTodo>>
     ELSE Does(Head(svTodo)) /\ svTodo' = Tail(svTodo) /\ UNCHANGED svAt
  /\ UNCHANGED <<svIntent, svMet, svBroken, svFaults>>

OwnerUses ==
  /\ svFaults < MaxServiceFaults /\ svAt \in {"planned", "apply", "failed"}
  /\ svFaults' = svFaults + 1 /\ svMet' = TRUE
  /\ \E s \in States \ {svNow} : svNow' = s
  /\ UNCHANGED <<svIntent, svAt, svTodo, svBroken>>

ServiceNext ==
  \/ RegisterService \/ PrepareService \/ ApplyService \/ CommandFails \/ VerifyService
  \/ RollbackService \/ RollbackStep \/ OwnerUses

(***************************************************************************)
(* Properties.                                                             *)
(***************************************************************************)
\* The commands chosen from the state seen when the plan was made bring the
\* service to the desired state: an operation that passed prepare fails only
\* when a command failed or the owner came between (service_lifecycle.rs
\* register, prepare, apply_bound, verify).
FailsOnlyDisturbed == svAt = "failed" => svMet \/ svBroken

\* Wherever the apply stopped, a finished rollback leaves the service as it
\* was, except that one installed with another definition keeps the new one
\* (service_lifecycle.rs rollback).
ServiceUndone == svAt = "undone" /\ ~ svMet =>
  svNow = IF svIntent.before.installed
          THEN [svIntent.before EXCEPT !.definition = svIntent.spec] ELSE svIntent.before
=============================================================================
