--------------------------- MODULE ProviderSandbox ---------------------------
(***************************************************************************)
(* The sandbox a provider program runs in (provider_sandbox.rs): bubblewrap*)
(* on Linux, an AppContainer in a job on Windows.  The host grants access, *)
(* starts the provider, watches its run time and the bytes it writes, ends *)
(* everything it started, collects the output and takes the access back.   *)
(* One reader stands for the readers of the two streams.                   *)
(***************************************************************************)
EXTENDS Naturals

CONSTANTS
  SandboxRuns,  \* provider programs run
  SandboxPaths, \* paths whose access list is changed (Windows)
  OutputLimit,  \* output_bytes of ProviderLimits
  MaxWritten    \* bytes a provider writes (a bound)

ASSUME LimitBelowBound == OutputLimit \in Nat /\ MaxWritten \in Nat /\ OutputLimit < MaxWritten

VARIABLES
  sbAt,         \* each run: the step of output
  sbAcl,        \* the runs each path grants access to, besides its own list
  sbSaved,      \* what each run found before its grant, for the paths it has granted
  sbAlive,      \* the processes of each run that live
  sbWritten,    \* bytes written to the pipe
  sbRead,       \* bytes the reader has taken
  sbOverflow,   \* overflow
  sbLimited,    \* limit_failure
  sbResult,
  sbDisturbed   \* runs have overlapped, the host has died or a list could not be restored

sbVars == <<sbAt, sbAcl, sbSaved, sbAlive, sbWritten, sbRead, sbOverflow, sbLimited, sbResult, sbDisturbed>>
sbPipe == <<sbWritten, sbRead, sbOverflow>>
sbAccess == <<sbAcl, sbSaved>>

SandboxInit ==
  /\ sbAt = [r \in SandboxRuns |-> "new"]
  /\ sbAcl = [p \in SandboxPaths |-> {}]
  /\ sbSaved = [r \in SandboxRuns |-> <<>>]
  /\ sbAlive = [r \in SandboxRuns |-> {}]
  /\ sbWritten = [r \in SandboxRuns |-> 0] /\ sbRead = [r \in SandboxRuns |-> 0]
  /\ sbOverflow = [r \in SandboxRuns |-> FALSE] /\ sbLimited = [r \in SandboxRuns |-> FALSE]
  /\ sbResult = [r \in SandboxRuns |-> "none"]
  /\ sbDisturbed = FALSE

Step(r, from, to) == sbAt[r] = from /\ sbAt' = [sbAt EXCEPT ![r] = to]
\* An error return: the guards of the grants are dropped.
FailsAt(r, from) == Step(r, from, "restoring") /\ sbResult' = [sbResult EXCEPT ![r] = "failed"]

\* output: canonical_existing, existing_tree and add_permission.
OpenSandbox(r) ==
  /\ Step(r, "new", "granting")
  /\ sbDisturbed' = (sbDisturbed \/ \E q \in SandboxRuns \ {r} : sbAt[q] \notin {"new", "ended"})
  /\ UNCHANGED <<sbAccess, sbAlive, sbPipe, sbLimited, sbResult>>

Granted(r) == DOMAIN sbSaved[r]
\* AclGrant::install keeps the list it found and adds the entry of this run.
InstallGrant(r, p) ==
  /\ sbAt[r] = "granting" /\ p \notin Granted(r)
  /\ sbSaved' = [sbSaved EXCEPT ![r] = [q \in Granted(r) \cup {p} |-> IF q = p THEN sbAcl[p] ELSE @[q]]]
  /\ sbAcl' = [sbAcl EXCEPT ![p] = @ \cup {r}]
  /\ UNCHANGED <<sbAt, sbAlive, sbPipe, sbLimited, sbResult, sbDisturbed>>
GrantFails(r) ==
  /\ FailsAt(r, "granting")
  /\ UNCHANGED <<sbAccess, sbAlive, sbPipe, sbLimited, sbDisturbed>>

\* platform_output and the rest of output: the provider is contained before it runs.
LaunchProvider(r) ==
  /\ Granted(r) = SandboxPaths
  /\ \/ Step(r, "granting", "waiting") /\ sbAlive' = [sbAlive EXCEPT ![r] = {"provider"}] /\ UNCHANGED sbResult
     \/ FailsAt(r, "granting") /\ UNCHANGED sbAlive
  /\ UNCHANGED <<sbAccess, sbPipe, sbLimited, sbDisturbed>>

(***************************************************************************)
(* The provider and its output.                                            *)
(***************************************************************************)
ProviderForks(r) ==
  /\ "provider" \in sbAlive[r]
  /\ sbAlive' = [sbAlive EXCEPT ![r] = @ \cup {"descendant"}]
  /\ UNCHANGED <<sbAt, sbAccess, sbPipe, sbLimited, sbResult, sbDisturbed>>
ProviderWrites(r) ==
  /\ sbAlive[r] # {} /\ sbWritten[r] < MaxWritten
  /\ sbWritten' = [sbWritten EXCEPT ![r] = @ + 1]
  /\ UNCHANGED <<sbAt, sbAccess, sbAlive, sbRead, sbOverflow, sbLimited, sbResult, sbDisturbed>>
ProviderExits(r) ==
  /\ "provider" \in sbAlive[r]
  /\ sbAlive' = [sbAlive EXCEPT ![r] = @ \ {"provider"}]
  /\ UNCHANGED <<sbAt, sbAccess, sbPipe, sbLimited, sbResult, sbDisturbed>>

\* bounded_reader: the first byte past the limit sets the flag and ends the reader.
BoundedRead(r) ==
  /\ sbRead[r] < sbWritten[r] /\ ~ sbOverflow[r]
  /\ IF sbRead[r] < OutputLimit
     THEN sbRead' = [sbRead EXCEPT ![r] = @ + 1] /\ UNCHANGED sbOverflow
     ELSE sbOverflow' = [sbOverflow EXCEPT ![r] = TRUE] /\ UNCHANGED sbRead
  /\ UNCHANGED <<sbAt, sbAccess, sbAlive, sbWritten, sbLimited, sbResult, sbDisturbed>>
\* The reader ends past the limit, or when nothing is left that could write.
ReaderDone(r) == sbOverflow[r] \/ (sbAlive[r] = {} /\ sbRead[r] = sbWritten[r])

(***************************************************************************)
(* The host waits.                                                         *)
(***************************************************************************)
\* terminate_unix_group; closing the job on Windows.
Terminate(r) == sbAlive' = [sbAlive EXCEPT ![r] = {}]

\* overflow, or the run time is up.
LimitReached(r) ==
  /\ Step(r, "waiting", "joining")
  /\ sbLimited' = [sbLimited EXCEPT ![r] = TRUE]
  /\ Terminate(r)
  /\ UNCHANGED <<sbAccess, sbPipe, sbResult, sbDisturbed>>
\* try_wait, WAIT_OBJECT_0: what the provider left behind is ended too.
ProviderDone(r) ==
  /\ "provider" \notin sbAlive[r]
  /\ Step(r, "waiting", "joining")
  /\ Terminate(r)
  /\ UNCHANGED <<sbAccess, sbPipe, sbLimited, sbResult, sbDisturbed>>
\* The wait itself fails.  On Linux the error is returned as it is: no signal is sent,
\* the readers are not joined.  On Windows the job closes with the frame.
WaitFails(r) ==
  /\ \/ FailsAt(r, "waiting") /\ Terminate(r)
     \/ Step(r, "waiting", "restoring") /\ sbResult' = [sbResult EXCEPT ![r] = "unwaited"] /\ UNCHANGED sbAlive
  /\ UNCHANGED <<sbAccess, sbPipe, sbLimited, sbDisturbed>>
Exceeded(r) == sbLimited[r] \/ sbOverflow[r]
\* The readers are joined and the flag is looked at once more; a reader may have failed.
JoinReaders(r) ==
  /\ \/ /\ ReaderDone(r)
        /\ Step(r, "joining", "restoring")
        /\ sbResult' = [sbResult EXCEPT ![r] = IF Exceeded(r) THEN "failed" ELSE "success"]
     \/ FailsAt(r, "joining")
  /\ UNCHANGED <<sbAccess, sbAlive, sbPipe, sbLimited, sbDisturbed>>

\* AclGrant::restore and drop: a list that cannot be set back stays as it is, and the
\* other guards are dropped all the same.
Forget(r, p) == sbSaved' = [sbSaved EXCEPT ![r] = [q \in Granted(r) \ {p} |-> @[q]]]
RestoreGrant(r, p) ==
  /\ sbAt[r] = "restoring" /\ p \in Granted(r)
  /\ Forget(r, p)
  /\ \/ sbAcl' = [sbAcl EXCEPT ![p] = sbSaved[r][p]] /\ UNCHANGED <<sbDisturbed, sbResult>>
     \/ UNCHANGED sbAcl /\ sbDisturbed' = TRUE
        /\ sbResult' = [sbResult EXCEPT ![r] = IF @ = "unwaited" THEN @ ELSE "failed"]
  /\ UNCHANGED <<sbAt, sbAlive, sbPipe, sbLimited>>
CloseSandbox(r) ==
  /\ Granted(r) = {}
  /\ Step(r, "restoring", "ended")
  /\ UNCHANGED <<sbAccess, sbAlive, sbPipe, sbLimited, sbResult, sbDisturbed>>

\* The host dies: --die-with-parent, and the job closes with its last handle.
HostDies(r) ==
  /\ sbAt[r] \notin {"new", "ended"} \/ sbAlive[r] # {}
  /\ sbAt' = [sbAt EXCEPT ![r] = "ended"]
  /\ Terminate(r)
  /\ sbDisturbed' = TRUE
  /\ UNCHANGED <<sbAccess, sbPipe, sbLimited, sbResult>>

SandboxNext == \E r \in SandboxRuns :
  \/ OpenSandbox(r) \/ GrantFails(r) \/ LaunchProvider(r)
  \/ ProviderForks(r) \/ ProviderWrites(r) \/ ProviderExits(r) \/ BoundedRead(r)
  \/ LimitReached(r) \/ ProviderDone(r) \/ WaitFails(r) \/ JoinReaders(r) \/ CloseSandbox(r) \/ HostDies(r)
  \/ \E p \in SandboxPaths : InstallGrant(r, p) \/ RestoreGrant(r, p)

(***************************************************************************)
(* Properties.                                                             *)
(***************************************************************************)
\* Only a wait that failed leaves a process of a provider alive: after any other end
\* of the wait nothing lives, so the readers meet the end of the pipe ("Provider
\* completion never licenses detached descendants", bounded_unix_output; the job is
\* closed before the join).
NothingOutlives ==
  \A r \in SandboxRuns : sbAlive[r] # {} => sbAt[r] = "waiting" \/ sbResult[r] = "unwaited"

\* An output that is returned is everything the provider wrote: a reader that stopped
\* at the limit after the provider ended is noticed (the second look at overflow).
SuccessIsWhole == \A r \in SandboxRuns : sbResult[r] = "success" => sbRead[r] = sbWritten[r]

\* When every run is over each path has the access list it had before, whichever step
\* failed, unless runs overlapped, the host died or a list could not be set back.
AccessRestored ==
  (~ sbDisturbed /\ \A r \in SandboxRuns : sbAt[r] \in {"new", "ended"}) => \A p \in SandboxPaths : sbAcl[p] = {}
=============================================================================
