--------------------------- MODULE RemoteResolution ---------------------------
(***************************************************************************)
(* Package resolution for a machine reached over SSH.  The helper program  *)
(* of the target (commonkit-target-helper.rs, remote_helper.rs) is started *)
(* afresh for every request, loads its configuration, and resolves or      *)
(* applies; the controller (production_domains.rs) asks, checks the answer,*)
(* pulls the artifacts, and later sends the resolution back to be applied. *)
(***************************************************************************)
EXTENDS Naturals, FiniteSets

CONSTANTS
  Sources,        \* package sources a target can be provisioned for
  Provisions,     \* provisioning commands
  MaxUpgrades,    \* upgrades of the target's package manager (a bound)
  MaxMetadata,    \* releases of new repository metadata (a bound)
  MaxRequests     \* resolutions asked for (a bound)

VARIABLES
  rnManager,      \* the package manager installed on the target
  rnMetadata,     \* the repository metadata a resolution would use now
  rnProvision,    \* what each provisioning command is about to write
  rnConfig,       \* target-helper.json
  rnWanted,       \* the binding in the controller's configuration
  rnRequest,      \* the controller's current request
  rnHelpers,      \* helper processes at work on a resolution
  rnAnswers,      \* answers a helper has given
  rnPulling,      \* the accepted resolution and the artifacts already pulled
  rnKept,         \* resolved intents the controller went on with
  rnMutating,     \* a helper process asked to apply a kept resolution
  rnApplied,      \* resolutions applied, with the configuration they were applied under
  rnNonce         \* nonces used

rnVars == <<rnManager, rnMetadata, rnProvision, rnConfig, rnWanted, rnRequest, rnHelpers, rnAnswers, rnPulling,
            rnKept, rnMutating, rnApplied, rnNonce>>
rnTarget == <<rnManager, rnMetadata, rnProvision, rnConfig>>
rnDone == <<rnKept, rnMutating, rnApplied>>

Unset == [manager |-> 0, source |-> "unset"]
NoRequest == [nonce |-> 0, asked |-> Unset, since |-> 0]
NotAsked == [resolution |-> Unset, pulled |-> 0]
PackageArtifacts == 2

TargetResolutionInit ==
  /\ rnManager = 1 /\ rnMetadata = 1
  /\ rnProvision = [p \in Provisions |-> Unset]
  /\ rnConfig = Unset /\ rnWanted = Unset
  /\ rnRequest = NoRequest /\ rnHelpers = {} /\ rnAnswers = {}
  /\ rnPulling = NotAsked /\ rnKept = {} /\ rnMutating = {} /\ rnApplied = {} /\ rnNonce = 0

(***************************************************************************)
(* The target's owner.                                                     *)
(***************************************************************************)
UpgradeManager ==
  /\ rnManager <= MaxUpgrades
  /\ rnManager' = rnManager + 1
  /\ UNCHANGED <<rnMetadata, rnProvision, rnConfig, rnWanted, rnRequest, rnHelpers, rnAnswers, rnPulling, rnDone, rnNonce>>
ReleaseMetadata ==
  /\ rnMetadata <= MaxMetadata
  /\ rnMetadata' = rnMetadata + 1
  /\ UNCHANGED <<rnManager, rnProvision, rnConfig, rnWanted, rnRequest, rnHelpers, rnAnswers, rnPulling, rnDone, rnNonce>>

\* provision: the manager is probed, then the whole configuration is replaced.
ProbeManagerBinding(p, s) ==
  /\ rnProvision[p] = Unset
  /\ rnProvision' = [rnProvision EXCEPT ![p] = [manager |-> rnManager, source |-> s]]
  /\ UNCHANGED <<rnManager, rnMetadata, rnConfig, rnWanted, rnRequest, rnHelpers, rnAnswers, rnPulling, rnDone, rnNonce>>
WriteConfigAtomic(p) ==
  /\ rnProvision[p] # Unset
  /\ rnConfig' = rnProvision[p]
  /\ rnProvision' = [rnProvision EXCEPT ![p] = Unset]
  /\ UNCHANGED <<rnManager, rnMetadata, rnWanted, rnRequest, rnHelpers, rnAnswers, rnPulling, rnDone, rnNonce>>
\* The owner enters what was provisioned into the controller's configuration.
AdoptBinding ==
  /\ rnConfig # Unset /\ rnWanted # rnConfig /\ rnRequest = NoRequest
  /\ rnWanted' = rnConfig
  /\ UNCHANGED <<rnTarget, rnRequest, rnHelpers, rnAnswers, rnPulling, rnDone, rnNonce>>

(***************************************************************************)
(* Resolution.                                                             *)
(***************************************************************************)
\* resolve_ssh_package_states: a fresh nonce for every package.
SendResolution ==
  /\ rnRequest = NoRequest /\ rnWanted # Unset /\ rnNonce < MaxRequests
  /\ rnNonce' = rnNonce + 1
  /\ rnRequest' = [nonce |-> rnNonce', asked |-> rnWanted, since |-> rnMetadata]
  /\ rnHelpers' = rnHelpers \cup {[nonce |-> rnNonce', asked |-> rnWanted, config |-> Unset, probed |-> 0, at |-> "started"]}
  /\ UNCHANGED <<rnTarget, rnWanted, rnAnswers, rnPulling, rnDone>>

Becoming(h, new) == rnHelpers' = (rnHelpers \ {h}) \cup {new}
HelperRest == UNCHANGED <<rnTarget, rnWanted, rnRequest, rnPulling, rnDone, rnNonce>>
\* run: the configuration is read once per process.
LoadHelperConfig(h) ==
  /\ h.at = "started"
  /\ Becoming(h, [h EXCEPT !.config = rnConfig, !.at = "loaded"])
  /\ UNCHANGED rnAnswers /\ HelperRest
\* package_resolution: what is asked for must be what the target is provisioned for.
AsConfigured(h) == h.config # Unset /\ h.asked = h.config
RefuseRequest(h) ==
  /\ h.at = "loaded" /\ ~ AsConfigured(h)
  /\ rnHelpers' = rnHelpers \ {h}
  /\ UNCHANGED rnAnswers /\ HelperRest
\* probe_manager_binding again: the manager must still be the provisioned one.
ManagerUnchanged(h) == rnManager = h.config.manager
ProbeAgain(h) ==
  /\ h.at = "loaded" /\ AsConfigured(h)
  /\ IF ManagerUnchanged(h) THEN Becoming(h, [h EXCEPT !.probed = rnManager, !.at = "probed"]) ELSE rnHelpers' = rnHelpers \ {h}
  /\ UNCHANGED rnAnswers /\ HelperRest
\* resolve_package_with_backend: the answer's digest covers the request and its nonce.
ResolvePackage(h) ==
  /\ h.at = "probed"
  /\ rnHelpers' = rnHelpers \ {h}
  /\ rnAnswers' = rnAnswers \cup {[nonce |-> h.nonce, asked |-> h.asked,
                                   resolution |-> [binding |-> h.config, metadata |-> rnMetadata, probed |-> h.probed]]}
  /\ HelperRest

(***************************************************************************)
(* The controller.                                                         *)
(***************************************************************************)
\* Every field of the answer is compared with the request, and the attestation with
\* the digest computed from it.
AnyAnswer(a) == a.asked = rnRequest.asked /\ a.resolution.binding = rnWanted \* Mutant: the nonce is not compared.
AnswerMatches(a) == a.nonce = rnRequest.nonce /\ a.asked = rnRequest.asked /\ a.resolution.binding = rnWanted
\* An answer may be one that was given to an earlier request and comes late.
ReceiveAnswer(a) ==
  /\ rnRequest # NoRequest /\ rnPulling = NotAsked
  /\ IF AnswerMatches(a) THEN rnPulling' = [resolution |-> a.resolution, pulled |-> 0] /\ UNCHANGED rnRequest
                         ELSE rnRequest' = NoRequest /\ UNCHANGED rnPulling
  /\ UNCHANGED <<rnTarget, rnWanted, rnHelpers, rnAnswers, rnDone, rnNonce>>
\* The resolution is stored, then pull_remote_package_artifact for each artifact.
PullArtifact ==
  /\ rnPulling # NotAsked /\ rnPulling.pulled < PackageArtifacts
  /\ rnPulling' = [rnPulling EXCEPT !.pulled = @ + 1]
  /\ UNCHANGED <<rnTarget, rnWanted, rnRequest, rnHelpers, rnAnswers, rnDone, rnNonce>>
\* remote_authority.validate, then the state is finalised with the resolved intent.
KeepResolution ==
  /\ rnPulling # NotAsked /\ rnPulling.pulled = PackageArtifacts
  /\ rnKept' = rnKept \cup {[resolution |-> rnPulling.resolution, since |-> rnRequest.since]}
  /\ rnPulling' = NotAsked /\ rnRequest' = NoRequest
  /\ UNCHANGED <<rnTarget, rnWanted, rnHelpers, rnAnswers, rnMutating, rnApplied, rnNonce>>
\* A failed connection, a refused request, a failed pull.
ResolutionFails ==
  /\ rnRequest # NoRequest
  /\ rnRequest' = NoRequest /\ rnPulling' = NotAsked
  /\ UNCHANGED <<rnTarget, rnWanted, rnHelpers, rnAnswers, rnDone, rnNonce>>

(***************************************************************************)
(* Application.                                                            *)
(***************************************************************************)
\* A new helper process, which loads the configuration there is now.
SendMutation(k) ==
  /\ rnMutating = {}
  /\ rnMutating' = {[resolution |-> k.resolution, config |-> rnConfig]}
  /\ UNCHANGED <<rnTarget, rnWanted, rnRequest, rnHelpers, rnAnswers, rnPulling, rnKept, rnApplied, rnNonce>>
\* PackageMutation of dispatch: the resolution is validated against the authority of
\* the helper's own configuration.
ResolutionAuthorised(x) == x.resolution.binding = x.config
ApplyMutation(x) ==
  /\ rnMutating' = {}
  /\ rnApplied' = IF ResolutionAuthorised(x) THEN rnApplied \cup {x} ELSE rnApplied
  /\ UNCHANGED <<rnTarget, rnWanted, rnRequest, rnHelpers, rnAnswers, rnPulling, rnKept, rnNonce>>

TargetResolutionNext ==
  \/ UpgradeManager \/ ReleaseMetadata \/ AdoptBinding
  \/ \E p \in Provisions : WriteConfigAtomic(p) \/ \E s \in Sources : ProbeManagerBinding(p, s)
  \/ SendResolution
  \/ \E h \in rnHelpers : LoadHelperConfig(h) \/ RefuseRequest(h) \/ ProbeAgain(h) \/ ResolvePackage(h)
  \/ \E a \in rnAnswers : ReceiveAnswer(a)
  \/ PullArtifact \/ KeepResolution \/ ResolutionFails
  \/ \E k \in rnKept : SendMutation(k)
  \/ \E x \in rnMutating : ApplyMutation(x)

(***************************************************************************)
(* Properties.                                                             *)
(***************************************************************************)
\* A resolution the controller goes on with was made after it was asked for, with the
\* metadata of that time or newer: an answer that was given to an earlier request and
\* comes late is refused (the nonce of fresh_package_resolution_nonce).
KeptIsFresh == \A k \in rnKept : k.resolution.metadata >= k.since

\* The manager a kept resolution names is the one that was installed when the helper
\* resolved, though it can be upgraded between provisioning and resolving
\* (probe_manager_binding in package_resolution).
KeptNamesInstalled == \A k \in rnKept : k.resolution.probed = k.resolution.binding.manager

\* A resolution is applied only under the configuration it was resolved under: after
\* the target was provisioned anew, what was planned before is refused
\* (validate_resolution in dispatch).
AppliedAsResolved == \A x \in rnApplied : x.config = x.resolution.binding /\ x.config.manager = x.resolution.probed
=============================================================================
