------------------------------- MODULE Plans --------------------------------
(***************************************************************************)
(* Plans of the local daemon: how they are built, judged when read back,   *)
(* sealed, stored and accepted for an apply; and the plan of what several  *)
(* providers want, with the authority over each other's places.            *)
(***************************************************************************)
EXTENDS Naturals, Sequences, FiniteSets, SequencesExt

(***************************************************************************)
(* Planning in the local daemon: production_domains.rs builds a plan from  *)
(* the provider inputs and the target as it is, seals the authority of the *)
(* plan (what the inputs, executables and configuration were), and puts    *)
(* the plan into the content-addressed plan store.  An apply is accepted   *)
(* only while everything sealed still holds.  Builds run concurrently, the *)
(* inputs and the provider executables may change at any time, and the     *)
(* daemon may die between any two steps.                                   *)
(***************************************************************************)
CONSTANTS
  PlanInputs,     \* contents the provider inputs may have
  ProviderTools,  \* contents the provider executables and configuration may have
  Builders,       \* plan requests served at a time (a bound)
  MaxMoves        \* changes of inputs or executables, and crashes (a bound)

\* The inputs and the executables always hold something.
ASSUME InputsGiven == PlanInputs # {} /\ ProviderTools # {}

VARIABLES
  plInputs,    \* the provider inputs on disk
  plTools,     \* the provider executables and configuration
  plTarget,    \* what the target holds
  plKey,       \* the sealing key on disk: a number, or 0 while there is none
  plSealed,    \* provider-authority/<plan>.json
  plStore,     \* the plan store: plan -> entry
  plTemps,     \* a crash has left a temporary plan file behind
  plBuild,     \* the requests in progress
  plAccepted,  \* the last accepted apply
  plMoves

plVars == <<plInputs, plTools, plTarget, plKey, plSealed, plStore, plTemps, plBuild, plAccepted, plMoves>>

\* A plan is identified by what it wants and what it found.
PlanIds == [want : PlanInputs, seen : PlanInputs]
NoSeal == [tools |-> "none", inputs |-> "none", key |-> 0, moved |-> FALSE]
NoBuild == [at |-> "idle", want |-> "none", seen |-> "none", moved |-> FALSE, key |-> 0]
NoApply == [want |-> "none", inputs |-> "none", moved |-> FALSE]
PlanOf(b) == [want |-> plBuild[b].want, seen |-> plBuild[b].seen]

PlansInit ==
  /\ plInputs = CHOOSE i \in PlanInputs : TRUE
  /\ plTools = CHOOSE t \in ProviderTools : TRUE
  /\ plTarget = plInputs
  /\ plKey = 0
  /\ plSealed = [p \in PlanIds |-> NoSeal]
  /\ plStore = [p \in PlanIds |-> "absent"]
  /\ plTemps = FALSE
  /\ plBuild = [b \in Builders |-> NoBuild]
  /\ plAccepted = NoApply
  /\ plMoves = 0

(***************************************************************************)
(* The world around the daemon.                                            *)
(***************************************************************************)
InputsMove ==
  /\ plMoves < MaxMoves
  /\ plMoves' = plMoves + 1
  /\ \E i \in PlanInputs \ {plInputs} : plInputs' = i
  /\ plBuild' = [b \in Builders |->
       IF plBuild[b].at \in {"materialized", "observed"} THEN [plBuild[b] EXCEPT !.moved = TRUE] ELSE plBuild[b]]
  /\ UNCHANGED <<plTools, plTarget, plKey, plSealed, plStore, plTemps, plAccepted>>

ToolsMove ==
  /\ plMoves < MaxMoves
  /\ plMoves' = plMoves + 1
  /\ \E t \in ProviderTools \ {plTools} : plTools' = t
  /\ UNCHANGED <<plInputs, plTarget, plKey, plSealed, plStore, plTemps, plBuild, plAccepted>>

(***************************************************************************)
(* build: one step per access to the disk.                                 *)
(***************************************************************************)
\* states_for_plan: the providers read their inputs.  A repository that is
\* dirty or not at its configured revision ends the request here.
Materialize(b) ==
  /\ plBuild[b].at = "idle"
  /\ plBuild' = [plBuild EXCEPT ![b] = [NoBuild EXCEPT !.at = "materialized", !.want = plInputs]]
  /\ UNCHANGED <<plInputs, plTools, plTarget, plKey, plSealed, plStore, plTemps, plAccepted, plMoves>>

\* The target is inspected and the plan is built.
Observe(b) ==
  /\ plBuild[b].at = "materialized"
  /\ plBuild' = [plBuild EXCEPT ![b].at = "observed", ![b].seen = plTarget]
  /\ UNCHANGED <<plInputs, plTools, plTarget, plKey, plSealed, plStore, plTemps, plAccepted, plMoves>>

\* What the record would hold now: the digests of the executables and of the
\* configuration, and those of the inputs, are read when it is sealed.
ToolDigests == plTools
InputDigests == plInputs
SealNow(b, key) == [tools |-> ToolDigests, inputs |-> InputDigests, key |-> key, moved |-> plBuild[b].moved]
SameAuthority(r, s) == r.tools = s.tools /\ r.inputs = s.inputs
Opens(p) == plSealed[p] # NoSeal /\ plSealed[p].key = plKey

\* seal_execution_authority, up to the key: an existing record must open and
\* say the same; then the key is looked for.
CheckSeal(b) ==
  LET p == PlanOf(b) IN
  /\ plBuild[b].at = "observed"
  /\ IF plSealed[p] # NoSeal
     THEN /\ plBuild' = IF Opens(p) /\ SameAuthority(plSealed[p], SealNow(b, plKey))
                        THEN [plBuild EXCEPT ![b].at = "sealed"]
                        ELSE [plBuild EXCEPT ![b] = NoBuild]
          /\ plSealed' = IF Opens(p) /\ SameAuthority(plSealed[p], SealNow(b, plKey))
                         THEN [plSealed EXCEPT ![p].moved = @ \/ plBuild[b].moved] ELSE plSealed
     ELSE /\ plBuild' = [plBuild EXCEPT ![b].at = IF plKey = 0 THEN "keyless" ELSE "keyed", ![b].key = plKey]
          /\ plSealed' = plSealed
  /\ UNCHANGED <<plInputs, plTools, plTarget, plKey, plStore, plTemps, plAccepted, plMoves>>

\* load_or_create_authority_key after it found none: the new key replaces
\* one that another request has made meanwhile.
MakeKey(b) ==
  /\ plBuild[b].at = "keyless"
  /\ plKey' = plKey + 1
  /\ plBuild' = [plBuild EXCEPT ![b].at = "keyed", ![b].key = plKey + 1]
  /\ UNCHANGED <<plInputs, plTools, plTarget, plSealed, plStore, plTemps, plAccepted, plMoves>>

\* The record is renamed into place, over one that appeared meanwhile.
WriteSealLater(b) == \* Mutant: the plan is stored before its authority.
  /\ plBuild[b].at = "keyed"
  /\ plBuild' = [plBuild EXCEPT ![b].at = "sealed"]
  /\ UNCHANGED <<plInputs, plTools, plTarget, plKey, plSealed, plStore, plTemps, plAccepted, plMoves>>
WriteSeal(b) ==
  /\ plBuild[b].at = "keyed"
  /\ plSealed' = [plSealed EXCEPT ![PlanOf(b)] =
       [SealNow(b, plBuild[b].key) EXCEPT !.moved = @ \/ plInputs # plBuild[b].want]]
  /\ plBuild' = [plBuild EXCEPT ![b].at = "sealed"]
  /\ UNCHANGED <<plInputs, plTools, plTarget, plKey, plStore, plTemps, plAccepted, plMoves>>

\* persist: a plan that is there already must be equal; otherwise its bytes
\* go to a temporary file first.
StagePlan(b) ==
  /\ plBuild[b].at = "sealed"
  /\ plBuild' = IF plStore[PlanOf(b)] = "absent" THEN [plBuild EXCEPT ![b].at = "staged"]
                ELSE [plBuild EXCEPT ![b] = NoBuild]
  /\ UNCHANGED <<plInputs, plTools, plTarget, plKey, plSealed, plStore, plTemps, plAccepted, plMoves>>

\* The hard link makes the whole plan appear under its name, unless an equal
\* one has appeared meanwhile; the temporary name is removed after it, by
\* this step or never.
LinkPlan(b) ==
  /\ plBuild[b].at = "staged"
  /\ plStore' = [plStore EXCEPT ![PlanOf(b)] = "whole"]
  /\ plBuild' = [plBuild EXCEPT ![b] = NoBuild]
  /\ UNCHANGED <<plInputs, plTools, plTarget, plKey, plSealed, plTemps, plAccepted, plMoves>>

DaemonStops ==
  /\ plMoves < MaxMoves
  /\ plMoves' = plMoves + 1
  /\ \E b \in Builders : plBuild[b].at # "idle"
  /\ plTemps' = (plTemps \/ \E b \in Builders : plBuild[b].at = "staged")
  /\ plBuild' = [b \in Builders |-> NoBuild]
  /\ UNCHANGED <<plInputs, plTools, plTarget, plKey, plSealed, plStore, plAccepted>>

(***************************************************************************)
(* Readers.                                                                *)
(***************************************************************************)
\* is_allowed_plan_store_entry: temporary files are passed over.
AllowedEntry == TRUE

\* load_latest_matching sees an invalid candidate.
HasInvalidCandidate ==
  \/ \E p \in PlanIds : plStore[p] = "torn"
  \/ plTemps /\ ~ AllowedEntry

\* plan_execution_authority: the record opens, and the executables, the
\* configuration and the inputs are still the sealed ones.
AuthorityHolds(p) == Opens(p) /\ plSealed[p].tools = ToolDigests /\ plSealed[p].inputs = InputDigests

\* apply_plan with a plan of the store; the reconciler refuses a plan whose
\* observation is stale.
AcceptPlan(p) ==
  /\ plStore[p] = "whole" /\ AuthorityHolds(p)
  /\ p.seen = plTarget
  /\ plTarget' = p.want
  /\ plAccepted' = [want |-> p.want, inputs |-> plInputs, moved |-> plSealed[p].moved]
  /\ UNCHANGED <<plInputs, plTools, plKey, plSealed, plStore, plTemps, plBuild, plMoves>>

PlansNext ==
  \/ InputsMove \/ ToolsMove \/ DaemonStops
  \/ \E b \in Builders : \/ Materialize(b) \/ Observe(b) \/ CheckSeal(b) \/ MakeKey(b)
                         \/ WriteSeal(b) \/ StagePlan(b) \/ LinkPlan(b)
  \/ \E p \in PlanIds : AcceptPlan(p)

(***************************************************************************)
(* Properties.                                                             *)
(***************************************************************************)
\* Whatever steps a crash falls between, every plan of the store is whole and
\* a scan reports no invalid candidate: drift checks and onboarding go on
\* (reconcile lib.rs persist, load_latest_matching).
StoreStaysReadable == ~ HasInvalidCandidate

\* A plan that can be approved can be executed: its authority was sealed
\* before it became visible, unless two first requests raced to make the
\* sealing key (production_domains.rs build, load_or_create_authority_key).
StoredIsSealed == plKey <= 1 => \A p \in PlanIds : plStore[p] # "absent" => Opens(p)

\* An accepted apply installs what the provider inputs hold now, unless they
\* moved while the plan was being built (production_domains.rs
\* plan_execution_authority).
AppliedIsCurrent == plAccepted.moved \/ plAccepted.want = plAccepted.inputs

-----------------------------------------------------------------------------
(***************************************************************************)
(* How operations become a plan, and how a stored plan is judged           *)
(* (commonkit-core build_plan; commonkit-reconcile validate_plan).         *)
(*                                                                         *)
(* A plan is rebuilt from its own operations wherever it is read back: in  *)
(* the plan store, in the control plane and before a run.  That only works *)
(* if building is a function of the SET of operations, and the engine's    *)
(* rollback only works if nothing that can be rolled back exactly comes    *)
(* after something that cannot.                                            *)
(***************************************************************************)
CONSTANTS
  OperationIds,     \* the digests of the drafts' operations, ordered as numbers
  DraftOrders,      \* the sequences of operations an adapter may hand over
  MaxDependencies   \* dependencies of one operation (a bound)

\* There are finitely many drafted operations, and their digests are ordered as numbers.
ASSUME OperationsOrdered ==
  OperationIds \subseteq Nat /\ IsFiniteSet(OperationIds) /\ \A order \in DraftOrders : order \in Seq(OperationIds)

VARIABLES
  pbCapability, pbDepends, \* per operation: recovery_capability, depends_on
  pbGenuine,      \* the operations whose id is the digest of their content
  pbDraft,        \* draft.operations: what the loop has not taken yet
  pbOrdered,      \* ordered
  pbStage,        \* where the build is
  pbBuilt,        \* the plan that was built first
  pbStored        \* the operations of a plan that is read back

pbVars == <<pbCapability, pbDepends, pbGenuine, pbDraft, pbOrdered, pbStage, pbBuilt, pbStored>>
operationVars == <<pbCapability, pbDepends, pbGenuine>>

NoOperations == <<>>

PlanBuildingInit ==
  /\ pbCapability = [o \in OperationIds |-> "exact"]
  /\ pbDepends = [o \in OperationIds |-> {}]
  /\ pbGenuine = OperationIds
  /\ pbDraft = NoOperations /\ pbOrdered = NoOperations /\ pbStage = "idle"
  /\ pbBuilt = NoOperations /\ pbStored = NoOperations

\* A caller hands over finalised operations; one id may not fit its content.
HandOver(capability, depends, genuine, order) ==
  /\ pbCapability' = capability /\ pbDepends' = depends /\ pbGenuine' = genuine
  /\ pbDraft' = order /\ pbStage' = "drafted"
  /\ UNCHANGED <<pbOrdered, pbBuilt, pbStored>>

----------------------------------------------------------------------------
(* The checks before the loop. *)
DuplicateOperation(order) == ~IsInjective(order)

MissingDependency(order) == \E i \in DOMAIN order : ~(pbDepends[order[i]] \subseteq Range(order))

\* The search for forward-only work that an operation depends on, however remotely.
Reaches(o) ==
  LET found[n \in 0..Cardinality(OperationIds)] ==
        IF n = 0 THEN pbDepends[o] ELSE found[n - 1] \cup UNION {pbDepends[d] : d \in found[n - 1]}
  IN  found[Cardinality(OperationIds)]

ExactDependsOnForwardOnly(order) ==
  \E i \in DOMAIN order :
    /\ pbCapability[order[i]] = "exact"
    /\ \E d \in Reaches(order[i]) : pbCapability[d] = "forward"

CheckDraft ==
  /\ pbStage = "drafted"
  /\ pbStage' = IF DuplicateOperation(pbDraft) \/ MissingDependency(pbDraft)
                     \/ ExactDependsOnForwardOnly(pbDraft)
                THEN "refused" ELSE "ordering"
  /\ UNCHANGED <<operationVars, pbDraft, pbOrdered, pbBuilt, pbStored>>

----------------------------------------------------------------------------
(* The loop: the least operation among those whose dependencies were emitted. *)
DependenciesEmitted(o) == \A d \in pbDepends[o] : d \in Range(pbOrdered)

\* operation_order: recovery capability first, then what identifies the operation.
OperationOrder(l, r) ==
  IF pbCapability[l] = pbCapability[r] THEN l <= r ELSE pbCapability[l] = "exact"

EmitNext ==
  /\ pbStage = "ordering" /\ pbDraft # NoOperations
  /\ LET ready == {i \in DOMAIN pbDraft : DependenciesEmitted(pbDraft[i])}
         least == {i \in ready : \A j \in ready : OperationOrder(pbDraft[i], pbDraft[j])}
     IN  IF ready = {}
         THEN /\ pbStage' = "refused"       \* DependencyCycle
              /\ UNCHANGED <<pbDraft, pbOrdered>>
         ELSE LET next == CHOOSE i \in least : \A j \in least : i <= j IN
              /\ pbDraft' = RemoveAt(pbDraft, next)
              /\ pbOrdered' = Append(pbOrdered, pbDraft[next])
              /\ UNCHANGED pbStage
  /\ UNCHANGED <<operationVars, pbBuilt, pbStored>>

\* Every id is computed again; then the plan is identified by its operations in order.
FinishPlan ==
  /\ pbStage = "ordering" /\ pbDraft = NoOperations
  /\ IF Range(pbOrdered) \subseteq pbGenuine
     THEN /\ pbStage' = IF pbStored = NoOperations THEN "planned"
                        ELSE IF pbOrdered = pbStored THEN "accepted" ELSE "rejected"
          /\ pbBuilt' = IF pbStored = NoOperations THEN pbOrdered ELSE pbBuilt
     ELSE pbStage' = "refused" /\ UNCHANGED pbBuilt
  /\ UNCHANGED <<operationVars, pbDraft, pbOrdered, pbStored>>

----------------------------------------------------------------------------
(* validate_plan: the plan as it was stored, or with its operations in     *)
(* another order, is built again and compared.                             *)
ReadBack(order) ==
  /\ pbStage = "planned" /\ pbBuilt # NoOperations
  /\ pbStored' = order /\ pbDraft' = order /\ pbOrdered' = NoOperations
  /\ pbStage' = "drafted"
  /\ UNCHANGED <<operationVars, pbBuilt>>

Dependencies == [OperationIds -> {d \in SUBSET OperationIds : Cardinality(d) <= MaxDependencies}]

PlanBuildingNext ==
  \/ /\ pbStage = "idle"
     /\ \E order \in DraftOrders, c \in [OperationIds -> {"exact", "forward"}],
           altered \in OperationIds \cup {0}, d \in Dependencies :
         /\ \A o \in OperationIds : o \notin d[o] /\ (o \notin Range(order) => d[o] = {} /\ c[o] = "exact")
         /\ altered # 0 => d = [o \in OperationIds |-> {}]
         /\ HandOver(c, d, OperationIds \ {altered}, order)
  \/ CheckDraft \/ EmitNext \/ FinishPlan
  \/ \E order \in SetToSeqs(Range(pbBuilt)) : ReadBack(order)

----------------------------------------------------------------------------
(* A plan holds every drafted operation once, behind what it depends on.   *)
(* build_plan removes operations from the draft as their dependencies are  *)
(* emitted; the engine takes the operations in the plan's order.           *)
PlanRunsInOrder ==
  pbBuilt # NoOperations =>
    /\ IsInjective(pbBuilt)
    /\ \A i \in DOMAIN pbBuilt : \A d \in pbDepends[pbBuilt[i]] : \E j \in 1..(i - 1) : pbBuilt[j] = d

(* Nothing that is rolled back exactly comes after work that can only be   *)
(* carried forward: a failure of an exact operation never leaves           *)
(* forward-only work behind it that the rollback would have to undo.       *)
ForwardOnlyLast ==
  \A i, j \in DOMAIN pbBuilt :
    i < j /\ pbCapability[pbBuilt[i]] = "forward" => pbCapability[pbBuilt[j]] = "forward"

(* A plan read back is accepted exactly when its operations are in the     *)
(* order in which the plan was built: building again from any other order  *)
(* of the same operations gives the same plan.                             *)
StoredPlanJudged ==
  /\ pbStage = "accepted" => pbStored = pbBuilt
  /\ pbStage = "rejected" => pbStored # pbBuilt
  /\ pbStored # NoOperations => pbStage # "refused"

-----------------------------------------------------------------------------
(***************************************************************************)
(* From what the providers materialised to the operations of a plan        *)
(* (commonkit-adapters planning.rs, resources.rs).                         *)
(*                                                                         *)
(* Several providers claim places on one target.  A plan is built only if  *)
(* the claims can stand side by side; just before it is applied the claims *)
(* are computed again and must be the ones that were approved.             *)
(***************************************************************************)
CONSTANTS
  ProviderClaims,   \* the lists of resources a provider may materialise
  LowerCase,        \* a path segment's lower case, as a function
  DeclaredRoots, ProtectedRoots  \* OwnershipRules: paths, as sequences of segments

\* Providers list what they claim, and a path is a list of segments.
ASSUME ClaimsListed ==
  \A l \in ProviderClaims : l \in Seq(Range(l)) /\ \A i \in DOMAIN l : l[i].path \in Seq(Range(l[i].path))

VARIABLES
  owStates,      \* the materialised states, in the order they are listed
  owCase,        \* rules.case_sensitive
  owStage,       \* where the planning is
  owApproved,    \* the bindings and claims of the plan that was built
  owRegistered   \* the resources the adapters registered operations for

owVars == <<owStates, owCase, owStage, owApproved, owRegistered>>

NothingApproved == [claims |-> {}, bindings |-> <<>>, case |-> TRUE]

ProviderPlanInit ==
  /\ owStates = <<>> /\ owCase = TRUE /\ owStage = "idle"
  /\ owApproved = NothingApproved /\ owRegistered = {}

\* All resources, each with the provider that claims it, in listed order.
Claims(states) ==
  FlattenSeq([s \in DOMAIN states |->
    [i \in DOMAIN states[s].resources |->
      [resource |-> states[s].resources[i], provider |-> states[s].provider]]])

IsFile(c) == c.resource.kind # "package"

Materialised(states, case) ==
  /\ owStage = "idle"
  /\ owStates' = states /\ owCase' = case /\ owStage' = "materialised"
  /\ UNCHANGED <<owApproved, owRegistered>>

\* The first loop: one state per provider, nothing unsupported, no unmapped effect.
StatesAccepted(states) ==
  /\ IsInjective([s \in DOMAIN states |-> states[s].provider])
  /\ \A s \in DOMAIN states : ~states[s].unsupported

----------------------------------------------------------------------------
(* validate_ownership *)
Lowered(path) == [i \in DOMAIN path |-> LowerCase[path[i]]]

\* contains_path
ContainsPath(case, path, root) == IF case THEN IsPrefix(root, path) ELSE IsPrefix(Lowered(root), Lowered(path))

\* A claim of its own: inside a declared root, and no protected root is reached or replaced.
PlaceAllowed(case, r) ==
  /\ r.kind = "symlink" => ~\E root \in ProtectedRoots : ContainsPath(case, r.leads, root)
  /\ \E root \in DeclaredRoots : ContainsPath(case, r.path, root)
  /\ ~\E root \in ProtectedRoots :
       \/ ContainsPath(case, r.path, root)
       \/ ContainsPath(case, root, r.path) /\ r.kind # "directory"

\* The maps `paths` and `folded`: two claims of one place.
SamePlace(case, l, r) == l.path = r.path \/ (~case /\ Lowered(l.path) = Lowered(r.path))

\* An exact directory of one provider over a claim of another.
ExactConflict(case, exact, other) ==
  /\ exact.resource.kind = "exact" /\ exact.resource.path # other.resource.path
  /\ ContainsPath(case, other.resource.path, exact.resource.path)
  /\ exact.provider # other.provider

ClaimsApart(case, claims) ==
  \A i, j \in DOMAIN claims : i < j /\ IsFile(claims[i]) /\ IsFile(claims[j]) =>
    ~SamePlace(case, claims[i].resource, claims[j].resource)

ExactOverOther(case, claims) ==
  \E i, j \in DOMAIN claims :
    IsFile(claims[i]) /\ IsFile(claims[j]) /\ ExactConflict(case, claims[i], claims[j])

OwnershipValid(case, claims) ==
  /\ \A i, j \in DOMAIN claims :
       i # j /\ ~IsFile(claims[i]) /\ ~IsFile(claims[j]) => claims[i].resource.path # claims[j].resource.path
  /\ \A i \in DOMAIN claims : IsFile(claims[i]) => PlaceAllowed(case, claims[i].resource)
  /\ ClaimsApart(case, claims)
  /\ ~ExactOverOther(case, claims)

----------------------------------------------------------------------------
(* build_provider_plan_from_states *)
\* finalize: a state's resources are sorted before they are digested.
StateDigest(s) == [provider |-> s.provider, resources |-> Range(s.resources)]

\* The digests that bind a plan: of the states, of the ordered claims and of the rules.
Bindings(case, states) == <<{StateDigest(states[s]) : s \in DOMAIN states}, Range(Claims(states)), case>>

Packages(states) == {c \in Range(Claims(states)) : ~IsFile(c)}

\* Validation; a package needs the resolution authority; every artifact must load.
BuildProviderPlan(authority, loads) ==
  /\ owStage = "materialised"
  /\ LET claims == Claims(owStates) IN
     IF /\ StatesAccepted(owStates) /\ OwnershipValid(owCase, claims)
        /\ Packages(owStates) # {} => authority
        /\ loads
     THEN /\ owStage' = "planned"
          /\ owApproved' = [claims |-> Range(claims), bindings |-> Bindings(owCase, owStates), case |-> owCase]
     ELSE owStage' = "refused" /\ UNCHANGED owApproved
  /\ UNCHANGED <<owStates, owCase, owRegistered>>

\* The router's register: an operation for every resource the target does not have yet.
RegisterOperations(converged) ==
  /\ owStage = "planned" /\ owRegistered = {}
  /\ owRegistered' = owApproved.claims \ converged
  /\ owStage' = "registered"
  /\ UNCHANGED <<owStates, owCase, owApproved>>

\* Between approval and apply the providers materialise again and the rules may change.
MaterialiseAgain(states, case) ==
  /\ owStage = "registered"
  /\ owStates' = states /\ owCase' = case /\ owStage' = "approved"
  /\ UNCHANGED <<owApproved, owRegistered>>

\* authority_plan_bindings just before apply; a stale approval is refused.
CheckAuthority(authority) ==
  /\ owStage = "approved"
  /\ owStage' = IF /\ StatesAccepted(owStates) /\ OwnershipValid(owCase, Claims(owStates))
                   /\ Packages(owStates) # {} => authority
                   /\ Bindings(owCase, owStates) = owApproved.bindings
                THEN "applying" ELSE "stale"
  /\ UNCHANGED <<owStates, owCase, owApproved, owRegistered>>

MaterialisedStates(first, second, unsupported) ==
  <<[provider |-> "apm", resources |-> first, unsupported |-> unsupported],
    [provider |-> "chezmoi", resources |-> second, unsupported |-> FALSE]>>

\* What another materialisation may give: the same, listed otherwise, or something else.
Rematerialised ==
  {owStates, Reverse(owStates), <<owStates[1], owStates[1]>>}
    \cup {[owStates EXCEPT ![2].resources = <<>>]}
    \cup {[owStates EXCEPT ![1].resources = Reverse(@), ![2].resources = Reverse(@)]}

ProviderPlanNext ==
  \/ /\ owStage = "idle"
     /\ \E first, second \in ProviderClaims, u, case \in BOOLEAN : Materialised(MaterialisedStates(first, second, u), case)
  \/ \E a, l \in BOOLEAN : BuildProviderPlan(a, l)
  \/ \E c \in {{}, owApproved.claims} : RegisterOperations(c)
  \/ /\ owStage = "registered" /\ \E s \in Rematerialised, case \in BOOLEAN : MaterialiseAgain(s, case)
  \/ \E a \in BOOLEAN : CheckAuthority(a)

----------------------------------------------------------------------------
(* What the target sees: the places a claim may change when it is applied. *)
Affects(case, r, place) ==
  r.kind # "directory" /\ ContainsPath(case, place, r.path)

(* No claim of an accepted plan changes a protected place, by naming it, by *)
(* replacing a directory that holds it or by a link that leads to it, on a *)
(* target that tells upper from lower case and on one that does not.       *)
ProtectedPlacesKept ==
  \A c \in owApproved.claims : IsFile(c) =>
    \A root \in ProtectedRoots :
      /\ ~Affects(owApproved.case, c.resource, root)
      /\ c.resource.kind = "symlink" => ~ContainsPath(owApproved.case, c.resource.leads, root)

(* Applying one provider's claims never undoes another provider's: no two  *)
(* claims are one file on the target, and no exact directory clears away   *)
(* what someone else claims below it.                                      *)
ProvidersKeepApart ==
  \A c, d \in owApproved.claims : IsFile(c) /\ IsFile(d) /\ c # d =>
    /\ ~(ContainsPath(owApproved.case, c.resource.path, d.resource.path)
         /\ ContainsPath(owApproved.case, d.resource.path, c.resource.path))
    /\ (c.resource.kind = "exact" /\ c.provider # d.provider) =>
         ~Affects(owApproved.case, c.resource, d.resource.path)

(* An apply goes on only with the claims and the rules that were approved; *)
(* that the providers list them in another order does not make the         *)
(* approval stale.                                                         *)
AppliedAsApproved ==
  /\ owStage = "applying" => Range(Claims(owStates)) = owApproved.claims /\ owCase = owApproved.case
  /\ owStage = "stale" =>
       \/ Range(Claims(owStates)) # owApproved.claims \/ owCase # owApproved.case
       \/ ~StatesAccepted(owStates) \/ ~OwnershipValid(owCase, Claims(owStates)) \/ Packages(owStates) # {}
  /\ owRegistered \subseteq owApproved.claims
=============================================================================
