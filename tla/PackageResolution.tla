------------------------- MODULE PackageResolution --------------------------
(***************************************************************************)
(* Resolving packages, and the fetch the resolution uses.                  *)
(***************************************************************************)
EXTENDS Naturals, FiniteSets

(***************************************************************************)
(* Package resolution (adapters/src/package_resolution.rs): the            *)
(* coordinator preflights every package of a state, prepares all of them,  *)
(* then fetches and persists each.  The node backend downloads while it    *)
(* prepares (resolve_and_fetch), and what it holds is persisted later.     *)
(* Later, in another process and perhaps                                   *)
(* under another policy or registry, a persisted resolution is loaded and  *)
(* accepted.  The backend's draft, the servers' redirects and the fetched  *)
(* bytes are whatever they like to be.                                     *)
(***************************************************************************)
CONSTANTS Wanted,        \* packages of the state, each with its own source
          Locators,      \* https locations
          ApprovedRoots, \* the locations under the approved artifact roots
          MaxHops        \* hops of one fetch (0..=10 in the code)

ASSUME LocatorsAreOthers == {"stored", "held"} \cap ApprovedRoots = {}

VARIABLES
  resStep,      \* where the coordinator is: "prepare", or "discover" with the node backend, ...
  resDraft,     \* package -> "none", "valid" (prepared), "fetched" (and its bytes held) or "stored"
  resFetch,     \* the fetch under way: package, current locator, visited
  resContacted, \* every location contacted
  resArtifacts, \* artifacts in the store, by package of a closure
  resStored,    \* persisted resolutions: package, closure, definition
  resDefs,      \* current definition digest of each source
  resAllowed,   \* sources the current policy allows
  resAccepted   \* resolutions accepted into a plan

resVars == <<resStep, resDraft, resFetch, resContacted, resArtifacts,
             resStored, resDefs, resAllowed, resAccepted>>

NoFetch == [pkg |-> "none"]
Idle == "idle"

ResolutionInit ==
  /\ resStep = Idle
  /\ resDraft = [p \in Wanted |-> "none"]
  /\ resFetch = NoFetch
  /\ resContacted = {} /\ resArtifacts = {} /\ resStored = {}
  /\ resDefs = [p \in Wanted |-> 0]
  /\ resAllowed = Wanted
  /\ resAccepted = {}

\* A source is named after the package that asks for it.
SourceOf(p) == p
-----------------------------------------------------------------------------
\* Policy and registry hold for the declaration: preflight_desired.
PreflightDesired(p) == SourceOf(p) \in resAllowed

\* validate_closure and canonicalize_draft on what the backend returned: the
\* root is there, and every member comes from the root's own source.
ClosureValid(p, rooted, sources) ==
  /\ rooted
  /\ \A s \in sources : s \in resAllowed /\ s = SourceOf(p)

\* resolve_state: every package is preflighted, by the policy and by what the
\* backend can do, before any is prepared.
PreflightState(first, capable) ==
  /\ resStep = Idle
  /\ resStep' = IF capable /\ \A p \in Wanted : PreflightDesired(p) THEN first ELSE Idle
  /\ resDraft' = [p \in Wanted |-> "none"]
  /\ UNCHANGED <<resFetch, resContacted, resArtifacts, resStored, resDefs,
                 resAllowed, resAccepted>>

AllPrepared(draft) == \A p \in Wanted : draft[p] # "none"

\* The bytes that resolve_and_fetch has and that no store holds yet.
Held(p) == [pkg |-> p, at |-> "held", visited |-> {}]

\* prepare_resolution: the backend's draft is validated or resolution fails.
PrepareResolution(p, rooted, sources) ==
  /\ resDraft[p] = "none"
  /\ resStep = "prepare" \/ (resStep = "discover" /\ resFetch = Held(p))
  /\ IF ClosureValid(p, rooted, sources)
     THEN /\ resDraft' = [resDraft EXCEPT ![p] = IF resStep = "discover" THEN "fetched" ELSE "valid"]
          /\ resStep' = IF AllPrepared(resDraft') THEN "persist" ELSE resStep
     ELSE resStep' = Idle /\ UNCHANGED resDraft
  /\ resFetch' = NoFetch
  /\ UNCHANGED <<resContacted, resArtifacts, resStored, resDefs,
                 resAllowed, resAccepted>>
-----------------------------------------------------------------------------

\* validate_fetch_locator: within one of the approved roots.
LocatorApproved(l) == l \in ApprovedRoots

\* The node backend fetches for a package that it is preparing, persist_prepared
\* for one that is prepared and has no bytes yet.
FetchWanted(p) ==
  \/ resStep = "discover" /\ resDraft[p] = "none"
  \/ resStep = "persist" /\ resDraft[p] = "valid"

StartFetch(p, l) ==
  /\ FetchWanted(p) /\ resFetch = NoFetch
  /\ IF LocatorApproved(l)
     THEN resFetch' = [pkg |-> p, at |-> l, visited |-> {}] /\ UNCHANGED resStep
     ELSE resStep' = Idle /\ UNCHANGED resFetch
  /\ UNCHANGED <<resDraft, resContacted, resArtifacts, resStored, resDefs,
                 resAllowed, resAccepted>>

Hopping == resFetch # NoFetch /\ resFetch.at \notin {"stored", "held"}

\* A location met twice ends the fetch before it is contacted again.
FetchLoops ==
  /\ Hopping /\ resFetch.at \in resFetch.visited
  /\ resFetch' = NoFetch /\ resStep' = Idle
  /\ UNCHANGED <<resDraft, resContacted, resArtifacts, resStored, resDefs,
                 resAllowed, resAccepted>>

\* One hop that the server answers with a redirect.
FetchRedirect(l) ==
  /\ Hopping /\ resFetch.at \notin resFetch.visited
  /\ resContacted' = resContacted \cup {resFetch.at}
  /\ IF Cardinality(resFetch.visited) + 1 < MaxHops /\ LocatorApproved(l)
     THEN /\ resFetch' = [resFetch EXCEPT !.at = l, !.visited = @ \cup {resFetch.at}]
          /\ UNCHANGED resStep
     ELSE resFetch' = NoFetch /\ resStep' = Idle
  /\ UNCHANGED <<resDraft, resArtifacts, resStored, resDefs, resAllowed, resAccepted>>

Fetched(p) == [pkg |-> p, at |-> "stored", visited |-> {}]

\* The hop that completes: the bytes match size, checksum and metadata (for the
\* node backend, the signed checksums) or resolution fails.  A prepared package's
\* artifact is put into the store, the bytes of one being prepared are held.
FetchComplete(good) ==
  /\ Hopping /\ resFetch.at \notin resFetch.visited
  /\ resContacted' = resContacted \cup {resFetch.at}
  /\ \/ /\ good /\ resStep = "persist"
        /\ resArtifacts' = resArtifacts \cup {resFetch.pkg} /\ resFetch' = Fetched(resFetch.pkg)
        /\ UNCHANGED resStep
     \/ /\ good /\ resStep = "discover"
        /\ resFetch' = Held(resFetch.pkg) /\ UNCHANGED <<resStep, resArtifacts>>
     \/ ~good /\ resStep' = Idle /\ resFetch' = NoFetch /\ UNCHANGED resArtifacts
  /\ UNCHANGED <<resDraft, resStored, resDefs, resAllowed, resAccepted>>

\* persist_prepared puts the bytes that came with the draft.
StoreHeld(p) ==
  /\ resStep = "persist" /\ resDraft[p] = "fetched" /\ resFetch = NoFetch
  /\ resArtifacts' = resArtifacts \cup {p} /\ resFetch' = Fetched(p)
  /\ UNCHANGED <<resStep, resDraft, resContacted, resStored, resDefs, resAllowed, resAccepted>>

ArtifactsReady(p) == resFetch = Fetched(p)

\* The resolution itself is put into the store last.
PersistResolution(p) ==
  /\ resStep = "persist" /\ resDraft[p] \in {"valid", "fetched"} /\ ArtifactsReady(p)
  /\ resStored' = resStored \cup {[pkg |-> p, def |-> resDefs[SourceOf(p)]]}
  /\ resDraft' = [resDraft EXCEPT ![p] = "stored"]
  /\ resFetch' = NoFetch
  /\ UNCHANGED <<resStep, resContacted, resArtifacts, resDefs, resAllowed, resAccepted>>

\* The resolved state is finalised when every package has its resolution.
ResolveStateDone ==
  /\ resStep = "persist"
  /\ resFetch = NoFetch /\ \A p \in Wanted : resDraft[p] = "stored"
  /\ resStep' = Idle
  /\ UNCHANGED <<resDraft, resFetch, resContacted, resArtifacts, resStored, resDefs,
                 resAllowed, resAccepted>>
-----------------------------------------------------------------------------
\* Mutant: the policy is a matter of resolution only.
EnforcedAtResolution(r) == TRUE

\* enforce_current_package_sources over the declaration and the closure.
Enforced(r) == SourceOf(r.pkg) \in resAllowed

\* load_persisted and load_and_validate: the artifacts are in the store and
\* the source definition is still the one the resolution is bound to.
LoadAndValidate(r) ==
  /\ r.pkg \in resArtifacts
  /\ resDefs[SourceOf(r.pkg)] = r.def

AcceptResolution(r) ==
  /\ r \in resStored
  /\ LoadAndValidate(r) /\ Enforced(r)
  /\ resAccepted' = resAccepted \cup {r}
  /\ UNCHANGED <<resStep, resDraft, resFetch, resContacted, resArtifacts, resStored,
                 resDefs, resAllowed>>

\* The daemon ends in the middle of a resolution.
ResolverDies ==
  /\ resStep # Idle
  /\ resStep' = Idle /\ resFetch' = NoFetch
  /\ resDraft' = [p \in Wanted |-> "none"]
  /\ UNCHANGED <<resContacted, resArtifacts, resStored, resDefs, resAllowed, resAccepted>>

\* Between resolutions the owner changes the policy or a source definition.
AuthorityRevised(p) ==
  /\ resStep = Idle
  /\ \/ resAllowed' = resAllowed \ {p} /\ UNCHANGED resDefs
     \/ resDefs' = [resDefs EXCEPT ![p] = 1] /\ UNCHANGED resAllowed
  /\ UNCHANGED <<resStep, resDraft, resFetch, resContacted, resArtifacts, resStored,
                 resAccepted>>

ResolutionNext ==
  \/ \E first \in {"prepare", "discover"}, capable \in BOOLEAN : PreflightState(first, capable)
  \/ ResolveStateDone \/ ResolverDies \/ FetchLoops
  \/ \E p \in Wanted, rooted \in BOOLEAN, sources \in SUBSET Wanted :
       PrepareResolution(p, rooted, sources)
  \/ \E p \in Wanted, l \in Locators : StartFetch(p, l)
  \/ \E l \in Locators : FetchRedirect(l)
  \/ \E good \in BOOLEAN : FetchComplete(good)
  \/ \E p \in Wanted : StoreHeld(p) \/ PersistResolution(p) \/ AuthorityRevised(p)
  \/ \E r \in resStored : AcceptResolution(r)
-----------------------------------------------------------------------------
\* No server outside the approved roots is contacted, whatever the approved
\* servers redirect to (RecordingPackageFetch::fetch_hop).
OnlyApprovedContacted == resContacted \subseteq ApprovedRoots

\* A resolution in the store has its artifacts in the store, even when the
\* daemon dies between two puts (persist_prepared).
ResolutionMeansArtifacts == \A r \in resStored : r.pkg \in resArtifacts

\* No server is contacted for a state one of whose packages the policy refuses,
\* though the node backend downloads before the others are prepared, and nothing
\* is kept for a state one of whose packages could not be prepared, whichever
\* backend fetched and whatever was held when it failed (resolve_state).
PreparedFirst ==
  [(resContacted' # resContacted => \A p \in Wanted : PreflightDesired(p))
       /\ (resArtifacts' # resArtifacts \/ resStored' # resStored =>
             \A p \in Wanted : resDraft[p] # "none")]_resVars

\* A resolution enters a plan only under the policy and the registry of that
\* moment (PackageResolutionAuthority::validate).
AcceptedIsCurrent ==
  [\A r \in resAccepted' \ resAccepted :
       /\ SourceOf(r.pkg) \in resAllowed
       /\ resDefs[SourceOf(r.pkg)] = r.def]_resVars

-----------------------------------------------------------------------------
(***************************************************************************)
(* Fetching package metadata and artifacts (ProductionPackageFetch of      *)
(* production_domains.rs, TargetPackageFetch of remote_helper.rs).  The    *)
(* name of a locator is resolved once, checked, and pinned; names go on    *)
(* changing, and a server sends what it likes.                             *)
(***************************************************************************)
CONSTANTS
  FetchLocators,       \* well-formed locators, one host each
  Addresses,      \* addresses a name server may answer with
  PrivateAddresses,        \* the addresses unsafe_destination refuses
  MaximumBytes,   \* the size a request allows
  MaxRenames,     \* changes of a name server's answer (a bound)
  MaxFetchHops         \* fetches of one session (a bound)

ASSUME UnsafeAreAddresses == PrivateAddresses \subseteq Addresses
ASSUME FetchBounds == MaximumBytes \in Nat /\ "none" \notin Addresses

VARIABLES
  pfNames,        \* what each host's name resolves to now
  pfPinned,       \* pinned_addresses
  pfFetch,        \* the fetch in progress
  pfBytes,        \* bytes collected of it
  pfContacted,    \* connections opened
  pfComplete,     \* sizes of completed fetches
  pfRenames,
  pfHops

pfVars == <<pfNames, pfPinned, pfFetch, pfBytes, pfContacted, pfComplete, pfRenames, pfHops>>
NothingFetched == [locator |-> "none", at |-> "idle", address |-> "none"]
NotPinned == "none"

FetchInit ==
  /\ pfNames = [l \in FetchLocators |-> {CHOOSE a \in Addresses : a \notin PrivateAddresses}]
  /\ pfPinned = [l \in FetchLocators |-> NotPinned]
  /\ pfFetch = NothingFetched /\ pfBytes = 0 /\ pfContacted = {} /\ pfComplete = {} /\ pfRenames = 0 /\ pfHops = 0

\* validated_package_fetch_addresses: every address of the answer must be public.
AnswerIsSafe(l) == pfNames[l] # {} /\ pfNames[l] \cap PrivateAddresses = {}

\* pin_url: the first address of a checked answer, remembered for the session.
PinUrl(l, a) ==
  IF pfPinned[l] # NotPinned THEN a = pfPinned[l] /\ UNCHANGED pfPinned
  ELSE AnswerIsSafe(l) /\ a \in pfNames[l] /\ pfPinned' = [pfPinned EXCEPT ![l] = a]

\* preflight_locators pins every approved locator before anything is fetched.
PreflightLocator(l) ==
  /\ pfFetch = NothingFetched /\ pfHops = 0
  /\ \E a \in Addresses : PinUrl(l, a)
  /\ UNCHANGED <<pfNames, pfFetch, pfBytes, pfContacted, pfComplete, pfRenames, pfHops>>

\* client_for_url: the client of a hop is built for the pinned address.
ClientForUrl(l) ==
  /\ pfFetch = NothingFetched /\ pfHops < MaxFetchHops
  /\ \E a \in Addresses : PinUrl(l, a) /\ pfFetch' = [locator |-> l, at |-> "client", address |-> a]
  /\ pfHops' = pfHops + 1 /\ pfBytes' = 0
  /\ UNCHANGED <<pfNames, pfContacted, pfComplete, pfRenames>>
\* The connection goes to that address, whatever the name means by then (resolve of
\* the client builder).
ConnectsTo(a) == a = pfFetch.address
SendRequest ==
  /\ pfFetch.at = "client"
  /\ \E a \in Addresses : ConnectsTo(a) /\ pfContacted' = pfContacted \cup {<<pfFetch.locator, a>>}
  /\ pfFetch' = [pfFetch EXCEPT !.at = "sent"]
  /\ UNCHANGED <<pfNames, pfPinned, pfBytes, pfComplete, pfRenames, pfHops>>

HopEnds == pfFetch' = NothingFetched
\* A redirect is reported to the caller, an error status or a declared length above
\* the maximum ends the fetch.
FetchAnswered(declared) ==
  /\ pfFetch.at = "sent"
  /\ \/ HopEnds
     \/ declared <= MaximumBytes /\ pfFetch' = [pfFetch EXCEPT !.at = "stream"]
  /\ UNCHANGED <<pfNames, pfPinned, pfBytes, pfContacted, pfComplete, pfRenames, pfHops>>
\* The length of each chunk is added before the chunk is kept.
ChunkFits(n) == pfBytes + n <= MaximumBytes
NextChunk(n) ==
  /\ pfFetch.at = "stream"
  /\ IF ChunkFits(n) THEN pfBytes' = pfBytes + n /\ UNCHANGED pfFetch ELSE HopEnds /\ UNCHANGED pfBytes
  /\ UNCHANGED <<pfNames, pfPinned, pfContacted, pfComplete, pfRenames, pfHops>>
StreamEnds ==
  /\ pfFetch.at = "stream"
  /\ HopEnds
  /\ pfComplete' = pfComplete \cup {pfBytes}
  /\ UNCHANGED <<pfNames, pfPinned, pfBytes, pfContacted, pfRenames, pfHops>>

\* The name server.
Rename(l, answer) ==
  /\ pfRenames < MaxRenames
  /\ pfRenames' = pfRenames + 1
  /\ pfNames' = [pfNames EXCEPT ![l] = answer]
  /\ UNCHANGED <<pfPinned, pfFetch, pfBytes, pfContacted, pfComplete, pfHops>>

FetchNext ==
  \/ \E l \in FetchLocators : PreflightLocator(l) \/ ClientForUrl(l)
  \/ SendRequest \/ StreamEnds
  \/ \E n \in 1..MaximumBytes + 1 : FetchAnswered(n) \/ NextChunk(n)
  \/ \E l \in FetchLocators, answer \in SUBSET Addresses : Rename(l, answer)

(***************************************************************************)
(* Properties.                                                             *)
(***************************************************************************)
\* No connection is made to an address unsafe_destination refuses, though the name
\* may change after it was checked (client_for_url connects to the checked address).
ContactedIsPublic == \A c \in pfContacted : c[2] \notin PrivateAddresses

\* Within one resolution a locator is served from one address, however its name
\* changes between the hops (pinned_addresses).
OneAddressEach == \A c, d \in pfContacted : c[1] = d[1] => c[2] = d[2]

\* A fetch never holds or returns more than the request allows, whatever length the
\* server declares and sends.
NeverTooMuch == pfBytes <= MaximumBytes /\ \A n \in pfComplete : n <= MaximumBytes
=============================================================================
