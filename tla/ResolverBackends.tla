-------------------------- MODULE ResolverBackends --------------------------
(***************************************************************************)
(* The production resolvers behind PackageResolution: apt and node.        *)
(***************************************************************************)
EXTENDS Naturals, FiniteSets

(***************************************************************************)
(* The production APT resolver (adapters/src/apt_resolution.rs): it reads  *)
(* key, tools, dpkg configuration and dpkg status, copies them into a      *)
(* private workspace, asks the live dpkg for its installed packages, only  *)
(* then goes to the network, simulates the transaction twice and reads the *)
(* evidence again, while other programs change the host.  Versions are     *)
(* numbers (0: not installed); a digest is what it digests.                *)
(***************************************************************************)
CONSTANTS DebPackages,   \* binary packages
          RootPackage,   \* the one that was asked for
          MaxHostMoves   \* bound on the changes made by other programs

VARIABLES
  aptHost,    \* key, tools, dpkg configuration, installed, unsettled
  aptStep,    \* where the resolver is
  aptSeen,    \* the evidence read at the start
  aptClosure, \* versions of the archives the solver chose
  aptResult,  \* the snapshot that was returned
  aptMoves

aptVars == <<aptHost, aptStep, aptSeen, aptClosure, aptResult, aptMoves>>

NoSnapshot == [closure |-> <<>>]
AptQuiet == "quiet"

AptInit ==
  /\ aptHost = [key |-> 0, tools |-> 0, installed |-> [p \in DebPackages |-> 1],
                unsettled |-> FALSE]
  /\ aptStep = AptQuiet
  /\ aptSeen = aptHost
  /\ aptClosure = <<>>
  /\ aptResult = NoSnapshot
  /\ aptMoves = 0

Abort == aptStep' = AptQuiet /\ UNCHANGED <<aptSeen, aptClosure, aptResult>>
-----------------------------------------------------------------------------
\* The key on disk is the one of the source registry, and the binding made of
\* tools, configuration and key is the one the controller asked for.
AuthorityMatches(e) == e.key = 0 /\ e.tools = 0

\* Key, tools, configuration and status are read before anything is run.
ReadEvidence ==
  /\ aptStep = AptQuiet
  /\ aptSeen' = aptHost
  /\ aptStep' = IF AuthorityMatches(aptHost) THEN "evidence" ELSE AptQuiet
  /\ UNCHANGED <<aptHost, aptClosure, aptResult, aptMoves>>

\* parse_complete_installed_state: no package is between two states and the
\* status file and dpkg-query agree.
InstalledComplete(status, query) ==
  ~status.unsettled /\ ~query.unsettled /\ status.installed = query.installed

\* The local commands run, dpkg-query among them, on the host as it is now.
QueryInstalled ==
  /\ aptStep = "evidence"
  /\ IF AuthorityMatches([aptSeen EXCEPT !.tools = aptHost.tools])
        /\ InstalledComplete(aptSeen, aptHost)
     THEN aptStep' = "network" /\ UNCHANGED <<aptSeen, aptClosure, aptResult>>
     ELSE Abort
  /\ UNCHANGED <<aptHost, aptMoves>>

\* The archives that apt prints and the signed package metadata agree, name by
\* name, and are exactly the simulated closure.
ArchivesMatch(simulated, printed) == simulated # {} /\ simulated = printed

\* find_downgrades: an archive older than what is installed.
Downgrades(closure) ==
  {p \in DOMAIN closure : closure[p] < aptSeen.installed[p]}

\* update, depends, simulate against an empty status, print-uris.
SolveOnNetwork(closure, printed) ==
  /\ aptStep = "network"
  /\ IF ArchivesMatch(DOMAIN closure, printed)
     THEN /\ aptClosure' = closure /\ aptStep' = "solved"
          /\ UNCHANGED <<aptSeen, aptResult>>
     ELSE Abort
  /\ UNCHANGED <<aptHost, aptMoves>>

\* validate_live_safety_simulation: against the copied status the transaction
\* removes nothing and touches only the pinned closure.
LiveSafe(inst, remv) == remv = {} /\ inst \subseteq DOMAIN aptClosure

SimulateLive(inst, remv) ==
  /\ aptStep = "solved"
  /\ IF LiveSafe(inst, remv)
     THEN aptStep' = "simulated" /\ UNCHANGED <<aptSeen, aptClosure, aptResult>>
     ELSE Abort
  /\ UNCHANGED <<aptHost, aptMoves>>

\* Tools, key, configuration and status are read once more.
EvidenceUnchanged ==
  /\ aptHost.key = aptSeen.key /\ aptHost.tools = aptSeen.tools
  /\ aptHost.installed = aptSeen.installed /\ ~aptHost.unsettled

\* validate_snapshot: no risk, and the root is in the closure.
SnapshotValid ==
  /\ Downgrades(aptClosure) = {}
  /\ RootPackage \in DOMAIN aptClosure

ReturnSnapshot ==
  /\ aptStep = "simulated"
  /\ IF EvidenceUnchanged /\ SnapshotValid
     THEN /\ aptResult' = [closure |-> aptClosure, before |-> aptSeen.installed]
          /\ aptStep' = AptQuiet /\ UNCHANGED <<aptSeen, aptClosure>>
     ELSE Abort
  /\ UNCHANGED <<aptHost, aptMoves>>

\* Another program upgrades or removes a package (in two steps), replaces the
\* tools or rotates the key.
HostMoves ==
  /\ aptMoves < MaxHostMoves
  /\ aptMoves' = aptMoves + 1
  /\ \/ aptHost' = [aptHost EXCEPT !.key = 1 - @]
     \/ aptHost' = [aptHost EXCEPT !.tools = 1 - @]
     \/ ~aptHost.unsettled /\ aptHost' = [aptHost EXCEPT !.unsettled = TRUE]
     \/ /\ aptHost.unsettled
        /\ \E p \in DebPackages, v \in 0..2 :
             aptHost' = [aptHost EXCEPT !.unsettled = FALSE, !.installed[p] = v]
  /\ UNCHANGED <<aptStep, aptSeen, aptClosure, aptResult>>

AptNext ==
  \/ ReadEvidence \/ QueryInstalled \/ ReturnSnapshot \/ HostMoves
  \/ \E printed \in SUBSET DebPackages, names \in SUBSET DebPackages :
       \E closure \in [names -> 1..2] : SolveOnNetwork(closure, printed)
  \/ \E inst \in SUBSET DebPackages, remv \in SUBSET DebPackages : SimulateLive(inst, remv)
-----------------------------------------------------------------------------
\* The network is not touched while dpkg is between two states or reports two
\* different sets of packages (with_complete_installed_state).
SettledBeforeNetwork ==
  [aptStep' = "network" /\ aptStep # "network" =>
       ~aptHost.unsettled /\ aptHost.installed = aptSeen.installed]_aptVars

\* A snapshot is about the host as it is when it is returned: its preimage is
\* what is installed and no archive is older than that, whatever other
\* programs did meanwhile (resolve_apt_on_linux).
SnapshotIsCurrent ==
  [aptResult' # aptResult /\ aptResult' # NoSnapshot =>
       /\ aptResult'.before = aptHost.installed
       /\ \A p \in DOMAIN aptResult'.closure :
            aptResult'.closure[p] >= aptHost.installed[p]]_aptVars

-----------------------------------------------------------------------------
(***************************************************************************)
(* The production Node resolver (adapters/src/node_resolution.rs): the     *)
(* host is probed once for all packages of a state, then checksums,        *)
(* signature and archive of a release are fetched one after the other from *)
(* a server that may serve anything and may change between two fetches.    *)
(* Contents are abstract values; the checksum document of a release is the *)
(* archive content it lists.                                               *)
(***************************************************************************)
CONSTANTS ArchiveBytes,  \* contents an archive can have
          Genuine,       \* the contents the release key has signed checksums of
          MaxNodeMoves   \* bound on the changes of the host

VARIABLES
  nodeHost,     \* script, keyring and gpgv of the host: one version
  nodePrepared, \* the host snapshot of the preflight, if there is one
  nodeStep,     \* where resolve_node is
  nodeGot,      \* the checksum document, once it was fetched
  nodeResult,   \* the resolved archives, each with its evidence
  nodeMoves

nodeVars == <<nodeHost, nodePrepared, nodeStep, nodeGot, nodeResult, nodeMoves>>

NodeInit ==
  /\ nodeHost = 0 /\ nodePrepared = {}
  /\ nodeStep = "rest" /\ nodeGot = {}
  /\ nodeResult = {} /\ nodeMoves = 0

NodeFails == nodeStep' = "rest" /\ nodeGot' = {} /\ UNCHANGED nodeResult

\* Signatures a server can serve: the release key signed the genuine documents
\* only, any other key signs anything.
Signatures == [payload : Genuine, key : {"release"}]
              \cup [payload : ArchiveBytes, key : {"other"}]
-----------------------------------------------------------------------------
\* validate_host_snapshot: the probed host is the bound manager.
HostValid(h) == h = 0

\* preflight_resolution: the host is probed once and the snapshot is kept.
PreflightNode ==
  /\ nodeStep = "rest"
  /\ LET host == IF nodePrepared = {} THEN {nodeHost} ELSE nodePrepared
     IN IF \A h \in host : HostValid(h)
        THEN nodePrepared' = host /\ nodeStep' = "sums"
        ELSE UNCHANGED <<nodePrepared, nodeStep>>
  /\ UNCHANGED <<nodeHost, nodeGot, nodeResult, nodeMoves>>

FetchSums(c) ==
  /\ nodeStep = "sums"
  /\ nodeGot' = {c} /\ nodeStep' = "signature"
  /\ UNCHANGED <<nodeHost, nodePrepared, nodeResult, nodeMoves>>

\* The signed payload is the document that was fetched and its signer is one
\* of the pinned release keys; gpgv is the one that was probed.
Authentic(sums, sig) == sig.key = "release" /\ sig.payload = sums

FetchSignature(sig) ==
  /\ nodeStep = "signature"
  /\ IF \A sums \in nodeGot : Authentic(sums, sig)
     THEN nodeStep' = "archive" /\ UNCHANGED <<nodeGot, nodeResult>>
     ELSE NodeFails
  /\ UNCHANGED <<nodeHost, nodePrepared, nodeMoves>>

\* checksum_for_archive names the content exactly once.
ChecksumHolds(sums, bytes) == bytes = sums

FetchArchive(bytes) ==
  /\ nodeStep = "archive"
  /\ IF \A sums \in nodeGot : ChecksumHolds(sums, bytes)
     THEN /\ nodeResult' = nodeResult \cup
               {[archive |-> bytes, sums |-> sums] : sums \in nodeGot}
          /\ nodeStep' = "rest" /\ nodeGot' = {}
     ELSE NodeFails
  /\ UNCHANGED <<nodeHost, nodePrepared, nodeMoves>>

\* The backend of the next plan starts without a snapshot; nvm is upgraded.
NewBackend ==
  /\ nodeStep = "rest" /\ nodePrepared # {}
  /\ nodePrepared' = {}
  /\ UNCHANGED <<nodeHost, nodeStep, nodeGot, nodeResult, nodeMoves>>

NodeHostMoves ==
  /\ nodeMoves < MaxNodeMoves
  /\ nodeHost' = 1 - nodeHost /\ nodeMoves' = nodeMoves + 1
  /\ UNCHANGED <<nodePrepared, nodeStep, nodeGot, nodeResult>>

NodeNext ==
  \/ PreflightNode \/ NewBackend \/ NodeHostMoves
  \/ \E c \in ArchiveBytes : FetchSums(c) \/ FetchArchive(c)
  \/ \E sig \in Signatures : FetchSignature(sig)
-----------------------------------------------------------------------------
\* Whatever the server serves, in whatever order it changes what it serves, an
\* archive is resolved only if the release key signed a document listing it
\* (resolve_node).
ResolvedIsGenuine == \A r \in nodeResult : r.archive \in Genuine

\* The evidence that is persisted describes the archive that is persisted: the
\* target can repeat the verification offline (validate_target_source_evidence).
EvidenceDescribes == \A r \in nodeResult : r.sums = r.archive
=============================================================================
