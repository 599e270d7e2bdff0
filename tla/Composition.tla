---------------------------- MODULE Composition ----------------------------
(***************************************************************************)
(* Layers composed into one specification (commonkit-config), under the    *)
(* organisation's policy floor (commonkit-core), by the daemon, by the     *)
(* command line and during onboarding.                                     *)
(*                                                                         *)
(* Owners edit the layer files while they are read one by one; the         *)
(* configuration lists them in any order.  A specification is a function   *)
(* from some of the Fields to values; every field has its own merge rule.  *)
(***************************************************************************)
EXTENDS Naturals, FiniteSets, Sequences, SequencesExt

CONSTANTS
  LayerSpecs,     \* per kind of layer: the specifications its owner may write
  DeleteMark,     \* {"$delete": true} in place of a value
  ListedLayers,   \* the orders in which a configuration may list its layers
  MaxLayerEdits   \* edits of layer files (a bound)

VARIABLES
  coFiles,    \* per kind: the layer file, [spec, sealed]: does its content digest fit
  coListed,   \* config.layers, as the kinds of the files it lists
  coEntry,    \* who composes: "daemon", "cli" or "onboarding"
  coRead,     \* the layers read so far
  coResult,   \* the composition: [layers, spec, winners] or a refusal
  coEdits     \* edits so far

coVars == <<coFiles, coListed, coEntry, coRead, coResult, coEdits>>

LayerKinds == <<"base", "organisation", "personal", "project", "target">>
CompositionEntries == {"daemon", "cli", "onboarding"}
NoComposition == [accepted |-> FALSE]

\* A list of packages: an item is a function from the fields it has to their values; all have an id.
Listing(items) == items \in Seq(Range(items)) /\ \A p \in Range(items) : "id" \in DOMAIN p

\* Layers are of the known kinds, and a specification's packages are a list.
ASSUME LayersKnown ==
  /\ DOMAIN LayerSpecs \subseteq Range(LayerKinds)
  /\ \A listed \in ListedLayers : listed \in Seq(DOMAIN LayerSpecs)
  /\ \A k \in DOMAIN LayerSpecs : \A s \in LayerSpecs[k] :
       "packages" \in DOMAIN s => s.packages = DeleteMark \/ Listing(s.packages)

CompositionInit ==
  /\ coFiles \in [DOMAIN LayerSpecs -> {[spec |-> << >>, sealed |-> TRUE]}]
  /\ coListed = <<>> /\ coEntry = "nobody" /\ coRead = <<>>
  /\ coResult = NoComposition /\ coEdits = 0

\* An owner writes a layer; the digest it carries may be that of the earlier content.
EditLayer(k, spec, sealed) ==
  /\ coEdits < MaxLayerEdits /\ coEdits' = coEdits + 1
  /\ coFiles' = [coFiles EXCEPT ![k] = [spec |-> spec, sealed |-> sealed]]
  /\ UNCHANGED <<coListed, coEntry, coRead, coResult>>

BeginComposition(entry, listed) ==
  /\ coEntry = "nobody"
  /\ coEntry' = entry /\ coListed' = listed /\ coRead' = <<>> /\ coResult' = NoComposition
  /\ UNCHANGED <<coFiles, coEdits>>

\* The daemon and onboarding check the content digest of what they read; the command line does not.
ReadLayer ==
  /\ coEntry # "nobody" /\ Len(coRead) < Len(coListed)
  /\ LET k == coListed[Len(coRead) + 1] IN
     IF coFiles[k].sealed \/ coEntry = "cli"
     THEN coRead' = Append(coRead, [kind |-> k, spec |-> coFiles[k].spec]) /\ UNCHANGED coEntry
     ELSE coEntry' = "nobody" /\ UNCHANGED coRead
  /\ UNCHANGED <<coFiles, coListed, coResult, coEdits>>

----------------------------------------------------------------------------
(* LayerSet::new *)
Precedence(k) == CHOOSE i \in DOMAIN LayerKinds : LayerKinds[i] = k

LayerSetValid(layers) ==
  /\ IsInjective([i \in DOMAIN layers |-> layers[i].kind])
  /\ {"base", "organisation"} \subseteq {layers[i].kind : i \in DOMAIN layers}

InPrecedence(layers) ==
  CHOOSE q \in [DOMAIN layers -> Range(layers)] :
    /\ Range(q) = Range(layers)
    /\ \A i, j \in DOMAIN q : i < j => Precedence(q[i].kind) < Precedence(q[j].kind)

----------------------------------------------------------------------------
(* merge_value, field by field; a field the base lacks is taken over as it is. *)
\* v1_merge_rules
Strategy(field) ==
  CASE field = "deniedPaths" -> "SetUnion"
    [] field = "packages" -> "MergeById"
    [] OTHER -> "Replace"

\* merge_value of two items: what the overlay leaves out (a selector, say) stays.
MergeItem(base, overlay) ==
  [f \in DOMAIN base \cup DOMAIN overlay |-> IF f \in DOMAIN overlay THEN overlay[f] ELSE base[f]]

\* merge_by_id: overlay items are merged into the items of the same id and follow the others.
ItemIds(items) == [i \in DOMAIN items |-> items[i].id]
OverlaidItem(items, item) ==
  IF item.id \in Range(ItemIds(items))
  THEN [i \in DOMAIN items |-> IF items[i].id = item.id THEN MergeItem(items[i], item) ELSE items[i]]
  ELSE Append(items, item)
MergeById(base, overlay) == FoldLeft(OverlaidItem, base, overlay)

\* What merge_value refuses: a deletion, or an id that one list names twice.
MergeRefused(base, overlay) ==
  \E f \in DOMAIN overlay :
    \/ overlay[f] = DeleteMark
    \/ /\ f \in DOMAIN base /\ Strategy(f) = "MergeById"
       /\ ~(IsInjective(ItemIds(base[f])) /\ IsInjective(ItemIds(overlay[f])))

MergeSpecs(base, overlay) ==
  [f \in DOMAIN base \cup DOMAIN overlay |->
     IF f \notin DOMAIN overlay THEN base[f]
     ELSE IF f \notin DOMAIN base THEN overlay[f]
     ELSE CASE Strategy(f) = "SetUnion" -> base[f] \cup overlay[f]
            [] Strategy(f) = "MergeById" -> MergeById(base[f], overlay[f])
            [] OTHER -> overlay[f]]

\* collect_contributions and the trace: who spoke last about a field.
Winners(winners, layer) ==
  [f \in DOMAIN winners \cup DOMAIN layer.spec |->
     IF f \in DOMAIN layer.spec THEN layer.kind ELSE winners[f]]

\* compose_layers
Composing(acc, layer) ==
  IF acc.refused \/ MergeRefused(acc.spec, layer.spec)
  THEN [acc EXCEPT !.refused = TRUE]
  ELSE [acc EXCEPT !.spec = MergeSpecs(acc.spec, layer.spec), !.winners = Winners(acc.winners, layer)]

ComposeLayers(layers) ==
  FoldLeft(Composing, [refused |-> FALSE, spec |-> << >>, winners |-> << >>], InPrecedence(layers))

----------------------------------------------------------------------------
(* enforce_policy_floor *)
Denied(spec) == IF "deniedPaths" \in DOMAIN spec THEN spec.deniedPaths ELSE {}

\* Controls that an organisation requires stay required.
ControlKept(organisation, effective) ==
  ("control" \in DOMAIN organisation /\ organisation.control = "required") =>
    ("control" \in DOMAIN effective /\ effective.control = "required")

\* An allowlist of the organisation is only narrowed.
AllowlistNarrowed(organisation, effective) ==
  "packageSources" \in DOMAIN organisation =>
    ("packageSources" \in DOMAIN effective /\ effective.packageSources \subseteq organisation.packageSources)

\* A minimum of the organisation is not lowered, a maximum not raised.
BoundsKept(organisation, effective) ==
  /\ "minimum" \in DOMAIN organisation => "minimum" \in DOMAIN effective /\ effective.minimum >= organisation.minimum
  /\ "maximum" \in DOMAIN organisation => "maximum" \in DOMAIN effective /\ effective.maximum <= organisation.maximum

FloorHolds(organisation, effective) ==
  /\ Denied(organisation) \subseteq Denied(effective)
  /\ ControlKept(organisation, effective)
  /\ AllowlistNarrowed(organisation, effective)
  /\ BoundsKept(organisation, effective)

SpecOf(layers, kind) == (CHOOSE l \in Range(layers) : l.kind = kind).spec

\* The three entry points go on alike: LayerSet, compose_layers, the floor.
Judge(layers) ==
  IF ~LayerSetValid(layers) THEN NoComposition
  ELSE LET c == ComposeLayers(layers) IN
       IF c.refused THEN NoComposition
       ELSE IF ~FloorHolds(SpecOf(layers, "organisation"), c.spec) THEN NoComposition
       ELSE [accepted |-> TRUE, layers |-> layers, spec |-> c.spec, winners |-> c.winners]

Composes(entry) ==
  /\ coEntry = entry /\ Len(coRead) = Len(coListed)
  /\ coResult' = Judge(coRead) /\ coEntry' = "nobody"
  /\ UNCHANGED <<coFiles, coListed, coRead, coEdits>>

DaemonComposes == Composes("daemon")
CommandLineComposes == Composes("cli")
OnboardingComposes == Composes("onboarding")

CompositionNext ==
  \/ \E k \in DOMAIN LayerSpecs : \E s \in LayerSpecs[k], sealed \in BOOLEAN : EditLayer(k, s, sealed)
  \/ \E e \in CompositionEntries, l \in ListedLayers : BeginComposition(e, l)
  \/ ReadLayer \/ DaemonComposes \/ CommandLineComposes \/ OnboardingComposes

----------------------------------------------------------------------------
\* enforce_package_source_policy: only a source on the effective list is taken.
SourceAllowed(spec, item) == "packageSources" \in DOMAIN spec /\ item.source \in spec.packageSources

LayersComposed == IF coResult.accepted THEN Range(coResult.layers) ELSE {}
Specific(field) == \* the layers that speak about a field, and of them the most specific
  LET speakers == {l \in LayersComposed : field \in DOMAIN l.spec}
  IN  CHOOSE l \in speakers : \A m \in speakers : Precedence(m.kind) <= Precedence(l.kind)

(* No layer weakens what was laid down before it: a path anyone denies is  *)
(* denied in the end, a control the organisation requires stays required,  *)
(* its minimums and maximums hold, and a package is installed only from a  *)
(* source the organisation allows.                                         *)
NothingIsWeakened ==
  coResult.accepted =>
    LET spec == coResult.spec  organisation == SpecOf(coResult.layers, "organisation") IN
    /\ \A l \in LayersComposed : Denied(l.spec) \subseteq Denied(spec)
    /\ ControlKept(organisation, spec) /\ BoundsKept(organisation, spec)
    /\ "packages" \in DOMAIN spec /\ "packageSources" \in DOMAIN organisation =>
         \A i \in DOMAIN spec.packages :
           SourceAllowed(spec, spec.packages[i]) => SourceAllowed(organisation, spec.packages[i])

(* In whatever order the configuration lists the layers, the most specific *)
(* layer that sets a field decides it, and the trace names that layer.     *)
MostSpecificWins ==
  \A f \in IF coResult.accepted THEN DOMAIN coResult.spec ELSE {} :
    /\ coResult.winners[f] = Specific(f).kind
    /\ f \notin {"packages", "deniedPaths"} => coResult.spec[f] = Specific(f).spec[f]

\* An item asks for a field of the package id, or for a value of it.
Settles(item, id, f) == item.id = id /\ f \in DOMAIN item
Gives(item, id, f, value) == Settles(item, id, f) /\ item[f] = value

(* Every package that a layer asks for is in the composition, each of its  *)
(* fields as the most specific layer that sets the field for that package  *)
(* asks for it, and once if several layers list packages.  (One layer      *)
(* alone may name an id twice: merge_value takes a first list over without *)
(* looking at it.)                                                         *)
PackagesMergedOnce ==
  coResult.accepted =>
    LET speakers == {l \in LayersComposed : "packages" \in DOMAIN l.spec}
        Overriding(l, id, f) == {m \in speakers : /\ Precedence(m.kind) > Precedence(l.kind)
                                                  /\ \E p \in Range(m.spec.packages) : Settles(p, id, f)}
    IN
    \A l \in speakers :
      /\ \A p \in Range(l.spec.packages) : \A f \in DOMAIN p :
           Overriding(l, p.id, f) = {} => \E r \in Range(coResult.spec.packages) : Gives(r, p.id, f, p[f])
      /\ Cardinality(speakers) > 1 => IsInjective(ItemIds(coResult.spec.packages))
=============================================================================
