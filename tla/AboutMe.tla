------------------------------ MODULE AboutMe ------------------------------
(***************************************************************************)
(* The about-me profile (commonkit-about-me, its domain in                 *)
(* production_domains.rs, its set-up in about_me_setup.rs).  Every request *)
(* opens the database again, so requests meet only in SQLite: what one     *)
(* statement or transaction does is atomic, what a request does is not.    *)
(* There is one scoped view, the one the configuration names, and one      *)
(* claim in a draft; a draft that nobody publishes is never read again.    *)
(***************************************************************************)
EXTENDS Naturals, Sequences, FiniteSets

CONSTANTS
  Requests,            \* requests the daemon serves at the same time
  Setups,              \* runs of `commonkit about-me setup`
  ClaimTexts,          \* spellings of claims
  Meaning(_),          \* the claim behind a spelling: trimmed, one space, lower case
  MaxProfileRevision,  \* publications (a bound)
  MaxSuggested         \* suggestions (a bound)

VARIABLES
  amRevision,    \* profile_meta
  amClaims,      \* claims, in the order they were inserted
  amSummary,     \* summaries, of the view
  amSuggestions, \* suggestions
  amSuppressed,  \* suppressions: the meanings the user rejected
  amSuggested,   \* suggestions made so far
  amRequest,     \* what each request holds between its statements, the draft it wrote included
  amSetup,       \* where each set-up stands, and the key it holds
  amKey,         \* the key file: none, half written, or the n-th key made
  amKeysMade,    \* keys made so far
  amDatabaseKey, \* the key the database was created with
  amConfigured,  \* headless.json names the profile
  amTold         \* ghost: the summary the user published last

storeVars == <<amRevision, amClaims, amSummary, amSuggestions, amSuppressed, amSuggested>>
keyVars == <<amKey, amKeysMade, amDatabaseKey, amConfigured>>
amVars == <<storeVars, amRequest, amSetup, keyVars, amTold>>

NoSummary == "none"
NoKey == 0
TornKey == 100
Empty == ""
Waiting == [at |-> "idle", id |-> 0, revision |-> 0, summary |-> NoSummary, text |-> "none", heard |-> FALSE]

AboutMeInit ==
  /\ amRevision = 0 /\ amClaims = <<>> /\ amSummary = NoSummary /\ amSuggestions = {}
  /\ amSuppressed = {} /\ amSuggested = 0 /\ amRequest = [r \in Requests |-> Waiting]
  /\ amSetup = [s \in Setups |-> [at |-> "start", key |-> NoKey]] /\ amKey = NoKey /\ amKeysMade = 0 /\ amDatabaseKey = NoKey
  /\ amConfigured = FALSE /\ amTold = NoSummary

\* store(): the domain exists once the configuration names it, and the key must open the database.
ProfileOpens == amConfigured /\ amKey = amDatabaseKey

\* A bound: requests are followed once the set-ups have ended (one that goes on refuses the revision it finds).
Served == ProfileOpens /\ \A s \in Setups : amSetup[s].at = "ended"

----------------------------------------------------------------------------
(* The transactions of the store. *)

\* insert_claim
InsertClaim(r, supersedes) == [revision |-> r, active |-> TRUE, supersedes |-> supersedes]

\* publish_draft accepts a draft made for the revision that is still current.
MayPublishStale(expected) == TRUE \* Mutant: the current revision is not compared.
MayPublish(expected) == amRevision = expected

\* publish_draft: claims, summaries, revision and draft in one transaction.
PublishDraft(summary) ==
  /\ amClaims' = Append(amClaims, InsertClaim(amRevision + 1, 0))
  /\ amSummary' = summary
  /\ amRevision' = amRevision + 1

\* resolve_contradiction names an active claim and the revision it was seen at.
MayResolve(c, expected) ==
  c \in DOMAIN amClaims /\ amClaims[c].active /\ amRevision = expected

\* resolve_contradiction: the claim is retired and its replacement inserted.
ResolveContradiction(c) ==
  /\ amClaims' = Append([amClaims EXCEPT ![c].active = FALSE], InsertClaim(amRevision + 1, c))
  /\ amRevision' = amRevision + 1

\* suppression_fingerprint
Fingerprint(t) == Meaning(t)

----------------------------------------------------------------------------
(* The requests. *)

RequestAt(r, at) == amRequest[r].at = at
RequestBecomes(r, v) == amRequest' = [amRequest EXCEPT ![r] = v]
Holds(r, f, v, at) == RequestBecomes(r, [amRequest[r] EXCEPT !.at = at, ![f] = v])

\* inspect: the user sees a revision and decides on it later.
Inspect(r) ==
  /\ Served /\ RequestAt(r, "idle") /\ amRevision < MaxProfileRevision
  /\ Holds(r, "revision", amRevision, "seen")
  /\ UNCHANGED <<storeVars, amSetup, keyVars, amTold>>

\* create_draft
CreateDraft(r) ==
  /\ RequestAt(r, "seen") /\ Holds(r, "summary", r, "drafted")
  /\ UNCHANGED <<storeVars, amSetup, keyVars, amTold>>

\* publish_draft of a confirmed draft; a stale one stays in the table.
PublishConfirmed(r) ==
  /\ RequestAt(r, "drafted")
  /\ IF MayPublish(amRequest[r].revision)
     THEN PublishDraft(r) /\ amTold' = r /\ UNCHANGED <<amSuggestions, amSuppressed, amSuggested>>
     ELSE UNCHANGED <<storeVars, amTold>>
  /\ RequestBecomes(r, Waiting) /\ UNCHANGED <<amSetup, keyVars>>

\* resolve_conflict
Resolve(r) ==
  /\ RequestAt(r, "seen")
  /\ \E c \in DOMAIN amClaims :
       IF MayResolve(c, amRequest[r].revision)
       THEN ResolveContradiction(c) /\ UNCHANGED <<amSummary, amSuggestions, amSuppressed, amSuggested>>
       ELSE UNCHANGED storeVars
  /\ RequestBecomes(r, Waiting) /\ UNCHANGED <<amSetup, keyVars, amTold>>

\* suggest: the suppression is looked up first ...
SuggestChecks(r, t) ==
  /\ Served /\ RequestAt(r, "idle") /\ amSuggested < MaxSuggested
  /\ Fingerprint(t) \notin amSuppressed
  /\ RequestBecomes(r, [Waiting EXCEPT !.at = "unsuppressed", !.text = t,
                                !.heard = \E u \in ClaimTexts : Meaning(u) = Meaning(t) /\ Fingerprint(u) \in amSuppressed])
  /\ UNCHANGED <<storeVars, amSetup, keyVars, amTold>>

\* ... and the suggestion is inserted by a statement of its own.
SuggestInserts(r) ==
  /\ RequestAt(r, "unsuppressed")
  /\ amSuggested' = amSuggested + 1
  /\ amSuggestions' = amSuggestions \cup {[id |-> amSuggested + 1, text |-> amRequest[r].text, again |-> amRequest[r].heard]}
  /\ RequestBecomes(r, Waiting)
  /\ UNCHANGED <<amRevision, amClaims, amSummary, amSuppressed, amSetup, keyVars, amTold>>

\* decide_suggestion reads the pending suggestions ...
Decide(r, at) ==
  /\ Served /\ RequestAt(r, "idle")
  /\ \E s \in amSuggestions : RequestBecomes(r, [Waiting EXCEPT !.at = at, !.id = s.id, !.text = s.text])
  /\ UNCHANGED <<storeVars, amSetup, keyVars, amTold>>

\* ... a rejection suppresses and deletes in one transaction ...
Reject(r) ==
  /\ RequestAt(r, "reject")
  /\ amSuppressed' = amSuppressed \cup {Fingerprint(amRequest[r].text)}
  /\ amSuggestions' = {s \in amSuggestions : s.id # amRequest[r].id}
  /\ RequestBecomes(r, Waiting)
  /\ UNCHANGED <<amRevision, amClaims, amSummary, amSuggested, amSetup, keyVars, amTold>>

\* ... an acceptance reads the revision, then the summary, and writes a draft of both ...
AcceptReadsRevision(r) ==
  /\ RequestAt(r, "accept") /\ amRevision < MaxProfileRevision
  /\ Holds(r, "revision", amRevision, "revision")
  /\ UNCHANGED <<storeVars, amSetup, keyVars, amTold>>

AcceptReadsSummaryAndDrafts(r) ==
  /\ RequestAt(r, "revision")
  /\ Holds(r, "summary", IF amSummary = NoSummary THEN Empty ELSE amSummary, "publish")
  /\ UNCHANGED <<storeVars, amSetup, keyVars, amTold>>

\* ... publishes it, and removes the suggestion only then.
AcceptPublishes(r) ==
  /\ RequestAt(r, "publish")
  /\ IF MayPublish(amRequest[r].revision)
     THEN /\ PublishDraft(amRequest[r].summary) /\ RequestBecomes(r, [amRequest[r] EXCEPT !.at = "remove"])
          /\ UNCHANGED <<amSuggestions, amSuppressed, amSuggested>>
     ELSE RequestBecomes(r, Waiting) /\ UNCHANGED storeVars
  /\ UNCHANGED <<amSetup, keyVars, amTold>>

AcceptRemoves(r) ==
  /\ RequestAt(r, "remove")
  /\ amSuggestions' = {s \in amSuggestions : s.id # amRequest[r].id}
  /\ RequestBecomes(r, Waiting)
  /\ UNCHANGED <<amRevision, amClaims, amSummary, amSuppressed, amSuggested, amSetup, keyVars, amTold>>

\* The daemon ends: a request stops after the statement it had reached.
RequestStops(r) ==
  /\ amRequest[r] # Waiting /\ RequestBecomes(r, Waiting)
  /\ UNCHANGED <<storeVars, amSetup, keyVars, amTold>>

----------------------------------------------------------------------------
(* Setting the profile up. *)

SetupTo(s, from, to, key) == amSetup[s].at = from /\ amSetup' = [amSetup EXCEPT ![s] = [at |-> to, key |-> key]]
Setup(s, from, to) == SetupTo(s, from, to, IF to = "ended" THEN NoKey ELSE amSetup[s].key)

\* load_or_create_key: a whole key is used, anything else in the file refused.
LoadKey(s) ==
  /\ \/ amKey = NoKey /\ Setup(s, "start", "create")
     \/ amKey = TornKey /\ Setup(s, "start", "ended")
     \/ amKey \notin {NoKey, TornKey} /\ SetupTo(s, "start", "open", amKey)
  /\ UNCHANGED <<storeVars, amRequest, keyVars, amTold>>

\* load_or_create_key: the file is opened with create_new.
MayCreateKey == amKey = NoKey

CreateKey(s) ==
  /\ IF MayCreateKey THEN Setup(s, "create", "write") /\ amKey' = TornKey
     ELSE Setup(s, "create", "ended") /\ UNCHANGED amKey
  /\ UNCHANGED <<storeVars, amRequest, amKeysMade, amDatabaseKey, amConfigured, amTold>>

WriteKey(s) ==
  /\ SetupTo(s, "write", "open", amKeysMade + 1) /\ amKey' = amKeysMade + 1 /\ amKeysMade' = amKeysMade + 1
  /\ UNCHANGED <<storeVars, amRequest, amDatabaseKey, amConfigured, amTold>>

\* setup_profile opens the database with the key it holds and refuses one that has a revision.
OpenProfile(s) ==
  /\ IF amDatabaseKey \in {NoKey, amSetup[s].key} /\ amRevision = 0
     THEN Setup(s, "open", "publish") /\ amDatabaseKey' = amSetup[s].key
     ELSE Setup(s, "open", "ended") /\ UNCHANGED amDatabaseKey
  /\ UNCHANGED <<storeVars, amRequest, amKey, amKeysMade, amConfigured, amTold>>

\* setup_profile drafts and publishes the answers; create_draft and publish_draft are taken together.
PublishAnswers(s) ==
  /\ IF amRevision = 0
     THEN /\ Setup(s, "publish", "configure") /\ amTold' = "answers"
          /\ amClaims' = <<InsertClaim(1, 0)>>
          /\ amSummary' = "answers" /\ amRevision' = 1 /\ UNCHANGED <<amSuggestions, amSuppressed, amSuggested>>
     ELSE Setup(s, "publish", "ended") /\ UNCHANGED <<storeVars, amTold>>
  /\ UNCHANGED <<amRequest, keyVars>>

\* setup_profile writes headless.json last.
WriteConfiguration(s) ==
  /\ Setup(s, "configure", "ended") /\ amConfigured' = TRUE
  /\ UNCHANGED <<storeVars, amRequest, amKey, amKeysMade, amDatabaseKey, amTold>>

\* The set-up is ended by the user or the machine.
SetupStops(s) ==
  /\ amSetup[s].at \notin {"start", "ended"} /\ Setup(s, amSetup[s].at, "ended")
  /\ UNCHANGED <<storeVars, amRequest, keyVars, amTold>>

AboutMeNext ==
  \/ \E r \in Requests :
       \/ Inspect(r) \/ CreateDraft(r) \/ PublishConfirmed(r) \/ Resolve(r)
       \/ SuggestInserts(r) \/ Decide(r, "reject") \/ Decide(r, "accept") \/ Reject(r)
       \/ AcceptReadsRevision(r) \/ AcceptReadsSummaryAndDrafts(r) \/ AcceptPublishes(r) \/ AcceptRemoves(r)
       \/ RequestStops(r)
       \/ \E t \in ClaimTexts : SuggestChecks(r, t)
  \/ \E s \in Setups :
       LoadKey(s) \/ CreateKey(s) \/ WriteKey(s) \/ OpenProfile(s) \/ PublishAnswers(s) \/ WriteConfiguration(s) \/ SetupStops(s)

----------------------------------------------------------------------------
\* Accepting a suggestion never brings back a summary the user has replaced since it was read
\* (decide_suggestion reads the revision before the summary, publish_draft compares it again).
ToldSummaryKept == amSummary \in {amTold, IF amTold = NoSummary THEN Empty ELSE amTold}

\* A claim is replaced at most once and then no longer active, however requests interleave
\* (resolve_contradiction): the replacements of a claim form a chain.
ReplacedOnce ==
  \A c, d \in DOMAIN amClaims :
    /\ amClaims[d].supersedes = c => ~amClaims[c].active
    /\ amClaims[c].supersedes = amClaims[d].supersedes /\ amClaims[c].supersedes # 0 => c = d

\* What the user rejected in one spelling is not offered again in another by a request that began
\* after the rejection (suppression_fingerprint, suggest).
RejectedNotOffered == \A s \in amSuggestions : ~s.again

\* A configuration that names the profile names a key that opens it, although set-ups overlap and
\* are ended half-way (load_or_create_key, setup_profile).
ConfiguredOpens == amConfigured => ProfileOpens /\ amRevision > 0
=============================================================================
