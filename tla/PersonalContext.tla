-------------------------- MODULE PersonalContext ---------------------------
(***************************************************************************)
(* The portable profile: its encrypted revisions, the interview that fills *)
(* it and its deletion, and what a session may read of it.                 *)
(***************************************************************************)
EXTENDS Naturals, Sequences, FiniteSets, SequencesExt

(***************************************************************************)
(* Encrypted revisions of the portable profile (commonkit-personal-        *)
(* context): encrypting for recipients, rotating them, staging the result  *)
(* from the command line and the desktop at the same time, and merging     *)
(* what was staged.  Encryption is a record only its recipients read; two  *)
(* encryptions never have the same bytes.                                  *)
(***************************************************************************)
CONSTANTS
  Stagers,         \* processes that stage revisions
  RevisionIds,     \* identifiers their users give
  Identities,      \* holders of keys
  RecipientLists,  \* recipients as a caller lists them, repetitions included
  ProfileFields, FieldValues,
  MaxEncryptions   \* encryptions (a bound)

VARIABLES
  prStore,        \* the staged file of each identifier
  prStager,       \* what each process is staging
  prMade,         \* encryptions so far: the bytes of each are new
  prAcknowledged, \* the last revision reported staged under each identifier
  prOverlap       \* ghost: identifiers two processes were staging at the same time

prVars == <<prStore, prStager, prMade, prAcknowledged, prOverlap>>

NotStaged == [id |-> "none", bytes |-> 0, recipients |-> <<>>, digest |-> {}, fields |-> <<>>]
Unstaged == [at |-> "idle", revision |-> NotStaged]

RevisionsInit ==
  /\ prStore = [i \in RevisionIds |-> NotStaged] /\ prStager = [p \in Stagers |-> Unstaged]
  /\ prMade = 0 /\ prAcknowledged = [i \in RevisionIds |-> NotStaged] /\ prOverlap = {}

----------------------------------------------------------------------------
(* Encryption. *)

\* The recipient set digest is over sorted names without repetitions.
RecipientSet(names) == SetToSeq(ToSet(names))

\* encrypt_revision: a data key wrapped for every recipient, fields bound to identifier and recipients.
EncryptRevision(id, fields, recipients) ==
  [id |-> id, bytes |-> prMade + 1, recipients |-> recipients, digest |-> RecipientSet(recipients),
   fields |-> fields]

\* decrypt_revision: the recipients are those the digest names, and one wrapped key opens for the identity.
DecryptRevision(r, identity) ==
  IF SetToSeq(ToSet(r.recipients)) = r.digest /\ identity \in ToSet(r.recipients) THEN r.fields ELSE <<>>

\* merge_concurrent_operations
Merge(left, right) ==
  LET differ == {f \in DOMAIN left \cap DOMAIN right : left[f] # right[f]} IN
  [merged |-> [f \in (DOMAIN left \cup DOMAIN right) \ differ |-> IF f \in DOMAIN left THEN left[f] ELSE right[f]],
   conflicts |-> {[field |-> f, left |-> left[f], right |-> right[f]] : f \in differ}]

----------------------------------------------------------------------------
(* Staging. *)

StagerAt(p, at) == prStager[p].at = at
StagerGoes(p, at) == prStager' = [prStager EXCEPT ![p].at = at]
StagerDone(p) == prStager' = [prStager EXCEPT ![p] = Unstaged]

Begins(p, r) ==
  /\ prStager' = [prStager EXCEPT ![p] = [at |-> "encrypted", revision |-> r]]
  /\ prMade' = prMade + 1
  /\ prOverlap' = IF \E q \in Stagers : prStager[q].revision.id = r.id THEN prOverlap \cup {r.id} ELSE prOverlap
  /\ UNCHANGED <<prStore, prAcknowledged>>

\* encrypt_profile_revision, and the command line's encrypt
Encrypt(p, i, fields, recipients) ==
  /\ StagerAt(p, "idle") /\ prMade < MaxEncryptions /\ recipients # <<>>
  /\ Begins(p, EncryptRevision(i, fields, recipients))

\* rotate_recipients: the staged revision is decrypted and encrypted anew under the same binding.
RotateRecipients(p, i, identity, recipients) ==
  /\ StagerAt(p, "idle") /\ prMade < MaxEncryptions /\ recipients # <<>>
  /\ prStore[i] # NotStaged /\ DecryptRevision(prStore[i], identity) # <<>>
  /\ Begins(p, EncryptRevision(i, DecryptRevision(prStore[i], identity), recipients))

\* stage: an identifier that is there is compared, never replaced ...
FindsExisting(p) == prStore[prStager[p].revision.id] # NotStaged
StageExisting(p) ==
  /\ StagerAt(p, "encrypted") /\ FindsExisting(p)
  /\ LET r == prStager[p].revision IN
     prAcknowledged' = IF prStore[r.id] = r THEN [prAcknowledged EXCEPT ![r.id] = r] ELSE prAcknowledged
  /\ StagerDone(p) /\ UNCHANGED <<prStore, prMade, prOverlap>>

\* ... one that is not is written to a temporary file of this call ...
StageWrites(p) ==
  /\ StagerAt(p, "encrypted") /\ ~FindsExisting(p)
  /\ StagerGoes(p, "written") /\ UNCHANGED <<prStore, prMade, prAcknowledged, prOverlap>>

\* ... and renamed, which on the supported systems replaces what another process renamed meanwhile.
StageRenames(p) ==
  /\ StagerAt(p, "written")
  /\ prStore' = [prStore EXCEPT ![prStager[p].revision.id] = prStager[p].revision]
  /\ StagerGoes(p, "renamed") /\ UNCHANGED <<prMade, prAcknowledged, prOverlap>>

\* The directory is synced and the digest returned.
StageAcknowledges(p) ==
  /\ StagerAt(p, "renamed")
  /\ prAcknowledged' = [prAcknowledged EXCEPT ![prStager[p].revision.id] = prStager[p].revision]
  /\ StagerDone(p) /\ UNCHANGED <<prStore, prMade, prOverlap>>

\* The process ends before it answers.
StagerEnds(p) ==
  /\ ~StagerAt(p, "idle") /\ StagerDone(p) /\ UNCHANGED <<prStore, prMade, prAcknowledged, prOverlap>>

RevisionsNext ==
  \E p \in Stagers :
    \/ StageExisting(p) \/ StageWrites(p) \/ StageRenames(p) \/ StageAcknowledges(p) \/ StagerEnds(p)
    \/ \E i \in RevisionIds, l \in RecipientLists :
         \/ \E f \in ProfileFields, v \in FieldValues : Encrypt(p, i, [g \in {f} |-> v], l)
         \/ \E who \in Identities : RotateRecipients(p, i, who, l)

----------------------------------------------------------------------------
\* What was reported staged stays what the store holds under that identifier, whoever stages the
\* identifier later, unless two processes staged it at the same time (stage).
AcknowledgedKept ==
  \A i \in RevisionIds : prAcknowledged[i] # NotStaged /\ i \notin prOverlap => prStore[i] = prAcknowledged[i]

\* Every recipient of a staged revision reads its fields, in whatever order and however often
\* the caller listed them (encrypt_revision, decrypt_revision).
RecipientsRead ==
  \A i \in RevisionIds : \A who \in ToSet(prStore[i].recipients) : DecryptRevision(prStore[i], who) = prStore[i].fields

\* Merging two revisions loses no operation of either, and the two directions agree
\* (merge_concurrent_operations).
MergeKeepsBoth ==
  \A i, j \in RevisionIds :
    LET l == prStore[i].fields  r == prStore[j].fields  m == Merge(l, r)  n == Merge(r, l) IN
    /\ m.merged = n.merged
    /\ \A f \in DOMAIN l : (f \in DOMAIN m.merged /\ m.merged[f] = l[f]) \/ \E c \in m.conflicts : c.field = f /\ c.left = l[f]
    /\ \A f \in DOMAIN r : (f \in DOMAIN m.merged /\ m.merged[f] = r[f]) \/ \E c \in m.conflicts : c.field = f /\ c.right = r[f]

-----------------------------------------------------------------------------
(***************************************************************************)
(* The interview that fills a portable profile, and its deletion           *)
(* (commonkit-personal-context).  The user confirms what was on the screen *)
(* a moment ago; revisions and tombstones reach a device in any order and  *)
(* more than once.                                                         *)
(***************************************************************************)
CONSTANTS
  InterviewFields,  \* the fields, in the order they are asked
  InterviewValues,  \* what the user may answer
  MaxGeneration,    \* generations of the profile (a bound)
  MaxConfirmed      \* confirmed values (a bound)

VARIABLES
  ppIndex, ppPending, ppPendingDigest, ppConfirmed,  \* ProfileInterview
  ppShown,      \* what the user is looking at: a field and a value
  ppAgreed,     \* ghost: what the user agreed to last
  ppLatest, ppTombstone, ppObjects                   \* PersonalContextDeletionState

interviewVars == <<ppIndex, ppPending, ppPendingDigest, ppConfirmed, ppShown, ppAgreed>>
deletionVars == <<ppLatest, ppTombstone, ppObjects>>
ppVars == <<interviewVars, deletionVars>>

NoValue == "none"
NoDigest == <<"none", NoValue>>

ProfileInit ==
  /\ ppIndex = 1 /\ ppPending = NoValue /\ ppPendingDigest = NoDigest /\ ppConfirmed = <<>>
  /\ ppShown = NoDigest /\ ppAgreed = NoDigest
  /\ ppLatest = 0 /\ ppTombstone = 0 /\ ppObjects = 0

\* next_field
HasField == ppIndex <= Len(InterviewFields)
NextField == InterviewFields[ppIndex]

\* answer_current: the confirmation digest binds the field and the value.
ConfirmationDigest(f, v) == <<f, v>>

AnswerCurrent(v) ==
  /\ HasField
  /\ ppPending' = v /\ ppPendingDigest' = ConfirmationDigest(NextField, v)
  /\ UNCHANGED <<ppIndex, ppConfirmed, ppShown, ppAgreed, deletionVars>>

\* The screen shows the pending answer; it may be replaced while the user reads.
ShowPending ==
  /\ ppPending # NoValue /\ ppShown' = <<NextField, ppPending>>
  /\ UNCHANGED <<ppIndex, ppPending, ppPendingDigest, ppConfirmed, ppAgreed, deletionVars>>

\* confirm_pending with the digest of what was shown.
ConfirmPending ==
  /\ ppShown # NoDigest /\ Len(ppConfirmed) < MaxConfirmed
  /\ ppPendingDigest = ConfirmationDigest(ppShown[1], ppShown[2]) /\ ppPending # NoValue /\ HasField
  /\ ppConfirmed' = Append(ppConfirmed, <<NextField, ppPending>>)
  /\ ppAgreed' = ppShown
  /\ ppPending' = NoValue /\ ppPendingDigest' = NoDigest
  /\ UNCHANGED <<ppIndex, ppShown, deletionVars>>

\* advance: not over an answer nobody confirmed.
AdvanceInterview ==
  /\ ppPending = NoValue /\ HasField
  /\ ppIndex' = ppIndex + 1
  /\ UNCHANGED <<ppPending, ppPendingDigest, ppConfirmed, ppShown, ppAgreed, deletionVars>>

\* into_confirmed_draft: the confirmed values leave, nothing that was not confirmed does.
IntoConfirmedDraft ==
  /\ ppPending = NoValue /\ ppConfirmed # <<>>
  /\ ppIndex' = 1 /\ ppConfirmed' = <<>>
  /\ UNCHANGED <<ppPending, ppPendingDigest, ppShown, ppAgreed, deletionVars>>

\* cancel: the interview is dropped.
CancelInterview ==
  /\ ppConfirmed # <<>> \/ ppPending # NoValue
  /\ ppIndex' = 1 /\ ppPending' = NoValue /\ ppPendingDigest' = NoDigest /\ ppConfirmed' = <<>>
  /\ UNCHANGED <<ppShown, ppAgreed, deletionVars>>

----------------------------------------------------------------------------
(* A bound: deletion is followed while no interview is open. *)
NoInterview == ppIndex = 1 /\ ppPending = NoValue /\ ppConfirmed = <<>>

\* accepts_revision
AcceptsRevision(g) == ppTombstone = 0 /\ g > ppLatest

ReceiveRevision(g) ==
  /\ NoInterview /\ AcceptsRevision(g)
  /\ ppLatest' = g /\ ppObjects' = ppObjects + 1
  /\ UNCHANGED <<interviewVars, ppTombstone>>

\* observe_tombstone: a generation seen before or too old removes nothing.
ObserveTombstone(g) ==
  /\ NoInterview /\ g # ppTombstone /\ g > ppLatest /\ g > ppTombstone
  /\ ppTombstone' = g /\ ppLatest' = g /\ ppObjects' = 0
  /\ UNCHANGED interviewVars

ProfileNext ==
  \/ \E v \in InterviewValues : AnswerCurrent(v)
  \/ ShowPending \/ ConfirmPending \/ AdvanceInterview \/ IntoConfirmedDraft \/ CancelInterview
  \/ \E g \in 1..MaxGeneration : ReceiveRevision(g) \/ ObserveTombstone(g)

----------------------------------------------------------------------------
\* A value is taken into the draft for a field only when the user agreed to that value of that field,
\* although answers are replaced and the interview advances while the user reads (confirm_pending).
ConfirmedWasShown ==
  [Len(ppConfirmed') > Len(ppConfirmed) => ppConfirmed'[Len(ppConfirmed')] = ppAgreed']_ppVars

\* Once a tombstone was observed nothing of the profile is kept again, in whatever order revisions
\* and tombstones arrive (observe_tombstone, accepts_revision).
DeletedStaysDeleted == ppTombstone # 0 => ppObjects = 0

-----------------------------------------------------------------------------
(***************************************************************************)
(* The portable context a session may read (context_resolver.rs, the store *)
(* behind it in portable_context_api.rs and its handlers in the service).  *)
(* One mutex makes every request atomic; between two requests time passes  *)
(* and the owner replaces sessions, grants and the revocation generation.  *)
(* Sessions, sections and grants are all of one purpose and one project.   *)
(***************************************************************************)
CONSTANTS
  ContextSections,   \* sections: [id, scope, trust, cost, size, priority, order]
  ContextSessions,   \* sessions the owner may install: [id, trust, from, until, generation]
  ContextGrants,     \* grants the owner may install: [id, context, trust, from, until, generation]
  SessionBudgets,    \* token budgets
  ResponseLimits,    \* max_bytes that a request may name
  MaxContextTime,    \* the clock (a bound)
  MaxContextReceipts \* receipts (a bound)

(* Sessions and sections are kept under their identifiers, which are ordered. *)
ASSUME SectionsNumbered ==
  /\ IsFiniteSet(ContextSections)
  /\ \A c \in ContextSections : c.cost \in Nat /\ c.priority \in Nat /\ c.order \in Nat
  /\ \A c, d \in ContextSections : c.order = d.order \/ c.id = d.id => c = d
ASSUME SessionsNamed == \A s, t \in ContextSessions : s.id = t.id => s = t
ASSUME GenerationsCount == \A g \in ContextGrants : g.generation \in Nat
ASSUME BudgetsCount == SessionBudgets \subseteq Nat

VARIABLES
  ctTime, ctGeneration, ctSessions, ctGrants,  \* the clock and the runtime state
  ctReceipts,        \* receipts, in the order of their identifiers
  ctSequence,        \* the sequence identifiers are made of
  ctAnswer,          \* the last answer given to a session
  ctGranted          \* ghost: contexts the owner granted since the last revocation

ctVars == <<ctTime, ctGeneration, ctSessions, ctGrants, ctReceipts, ctSequence, ctAnswer, ctGranted>>

NoAnswer == [kind |-> "none", session |-> "none", section |-> "none", listed |-> {}, ids |-> {}, fragment |-> FALSE]
Answer(kind, session, section) == [NoAnswer EXCEPT !.kind = kind, !.session = session.id, !.section = section]

ContextInit ==
  /\ ctTime = 0 /\ ctGeneration = 0 /\ ctSessions = {} /\ ctGrants = {}
  /\ ctReceipts = <<>> /\ ctSequence = 0 /\ ctAnswer = NoAnswer /\ ctGranted = {}

----------------------------------------------------------------------------
(* context_resolver.rs *)

\* authorize_session
AuthorizeSession(s) == s.from <= ctTime /\ ctTime < s.until /\ s.generation = ctGeneration

\* resolve_context: a personal context needs a grant that is alive and not revoked.
GrantAuthorizes(g, s, c) ==
  /\ g.context = c.id /\ s.trust >= g.trust
  /\ g.from <= ctTime /\ ctTime < g.until /\ g.generation = ctGeneration
Authorized(s, c) == c.scope # "personal" \/ \E g \in ctGrants : GrantAuthorizes(g, s, c)

Considered(s, candidates) == {c \in candidates : c.trust <= s.trust}
Eligible(s, candidates) == {c \in Considered(s, candidates) : Authorized(s, c)}

\* resolve_context: by priority, then by identifier (sections are numbered).
RankedBefore(c, d) == c.priority > d.priority \/ (c.priority = d.priority /\ c.order < d.order)
Ranked(cs) == CHOOSE q \in [1..Cardinality(cs) -> cs] : \A i, j \in 1..Cardinality(cs) : i < j => RankedBefore(q[i], q[j])

\* resolve_context: a context is selected when it fits into what the earlier ones left.
Fits(c, remaining) == c.cost <= remaining
Remaining(q, budget) ==
  LET left[i \in 0..Len(q)] ==
        IF i = 0 THEN budget ELSE IF Fits(q[i], left[i - 1]) THEN left[i - 1] - q[i].cost ELSE left[i - 1]
  IN left
Selected(s, candidates, budget) ==
  LET q == Ranked(Eligible(s, candidates)) IN
  {q[i] : i \in {j \in DOMAIN q : Fits(q[j], Remaining(q, budget)[j - 1])}}
Retrievable(s, candidates, budget) == Eligible(s, candidates) \ Selected(s, candidates, budget)

\* project_receipt: the organisation sees no trace of a personal selection.
PublicOf(c) == IF c.scope # "personal" THEN {c.id} ELSE {}
FragmentOf(c, audience) == audience = "user" /\ c.scope = "personal"

----------------------------------------------------------------------------
(* portable_context_api.rs *)

\* replace_runtime_state: receipts and the sequence stay.
SequenceAfterReplace == ctSequence
ReplaceRuntimeState(sessions, grants, generation) ==
  /\ ctSessions' = sessions /\ ctGrants' = grants /\ ctGeneration' = generation
  /\ ctSequence' = SequenceAfterReplace
  /\ UNCHANGED <<ctTime, ctReceipts, ctAnswer>>

\* The owner opens a session or grants a context for the generation in force, or revokes everything.
OwnerOpens ==
  \E s \in ContextSessions \ ctSessions :
    s.generation = ctGeneration /\ ReplaceRuntimeState(ctSessions \cup {s}, ctGrants, ctGeneration) /\ UNCHANGED ctGranted
OwnerGrants ==
  \E g \in ContextGrants \ ctGrants :
    /\ g.generation = ctGeneration /\ ReplaceRuntimeState(ctSessions, ctGrants \cup {g}, ctGeneration)
    /\ ctGranted' = ctGranted \cup {g.context}
OwnerRevokes ==
  /\ ctGeneration < 1
  /\ ReplaceRuntimeState(ctSessions, ctGrants, ctGeneration + 1) /\ ctGranted' = {}

\* search: resolved with no budget at all.  It lists the sections that its query finds, up to its limit.
Search(s, found) ==
  /\ s \in ctSessions /\ AuthorizeSession(s) /\ found \subseteq Considered(s, ContextSections)
  /\ ctAnswer' = [Answer("search", s, "none") EXCEPT
                    !.listed = {c.id : c \in found},
                    !.ids = {c.id : c \in found \cap Retrievable(s, ContextSections, 0)}]
  /\ UNCHANGED <<ctTime, ctGeneration, ctSessions, ctGrants, ctReceipts, ctSequence, ctGranted>>

\* next_id and the receipt written under it.
NextContextId(s, c) ==
  /\ ctSequence' = ctSequence + 1
  /\ ctReceipts' = [i \in DOMAIN ctReceipts \cup {ctSequence + 1} |->
       IF i = ctSequence + 1 THEN [session |-> s.id, context |-> c] ELSE ctReceipts[i]]

\* retrieve: a budget of exactly the section, the section alone, in a response of so many bytes.
MayRetrieve(s, c, limit) == AuthorizeSession(s) /\ c \in Selected(s, {c}, c.cost) /\ c.size <= limit
Retrieve(s, c, limit) ==
  /\ s \in ctSessions /\ MayRetrieve(s, c, limit) /\ ctSequence < MaxContextReceipts
  /\ NextContextId(s, c)
  /\ ctAnswer' = Answer("content", s, c.id)
  /\ UNCHANGED <<ctTime, ctGeneration, ctSessions, ctGrants, ctGranted>>

\* inspect_receipt: the session the receipt was written for, and no other.
InspectReceipt(s, i, audience) ==
  /\ s \in ctSessions /\ AuthorizeSession(s) /\ i \in DOMAIN ctReceipts
  /\ ctReceipts[i].session = s.id
  /\ ctAnswer' = [Answer(audience, s, "none") EXCEPT !.ids = PublicOf(ctReceipts[i].context),
                                                    !.fragment = FragmentOf(ctReceipts[i].context, audience)]
  /\ UNCHANGED <<ctTime, ctGeneration, ctSessions, ctGrants, ctReceipts, ctSequence, ctGranted>>

\* request_access and propose_revision write a record under the next identifier; neither grants anything.
RequestAccess(s, c) ==
  /\ s \in ctSessions /\ AuthorizeSession(s) /\ ctSequence < MaxContextReceipts
  /\ ctSequence' = ctSequence + 1 /\ ctAnswer' = Answer("requested", s, c.id)
  /\ UNCHANGED <<ctTime, ctGeneration, ctSessions, ctGrants, ctReceipts, ctGranted>>

ProposeRevision(s) ==
  /\ s \in ctSessions /\ AuthorizeSession(s) /\ ctSequence < MaxContextReceipts
  /\ ctSequence' = ctSequence + 1 /\ ctAnswer' = Answer("proposed", s, "none")
  /\ UNCHANGED <<ctTime, ctGeneration, ctSessions, ctGrants, ctReceipts, ctGranted>>

ContextTick ==
  /\ ctTime < MaxContextTime /\ ctTime' = ctTime + 1
  /\ UNCHANGED <<ctGeneration, ctSessions, ctGrants, ctReceipts, ctSequence, ctAnswer, ctGranted>>

ContextNext ==
  \/ OwnerOpens \/ OwnerGrants \/ OwnerRevokes \/ ContextTick
  \/ \E s \in ContextSessions :
       \/ ProposeRevision(s)
       \/ \E found \in SUBSET ContextSections : Search(s, found)
       \/ \E c \in ContextSections, limit \in ResponseLimits : Retrieve(s, c, limit)
       \/ \E c \in ContextSections : RequestAccess(s, c)
       \/ \E i \in DOMAIN ctReceipts, a \in {"user", "organization"} : InspectReceipt(s, i, a)

----------------------------------------------------------------------------
\* After a revocation a personal section is given to nobody until the owner grants it anew, whatever
\* sessions and grants from before are installed again (resolve_context, replace_runtime_state).
RevokedUntilGranted ==
  [\A c \in ContextSections :
       (ctReceipts' # ctReceipts /\ ctAnswer'.kind = "content" /\ ctAnswer'.section = c.id /\ c.scope = "personal")
         => c.id \in ctGranted]_ctVars

\* A receipt inspected for the organisation shows nothing of a personal section (project_receipt).
OrganisationSeesNoPersonal ==
  ctAnswer.kind = "organization" =>
    ~ctAnswer.fragment /\ \A c \in ContextSections : c.scope = "personal" => c.id \notin ctAnswer.ids

\* No later retrieval and no replacement of the runtime state writes over a receipt (next_id).
ReceiptsKept == [\A i \in DOMAIN ctReceipts : i \in DOMAIN ctReceipts' /\ ctReceipts'[i] = ctReceipts[i]]_ctVars

\* Of the sections a search lists, those it reports retrievable are those that retrieve then gives, to
\* the token, in any response with room for them; sections that cost nothing are given without being
\* reported (search resolves with a budget of 0, and does not look at the size of a section).
FoundIsReadable ==
  [\A s \in ctSessions, c \in ContextSections, limit \in ResponseLimits :
       (ctAnswer' # ctAnswer /\ ctAnswer'.kind = "search" /\ ctAnswer'.session = s.id
          /\ c.id \in ctAnswer'.listed /\ c.size <= limit)
         => (c.id \in ctAnswer'.ids <=> (c.cost > 0 /\ MayRetrieve(s, c, limit)))]_ctVars

\* What is selected for a session costs no more than its budget (resolve_context).
BudgetHeld ==
  \A s \in ctSessions, b \in SessionBudgets :
    MapThenSumSet(LAMBDA c : c.cost, Selected(s, ContextSections, b)) <= b
=============================================================================
