------------------------------ MODULE Authority ------------------------------
(***************************************************************************)
(* Where the authority of a delivery comes from: revisions of one draft,   *)
(* approvals and secret overrides given by an operator, activations of one *)
(* policy tuple, the send decision and its second check inside the claim   *)
(* (crates repo-com-approval, -policy, -send-eligibility, the draft        *)
(* commands of -cli and revalidate_request of -delivery).                  *)
(*                                                                         *)
(* Each command is a process: it reads the configuration file and the      *)
(* clock when it starts, then the store in several steps.  Hashes are      *)
(* compared by equality only, so a hash is the value it is taken of.       *)
(* Configurations may differ in everything but the draft's destination.    *)
(***************************************************************************)
EXTENDS Naturals, FiniteSets

CONSTANTS
    Process,
    Job,              \* [Process -> SUBSET Command]: what a process may run
    Config,           \* canonical hashes of configurations
    NoConfig,
    Configured,       \* the configurations with the tuple as an auto_send entry
    MaxRevision,      \* bound: revisions of the draft
    Flagged,          \* revisions in which the scanner finds a secret
    ExplicitId,       \* activation identifiers an operator may choose
    MaxTime,          \* bound: the clock
    MaxEdits,         \* bound: edits of the configuration file
    MaxSequence,      \* bound: the number at the end of a derived identifier
    DraftLifetime,    \* draft expiry
    Lifetime          \* APPROVAL_LIFETIME_SECONDS

Command == {"create", "update", "approve", "override", "activate", "send"}
Revision == 1..MaxRevision
Time == 1..MaxTime

ASSUME JobAssumption == Job \in [Process -> SUBSET Command]
ASSUME ConfigAssumption == NoConfig \notin Config /\ Configured \subseteq Config
ASSUME IdAssumption == Config \cap ExplicitId = {}
ASSUME BoundAssumption ==
    /\ MaxRevision \in Nat \ {0} /\ MaxTime \in Nat \ {0}
    /\ DraftLifetime \in Nat \ {0} /\ Lifetime \in Nat \ {0}
    /\ MaxSequence \in Nat /\ MaxEdits \in Nat
    /\ Flagged \subseteq Revision

VARIABLES
    file,        \* the configuration file
    edits,       \* how often it was edited, counted for the bound only
    clock,
    registered,  \* repositories.config_hash
    current,     \* drafts.current_revision, 0 before the draft exists
    created,     \* draft_revisions: the creation time of each revision
    approvals,   \* approvals: the preview each revision's approval is bound to
    evidence,    \* audit events of approvals, named by their preview
    overrides,   \* audit events of secret overrides, named by their preview
    rows,        \* policy_activations of the tuple
    claims,      \* delivery_attempts: what each claimed revision was claimed under
    work         \* the local state of each process

store == <<registered, current, created, approvals, evidence, overrides, rows, claims>>
vars == <<file, edits, clock, store, work>>

ActivationId == {<<c>> : c \in Config \cup ExplicitId} \cup (Config \X Time)
                    \cup (Config \X Time \X (2..MaxSequence))
NoId == <<>>   \* asks for a derived identifier
RequestedId == {NoId} \cup {<<e>> : e \in ExplicitId}

NoRow == [config |-> NoConfig, state |-> "none"]
ActiveRow(c) == [config |-> c, state |-> "active"]

NoBasis == [kind |-> "none", rows |-> {}]
NoPreview == [rev |-> 0, config |-> NoConfig, basis |-> NoBasis]

Idle == [job |-> "none", pc |-> "idle", config |-> NoConfig, now |-> 0, rev |-> 0,
         preview |-> NoPreview, id |-> NoId, authority |-> "none"]

(***************************************************************************)
(* Faulty variants of operators defined below; no action uses them.  Each  *)
(* replaces the sound operator to show that a property notices the fault.  *)
(***************************************************************************)

Approved_AnyPreview(preview, now) ==
    \E e \in evidence : e.preview = approvals[preview.rev] /\ now < e.expires

PolicyAllows_AnyContent(preview) ==
    preview.basis.kind = "eligible" /\ preview.config \in Configured

StillShown_AnyBasis(p) ==
    /\ work[p].preview.rev = current
    /\ work[p].now < created[current] + DraftLifetime
    /\ registered = work[p].config

HasEvidence_Never(p) == FALSE
IdFree_Skipped(id) == TRUE

(***************************************************************************)
(* Operators.                                                              *)
(***************************************************************************)
Expiry(r) == created[r] + DraftLifetime
AtMost(a, b) == IF a < b THEN a ELSE b

Existing == {i \in ActivationId : rows[i] # NoRow}
Active == {i \in ActivationId : rows[i].state = "active"}
CurrentlyActive(c) == {i \in Active : rows[i].config = c}

\* classify_activation_records: the first of these sets that is not empty
\* decides, when it has one member.
Considered(c) ==
    IF CurrentlyActive(c) # {} THEN CurrentlyActive(c)
    ELSE IF Active # {} THEN Active ELSE Existing

DecisionKind(c) ==
    CASE Existing = {} -> IF c \in Configured THEN "not_activated" ELSE "no_exact_match"
      [] Existing # {} /\ ~\E i \in Existing : Considered(c) = {i} -> "ambiguous"
      [] Existing # {} /\ \E i \in Existing : Considered(c) = {i} ->
            IF CurrentlyActive(c) # {} THEN "eligible"
            ELSE IF Active # {} THEN "stale" ELSE "deactivated"

\* The policy decision with the snapshots that are hashed into it.
PolicyDecision(c) ==
    [kind |-> DecisionKind(c),
     rows |-> {<<i, rows[i]>> :
                  i \in IF DecisionKind(c) = "ambiguous" THEN Existing ELSE Considered(c)}]

\* current_snapshot: a preview exists for the current revision of an unexpired
\* draft; it binds revision, configuration and policy basis.
PreviewValid(p) ==
    /\ work[p].rev = current
    /\ work[p].now < Expiry(work[p].rev)

PreviewOf(p) == [rev |-> work[p].rev, config |-> work[p].config,
                 basis |-> PolicyDecision(work[p].config)]

\* approve: the record of a confirmation, with the earlier of two expiries.
ApprovalRecord(p) ==
    [preview |-> work[p].preview,
     at |-> work[p].now,
     expires |-> AtMost(work[p].now + Lifetime, Expiry(work[p].rev))]

\* validate_approval: an approval of exactly this preview that has not expired;
\* a flagged revision has the override beside it.
Approved(preview, now) ==
    /\ approvals[preview.rev] = preview
    /\ \E e \in evidence : e.preview = preview /\ now < e.expires
    /\ preview.rev \in Flagged => preview \in overrides

\* validate_policy; a finding is never left to a policy.
PolicyAllows(preview) ==
    /\ preview.basis.kind = "eligible"
    /\ preview.config \in Configured
    /\ preview.rev \notin Flagged

\* revalidate_request, in the claim's transaction: the decision still describes
\* the draft, the configuration and the policy basis, and its own authority is
\* still there.  The time is the one of the evaluation.
StillShown(p) ==
    /\ work[p].preview.rev = current
    /\ work[p].now < Expiry(current)
    /\ registered = work[p].config
    /\ PolicyDecision(work[p].config) = work[p].preview.basis

Revalidates(p) ==
    /\ StillShown(p)
    /\ \/ work[p].authority = "approval" /\ Approved(work[p].preview, work[p].now)
       \/ work[p].authority = "policy" /\ PolicyAllows(work[p].preview)

Claimed(r) == \E c \in claims : c.rev = r

Step(p, state) == work' = [work EXCEPT ![p] = state]
At(p, job, pc) == work[p].job = job /\ work[p].pc = pc

-----------------------------------------------------------------------------
Init ==
    /\ file \in Config
    /\ edits = 0
    /\ clock = 1
    /\ registered = NoConfig
    /\ current = 0
    /\ created = [r \in Revision |-> 0]
    /\ approvals = [r \in Revision |-> NoPreview]
    /\ evidence = {}
    /\ overrides = {}
    /\ rows = [i \in ActivationId |-> NoRow]
    /\ claims = {}
    /\ work = [p \in Process |-> Idle]

EditConfig(c) ==
    /\ c # file
    /\ edits < MaxEdits
    /\ file' = c
    /\ edits' = edits + 1
    /\ UNCHANGED <<clock, store, work>>

Tick ==
    /\ clock < MaxTime
    /\ clock' = clock + 1
    /\ UNCHANGED <<file, edits, store, work>>

\* A command starts: it loads the configuration, reads the clock and looks for
\* the draft and the repository row.  Activation previews the tuple first, which
\* must be configured.
Begin(p, job) ==
    /\ work[p] = Idle
    /\ job \in Job[p]
    /\ job = "activate" => file \in Configured
    /\ job = "create" => current = 0
    /\ job \notin {"create", "activate"} => current # 0
    /\ Step(p, [Idle EXCEPT !.job = job, !.config = file, !.now = clock, !.rev = current,
                            !.pc = IF job = "create" /\ registered = NoConfig
                                   THEN "unregistered" ELSE "begun"])
    /\ UNCHANGED <<file, edits, clock, store>>

\* ensure_repository: the row is written only by a command that found none.
Register(p) ==
    /\ work[p].pc = "unregistered"
    /\ registered' = work[p].config
    /\ Step(p, [work[p] EXCEPT !.pc = "begun"])
    /\ UNCHANGED <<file, edits, clock, current, created, approvals, evidence, overrides, rows, claims>>

\* persist_created and persist_revision: a new immutable revision on top of the
\* one the command loaded; (draft, revision) is a primary key.
RevisionFree(p) == created[work[p].rev + 1] = 0

Persist(p) ==
    /\ At(p, "create", "begun") \/ At(p, "update", "begun")
    /\ work[p].rev < MaxRevision
    /\ RevisionFree(p)
    /\ created' = [created EXCEPT ![work[p].rev + 1] = work[p].now]
    /\ current' = IF current < work[p].rev + 1 THEN work[p].rev + 1 ELSE current
    /\ Step(p, Idle)
    /\ UNCHANGED <<file, edits, clock, registered, approvals, evidence, overrides, rows, claims>>

(***************************************************************************)
(* Approving and overriding.                                               *)
(***************************************************************************)

\* approval_preview: what the operator sees; nothing reads it again.
Show(p) ==
    /\ At(p, "approve", "begun") \/ At(p, "override", "begun")
    /\ PreviewValid(p)
    /\ work[p].job = "override" => work[p].rev \in Flagged
    /\ Step(p, [work[p] EXCEPT !.pc = "shown"])
    /\ UNCHANGED <<file, edits, clock, store>>

\* The operator confirmed.  The runtime takes a new preview and confirms that
\* one.
Bind(p) ==
    /\ work[p].pc = "shown"
    /\ PreviewValid(p)
    /\ Step(p, [work[p] EXCEPT !.pc = "bound", !.preview = PreviewOf(p)])
    /\ UNCHANGED <<file, edits, clock, store>>

\* approve's transaction: the revision is still current; the approval of a
\* flagged one needs an override of the same preview (overrides only accrue).
Approving(p) ==
    /\ At(p, "approve", "bound")
    /\ work[p].rev = current
    /\ work[p].rev \in Flagged => work[p].preview \in overrides

HasEvidence(p) == \E e \in evidence : e.preview = work[p].preview

\* The same confirmation again returns the approval that there is.
ApproveAgain(p) ==
    /\ Approving(p)
    /\ approvals[work[p].rev] = work[p].preview
    /\ Step(p, Idle)
    /\ UNCHANGED <<file, edits, clock, store>>

\* A new approval, or one that is bound anew, with its audit event.
Approve(p) ==
    /\ Approving(p)
    /\ approvals[work[p].rev] # work[p].preview
    /\ ~HasEvidence(p)
    /\ approvals' = [approvals EXCEPT ![work[p].rev] = work[p].preview]
    /\ evidence' = evidence \cup {ApprovalRecord(p)}
    /\ Step(p, Idle)
    /\ UNCHANGED <<file, edits, clock, registered, current, created, overrides, rows, claims>>

\* The event identifier is taken (ApprovalConflict).
ApproveConflict(p) ==
    /\ Approving(p)
    /\ approvals[work[p].rev] # work[p].preview
    /\ HasEvidence(p)
    /\ Step(p, Idle)
    /\ UNCHANGED <<file, edits, clock, store>>

Override(p) ==
    /\ At(p, "override", "bound")
    /\ work[p].rev = current
    /\ overrides' = overrides \cup {work[p].preview}
    /\ Step(p, Idle)
    /\ UNCHANGED <<file, edits, clock, registered, current, created, approvals, evidence, rows, claims>>

(***************************************************************************)
(* Policy.                                                                 *)
(***************************************************************************)

\* choose_activation_id: the identifier that was asked for, or the first of the
\* derived ones that no row has.
Derived(c, t, k) == IF k = 0 THEN <<c>> ELSE IF k = 1 THEN <<c, t>> ELSE <<c, t, k>>

ChoosesId(p, requested, id) ==
    /\ id \notin Existing
    /\ \/ requested # NoId /\ id = requested
       \/ /\ requested = NoId
          /\ \E k \in 0..MaxSequence :
                /\ id = Derived(work[p].config, work[p].now, k)
                /\ \A j \in 0..k : j < k => Derived(work[p].config, work[p].now, j) \in Existing

\* The operator confirmed; the rows are read.  A current activation, or more
\* than one, ends the command here.
Choose(p, requested) ==
    /\ At(p, "activate", "begun")
    /\ CurrentlyActive(work[p].config) = {}
    /\ \E id \in ActivationId :
          /\ ChoosesId(p, requested, id)
          /\ Step(p, [work[p] EXCEPT !.pc = "bound", !.id = id])
    /\ UNCHANGED <<file, edits, clock, store>>

\* activate_policy: the repository row must exist; the identifier is a primary
\* key.
IdFree(id) == id \notin Existing

Activate(p) ==
    /\ At(p, "activate", "bound")
    /\ registered # NoConfig
    /\ IdFree(work[p].id)
    /\ rows' = [rows EXCEPT ![work[p].id] = ActiveRow(work[p].config)]
    /\ Step(p, Idle)
    /\ UNCHANGED <<file, edits, clock, registered, current, created, approvals, evidence, overrides, claims>>

\* deactivate; deactivate_for does so for each active row of the tuple.
Deactivate(i) ==
    /\ i \in Active
    /\ rows' = [rows EXCEPT ![i].state = "inactive"]
    /\ UNCHANGED <<file, edits, clock, registered, current, created, approvals, evidence, overrides, claims, work>>

(***************************************************************************)
(* Sending.                                                                *)
(***************************************************************************)

\* The decision, approval first.  Its reads are separate, but the evaluator
\* compares them, and neither current revision nor policy basis can come back to
\* an earlier value: they all describe one state.
Evaluate(p) ==
    /\ At(p, "send", "begun")
    /\ PreviewValid(p)
    /\ \E authority \in {"approval", "policy"} :
          /\ authority = "approval" => Approved(PreviewOf(p), work[p].now)
          /\ authority = "policy" => /\ PolicyAllows(PreviewOf(p))
                                     /\ ~Approved(PreviewOf(p), work[p].now)
          /\ Step(p, [work[p] EXCEPT !.pc = "bound", !.preview = PreviewOf(p),
                                     !.authority = authority])
    /\ UNCHANGED <<file, edits, clock, store>>

\* The claim that Delivery describes in detail.
Claim(p) ==
    /\ At(p, "send", "bound")
    /\ ~Claimed(work[p].rev)
    /\ Revalidates(p)
    /\ claims' = claims \cup {[rev |-> work[p].rev, preview |-> work[p].preview,
                               authority |-> work[p].authority]}
    /\ Step(p, Idle)
    /\ UNCHANGED <<file, edits, clock, registered, current, created, approvals, evidence, overrides, rows>>

ClaimRefused(p) ==
    /\ At(p, "send", "bound")
    /\ ~Claimed(work[p].rev)
    /\ ~Revalidates(p)
    /\ Step(p, Idle)
    /\ UNCHANGED <<file, edits, clock, store>>

\* Any other end of a command: an invalid preview, a declined prompt, a taken
\* identifier, a revision that exists, an earlier claim, a kill.
Abandon(p) ==
    /\ work[p] # Idle
    /\ Step(p, Idle)
    /\ UNCHANGED <<file, edits, clock, store>>

-----------------------------------------------------------------------------
Run(p) ==
    \/ \E job \in Command : Begin(p, job)
    \/ Register(p) \/ Persist(p)
    \/ Show(p) \/ Bind(p)
    \/ ApproveAgain(p) \/ Approve(p) \/ ApproveConflict(p) \/ Override(p)
    \/ \E requested \in RequestedId : Choose(p, requested)
    \/ Activate(p)
    \/ Evaluate(p) \/ Claim(p) \/ ClaimRefused(p)
    \/ Abandon(p)

Next ==
    \/ \E c \in Config : EditConfig(c)
    \/ Tick
    \/ \E i \in ActivationId : Deactivate(i)
    \/ \E p \in Process : Run(p)

Spec == Init /\ [][Next]_vars

-----------------------------------------------------------------------------
(***************************************************************************)
(* Properties.                                                             *)
(***************************************************************************)
Row == [config : Config, state : {"active", "inactive"}]
Basis == [kind : {"none", "not_activated", "no_exact_match", "ambiguous", "eligible",
                  "stale", "deactivated"},
          rows : SUBSET (ActivationId \X Row)]
Preview == [rev : Revision \cup {0}, config : Config \cup {NoConfig}, basis : Basis]
Approval == [preview : Preview, at : Time, expires : 1..(MaxTime + Lifetime)]
ClaimRecord == [rev : Revision, preview : Preview, authority : {"approval", "policy"}]
WorkState == [job : Command \cup {"none"},
              pc : {"idle", "unregistered", "begun", "shown", "bound"},
              config : Config \cup {NoConfig}, now : Time \cup {0}, rev : Revision \cup {0},
              preview : Preview, id : ActivationId \cup {NoId},
              authority : {"none", "approval", "policy"}]

\* Every variable has its type; an approval lasts at most Lifetime.
TypeOK ==
    /\ file \in Config
    /\ edits \in 0..MaxEdits
    /\ clock \in Time
    /\ registered \in Config \cup {NoConfig}
    /\ current \in Revision \cup {0}
    /\ created \in [Revision -> Time \cup {0}]
    /\ approvals \in [Revision -> Preview]
    /\ evidence \subseteq Approval
    /\ overrides \subseteq Preview
    /\ rows \in [ActivationId -> Row \cup {NoRow}]
    /\ claims \subseteq ClaimRecord
    /\ work \in [Process -> WorkState]

\* APPROVAL-FR-01 and -02: the approval row of a revision always has its audit
\* event.  However often a preview is approved, superseded and approved again,
\* one event exists for it, so its expiry is never extended; the event lasts no
\* longer than the draft and no longer than Lifetime.
ApprovalEvidence ==
    /\ \A r \in Revision : approvals[r] # NoPreview =>
          /\ approvals[r].rev = r
          /\ \E e \in evidence : e.preview = approvals[r]
    /\ \A e, f \in evidence : e.preview = f.preview => e = f
    /\ \A e \in evidence :
          /\ e.at < e.expires
          /\ e.expires <= e.at + Lifetime
          /\ e.expires <= Expiry(e.preview.rev)

\* SAFE-FR-01 / DRAFT-FR-05: a revision with a secret finding is claimed only
\* under a human approval of the very preview whose finding was overridden,
\* whatever policy is active and whatever changed in between.
SecretsAreReviewed ==
    \A c \in claims : c.rev \in Flagged =>
        /\ c.authority = "approval"
        /\ c.preview \in overrides

\* ELIG-FR-01: every claim goes back to one decision of an operator: an approval
\* event of exactly the claimed preview, or the one active row of a configured
\* tuple under the claimed configuration; a revision has one claim.
ClaimsAreAuthorised ==
    /\ \A c \in claims :
          /\ c.preview.rev = c.rev
          /\ \/ /\ c.authority = "approval"
                /\ \E e \in evidence : e.preview = c.preview
             \/ /\ c.authority = "policy"
                /\ c.preview.config \in Configured
                /\ \E i \in ActivationId :
                      c.preview.basis.rows = {<<i, ActiveRow(c.preview.config)>>}
    /\ \A c, d \in claims : c.rev = d.rev => c = d

\* ELIG-FR-02: whatever was edited, revised, activated or deactivated since the
\* evaluation, a claim is committed only for the preview that would be shown at
\* that moment: current revision, registered configuration, present policy rows,
\* and the approval, if that is its authority, still the one on record.
ClaimSeesNow ==
    [][\A c \in claims' \ claims :
          /\ c.preview = [rev |-> current, config |-> registered,
                          basis |-> PolicyDecision(registered)]
          /\ c.authority = "approval" => approvals[current] = c.preview]_vars

\* DRAFT-FR-01: revisions are immutable and gap-free although several commands
\* revise the draft from the same parent: an existing revision never changes,
\* and the current one only moves to its successor.
RevisionsAreImmutable ==
    [][/\ \A r \in Revision : created[r] # 0 => created'[r] = created[r]
       /\ current' \in {current, current + 1}
       /\ current' # current => created[current'] = 0 /\ created'[current'] # 0]_vars

\* A deactivated row is never active again: an activation that chose its
\* identifier before must not bring it back.
DeactivationIsFinal ==
    [][\A i \in ActivationId : rows[i].state = "inactive" => rows'[i] = rows[i]]_vars

(***************************************************************************)
(* What documentation or comments say and the code does not do.            *)
(***************************************************************************)

\* "This operation never widens permission" (deactivate_for): a tuple becomes
\* eligible under a configuration only in a step that adds an activation.
DeactivationNeverWidens ==
    [][\A c \in Config :
          DecisionKind(c) # "eligible" /\ DecisionKind(c)' = "eligible" =>
              Existing' # Existing]_vars

=============================================================================
