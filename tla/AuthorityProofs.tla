-------------------------- MODULE AuthorityProofs --------------------------
(***************************************************************************)
(* The properties of Authority hold for every set of processes, commands,  *)
(* configurations, revisions and flagged revisions.                        *)
(***************************************************************************)
EXTENDS Authority, TLAPS

(***************************************************************************)
(* The inductive invariant.                                                *)
(***************************************************************************)

\* Revisions are stored without a gap, up to the current one.
RevisionInv == \A r \in Revision : created[r] # 0 <=> r <= current

\* Audit events of approvals are of stored revisions.
EvidenceInv ==
    \A e \in evidence : e.preview.rev \in Revision /\ e.preview.rev <= current

\* What a command carries from one step to the next.
WorkOK(p) ==
    /\ work[p].rev <= current
    /\ work[p].pc # "idle" => work[p].now \in Time /\ work[p].config \in Config
    /\ work[p].pc # "idle" /\ work[p].job \notin {"create", "activate"} => work[p].rev # 0
    /\ work[p].pc = "shown" => work[p].job \in {"approve", "override"}
    /\ work[p].pc = "bound" /\ work[p].job \in {"approve", "override", "send"} =>
          /\ work[p].preview.rev = work[p].rev
          /\ work[p].preview.config = work[p].config
          /\ work[p].now < Expiry(work[p].rev)
    /\ At(p, "send", "bound") => work[p].authority \in {"approval", "policy"}

WorkInv == \A p \in Process : WorkOK(p)

StoreInv ==
    /\ RevisionInv
    /\ ApprovalEvidence
    /\ EvidenceInv
    /\ SecretsAreReviewed
    /\ ClaimsAreAuthorised

IInv == TypeOK /\ StoreInv /\ WorkInv

-----------------------------------------------------------------------------
(***************************************************************************)
(* Operators.                                                              *)
(***************************************************************************)

\* A policy decision and a preview have their types.
LEMMA DecisionType ==
    ASSUME TypeOK, NEW c \in Config
    PROVE  PolicyDecision(c) \in Basis
<1>1. \A i \in Existing : rows[i] \in Row
  BY DEF TypeOK, Existing
<1>2. Existing \subseteq ActivationId /\ Considered(c) \subseteq Existing
  BY ConfigAssumption DEF Existing, Considered, CurrentlyActive, Active, NoRow
<1>3. DecisionKind(c) \in {"not_activated", "no_exact_match", "ambiguous", "eligible",
                           "stale", "deactivated"}
  BY DEF DecisionKind
<1>4. {<<i, rows[i]>> : i \in IF DecisionKind(c) = "ambiguous" THEN Existing ELSE Considered(c)}
        \subseteq ActivationId \X Row
  BY <1>1, <1>2
<1> QED  BY <1>3, <1>4 DEF PolicyDecision, Basis

LEMMA PreviewType ==
    ASSUME TypeOK, NEW p \in Process, work[p].config \in Config
    PROVE  PreviewOf(p) \in Preview
BY DecisionType DEF TypeOK, PreviewOf, Preview, WorkState

\* An eligible decision is the snapshot of the one active row of the configuration.
LEMMA EligibleDecision ==
    ASSUME TypeOK, NEW c \in Config, PolicyDecision(c).kind = "eligible"
    PROVE  \E i \in ActivationId : PolicyDecision(c).rows = {<<i, ActiveRow(c)>>}
<1>1. DecisionKind(c) = "eligible"
  BY DEF PolicyDecision
<1>2. PICK i \in Existing : Considered(c) = {i} /\ CurrentlyActive(c) # {}
  BY <1>1 DEF DecisionKind
<1>3. i \in ActivationId /\ rows[i] = ActiveRow(c)
  <2>1. i \in CurrentlyActive(c)
    BY <1>2 DEF Considered
  <2>2. i \in ActivationId /\ rows[i] \in Row \cup {NoRow} /\ rows[i].state = "active" /\ rows[i].config = c
    BY <2>1 DEF CurrentlyActive, Active, TypeOK
  <2> QED  BY <2>2 DEF Row, NoRow, ActiveRow
<1>4. PolicyDecision(c).rows = {<<j, rows[j]>> : j \in {i}}
  BY <1>1, <1>2 DEF PolicyDecision
<1> QED  BY <1>3, <1>4

-----------------------------------------------------------------------------
(***************************************************************************)
(* Steps that leave the store alone.                                       *)
(***************************************************************************)
LEMMA StoreUntouched ==
    ASSUME StoreInv,
           UNCHANGED <<current, created, approvals, evidence, overrides, claims>>
    PROVE  StoreInv'
BY DEF StoreInv, RevisionInv, ApprovalEvidence, EvidenceInv, SecretsAreReviewed,
       ClaimsAreAuthorised, Expiry

\* A step that changes the state of one process to a good one keeps WorkInv.
LEMMA WorkStep ==
    ASSUME IInv, NEW p \in Process, NEW w, Step(p, w), w \in WorkState,
           UNCHANGED <<current, created>>,
           WorkOK(p)'
    PROVE  WorkInv' /\ work' \in [Process -> WorkState]
<1>1. work' \in [Process -> WorkState]
  BY DEF IInv, TypeOK, Step
<1>2. \A q \in Process : WorkOK(q)'
  <2> SUFFICES ASSUME NEW q \in Process, q # p PROVE WorkOK(q)'
    OBVIOUS
  <2>1. work'[q] = work[q]
    BY DEF IInv, TypeOK, Step
  <2> QED  BY <2>1 DEF IInv, WorkInv, WorkOK, At, Expiry
<1> QED  BY <1>1, <1>2 DEF WorkInv

LEMMA IdleType == Idle \in WorkState
BY DEF Idle, WorkState, NoPreview, NoBasis, Preview, Basis, Command

\* A command that ends, and leaves the revisions as they are.
LEMMA EndOfCommand ==
    ASSUME IInv, NEW p \in Process, Step(p, Idle), UNCHANGED <<current, created>>
    PROVE  WorkInv' /\ work' \in [Process -> WorkState]
<1>1. work'[p] = Idle
  BY DEF IInv, TypeOK, Step
<1>2. WorkOK(p)'
  <2>1. current \in Nat
    BY BoundAssumption DEF IInv, TypeOK, Revision
  <2> QED  BY <1>1, <2>1 DEF WorkOK, Idle, At
<1> QED  BY <1>2, IdleType, WorkStep

LEMMA EnvironmentStep ==
    ASSUME IInv, (\E c \in Config : EditConfig(c)) \/ Tick
    PROVE  IInv'
<1>1. UNCHANGED store /\ UNCHANGED work
  BY DEF EditConfig, Tick
<1>2. TypeOK'
  BY <1>1, BoundAssumption DEF IInv, TypeOK, EditConfig, Tick, store, Time
<1>3. StoreInv'
  BY <1>1, StoreUntouched DEF IInv, store
<1>4. WorkInv'
  BY <1>1 DEF IInv, WorkInv, WorkOK, At, Expiry, store
<1> QED  BY <1>2, <1>3, <1>4 DEF IInv

LEMMA BeginStep ==
    ASSUME IInv, NEW p \in Process, NEW job \in Command, Begin(p, job)
    PROVE  IInv'
<1> DEFINE w == [Idle EXCEPT !.job = job, !.config = file, !.now = clock, !.rev = current,
                             !.pc = IF job = "create" /\ registered = NoConfig
                                    THEN "unregistered" ELSE "begun"]
<1>1. Step(p, w) /\ UNCHANGED <<file, edits, clock, store>>
  BY DEF Begin
<1>2. w \in WorkState
  BY IdleType DEF IInv, TypeOK, WorkState
<1>3. WorkOK(p)'
  <2>1. work'[p] = w
    BY <1>1 DEF IInv, TypeOK, Step
  <2>2. /\ w.pc \in {"unregistered", "begun"} /\ w.rev = current /\ w.now = clock
        /\ w.config = file /\ w.job = job
    BY DEF Idle
  <2>3. current \in Nat /\ clock \in Time /\ file \in Config
    BY BoundAssumption DEF IInv, TypeOK, Revision
  <2>4. job \notin {"create", "activate"} => current # 0
    BY DEF Begin
  <2> HIDE DEF w
  <2> QED  BY <1>1, <2>1, <2>2, <2>3, <2>4 DEF WorkOK, At, store
<1>4. WorkInv' /\ work' \in [Process -> WorkState]
  <2> HIDE DEF w
  <2> QED  BY <1>1, <1>2, <1>3, WorkStep DEF store
<1>5. TypeOK'
  BY <1>1, <1>4 DEF IInv, TypeOK, store
<1>6. StoreInv'
  BY <1>1, StoreUntouched DEF IInv, store
<1> QED  BY <1>4, <1>5, <1>6 DEF IInv

LEMMA RegisterStep ==
    ASSUME IInv, NEW p \in Process, Register(p)
    PROVE  IInv'
<1> DEFINE w == [work[p] EXCEPT !.pc = "begun"]
<1>1. /\ Step(p, w) /\ work[p].pc = "unregistered"
      /\ UNCHANGED <<file, edits, clock, current, created, approvals, evidence, overrides, rows, claims>>
  BY DEF Register
<1>2. w \in WorkState /\ work[p] \in WorkState
  BY DEF IInv, TypeOK, WorkState
<1>3. WorkOK(p)'
  <2>1. work'[p] = w
    BY <1>1 DEF IInv, TypeOK, Step
  <2>2. WorkOK(p)
    BY DEF IInv, WorkInv
  <2> QED  BY <1>1, <1>2, <2>1, <2>2 DEF WorkOK, At, WorkState
<1>4. WorkInv' /\ work' \in [Process -> WorkState]
  <2> HIDE DEF w
  <2> QED  BY <1>1, <1>2, <1>3, WorkStep
<1>5. TypeOK'
  <2>1. registered' \in Config
    BY <1>1 DEF IInv, WorkInv, WorkOK, Register
  <2> QED  BY <1>1, <1>4, <2>1 DEF IInv, TypeOK
<1>6. StoreInv'
  BY <1>1, StoreUntouched DEF IInv
<1> QED  BY <1>4, <1>5, <1>6 DEF IInv

\* Showing a preview, binding it, choosing an identifier: the command goes on.
LEMMA GoOnStep ==
    ASSUME IInv, NEW p \in Process, NEW w, Step(p, w), w \in WorkState, WorkOK(p)',
           UNCHANGED <<file, edits, clock, store>>
    PROVE  IInv'
<1>1. WorkInv' /\ work' \in [Process -> WorkState]
  BY WorkStep DEF store
<1>2. TypeOK'
  BY <1>1 DEF IInv, TypeOK, store
<1>3. StoreInv'
  BY StoreUntouched DEF IInv, store
<1> QED  BY <1>1, <1>2, <1>3 DEF IInv

LEMMA ShowStep ==
    ASSUME IInv, NEW p \in Process, Show(p)
    PROVE  IInv'
<1> DEFINE w == [work[p] EXCEPT !.pc = "shown"]
<1>1. /\ Step(p, w) /\ UNCHANGED <<file, edits, clock, store>> /\ work[p].pc = "begun"
      /\ work[p].job \in {"approve", "override"}
  BY DEF Show, At
<1>2. work[p] \in WorkState /\ WorkOK(p)
  BY DEF IInv, TypeOK, WorkInv
<1>3. PreviewOf(p) \in Preview
  BY <1>1, <1>2, PreviewType DEF IInv, WorkOK
<1>4. w \in WorkState
  BY <1>2, <1>3 DEF WorkState
<1>5. WorkOK(p)'
  <2>1. work'[p] = w
    BY <1>1 DEF IInv, TypeOK, Step
  <2>2. /\ w.pc = "shown" /\ w.rev = work[p].rev /\ w.now = work[p].now
        /\ w.config = work[p].config /\ w.job = work[p].job
    BY <1>2 DEF WorkState
  <2> HIDE DEF w
  <2> QED  BY <1>1, <1>2, <2>1, <2>2 DEF WorkOK, At, store
<1> HIDE DEF w
<1> QED  BY <1>1, <1>4, <1>5, GoOnStep

LEMMA BindStep ==
    ASSUME IInv, NEW p \in Process, Bind(p)
    PROVE  IInv'
<1> DEFINE w == [work[p] EXCEPT !.pc = "bound", !.preview = PreviewOf(p)]
<1>1. Step(p, w) /\ UNCHANGED <<file, edits, clock, store>> /\ work[p].pc = "shown" /\ PreviewValid(p)
  BY DEF Bind
<1>2. work[p] \in WorkState /\ WorkOK(p)
  BY DEF IInv, TypeOK, WorkInv
<1>3. PreviewOf(p) \in Preview
  BY <1>1, <1>2, PreviewType DEF IInv, WorkOK
<1>4. w \in WorkState
  BY <1>2, <1>3 DEF WorkState
<1>5. WorkOK(p)'
  <2>1. work'[p] = w
    BY <1>1 DEF IInv, TypeOK, Step
  <2>2. /\ w.pc = "bound" /\ w.rev = work[p].rev /\ w.now = work[p].now
        /\ w.config = work[p].config /\ w.job = work[p].job
        /\ w.preview.rev = work[p].rev /\ w.preview.config = work[p].config
    BY <1>2 DEF WorkState, PreviewOf
  <2>3. w.job # "send"
    BY <1>1, <1>2, <2>2 DEF WorkOK
  <2> HIDE DEF w
  <2> QED  BY <1>1, <1>2, <2>1, <2>2, <2>3 DEF WorkOK, At, store, PreviewValid, Expiry
<1> HIDE DEF w
<1> QED  BY <1>1, <1>4, <1>5, GoOnStep

LEMMA ChooseStep ==
    ASSUME IInv, NEW p \in Process, NEW requested \in RequestedId, Choose(p, requested)
    PROVE  IInv'
<1>1. PICK id \in ActivationId : Step(p, [work[p] EXCEPT !.pc = "bound", !.id = id])
  BY DEF Choose
<1> DEFINE w == [work[p] EXCEPT !.pc = "bound", !.id = id]
<1>2. UNCHANGED <<file, edits, clock, store>> /\ work[p].pc = "begun" /\ work[p].job = "activate"
  BY DEF Choose, At
<1>3. work[p] \in WorkState /\ WorkOK(p)
  BY DEF IInv, TypeOK, WorkInv
<1>4. w \in WorkState
  BY <1>3 DEF WorkState
<1>5. WorkOK(p)'
  <2>1. work'[p] = w
    BY <1>1 DEF IInv, TypeOK, Step
  <2>2. /\ w.rev = work[p].rev /\ w.now = work[p].now /\ w.pc = "bound"
        /\ w.config = work[p].config /\ w.job = "activate"
    BY <1>2, <1>3 DEF WorkState
  <2> HIDE DEF w
  <2> QED  BY <1>2, <1>3, <2>1, <2>2 DEF WorkOK, At, store
<1> HIDE DEF w
<1> QED  BY <1>1, <1>2, <1>4, <1>5, GoOnStep DEF w

LEMMA EvaluateStep ==
    ASSUME IInv, NEW p \in Process, Evaluate(p)
    PROVE  IInv'
<1>1. PICK authority \in {"approval", "policy"} :
         Step(p, [work[p] EXCEPT !.pc = "bound", !.preview = PreviewOf(p), !.authority = authority])
  BY DEF Evaluate
<1> DEFINE w == [work[p] EXCEPT !.pc = "bound", !.preview = PreviewOf(p), !.authority = authority]
<1>2. UNCHANGED <<file, edits, clock, store>> /\ work[p].pc = "begun" /\ PreviewValid(p)
  BY DEF Evaluate, At
<1>3. work[p] \in WorkState /\ WorkOK(p)
  BY DEF IInv, TypeOK, WorkInv
<1>4. PreviewOf(p) \in Preview
  BY <1>2, <1>3, PreviewType DEF IInv, WorkOK
<1>5. w \in WorkState
  BY <1>3, <1>4 DEF WorkState
<1>6. WorkOK(p)'
  <2>1. work'[p] = w
    BY <1>1 DEF IInv, TypeOK, Step
  <2>2. /\ w.rev = work[p].rev /\ w.now = work[p].now /\ w.authority = authority
        /\ w.pc = "bound"
        /\ w.config = work[p].config /\ w.job = work[p].job
        /\ w.preview.rev = work[p].rev /\ w.preview.config = work[p].config
    BY <1>3 DEF WorkState, PreviewOf
  <2> HIDE DEF w
  <2> QED  BY <1>2, <1>3, <2>1, <2>2 DEF WorkOK, At, store, PreviewValid, Expiry
<1> HIDE DEF w
<1> QED  BY <1>1, <1>2, <1>5, <1>6, GoOnStep DEF w

LEMMA EndStep ==
    ASSUME IInv, NEW p \in Process,
           ApproveAgain(p) \/ ApproveConflict(p) \/ ClaimRefused(p) \/ Abandon(p)
    PROVE  IInv'
<1>1. Step(p, Idle) /\ UNCHANGED <<file, edits, clock, store>>
  BY DEF ApproveAgain, ApproveConflict, ClaimRefused, Abandon
<1>2. WorkInv' /\ work' \in [Process -> WorkState]
  BY <1>1, EndOfCommand DEF store
<1>3. TypeOK'
  BY <1>1, <1>2 DEF IInv, TypeOK, store
<1>4. StoreInv'
  BY <1>1, StoreUntouched DEF IInv, store
<1> QED  BY <1>2, <1>3, <1>4 DEF IInv

-----------------------------------------------------------------------------
(***************************************************************************)
(* Steps that write the store.                                             *)
(***************************************************************************)

\* A stored revision is the successor of the current one.
LEMMA PersistAdds ==
    ASSUME IInv, NEW p \in Process, Persist(p)
    PROVE  /\ current + 1 \in Revision /\ created[current + 1] = 0
           /\ created' = [created EXCEPT ![current + 1] = work[p].now]
           /\ current' = current + 1
           /\ work[p].now \in Time
<1>1. work[p].rev \in Nat /\ work[p].rev + 1 \in Revision /\ created[work[p].rev + 1] = 0
  BY BoundAssumption DEF IInv, TypeOK, WorkState, Persist, RevisionFree, Revision
<1>2. work[p].rev <= current /\ work[p].now \in Time
  BY DEF IInv, WorkInv, WorkOK, Persist, At
<1>3. work[p].rev = current /\ current \in Nat
  BY <1>1, <1>2, BoundAssumption DEF IInv, TypeOK, StoreInv, RevisionInv, Revision
<1> QED  BY <1>1, <1>2, <1>3 DEF Persist

LEMMA PersistStep ==
    ASSUME IInv, NEW p \in Process, Persist(p)
    PROVE  IInv'
<1>1. /\ current + 1 \in Revision /\ created[current + 1] = 0
      /\ created' = [created EXCEPT ![current + 1] = work[p].now]
      /\ current' = current + 1
      /\ work[p].now \in Time
  BY PersistAdds
<1>2. /\ Step(p, Idle)
      /\ UNCHANGED <<file, edits, clock, registered, approvals, evidence, overrides, rows, claims>>
  BY DEF Persist
<1>3. \A r \in Revision : r <= current => created'[r] = created[r]
  BY <1>1, BoundAssumption DEF IInv, TypeOK, Revision
<1>4. TypeOK'
  BY <1>1, <1>2, IdleType DEF IInv, TypeOK, Step
<1>5. RevisionInv'
  BY <1>1, <1>3, BoundAssumption DEF IInv, StoreInv, RevisionInv, TypeOK, Revision, Time
<1>6. ApprovalEvidence' /\ EvidenceInv' /\ SecretsAreReviewed' /\ ClaimsAreAuthorised'
  <2>1. \A e \in evidence : e.preview.rev \in Revision /\ e.preview.rev <= current
    BY DEF IInv, StoreInv, EvidenceInv
  <2>2. \A e \in evidence : Expiry(e.preview.rev)' = Expiry(e.preview.rev)
    BY <1>2, <1>3, <2>1 DEF Expiry
  <2>3. \A e \in evidence : e.preview.rev <= current'
    BY <1>1, <2>1, BoundAssumption DEF IInv, TypeOK, Revision
  <2> QED
    BY <1>2, <2>1, <2>2, <2>3 DEF IInv, StoreInv, ApprovalEvidence, EvidenceInv,
       SecretsAreReviewed, ClaimsAreAuthorised
<1>7. WorkInv'
  <2> SUFFICES ASSUME NEW q \in Process PROVE WorkOK(q)'
    BY DEF WorkInv
  <2>1. CASE q = p
    <3>1. work'[q] = Idle /\ current' \in Nat
      BY <1>1, <1>2, <2>1, BoundAssumption DEF IInv, TypeOK, Step, Revision
    <3> QED  BY <3>1 DEF WorkOK, Idle, At
  <2>2. CASE q # p
    <3>1. work'[q] = work[q] /\ WorkOK(q) /\ work[q] \in WorkState
      BY <1>2, <2>2 DEF IInv, TypeOK, Step, WorkInv
    <3>2. work[q].rev <= current'
      BY <1>1, <3>1, BoundAssumption DEF IInv, TypeOK, WorkOK, WorkState, Revision
    <3>3. work[q].rev \in Revision => created'[work[q].rev] = created[work[q].rev]
      BY <1>3, <3>1 DEF WorkOK
    <3>4. work[q].pc = "bound" /\ work[q].job \in {"approve", "override", "send"} =>
             work[q].rev \in Revision
      BY <3>1 DEF WorkOK, WorkState
    <3> QED  BY <3>1, <3>2, <3>3, <3>4 DEF WorkOK, At, Expiry
  <2> QED  BY <2>1, <2>2
<1> QED  BY <1>4, <1>5, <1>6, <1>7 DEF IInv, StoreInv

\* The record, its event and the row change together.
LEMMA ApproveStep ==
    ASSUME IInv, NEW p \in Process, Approve(p)
    PROVE  IInv'
<1> DEFINE r == work[p].rev
           e == ApprovalRecord(p)
<1>1. /\ r = current /\ r \in Revision /\ work[p].preview \in Preview
      /\ work[p].preview.rev = r /\ work[p].now \in Time /\ work[p].now < Expiry(r)
      /\ r \in Flagged => work[p].preview \in overrides
  BY DEF Approve, Approving, At, IInv, TypeOK, WorkState, WorkInv, WorkOK
<1>2. /\ approvals' = [approvals EXCEPT ![r] = work[p].preview]
      /\ evidence' = evidence \cup {e}
      /\ ~HasEvidence(p) /\ Step(p, Idle)
      /\ UNCHANGED <<file, edits, clock, registered, current, created, overrides, rows, claims>>
  BY DEF Approve
<1>3. Expiry(r) \in Nat
  BY <1>1, BoundAssumption DEF IInv, TypeOK, Expiry, Time
<1>4. /\ e.preview = work[p].preview /\ e.at = work[p].now
      /\ e.at < e.expires /\ e.expires <= e.at + Lifetime /\ e.expires <= Expiry(r)
      /\ e.expires \in Nat
  BY <1>1, <1>3, BoundAssumption DEF ApprovalRecord, AtMost, Time
<1>5. e \in Approval
  <2>1. e.expires \in 1..(MaxTime + Lifetime)
    BY <1>1, <1>4, BoundAssumption DEF Time
  <2>2. e = [preview |-> work[p].preview, at |-> work[p].now, expires |-> e.expires]
    BY DEF ApprovalRecord
  <2> HIDE DEF e
  <2> QED  BY <1>1, <2>1, <2>2 DEF Approval
<1> HIDE DEF e
<1>6. WorkInv' /\ work' \in [Process -> WorkState]
  BY <1>2, EndOfCommand
<1>7. TypeOK'
  BY <1>1, <1>2, <1>5, <1>6 DEF IInv, TypeOK
<1>8. ApprovalEvidence'
  <2>1. \A q \in Revision : approvals'[q] # NoPreview =>
          /\ approvals'[q].rev = q
          /\ \E f \in evidence' : f.preview = approvals'[q]
    BY <1>1, <1>2, <1>4 DEF IInv, TypeOK, StoreInv, ApprovalEvidence
  <2>2. \A f, g \in evidence' : f.preview = g.preview => f = g
    BY <1>2, <1>4 DEF IInv, StoreInv, ApprovalEvidence, HasEvidence
  <2>3. \A f \in evidence' : /\ f.at < f.expires
                            /\ f.expires <= f.at + Lifetime
                            /\ f.expires <= Expiry(f.preview.rev)'
    BY <1>1, <1>2, <1>4 DEF IInv, StoreInv, ApprovalEvidence, Expiry
  <2> QED  BY <2>1, <2>2, <2>3 DEF ApprovalEvidence
<1>9. RevisionInv' /\ EvidenceInv' /\ SecretsAreReviewed'
  <2>1. RevisionInv' /\ SecretsAreReviewed'
    BY <1>2 DEF IInv, StoreInv, RevisionInv, SecretsAreReviewed
  <2>2. current \in Nat
    BY BoundAssumption DEF IInv, TypeOK, Revision
  <2>3. EvidenceInv'
    BY <1>1, <1>2, <1>4, <2>2 DEF IInv, StoreInv, EvidenceInv
  <2> QED  BY <2>1, <2>3
<1>10. ClaimsAreAuthorised'
  BY <1>2 DEF IInv, StoreInv, ClaimsAreAuthorised
<1> QED  BY <1>6, <1>7, <1>8, <1>9, <1>10 DEF IInv, StoreInv

LEMMA OverrideStep ==
    ASSUME IInv, NEW p \in Process, Override(p)
    PROVE  IInv'
<1>1. /\ overrides' = overrides \cup {work[p].preview} /\ Step(p, Idle)
      /\ UNCHANGED <<file, edits, clock, registered, current, created, approvals, evidence, rows, claims>>
  BY DEF Override
<1>2. WorkInv' /\ work' \in [Process -> WorkState]
  BY <1>1, EndOfCommand
<1>3. TypeOK'
  BY <1>1, <1>2 DEF IInv, TypeOK, WorkState
<1>4. StoreInv'
  BY <1>1 DEF IInv, StoreInv, RevisionInv, ApprovalEvidence, EvidenceInv, SecretsAreReviewed,
     ClaimsAreAuthorised, Expiry
<1> QED  BY <1>2, <1>3, <1>4 DEF IInv

LEMMA ActivateStep ==
    ASSUME IInv, NEW p \in Process, Activate(p)
    PROVE  IInv'
<1>1. /\ rows' = [rows EXCEPT ![work[p].id] = ActiveRow(work[p].config)] /\ Step(p, Idle)
      /\ UNCHANGED <<file, edits, clock, registered, current, created, approvals, evidence, overrides, claims>>
  BY DEF Activate
<1>2. WorkInv' /\ work' \in [Process -> WorkState]
  BY <1>1, EndOfCommand
<1>3. ActiveRow(work[p].config) \in Row
  BY DEF IInv, WorkInv, WorkOK, Activate, At, ActiveRow, Row
<1>4. TypeOK'
  BY <1>1, <1>2, <1>3 DEF IInv, TypeOK
<1>5. StoreInv'
  BY <1>1, StoreUntouched DEF IInv
<1> QED  BY <1>2, <1>4, <1>5 DEF IInv

LEMMA DeactivateStep ==
    ASSUME IInv, NEW i \in ActivationId, Deactivate(i)
    PROVE  IInv'
<1>1. /\ rows' = [rows EXCEPT ![i].state = "inactive"] /\ rows[i].state = "active"
      /\ UNCHANGED <<file, edits, clock, registered, current, created, approvals, evidence, overrides,
                     claims, work>>
  BY DEF Deactivate, Active
<1>2. [rows[i] EXCEPT !.state = "inactive"] \in Row
  BY <1>1 DEF IInv, TypeOK, Row, NoRow
<1>3. TypeOK'
  BY <1>1, <1>2 DEF IInv, TypeOK
<1>4. StoreInv'
  BY <1>1, StoreUntouched DEF IInv
<1>5. WorkInv'
  BY <1>1 DEF IInv, WorkInv, WorkOK, At, Expiry
<1> QED  BY <1>3, <1>4, <1>5 DEF IInv

\* What a committed claim rests on.
LEMMA ClaimBasis ==
    ASSUME IInv, NEW p \in Process, Claim(p)
    PROVE  /\ work[p].rev = current /\ current \in Revision
           /\ work[p].preview = [rev |-> current, config |-> registered,
                                 basis |-> PolicyDecision(registered)]
           /\ registered \in Config
           /\ \/ work[p].authority = "approval" /\ Approved(work[p].preview, work[p].now)
              \/ work[p].authority = "policy" /\ PolicyAllows(work[p].preview)
<1>1. /\ work[p].preview.rev = current /\ registered = work[p].config
      /\ PolicyDecision(work[p].config) = work[p].preview.basis
      /\ \/ work[p].authority = "approval" /\ Approved(work[p].preview, work[p].now)
         \/ work[p].authority = "policy" /\ PolicyAllows(work[p].preview)
  BY DEF Claim, Revalidates, StillShown
<1>2. /\ work[p].preview.rev = work[p].rev /\ work[p].preview.config = work[p].config
      /\ work[p].config \in Config /\ work[p].rev # 0
  BY DEF Claim, At, IInv, WorkInv, WorkOK
<1>3. work[p].preview \in Preview /\ work[p].rev \in Revision \cup {0}
  BY DEF IInv, TypeOK, WorkState
<1>4. work[p].preview = [rev |-> current, config |-> registered,
                         basis |-> PolicyDecision(registered)]
  BY <1>1, <1>2, <1>3 DEF Preview
<1> QED  BY <1>1, <1>2, <1>3, <1>4

LEMMA ClaimStep ==
    ASSUME IInv, NEW p \in Process, Claim(p)
    PROVE  IInv'
<1> DEFINE seen == work[p].preview
           c == [rev |-> work[p].rev, preview |-> seen, authority |-> work[p].authority]
<1>1. /\ work[p].rev = current /\ current \in Revision
      /\ seen = [rev |-> current, config |-> registered, basis |-> PolicyDecision(registered)]
      /\ registered \in Config
      /\ \/ work[p].authority = "approval" /\ Approved(seen, work[p].now)
         \/ work[p].authority = "policy" /\ PolicyAllows(seen)
  BY ClaimBasis
<1>2. /\ claims' = claims \cup {c} /\ ~Claimed(work[p].rev) /\ Step(p, Idle)
      /\ UNCHANGED <<file, edits, clock, registered, current, created, approvals, evidence, overrides, rows>>
  BY DEF Claim
<1>3. seen \in Preview /\ seen.rev = current /\ seen.config = registered
      /\ seen.basis = PolicyDecision(registered)
  BY <1>1 DEF IInv, TypeOK, WorkState
<1>4. c.rev = current /\ c.preview = seen /\ c.authority = work[p].authority
  BY <1>1
<1>5. c \in ClaimRecord
  BY <1>1, <1>3 DEF ClaimRecord
<1> HIDE DEF c, seen
<1>6. WorkInv' /\ work' \in [Process -> WorkState]
  BY <1>2, EndOfCommand
<1>7. TypeOK'
  BY <1>2, <1>5, <1>6 DEF IInv, TypeOK
<1>8. c.rev \in Flagged => c.authority = "approval" /\ c.preview \in overrides
  <2>1. CASE work[p].authority = "approval" /\ Approved(seen, work[p].now)
    BY <1>3, <1>4, <2>1 DEF Approved
  <2>2. CASE work[p].authority = "policy" /\ PolicyAllows(seen)
    BY <1>3, <1>4, <2>2 DEF PolicyAllows
  <2> QED  BY <1>1, <2>1, <2>2
<1>9. SecretsAreReviewed'
  BY <1>2, <1>8 DEF IInv, StoreInv, SecretsAreReviewed
<1>10. \/ c.authority = "approval" /\ \E e \in evidence : e.preview = c.preview
       \/ /\ c.authority = "policy"
          /\ c.preview.config \in Configured
          /\ \E i \in ActivationId : c.preview.basis.rows = {<<i, ActiveRow(c.preview.config)>>}
  <2>1. CASE work[p].authority = "approval" /\ Approved(seen, work[p].now)
    BY <1>4, <2>1 DEF Approved
  <2>2. CASE work[p].authority = "policy" /\ PolicyAllows(seen)
    BY <1>1, <1>3, <1>4, <2>2, EligibleDecision DEF PolicyAllows, IInv
  <2> QED  BY <1>1, <2>1, <2>2
<1>11. ClaimsAreAuthorised'
  <2>1. c.preview.rev = c.rev
    BY <1>3, <1>4
  <2>2. \A d \in claims : d.rev # c.rev
    BY <1>1, <1>2, <1>4 DEF Claimed
  <2> QED  BY <1>2, <1>10, <2>1, <2>2 DEF IInv, StoreInv, ClaimsAreAuthorised
<1>12. RevisionInv' /\ ApprovalEvidence' /\ EvidenceInv'
  BY <1>2 DEF IInv, StoreInv, RevisionInv, ApprovalEvidence, EvidenceInv, Expiry
<1> QED  BY <1>6, <1>7, <1>9, <1>11, <1>12 DEF IInv, StoreInv

-----------------------------------------------------------------------------
(***************************************************************************)
(* The theorems.                                                           *)
(***************************************************************************)
LEMMA InitInvariant == Init => IInv
<1> SUFFICES ASSUME Init PROVE IInv
  OBVIOUS
<1>1. NoPreview \in Preview
  BY DEF NoPreview, NoBasis, Preview, Basis
<1>2. TypeOK
  BY <1>1, IdleType, BoundAssumption DEF Init, TypeOK, Time
<1>3. StoreInv
  BY BoundAssumption DEF Init, StoreInv, RevisionInv, ApprovalEvidence, EvidenceInv,
     SecretsAreReviewed, ClaimsAreAuthorised, Revision
<1>4. WorkInv
  BY DEF Init, WorkInv, WorkOK, Idle, At
<1> QED  BY <1>2, <1>3, <1>4 DEF IInv

LEMMA StepInvariant == IInv /\ [Next]_vars => IInv'
<1> SUFFICES ASSUME IInv, [Next]_vars PROVE IInv'
  OBVIOUS
<1>1. CASE (\E c \in Config : EditConfig(c)) \/ Tick
  BY <1>1, EnvironmentStep
<1>2. CASE \E i \in ActivationId : Deactivate(i)
  BY <1>2, DeactivateStep
<1>3. ASSUME NEW p \in Process, Run(p) PROVE IInv'
  <2>1. CASE \E job \in Command : Begin(p, job)
    BY <2>1, BeginStep
  <2>2. CASE Register(p) \/ Persist(p) \/ Show(p) \/ Bind(p) \/ Evaluate(p)
    BY <2>2, RegisterStep, PersistStep, ShowStep, BindStep, EvaluateStep
  <2>3. CASE ApproveAgain(p) \/ ApproveConflict(p) \/ ClaimRefused(p) \/ Abandon(p)
    BY <2>3, EndStep
  <2>4. CASE \E requested \in RequestedId : Choose(p, requested)
    BY <2>4, ChooseStep
  <2>5. CASE Approve(p) \/ Override(p) \/ Activate(p) \/ Claim(p)
    BY <2>5, ApproveStep, OverrideStep, ActivateStep, ClaimStep
  <2> QED  BY <1>3, <2>1, <2>2, <2>3, <2>4, <2>5 DEF Run
<1>4. CASE UNCHANGED vars
  <2>1. UNCHANGED store /\ UNCHANGED <<file, edits, clock, work>>
    BY <1>4 DEF vars
  <2>2. TypeOK' /\ WorkInv'
    BY <2>1 DEF IInv, TypeOK, WorkInv, WorkOK, At, Expiry, store
  <2>3. StoreInv'
    BY <2>1, StoreUntouched DEF IInv, store
  <2> QED  BY <2>2, <2>3 DEF IInv
<1> QED  BY <1>1, <1>2, <1>3, <1>4 DEF Next

\* The inductive invariant holds in every reachable state.
THEOREM AuthorityInvariant == Spec => []IInv
BY InitInvariant, StepInvariant, PTL DEF Spec

\* Every variable keeps its type (TypeOK of Authority).
THEOREM AuthorityTypeCorrect == Spec => []TypeOK
<1>1. IInv => TypeOK
  BY DEF IInv
<1> QED  BY <1>1, AuthorityInvariant, PTL

\* One audit event for each approved preview, never extended (approve).
THEOREM ApprovalsHaveEvidence == Spec => []ApprovalEvidence
<1>1. IInv => ApprovalEvidence
  BY DEF IInv, StoreInv
<1> QED  BY <1>1, AuthorityInvariant, PTL

\* A flagged revision is claimed only under an approval with its own override
\* (validate_human_approval, validate_policy).
THEOREM SecretsNeedOverride == Spec => []SecretsAreReviewed
<1>1. IInv => SecretsAreReviewed
  BY DEF IInv, StoreInv
<1> QED  BY <1>1, AuthorityInvariant, PTL

\* Every claim goes back to an operator's decision about exactly what is claimed
\* (revalidate_request).
THEOREM ClaimsHaveAuthority == Spec => []ClaimsAreAuthorised
<1>1. IInv => ClaimsAreAuthorised
  BY DEF IInv, StoreInv
<1> QED  BY <1>1, AuthorityInvariant, PTL

\* At the moment of the claim nothing differs from what was decided upon
\* (revalidate_request).
THEOREM ClaimIsExact == Spec => ClaimSeesNow
<1> DEFINE Exact == \A c \in claims' \ claims :
              /\ c.preview = [rev |-> current, config |-> registered,
                              basis |-> PolicyDecision(registered)]
              /\ c.authority = "approval" => approvals[current] = c.preview
<1>1. IInv /\ [Next]_vars => [Exact]_vars
  <2> SUFFICES ASSUME IInv, Next PROVE Exact
    OBVIOUS
  <2>1. CASE claims' = claims
    BY <2>1
  <2>2. ASSUME NEW p \in Process, Claim(p) PROVE Exact
    <3>1. claims' \ claims \subseteq {[rev |-> work[p].rev, preview |-> work[p].preview,
                                        authority |-> work[p].authority]}
      BY <2>2 DEF Claim
    <3>2. work[p].preview = [rev |-> current, config |-> registered,
                             basis |-> PolicyDecision(registered)]
      BY <2>2, ClaimBasis
    <3>3. work[p].authority = "approval" => approvals[work[p].preview.rev] = work[p].preview
      BY <2>2, ClaimBasis DEF Approved
    <3>4. work[p].preview.rev = current
      BY <2>2 DEF Claim, Revalidates, StillShown
    <3> QED  BY <3>1, <3>2, <3>3, <3>4
  <2>3. claims' = claims \/ \E p \in Process : Claim(p)
    BY DEF Next, Run, EditConfig, Tick, Deactivate, Begin, Register, Persist, Show, Bind,
       ApproveAgain, Approve, ApproveConflict, Override, Choose, Activate, Evaluate,
       ClaimRefused, Abandon, store
  <2> HIDE DEF Exact
  <2> QED  BY <2>1, <2>2, <2>3
<1> QED  BY <1>1, AuthorityInvariant, PTL DEF Spec, ClaimSeesNow

\* Revisions are immutable and follow one another, whoever revises the draft
\* (persist_revision, insert_revision).
THEOREM RevisionsStay == Spec => RevisionsAreImmutable
<1> DEFINE Stays == /\ \A r \in Revision : created[r] # 0 => created'[r] = created[r]
                    /\ current' \in {current, current + 1}
                    /\ current' # current => created[current'] = 0 /\ created'[current'] # 0
<1>1. IInv /\ [Next]_vars => [Stays]_vars
  <2> SUFFICES ASSUME IInv, Next PROVE Stays
    OBVIOUS
  <2>1. CASE created' = created /\ current' = current
    BY <2>1
  <2>2. ASSUME NEW p \in Process, Persist(p) PROVE Stays
    BY <2>2, PersistAdds DEF IInv, TypeOK, Time
  <2>3. (created' = created /\ current' = current) \/ \E p \in Process : Persist(p)
    BY DEF Next, Run, EditConfig, Tick, Deactivate, Begin, Register, Claim, Show, Bind,
       ApproveAgain, Approve, ApproveConflict, Override, Choose, Activate, Evaluate,
       ClaimRefused, Abandon, store
  <2> HIDE DEF Stays
  <2> QED  BY <2>1, <2>2, <2>3
<1> QED  BY <1>1, AuthorityInvariant, PTL DEF Spec, RevisionsAreImmutable

\* A deactivated row stays as it is (activate_policy, deactivate_policy).
THEOREM DeactivatedRowsStay == Spec => DeactivationIsFinal
<1> DEFINE Final == \A i \in ActivationId : rows[i].state = "inactive" => rows'[i] = rows[i]
<1>1. IInv /\ [Next]_vars => [Final]_vars
  <2> SUFFICES ASSUME IInv, Next PROVE Final
    OBVIOUS
  <2>1. CASE rows' = rows
    BY <2>1
  <2>2. ASSUME NEW p \in Process, Activate(p) PROVE Final
    <3> SUFFICES ASSUME NEW i \in ActivationId, rows[i].state = "inactive" PROVE rows'[i] = rows[i]
      OBVIOUS
    <3>1. i \in Existing
      BY DEF Existing, NoRow
    <3> QED  BY <2>2, <3>1 DEF Activate, IdFree, IInv, TypeOK
  <2>3. ASSUME NEW i \in ActivationId, Deactivate(i) PROVE Final
    BY <2>3 DEF Deactivate, Active, IInv, TypeOK
  <2>4. rows' = rows \/ (\E p \in Process : Activate(p)) \/ \E i \in ActivationId : Deactivate(i)
    BY DEF Next, Run, EditConfig, Tick, Begin, Register, Persist, Claim, Show, Bind,
       ApproveAgain, Approve, ApproveConflict, Override, Choose, Evaluate,
       ClaimRefused, Abandon, store
  <2> HIDE DEF Final
  <2> QED  BY <2>1, <2>2, <2>3, <2>4
<1> QED  BY <1>1, AuthorityInvariant, PTL DEF Spec, DeactivationIsFinal

=============================================================================
