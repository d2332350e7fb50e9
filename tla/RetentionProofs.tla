--------------------------- MODULE RetentionProofs ---------------------------
(***************************************************************************)
(* The properties of Retention hold for every set of processes, drafts and *)
(* items, every bound, and every policy whose periods are ordered as the   *)
(* code validates them.                                                    *)
(***************************************************************************)
EXTENDS Retention, TLAPS

(***************************************************************************)
(* The inductive invariant.                                                *)
(***************************************************************************)

\* What a command that sends carries from its evaluation to its claim.
Evaluation == [pc : {"evaluated", "refused"}, draft : Draft, revision : Revision, at : Time,
               authority : Row, since : Time \cup {Never}, basis : Time \cup {Never}]

OpenPurge == [pc : {"planned", "confirmed"}, scope : Scope, cutoff : Time,
              shown : SUBSET Row, drift : Nat]

\* The rows: no row and no sweep is of the future.
RowInv ==
    /\ now \in Time
    /\ at \in [Row -> Time \cup {Never}]
    /\ content \in [TextRow -> Text]
    /\ \A k \in TextRow : content[k] = "none" <=> ~Exists(k)
    /\ \A k \in Existing : at[k] <= now
    /\ swept \in Time \cup {Never} /\ (swept # Never => swept <= now)

ReferenceInv == \A k \in Existing : Refers(k) \subseteq Existing

ProcessInv == sending \in [Process -> {Quiet} \cup Evaluation]

\* A plan is of the rows as they are until a write counts as drift.
PurgeInv ==
    /\ purge \in {Quiet} \cup OpenPurge
    /\ purges \in 0..MaxPurges
    /\ purge.pc # "idle" => purges < MaxPurges
    /\ purge.pc # "idle" /\ purge.drift = 0 => purge.shown = Affected(purge.scope, purge.cutoff)

\* A draft is as old as its current revision, which is no younger than its
\* attempt, and the revisions that were posted are there while the draft is.
DraftOK(d) ==
    /\ d \in described => Exists(DraftRow(d))
    /\ \A r \in Revision :
          /\ Exists(DraftRow(d)) /\ posted[d][r] > 0 => Exists(RevisionRow(d, r))
          /\ IsCurrent(d, r) => at[DraftRow(d)] = at[RevisionRow(d, r)]
          /\ Exists(AttemptRow(d, r)) => at[RevisionRow(d, r)] <= at[AttemptRow(d, r)]
          /\ posted[d][r] > 0 /\ IsCurrent(d, r) /\ Unexpired(d, r, now) /\ Loads(d) =>
                Exists(AttemptRow(d, r))

DraftInv ==
    /\ described \subseteq Draft
    /\ posted \in [Draft -> [Revision -> 0..2]]
    /\ \A d \in Draft : DraftOK(d)

\* RetentionHolds, where what keeps an expired owner is no evidence: a purge of
\* metadata may take the evidence.
SweptInv ==
    swept = now =>
        /\ \A k \in TextRow : Exists(k) /\ at[k] + ContentDays <= now => content[k] # "text"
        /\ \A k \in Evidence : Exists(k) => at[k] + MetadataDays > now
        /\ \A o \in Owner : Exists(o) /\ at[o] + MetadataDays <= now =>
              \E k \in OwnedBy(o) \ Evidence : Exists(k) /\ at[k] + ContentDays > now

StoreInv ==
    /\ RowInv /\ ReferenceInv /\ ProcessInv /\ DraftInv /\ SweptInv
    /\ CleanupNeverRefused

IInv == StoreInv /\ PurgeInv

-----------------------------------------------------------------------------
(***************************************************************************)
(* Rows.                                                                   *)
(***************************************************************************)

\* What each owner owns.
LEMMA OwnedByDraft ==
    ASSUME NEW d \in Draft
    PROVE  OwnedBy(DraftRow(d)) =
             {RevisionRow(d, r) : r \in Revision} \cup {ApprovalRow(d, r) : r \in Revision}
             \cup {AttemptRow(d, r) : r \in Revision} \cup {LinkRow(i, d) : i \in Item}
<1>1. DraftRow(d)[1] = "draft" /\ DraftRow(d)[2] = d
  BY DEF DraftRow
<1> QED  BY <1>1 DEF OwnedBy

LEMMA OwnedByItem ==
    ASSUME NEW i \in Item
    PROVE  OwnedBy(ItemRow(i)) =
             {CurrentRow(i)} \cup {TransitionRow(i, t) : t \in TransitionType}
             \cup {LinkRow(i, d) : d \in Draft}
<1>1. ItemRow(i)[1] = "item" /\ ItemRow(i)[2] = i
  BY DEF ItemRow
<1> QED  BY <1>1 DEF OwnedBy

\* Every row is of one of nine tables.
LEMMA RowForms ==
    ASSUME NEW k
    PROVE  k \in Row <=>
             \/ \E d \in Draft : k = DraftRow(d)
             \/ \E i \in Item : k = ItemRow(i)
             \/ \E d \in Draft, r \in Revision :
                   k = RevisionRow(d, r) \/ k = ApprovalRow(d, r) \/ k = AttemptRow(d, r)
             \/ \E i \in Item : k = CurrentRow(i)
             \/ \E i \in Item, t \in TransitionType : k = TransitionRow(i, t)
             \/ \E i \in Item, d \in Draft : k = LinkRow(i, d)
             \/ k = Activation
<1>1. k \in UNION {OwnedBy(o) : o \in Owner} <=>
         \/ \E d \in Draft : k \in OwnedBy(DraftRow(d))
         \/ \E i \in Item : k \in OwnedBy(ItemRow(i))
  BY DEF Owner
<1>2. ASSUME NEW d \in Draft
      PROVE  k \in OwnedBy(DraftRow(d)) <=>
               \/ \E r \in Revision :
                     k = RevisionRow(d, r) \/ k = ApprovalRow(d, r) \/ k = AttemptRow(d, r)
               \/ \E i \in Item : k = LinkRow(i, d)
  BY <1>2, OwnedByDraft
<1>3. ASSUME NEW i \in Item
      PROVE  k \in OwnedBy(ItemRow(i)) <=>
               \/ k = CurrentRow(i)
               \/ \E t \in TransitionType : k = TransitionRow(i, t)
               \/ \E d \in Draft : k = LinkRow(i, d)
  BY <1>3, OwnedByItem
<1>4. k \in Owner <=> (\E d \in Draft : k = DraftRow(d)) \/ \E i \in Item : k = ItemRow(i)
  BY DEF Owner
<1> HIDE DEF Activation
<1>5. k \in Row <=> k \in Owner \/ k \in UNION {OwnedBy(o) : o \in Owner} \/ k = Activation
  BY DEF Row
<1> QED  BY <1>1, <1>2, <1>3, <1>4, <1>5, Zenon

\* The keys of the rows, and what tells them apart.
LEMMA Keys ==
    /\ \A d \in Draft : DraftRow(d) \in Row /\ DraftRow(d)[1] = "draft" /\ DraftRow(d)[2] = d
    /\ \A i \in Item : ItemRow(i) \in Row /\ ItemRow(i)[1] = "item" /\ ItemRow(i)[2] = i
    /\ \A d \in Draft, r \in Revision :
          /\ RevisionRow(d, r) \in Row /\ RevisionRow(d, r)[1] = "revision"
          /\ RevisionRow(d, r)[2] = d /\ RevisionRow(d, r)[3] = r
          /\ ApprovalRow(d, r) \in Row /\ ApprovalRow(d, r)[1] = "approval"
          /\ ApprovalRow(d, r)[2] = d /\ ApprovalRow(d, r)[3] = r
          /\ AttemptRow(d, r) \in Row /\ AttemptRow(d, r)[1] = "attempt"
          /\ AttemptRow(d, r)[2] = d /\ AttemptRow(d, r)[3] = r
    /\ \A i \in Item :
          /\ CurrentRow(i) \in Row /\ CurrentRow(i)[1] = "current" /\ CurrentRow(i)[2] = i
    /\ \A i \in Item, t \in TransitionType :
          /\ TransitionRow(i, t) \in Row /\ TransitionRow(i, t)[1] = "transition"
          /\ TransitionRow(i, t)[2] = i /\ TransitionRow(i, t)[3] = t
    /\ \A i \in Item, d \in Draft :
          /\ LinkRow(i, d) \in Row /\ LinkRow(i, d)[1] = "link"
          /\ LinkRow(i, d)[2] = i /\ LinkRow(i, d)[3] = d
    /\ Activation \in Row /\ Activation[1] = "activation"
<1>1. \A d \in Draft : DraftRow(d) \in Row /\ DraftRow(d)[1] = "draft" /\ DraftRow(d)[2] = d
  BY RowForms DEF DraftRow
<1>2. \A i \in Item : ItemRow(i) \in Row /\ ItemRow(i)[1] = "item" /\ ItemRow(i)[2] = i
  BY RowForms DEF ItemRow
<1>3. \A d \in Draft, r \in Revision :
          /\ RevisionRow(d, r) \in Row /\ RevisionRow(d, r)[1] = "revision"
          /\ RevisionRow(d, r)[2] = d /\ RevisionRow(d, r)[3] = r
  BY RowForms DEF RevisionRow
<1>4. \A d \in Draft, r \in Revision :
          /\ ApprovalRow(d, r) \in Row /\ ApprovalRow(d, r)[1] = "approval"
          /\ ApprovalRow(d, r)[2] = d /\ ApprovalRow(d, r)[3] = r
  BY RowForms DEF ApprovalRow
<1>5. \A d \in Draft, r \in Revision :
          /\ AttemptRow(d, r) \in Row /\ AttemptRow(d, r)[1] = "attempt"
          /\ AttemptRow(d, r)[2] = d /\ AttemptRow(d, r)[3] = r
  BY RowForms DEF AttemptRow
<1>6. \A i \in Item :
          /\ CurrentRow(i) \in Row /\ CurrentRow(i)[1] = "current" /\ CurrentRow(i)[2] = i
  BY RowForms DEF CurrentRow
<1>7. \A i \in Item, t \in TransitionType :
          /\ TransitionRow(i, t) \in Row /\ TransitionRow(i, t)[1] = "transition"
          /\ TransitionRow(i, t)[2] = i /\ TransitionRow(i, t)[3] = t
  BY RowForms DEF TransitionRow
<1>8. \A i \in Item, d \in Draft :
          /\ LinkRow(i, d) \in Row /\ LinkRow(i, d)[1] = "link"
          /\ LinkRow(i, d)[2] = i /\ LinkRow(i, d)[3] = d
  BY RowForms DEF LinkRow
<1>9. Activation \in Row /\ Activation[1] = "activation"
  BY RowForms DEF Activation
<1> QED  BY <1>1, <1>2, <1>3, <1>4, <1>5, <1>6, <1>7, <1>8, <1>9

\* A row that owns is a draft or an item, and no other row is.
LEMMA OwnerRows ==
    /\ Owner \subseteq Row
    /\ \A o \in Owner : OwnedBy(o) \subseteq Row
    /\ \A o \in Owner : o[1] \in {"draft", "item"} /\ o \notin Evidence
    /\ \A o \in Owner : \A k \in OwnedBy(o) :
          k[1] \in {"revision", "approval", "attempt", "link", "current", "transition"}
<1>1. \A d \in Draft : \A k \in OwnedBy(DraftRow(d)) :
         k \in Row /\ k[1] \in {"revision", "approval", "attempt", "link"}
  BY OwnedByDraft, Keys
<1>2. \A i \in Item : \A k \in OwnedBy(ItemRow(i)) :
         k \in Row /\ k[1] \in {"current", "transition", "link"}
  BY OwnedByItem, Keys
<1>3. \A o \in Owner : o \in Row /\ o[1] \in {"draft", "item"}
  BY Keys DEF Owner
<1>4. \A o \in Owner : o \notin Evidence
  BY <1>3 DEF Evidence
<1>5. \A o \in Owner : \A k \in OwnedBy(o) : 
         k \in Row /\ k[1] \in {"revision", "approval", "attempt", "link", "current", "transition"}
  BY <1>1, <1>2 DEF Owner
<1> QED  BY <1>3, <1>4, <1>5

\* A text, and every row that is owned and no evidence, has one owner.
LEMMA OneOwner ==
    ASSUME NEW k \in Row, k \notin Evidence, NEW o \in Owner, NEW p \in Owner,
           k \in OwnedBy(o), k \in OwnedBy(p)
    PROVE  o = p
<1>1. k[1] # "link"
  BY DEF Evidence
<1>2. ASSUME NEW q \in Owner, k \in OwnedBy(q)
      PROVE  q = (IF k[1] \in {"current", "transition"} THEN ItemRow(k[2]) ELSE DraftRow(k[2]))
  <2>1. CASE \E d \in Draft : q = DraftRow(d)
    <3>1. PICK d \in Draft : q = DraftRow(d)
      BY <2>1
    <3>2. k[1] \in {"revision", "approval", "attempt"} /\ k[2] = d
      BY <3>1, <1>1, <1>2, OwnedByDraft, Keys
    <3> QED  BY <3>1, <3>2
  <2>2. CASE \E i \in Item : q = ItemRow(i)
    <3>1. PICK i \in Item : q = ItemRow(i)
      BY <2>2
    <3>2. k[1] \in {"current", "transition"} /\ k[2] = i
      BY <3>1, <1>1, <1>2, OwnedByItem, Keys
    <3> QED  BY <3>1, <3>2
  <2> QED  BY <2>1, <2>2 DEF Owner
<1> QED  BY <1>2

LEMMA TextRows ==
    /\ TextRow \subseteq Row /\ Evidence \subseteq Row
    /\ TextRow \cap Evidence = {}
    /\ \A k \in TextRow : k[1] # "draft"
    /\ \A d \in Draft, r \in Revision : RevisionRow(d, r) \in TextRow /\ RevisionRow(d, r) \notin Evidence
    /\ \A d \in Draft : DraftRow(d) \notin Evidence
    /\ \A d \in Draft, r \in Revision : AttemptRow(d, r) \in Evidence
BY Keys DEF TextRow, Evidence

\* What each row refers to.
LEMMA References ==
    /\ \A d \in Draft : Refers(DraftRow(d)) = {}
    /\ \A i \in Item : Refers(ItemRow(i)) = {}
    /\ \A d \in Draft, r \in Revision :
          /\ Refers(RevisionRow(d, r)) = {DraftRow(d)}
          /\ Refers(ApprovalRow(d, r)) = {RevisionRow(d, r)}
          /\ Refers(AttemptRow(d, r)) = {RevisionRow(d, r)}
    /\ \A i \in Item : Refers(CurrentRow(i)) = {ItemRow(i)}
    /\ \A i \in Item, t \in TransitionType : Refers(TransitionRow(i, t)) = {ItemRow(i)}
    /\ \A i \in Item, d \in Draft : Refers(LinkRow(i, d)) = {ItemRow(i), DraftRow(d)}
    /\ Refers(Activation) = {}
<1>1. \A d \in Draft : Refers(DraftRow(d)) = {}
  BY Keys DEF Refers
<1>2. \A i \in Item : Refers(ItemRow(i)) = {}
  BY Keys DEF Refers
<1>3. \A d \in Draft, r \in Revision : Refers(RevisionRow(d, r)) = {DraftRow(d)}
  BY Keys DEF Refers
<1>4. \A d \in Draft, r \in Revision : Refers(ApprovalRow(d, r)) = {RevisionRow(d, r)}
  BY Keys DEF Refers
<1>5. \A d \in Draft, r \in Revision : Refers(AttemptRow(d, r)) = {RevisionRow(d, r)}
  BY Keys DEF Refers
<1>6. \A i \in Item : Refers(CurrentRow(i)) = {ItemRow(i)}
  BY Keys DEF Refers
<1>7. \A i \in Item, t \in TransitionType : Refers(TransitionRow(i, t)) = {ItemRow(i)}
  BY Keys DEF Refers
<1>8. \A i \in Item, d \in Draft : Refers(LinkRow(i, d)) = {ItemRow(i), DraftRow(d)}
  BY Keys DEF Refers
<1>9. Refers(Activation) = {}
  BY Keys DEF Refers
<1> QED  BY <1>1, <1>2, <1>3, <1>4, <1>5, <1>6, <1>7, <1>8, <1>9

-----------------------------------------------------------------------------
(***************************************************************************)
(* What the cleanups remove.                                               *)
(***************************************************************************)
SweptRows == {k \in Row : RemovedRow(k, RemovedOwner)}

\* The sweep removes an owner only on its own account, and a revision only with
\* its draft.
LEMMA SweptOwners ==
    /\ RemovedOwner \subseteq Owner \cap Existing
    /\ \A o \in Owner : o \in SweptRows => o \in RemovedOwner
    /\ \A o \in RemovedOwner : \A k \in {o} \cup OwnedBy(o) : Exists(k) => k \in SweptRows
    /\ \A d \in Draft, r \in Revision :
          RevisionRow(d, r) \in SweptRows => DraftRow(d) \in RemovedOwner
<1>1. RemovedOwner \subseteq Owner \cap Existing
  BY OwnerRows DEF RemovedOwner, Expired, Existing
<1>2. ASSUME NEW o \in Owner, o \in SweptRows PROVE o \in RemovedOwner
  <2>1. \A p \in RemovedOwner : o \notin OwnedBy(p)
    BY <1>1, OwnerRows
  <2> QED  BY <1>2, <2>1, OwnerRows DEF SweptRows, RemovedRow
<1>3. \A o \in RemovedOwner : \A k \in {o} \cup OwnedBy(o) : Exists(k) => k \in SweptRows
  BY <1>1, OwnerRows DEF SweptRows, RemovedRow
<1>4. ASSUME NEW d \in Draft, NEW r \in Revision, RevisionRow(d, r) \in SweptRows
      PROVE  DraftRow(d) \in RemovedOwner
  <2> DEFINE k == RevisionRow(d, r)
  <2>1. k \in Row /\ k \notin Evidence /\ k \notin Owner /\ k \in OwnedBy(DraftRow(d))
    BY TextRows, Keys, OwnerRows, OwnedByDraft
  <2>2. PICK o \in RemovedOwner : k \in OwnedBy(o)
    BY <1>4, <1>1, <2>1 DEF SweptRows, RemovedRow
  <2>3. DraftRow(d) \in Owner
    BY DEF Owner
  <2> QED  BY <1>1, <2>1, <2>2, <2>3, OneOwner
<1> QED  BY <1>1, <1>2, <1>3, <1>4

\* No row that stays refers to a row that the sweep removes.
LEMMA SweepUnrestricted == ~Restricted(SweptRows)
<1> SUFFICES ASSUME NEW k \in Existing \ SweptRows, NEW x \in Refers(k), x \in SweptRows
             PROVE  FALSE
  BY DEF Restricted
<1>1. k \in Row /\ Exists(k)
  BY DEF Existing
<1>2. ASSUME NEW o \in Owner, x = o, k \in OwnedBy(o) PROVE FALSE
  BY <1>1, <1>2, SweptOwners
<1>3. CASE \E d \in Draft, r \in Revision : k = RevisionRow(d, r)
  <2>1. PICK d \in Draft, r \in Revision : k = RevisionRow(d, r)
    BY <1>3
  <2>2. x = DraftRow(d) /\ k \in OwnedBy(DraftRow(d)) /\ DraftRow(d) \in Owner
    BY <2>1, References, OwnedByDraft DEF Owner
  <2> QED  BY <2>2, <1>2
<1>4. CASE \E d \in Draft, r \in Revision : k = ApprovalRow(d, r) \/ k = AttemptRow(d, r)
  <2>1. PICK d \in Draft, r \in Revision : k = ApprovalRow(d, r) \/ k = AttemptRow(d, r)
    BY <1>4
  <2>2. x = RevisionRow(d, r) /\ k \in OwnedBy(DraftRow(d))
    BY <2>1, References, OwnedByDraft
  <2>3. DraftRow(d) \in RemovedOwner
    BY <2>2, SweptOwners
  <2> QED  BY <2>2, <2>3, <1>1, SweptOwners
<1>5. CASE \/ \E i \in Item : k = CurrentRow(i)
           \/ \E i \in Item, t \in TransitionType : k = TransitionRow(i, t)
  <2>1. PICK i \in Item : k = CurrentRow(i) \/ \E t \in TransitionType : k = TransitionRow(i, t)
    BY <1>5
  <2>2. x = ItemRow(i) /\ k \in OwnedBy(ItemRow(i)) /\ ItemRow(i) \in Owner
    BY <2>1, References, OwnedByItem DEF Owner
  <2> QED  BY <2>2, <1>2
<1>6. CASE \E i \in Item, d \in Draft : k = LinkRow(i, d)
  <2>1. PICK i \in Item, d \in Draft : k = LinkRow(i, d)
    BY <1>6
  <2>2. x \in {ItemRow(i), DraftRow(d)}
    BY <2>1, References
  <2>3. k \in OwnedBy(ItemRow(i)) /\ k \in OwnedBy(DraftRow(d))
    BY <2>1, OwnedByItem, OwnedByDraft
  <2>4. ItemRow(i) \in Owner /\ DraftRow(d) \in Owner
    BY DEF Owner
  <2> QED  BY <2>2, <2>3, <2>4, <1>2
<1>7. CASE (\E d \in Draft : k = DraftRow(d)) \/ (\E i \in Item : k = ItemRow(i)) \/ k = Activation
  BY <1>7, References
<1> QED  BY <1>1, <1>3, <1>4, <1>5, <1>6, <1>7, RowForms

\* Nothing refers to evidence, and a purge of everything leaves nothing.
LEMMA PurgeUnrestricted ==
    ASSUME NEW scope \in Scope, NEW cutoff
    PROVE  ~Restricted(Deleted(scope, cutoff))
<1>1. CASE scope = "all"
  BY <1>1 DEF Restricted, Deleted
<1>2. CASE scope = "metadata"
  <2>1. \A k \in Row : \A x \in Refers(k) : x[1] \in {"draft", "revision", "item"}
    BY RowForms, References, Keys
  <2>2. \A x \in Deleted(scope, cutoff) : x \in Evidence
    BY <1>2 DEF Deleted
  <2> QED  BY <2>1, <2>2 DEF Restricted, Existing, Evidence
<1>3. CASE scope = "content"
  BY <1>3 DEF Restricted, Deleted
<1> QED  BY <1>1, <1>2, <1>3 DEF Scope

\* A text younger than the content cutoff stays, and so does what it belongs to.
LEMMA FreshStays ==
    ASSUME RowInv, NEW k \in Row, k \notin Evidence, Exists(k), ~Expired(k, ContentDays)
    PROVE  k \notin SweptRows
<1>1. at[k] \in Time /\ now \in Nat
  BY PolicyAssumption DEF RowInv, Exists, Time
<1>2. ~Expired(k, MetadataDays)
  BY <1>1, PolicyAssumption DEF Expired, Time
<1>3. k \notin RemovedOwner
  BY <1>2 DEF RemovedOwner
<1>4. ASSUME NEW o \in RemovedOwner, k \in OwnedBy(o) PROVE FALSE
  BY <1>4 DEF RemovedOwner, FreshOwner
<1> QED  BY <1>2, <1>3, <1>4 DEF SweptRows, RemovedRow

-----------------------------------------------------------------------------
(***************************************************************************)
(* Writes.                                                                 *)
(***************************************************************************)

\* Rows inserted or refreshed are of now; what they refer to must exist.
LEMMA InsertRows ==
    ASSUME RowInv, ReferenceInv, NEW S, S \subseteq Row, Insert(S), UNCHANGED <<now, swept>>,
           \A k \in S : Refers(k) \subseteq Existing \cup S
    PROVE  /\ RowInv' /\ ReferenceInv'
           /\ Existing' = Existing \cup S
           /\ \A k \in Row : at'[k] = IF k \in S THEN now ELSE at[k]
           /\ \A k \in TextRow : content'[k] = IF k \in S THEN "text" ELSE content[k]
<1>1. \A k \in Row : at'[k] = IF k \in S THEN now ELSE at[k]
  BY DEF Insert
<1>2. \A k \in TextRow : content'[k] = IF k \in S THEN "text" ELSE content[k]
  BY DEF Insert
<1>3. now \in Time /\ now # Never
  BY PolicyAssumption DEF RowInv, Time, Never
<1>4. Existing' = Existing \cup S
  BY <1>1, <1>3 DEF Existing, Exists
<1>5. at' \in [Row -> Time \cup {Never}] /\ content' \in [TextRow -> Text]
  BY <1>3 DEF Insert, RowInv, Text
<1>6. \A k \in TextRow : content'[k] = "none" <=> at'[k] = Never
  BY <1>1, <1>2, <1>3, TextRows DEF RowInv, Exists
<1>7. \A k \in Existing' : at'[k] <= now
  BY <1>1, <1>3, <1>4 DEF RowInv, Time, Existing
<1>8. RowInv'
  BY <1>5, <1>6, <1>7 DEF RowInv, Exists
<1>9. ReferenceInv'
  <2>1. \A k \in Existing \cup S : Refers(k) \subseteq Existing \cup S
    BY DEF ReferenceInv
  <2> QED  BY <2>1, <1>4 DEF ReferenceInv, Refers
<1> QED  BY <1>1, <1>2, <1>4, <1>8, <1>9

\* Rows removed, with every row that refers to them, and texts marked.
LEMMA RemoveRows ==
    ASSUME RowInv, ReferenceInv, ProcessInv,
           NEW S, NEW M, NEW marker, marker \in {"expired", "purged"},
           M \subseteq TextRow \cap Existing, ~Restricted(S),
           Remove(S, M, marker), UNCHANGED now, swept' \in {swept, now}
    PROVE  /\ RowInv' /\ ReferenceInv' /\ ProcessInv'
           /\ Existing' = Existing \ S
           /\ \A k \in Row : at'[k] = IF k \in S THEN Never ELSE at[k]
           /\ \A k \in TextRow : content'[k] =
                 IF k \in S THEN "none" ELSE IF k \in M THEN marker ELSE content[k]
<1>1. \A k \in Row : at'[k] = IF k \in S THEN Never ELSE at[k]
  BY DEF Remove
<1>2. \A k \in TextRow : content'[k] =
                 IF k \in S THEN "none" ELSE IF k \in M THEN marker ELSE content[k]
  BY DEF Remove
<1>4. Existing' = Existing \ S
  BY <1>1 DEF Existing, Exists
<1>5. at' \in [Row -> Time \cup {Never}] /\ content' \in [TextRow -> Text]
  BY DEF Remove, RowInv, Text
<1>6. \A k \in TextRow : content'[k] = "none" <=> at'[k] = Never
  <2> SUFFICES ASSUME NEW k \in TextRow PROVE content'[k] = "none" <=> at'[k] = Never
    OBVIOUS
  <2>1. k \in Row /\ (content[k] = "none" <=> at[k] = Never) /\ (k \in M => at[k] # Never)
    BY TextRows DEF RowInv, Exists, Existing
  <2> QED  BY <2>1, <1>1, <1>2
<1>7. \A k \in Existing' : at'[k] <= now
  BY <1>1, <1>4 DEF RowInv, Existing
<1>8. swept' \in Time \cup {Never} /\ (swept' # Never => swept' <= now)
  BY PolicyAssumption DEF RowInv, Time
<1>9. RowInv'
  BY <1>5, <1>6, <1>7, <1>8 DEF RowInv, Exists
<1>10. ReferenceInv'
  <2>1. \A k \in Existing \ S : Refers(k) \subseteq Existing \ S
    BY DEF ReferenceInv, Restricted
  <2> QED  BY <2>1, <1>4 DEF ReferenceInv, Refers
<1>11. ProcessInv'
  <2> SUFFICES ASSUME NEW p \in Process PROVE sending'[p] \in {Quiet} \cup Evaluation
    BY DEF ProcessInv, Remove
  <2>1. sending[p] \in {Quiet} \cup Evaluation
    BY DEF ProcessInv
  <2>2. CASE sending[p].pc = "evaluated" /\ sending[p].authority \in S
    <3>1. sending[p] \in Evaluation
      BY <2>1, <2>2 DEF Quiet
    <3> QED  BY <2>2, <3>1 DEF Remove, Evaluation
  <2>3. CASE ~(sending[p].pc = "evaluated" /\ sending[p].authority \in S)
    BY <2>1, <2>3 DEF Remove
  <2> QED  BY <2>2, <2>3
<1> QED  BY <1>1, <1>2, <1>4, <1>9, <1>10, <1>11

\* A draft whose rows a step leaves alone.
LEMMA DraftUntouched ==
    ASSUME NEW d \in Draft, DraftOK(d), UNCHANGED now,
           at'[DraftRow(d)] = at[DraftRow(d)],
           \A r \in Revision :
              /\ at'[RevisionRow(d, r)] = at[RevisionRow(d, r)]
              /\ at'[AttemptRow(d, r)] = at[AttemptRow(d, r)]
              /\ content'[RevisionRow(d, r)] = content[RevisionRow(d, r)],
           posted'[d] = posted[d], d \in described' => d \in described
    PROVE  DraftOK(d)'
BY DEF DraftOK, Exists, IsCurrent, Unexpired, Loads

\* Rows of other tables.
LEMMA InsertElsewhere ==
    ASSUME DraftInv, NEW S, S \subseteq Row, Insert(S), UNCHANGED <<now, described, posted>>,
           \A k \in S : k[1] \notin {"draft", "revision", "attempt"}
    PROVE  DraftInv'
<1>1. ASSUME NEW d \in Draft PROVE DraftOK(d)'
  <2>1. at'[DraftRow(d)] = at[DraftRow(d)]
    BY Keys DEF Insert
  <2>2. \A r \in Revision :
              /\ at'[RevisionRow(d, r)] = at[RevisionRow(d, r)]
              /\ at'[AttemptRow(d, r)] = at[AttemptRow(d, r)]
              /\ content'[RevisionRow(d, r)] = content[RevisionRow(d, r)]
    BY Keys, TextRows DEF Insert
  <2> QED  BY <2>1, <2>2, DraftUntouched DEF DraftInv
<1> QED  BY <1>1 DEF DraftInv

\* What is inserted is fresh.
LEMMA InsertSwept ==
    ASSUME RowInv, SweptInv, NEW S, S \subseteq Row, Insert(S), UNCHANGED <<now, swept>>
    PROVE  SweptInv'
<1> SUFFICES ASSUME swept = now PROVE SweptInv'
  BY DEF SweptInv
<1>1. now \in Nat /\ now # Never /\ \A k \in Row : Exists(k) => at[k] \in Nat
  BY PolicyAssumption DEF RowInv, Time, Never, Exists
<1>2. \A k \in Row : at'[k] = IF k \in S THEN now ELSE at[k]
  BY DEF Insert
<1>3. \A k \in TextRow : Exists(k)' /\ at'[k] + ContentDays <= now => content'[k] # "text"
  <2> SUFFICES ASSUME NEW k \in TextRow, Exists(k)', at'[k] + ContentDays <= now
               PROVE  content'[k] # "text"
    OBVIOUS
  <2>1. k \in Row /\ k \notin S
    BY <1>1, <1>2, TextRows, PolicyAssumption
  <2> QED  BY <2>1, <1>2 DEF SweptInv, Exists, Insert
<1>4. \A k \in Evidence : Exists(k)' => at'[k] + MetadataDays > now
  <2> SUFFICES ASSUME NEW k \in Evidence, Exists(k)' PROVE at'[k] + MetadataDays > now
    OBVIOUS
  <2>1. CASE k \in S
    BY <2>1, <1>1, <1>2, TextRows, PolicyAssumption
  <2>2. CASE k \notin S
    BY <2>2, <1>2, TextRows DEF SweptInv, Exists
  <2> QED  BY <2>1, <2>2
<1>5. ASSUME NEW o \in Owner, Exists(o)', at'[o] + MetadataDays <= now
      PROVE  \E k \in OwnedBy(o) \ Evidence : Exists(k)' /\ at'[k] + ContentDays > now
  <2>1. o \in Row /\ o \notin S
    BY <1>1, <1>2, <1>5, OwnerRows, PolicyAssumption
  <2>2. PICK k \in OwnedBy(o) \ Evidence : Exists(k) /\ at[k] + ContentDays > now
    BY <2>1, <1>2, <1>5 DEF SweptInv, Exists
  <2>3. k \in Row
    BY OwnerRows
  <2>4. Exists(k)' /\ at'[k] + ContentDays > now
    BY <2>2, <2>3, <1>1, <1>2, PolicyAssumption DEF Exists
  <2> QED  BY <2>4
<1> QED  BY <1>3, <1>4, <1>5 DEF SweptInv, OwnedBy, Evidence

\* A cleanup that takes a revision with its draft and only with it.
LEMMA RemoveDrafts ==
    ASSUME RowInv, ReferenceInv', DraftInv, NEW S, S \subseteq Row,
           NEW M, NEW marker, marker \in {"expired", "purged"},
           Remove(S, M, marker), UNCHANGED <<now, posted>>,
           described' \subseteq {d \in described : DraftRow(d) \notin S},
           \A d \in Draft, r \in Revision : Exists(RevisionRow(d, r)) =>
              (RevisionRow(d, r) \in S <=> DraftRow(d) \in S),
           \A d \in Draft, r \in Revision :
              /\ Exists(AttemptRow(d, r)) /\ AttemptRow(d, r) \in S
              /\ DraftRow(d) \notin S /\ IsCurrent(d, r)
              => ~Unexpired(d, r, now) \/ d \notin described'
    PROVE  DraftInv'
<1> SUFFICES ASSUME NEW d \in Draft PROVE DraftOK(d)'
  BY DEF DraftInv
<1>1. DraftOK(d)
  BY DEF DraftInv
<1>2. \A k \in Row : at'[k] = IF k \in S THEN Never ELSE at[k]
  BY DEF Remove
<1>3. \A r \in Revision :
         content'[RevisionRow(d, r)] = "text" => content[RevisionRow(d, r)] = "text"
  BY TextRows DEF Remove
<1>4. d \in described' => Exists(DraftRow(d))'
  BY <1>1, <1>2, Keys DEF DraftOK, Exists
<1>5. \A r \in Revision :
         /\ Exists(RevisionRow(d, r))' <=> Exists(RevisionRow(d, r)) /\ DraftRow(d) \notin S
         /\ Exists(DraftRow(d))' <=> Exists(DraftRow(d)) /\ DraftRow(d) \notin S
         /\ Exists(AttemptRow(d, r))' => Exists(AttemptRow(d, r)) /\ at'[AttemptRow(d, r)] = at[AttemptRow(d, r)]
         /\ Exists(RevisionRow(d, r))' => at'[RevisionRow(d, r)] = at[RevisionRow(d, r)]
         /\ Exists(DraftRow(d))' => at'[DraftRow(d)] = at[DraftRow(d)]
  BY <1>2, Keys DEF Exists
<1>6. ASSUME NEW r \in Revision
      PROVE  /\ IsCurrent(d, r)' => IsCurrent(d, r) /\ DraftRow(d) \notin S
             /\ Exists(AttemptRow(d, r))' => Exists(RevisionRow(d, r))'
             /\ Loads(d)' => Loads(d)
             /\ Exists(RevisionRow(d, r))' => (Unexpired(d, r, now)' <=> Unexpired(d, r, now))
  <2>1. IsCurrent(d, r)' => IsCurrent(d, r) /\ DraftRow(d) \notin S
    BY <1>5 DEF IsCurrent
  <2>2. Exists(AttemptRow(d, r))' => Exists(RevisionRow(d, r))'
    <3>1. Refers(AttemptRow(d, r))' = {RevisionRow(d, r)}
      BY References
    <3> QED  BY <3>1, Keys DEF ReferenceInv, Existing
  <2>3. Loads(d)' => Loads(d)
    BY <1>3, <1>5 DEF Loads
  <2>4. Exists(RevisionRow(d, r))' => (Unexpired(d, r, now)' <=> Unexpired(d, r, now))
    BY <1>5 DEF Unexpired
  <2> QED  BY <2>1, <2>2, <2>3, <2>4
<1>7. ASSUME NEW r \in Revision
      PROVE  /\ Exists(DraftRow(d))' /\ posted'[d][r] > 0 => Exists(RevisionRow(d, r))'
             /\ IsCurrent(d, r)' => at'[DraftRow(d)] = at'[RevisionRow(d, r)]
             /\ Exists(AttemptRow(d, r))' => at'[RevisionRow(d, r)] <= at'[AttemptRow(d, r)]
  <2>1. Exists(DraftRow(d))' /\ posted'[d][r] > 0 => Exists(RevisionRow(d, r))'
    BY <1>1, <1>5 DEF DraftOK
  <2>2. IsCurrent(d, r)' => at'[DraftRow(d)] = at'[RevisionRow(d, r)]
    BY <1>1, <1>2, <1>6, Keys DEF DraftOK, IsCurrent, Exists
  <2>3. Exists(AttemptRow(d, r))' => at'[RevisionRow(d, r)] <= at'[AttemptRow(d, r)]
    BY <1>1, <1>5, <1>6 DEF DraftOK
  <2> QED  BY <2>1, <2>2, <2>3
<1>8. ASSUME NEW r \in Revision,
             posted'[d][r] > 0, IsCurrent(d, r)', Unexpired(d, r, now)', Loads(d)'
      PROVE  Exists(AttemptRow(d, r))'
  <2>1. IsCurrent(d, r) /\ DraftRow(d) \notin S /\ Loads(d) /\ Unexpired(d, r, now)
    BY <1>6, <1>8 DEF IsCurrent
  <2>2. Exists(AttemptRow(d, r))
    BY <1>1, <1>8, <2>1 DEF DraftOK
  <2>3. AttemptRow(d, r) \notin S
    BY <1>8, <2>1, <2>2 DEF Loads
  <2> QED  BY <1>2, <2>2, <2>3, Keys DEF Exists
<1> QED  BY <1>4, <1>7, <1>8 DEF DraftOK

-----------------------------------------------------------------------------
(***************************************************************************)
(* The actions that leave the purge to Drift.                              *)
(***************************************************************************)
LEMMA UnmovedInv ==
    ASSUME StoreInv, UNCHANGED unmoved
    PROVE  ProcessInv' /\ CleanupNeverRefused' /\ UNCHANGED <<now, swept>>
BY DEF StoreInv, ProcessInv, CleanupNeverRefused, unmoved

\* Rows of tables other than those of drafts.
LEMMA InsertOther ==
    ASSUME StoreInv, NEW S, S \subseteq Row, Insert(S), UNCHANGED <<described, posted, unmoved>>,
           \A k \in S : k[1] \notin {"draft", "revision", "attempt"},
           \A k \in S : Refers(k) \subseteq Existing \cup S
    PROVE  StoreInv' /\ UNCHANGED purges
<1>1. ProcessInv' /\ CleanupNeverRefused' /\ UNCHANGED <<now, swept>> /\ UNCHANGED purges
  BY UnmovedInv DEF unmoved
<1>2. RowInv' /\ ReferenceInv'
  BY <1>1, InsertRows DEF StoreInv
<1>3. DraftInv'
  BY <1>1, InsertElsewhere DEF StoreInv
<1>4. SweptInv'
  BY <1>1, InsertSwept DEF StoreInv
<1> QED  BY <1>1, <1>2, <1>3, <1>4 DEF StoreInv

LEMMA CreateDraftInv ==
    ASSUME StoreInv, NEW d \in Draft, NEW answers \in SUBSET Item, CreateDraft(d, answers)
    PROVE  StoreInv' /\ UNCHANGED purges
<1> DEFINE S == {DraftRow(d), RevisionRow(d, 1)}
              \cup {LinkRow(i, d) : i \in answers}
              \cup {TransitionRow(i, "reply_linked") : i \in
                      {j \in answers : ~Exists(TransitionRow(j, "reply_linked"))}}
<1>1. ProcessInv' /\ CleanupNeverRefused' /\ UNCHANGED <<now, swept>> /\ UNCHANGED purges
  BY UnmovedInv DEF CreateDraft, unmoved
<1>2. 1 \in Revision /\ "reply_linked" \in TransitionType
  BY PolicyAssumption DEF Revision, TransitionType
<1>3. S \subseteq Row /\ Insert(S)
  <2>1. S \subseteq Row
    BY <1>2, Keys
  <2> QED  BY <2>1 DEF CreateDraft
<1>4. \A k \in S : Refers(k) \subseteq Existing \cup S
  <2>1. \A i \in answers : ItemRow(i) \in Existing
    <3> SUFFICES ASSUME NEW i \in answers PROVE ItemRow(i) \in Existing
      OBVIOUS
    <3>1. CurrentRow(i) \in Existing
      BY Keys DEF CreateDraft, Existing
    <3> QED  BY <3>1, References DEF StoreInv, ReferenceInv
  <2>2. Refers(DraftRow(d)) = {} /\ Refers(RevisionRow(d, 1)) = {DraftRow(d)}
    BY <1>2, References
  <2>3. \A i \in answers : Refers(LinkRow(i, d)) = {ItemRow(i), DraftRow(d)}
    BY References
  <2>4. \A i \in answers : Refers(TransitionRow(i, "reply_linked")) = {ItemRow(i)}
    BY <1>2, References
  <2> QED  BY <2>1, <2>2, <2>3, <2>4
<1>5. /\ \A e \in Draft : DraftRow(e) \in S <=> e = d
      /\ \A e \in Draft, r \in Revision :
            /\ RevisionRow(e, r) \in S <=> e = d /\ r = 1
            /\ AttemptRow(e, r) \notin S
  <2>1. \A k \in S : \/ k = DraftRow(d) \/ k = RevisionRow(d, 1)
                     \/ k[1] = "link" \/ k[1] = "transition"
    BY <1>2, Keys
  <2> QED  BY <2>1, <1>2, Keys
<1> HIDE DEF S
<1>6. RowInv' /\ ReferenceInv' /\ SweptInv'
  BY <1>1, <1>3, <1>4, InsertRows, InsertSwept DEF StoreInv
<1>7. /\ \A k \in Row : at'[k] = IF k \in S THEN now ELSE at[k]
      /\ \A k \in TextRow : content'[k] = IF k \in S THEN "text" ELSE content[k]
      /\ now # Never
  <2>1. now # Never
    BY PolicyAssumption DEF StoreInv, RowInv, Time, Never
  <2> QED  BY <2>1, <1>3 DEF Insert
<1>8. described' = described \cup {d} /\ posted' = [posted EXCEPT ![d] = [r \in Revision |-> 0]]
  BY DEF CreateDraft
<1>9. posted' \in [Draft -> [Revision -> 0..2]] /\ described' \subseteq Draft
  BY <1>8 DEF StoreInv, DraftInv
<1>10. ASSUME NEW e \in Draft, e # d PROVE DraftOK(e)'
  <2>1. posted'[e] = posted[e] /\ (e \in described' => e \in described) /\ DraftOK(e)
    BY <1>8, <1>10 DEF StoreInv, DraftInv
  <2>2. at'[DraftRow(e)] = at[DraftRow(e)]
    BY <1>5, <1>7, <1>10, Keys
  <2>3. \A r \in Revision :
              /\ at'[RevisionRow(e, r)] = at[RevisionRow(e, r)]
              /\ at'[AttemptRow(e, r)] = at[AttemptRow(e, r)]
              /\ content'[RevisionRow(e, r)] = content[RevisionRow(e, r)]
    BY <1>5, <1>7, <1>10, Keys, TextRows
  <2> QED  BY <1>1, <2>1, <2>2, <2>3, DraftUntouched
<1>11. DraftOK(d)'
  <2>1. ~Exists(DraftRow(d))
    BY DEF CreateDraft
  <2>2. \A r \in Revision : ~Exists(RevisionRow(d, r))
    BY <2>1, References, Keys DEF StoreInv, ReferenceInv, Existing
  <2>3. \A r \in Revision : ~Exists(AttemptRow(d, r))
    BY <2>2, References, Keys DEF StoreInv, ReferenceInv, Existing
  <2>4. Exists(DraftRow(d))' /\ at'[DraftRow(d)] = now
    BY <1>5, <1>7, Keys DEF Exists
  <2>5. \A r \in Revision : posted'[d][r] = 0
    BY <1>8 DEF StoreInv, DraftInv
  <2>6. \A r \in Revision : IsCurrent(d, r)' => at'[RevisionRow(d, r)] = now
    BY <2>2, <1>5, <1>7, Keys DEF IsCurrent, Exists
  <2>7. \A r \in Revision : ~Exists(AttemptRow(d, r))'
    BY <2>3, <1>5, <1>7, Keys DEF Exists
  <2> QED  BY <2>4, <2>5, <2>6, <2>7 DEF DraftOK
<1>12. DraftInv'
  BY <1>9, <1>10, <1>11 DEF DraftInv
<1> QED  BY <1>1, <1>6, <1>12 DEF StoreInv

LEMMA ReviseInv ==
    ASSUME StoreInv, NEW d \in Draft, NEW r \in Revision, Revise(d, r)
    PROVE  StoreInv' /\ UNCHANGED purges
<1> DEFINE S == {DraftRow(d), RevisionRow(d, r + 1)}
<1>1. ProcessInv' /\ CleanupNeverRefused' /\ UNCHANGED <<now, swept>> /\ UNCHANGED purges
  BY UnmovedInv DEF Revise, unmoved
<1>2. r + 1 \in Revision /\ Insert(S) /\ IsCurrent(d, r) /\ Exists(DraftRow(d))
  BY DEF Revise, Loads
<1>3. S \subseteq Row
  BY <1>2, Keys
<1>4. \A k \in S : Refers(k) \subseteq Existing \cup S
  BY <1>2, References
<1>5. /\ \A e \in Draft : DraftRow(e) \in S <=> e = d
      /\ \A e \in Draft, s \in Revision :
            /\ RevisionRow(e, s) \in S <=> e = d /\ s = r + 1
            /\ AttemptRow(e, s) \notin S
  BY <1>2, Keys
<1> HIDE DEF S
<1>6. RowInv' /\ ReferenceInv' /\ SweptInv'
  BY <1>1, <1>2, <1>3, <1>4, InsertRows, InsertSwept DEF StoreInv
<1>7. /\ \A k \in Row : at'[k] = IF k \in S THEN now ELSE at[k]
      /\ \A k \in TextRow : content'[k] = IF k \in S THEN "text" ELSE content[k]
      /\ now # Never
  <2>1. now # Never
    BY PolicyAssumption DEF StoreInv, RowInv, Time, Never
  <2> QED  BY <2>1, <1>2 DEF Insert
<1>8. UNCHANGED <<described, posted>>
  BY DEF Revise
<1>9. ASSUME NEW e \in Draft, e # d PROVE DraftOK(e)'
  <2>1. DraftOK(e)
    BY DEF StoreInv, DraftInv
  <2>2. at'[DraftRow(e)] = at[DraftRow(e)]
    BY <1>5, <1>7, <1>9, Keys
  <2>3. \A s \in Revision :
              /\ at'[RevisionRow(e, s)] = at[RevisionRow(e, s)]
              /\ at'[AttemptRow(e, s)] = at[AttemptRow(e, s)]
              /\ content'[RevisionRow(e, s)] = content[RevisionRow(e, s)]
    BY <1>5, <1>7, <1>9, Keys, TextRows
  <2> QED  BY <1>1, <1>8, <2>1, <2>2, <2>3, DraftUntouched
<1>10. DraftOK(d)'
  <2>1. DraftOK(d)
    BY DEF StoreInv, DraftInv
  <2>2. ~Exists(RevisionRow(d, r + 1)) /\ \A s \in Revision : s > r => ~Exists(RevisionRow(d, s))
    BY <1>2 DEF IsCurrent, Revision
  <2>3. ~Exists(AttemptRow(d, r + 1))
    BY <1>2, <2>2, References, Keys DEF StoreInv, ReferenceInv, Existing
  <2>4. posted[d][r + 1] = 0
    BY <1>2, <2>1, <2>2 DEF DraftOK, StoreInv, DraftInv
  <2>5. Exists(DraftRow(d))' /\ at'[DraftRow(d)] = now
    BY <1>5, <1>7, Keys DEF Exists
  <2>6. Exists(RevisionRow(d, r + 1))' /\ at'[RevisionRow(d, r + 1)] = now
    BY <1>2, <1>5, <1>7, Keys DEF Exists
  <2>7. \A s \in Revision :
           /\ s # r + 1 => at'[RevisionRow(d, s)] = at[RevisionRow(d, s)]
           /\ at'[AttemptRow(d, s)] = at[AttemptRow(d, s)]
    BY <1>5, <1>7, Keys
  <2>8. \A s \in Revision : IsCurrent(d, s)' => s = r + 1
    BY <1>2, <2>2, <2>6, <2>7 DEF IsCurrent, Exists, Revision
  <2>9. \A s \in Revision : posted'[d][s] > 0 => Exists(RevisionRow(d, s))'
    BY <1>2, <1>8, <2>1, <2>6, <2>7 DEF DraftOK, Exists
  <2>10. \A s \in Revision : Exists(AttemptRow(d, s))' => at'[RevisionRow(d, s)] <= at'[AttemptRow(d, s)]
    BY <2>1, <2>3, <2>7 DEF DraftOK, Exists
  <2>11. \A s \in Revision : IsCurrent(d, s)' => posted'[d][s] = 0
    BY <1>8, <2>4, <2>8
  <2> QED  BY <1>2, <2>5, <2>6, <2>8, <2>9, <2>10, <2>11 DEF DraftOK
<1>11. DraftInv'
  BY <1>8, <1>9, <1>10 DEF StoreInv, DraftInv
<1> QED  BY <1>1, <1>6, <1>11 DEF StoreInv

LEMMA ApproveInv ==
    ASSUME StoreInv, NEW d \in Draft, NEW r \in Revision, Approve(d, r)
    PROVE  StoreInv' /\ UNCHANGED purges
<1>1. RevisionRow(d, r) \in Existing
  BY Keys DEF Approve, IsCurrent, Existing
<1>2. Insert({ApprovalRow(d, r)}) /\ UNCHANGED <<described, posted, unmoved>>
  BY DEF Approve
<1> QED  BY <1>1, <1>2, InsertOther, Keys, References

LEMMA ActivateInv ==
    ASSUME StoreInv, Activate
    PROVE  StoreInv' /\ UNCHANGED purges
<1>1. Insert({Activation}) /\ UNCHANGED <<described, posted, unmoved>>
  BY DEF Activate
<1> QED  BY <1>1, InsertOther, Keys, References

LEMMA FetchInv ==
    ASSUME StoreInv, NEW i \in Item, Fetch(i)
    PROVE  StoreInv' /\ UNCHANGED purges
<1>1. Insert({ItemRow(i), CurrentRow(i)}) /\ UNCHANGED <<described, posted, unmoved>>
  BY DEF Fetch
<1> QED  BY <1>1, InsertOther, Keys, References

LEMMA ObserveEditInv ==
    ASSUME StoreInv, NEW i \in Item, ObserveEdit(i)
    PROVE  StoreInv' /\ UNCHANGED purges
<1>1. Insert({CurrentRow(i), TransitionRow(i, "edited")}) /\ UNCHANGED <<described, posted, unmoved>>
  BY DEF ObserveEdit
<1>2. ItemRow(i) \in Existing /\ "edited" \in TransitionType
  BY Keys DEF ObserveEdit, Existing, TransitionType
<1> QED  BY <1>1, <1>2, InsertOther, Keys, References

\* The claim writes the attempt, whatever was removed since the evaluation.
LEMMA ClaimInv ==
    ASSUME StoreInv, NEW p \in Process, Claim(p)
    PROVE  StoreInv' /\ UNCHANGED purges
<1>1. sending[p] \in Evaluation
  BY DEF Claim, StoreInv, ProcessInv, Quiet
<1>2. PICK d \in Draft, r \in Revision : d = sending[p].draft /\ r = sending[p].revision
  BY <1>1 DEF Evaluation
<1> DEFINE S == {AttemptRow(d, r)}
<1>3. /\ Exists(DraftRow(d)) /\ IsCurrent(d, r) /\ Insert(S)
      /\ posted' = [posted EXCEPT ![d][r] = IF @ < 2 THEN @ + 1 ELSE @]
      /\ sending' = [sending EXCEPT ![p] = Quiet]
      /\ UNCHANGED <<now, described, purges, swept, refused>>
  BY <1>2 DEF Claim
<1>4. S \subseteq Row /\ \A k \in S : Refers(k) \subseteq Existing \cup S
  BY <1>3, Keys, References DEF IsCurrent, Existing
<1>5. \A e \in Draft, s \in Revision : AttemptRow(e, s) \in S <=> e = d /\ s = r
  BY Keys
<1>6. \A k \in Row : k[1] \in {"draft", "revision"} => k \notin S
  BY Keys
<1> HIDE DEF S
<1>7. RowInv' /\ ReferenceInv' /\ SweptInv'
  BY <1>3, <1>4, InsertRows, InsertSwept DEF StoreInv
<1>8. /\ \A k \in Row : at'[k] = IF k \in S THEN now ELSE at[k]
      /\ \A k \in TextRow : content'[k] = IF k \in S THEN "text" ELSE content[k]
      /\ now # Never
  <2>1. now # Never
    BY PolicyAssumption DEF StoreInv, RowInv, Time, Never
  <2> QED  BY <2>1, <1>3 DEF Insert
<1>9. ProcessInv' /\ CleanupNeverRefused'
  BY <1>3 DEF StoreInv, ProcessInv, CleanupNeverRefused
<1>10. posted' \in [Draft -> [Revision -> 0..2]]
  <2>1. posted[d][r] \in 0..2 /\ posted[d] \in [Revision -> 0..2]
    BY DEF StoreInv, DraftInv
  <2>2. (IF posted[d][r] < 2 THEN posted[d][r] + 1 ELSE posted[d][r]) \in 0..2
    BY <2>1
  <2>3. posted' = [posted EXCEPT ![d] = [posted[d] EXCEPT
                     ![r] = IF posted[d][r] < 2 THEN posted[d][r] + 1 ELSE posted[d][r]]]
    BY <1>3
  <2> DEFINE w == IF posted[d][r] < 2 THEN posted[d][r] + 1 ELSE posted[d][r]
  <2> HIDE DEF w
  <2>4. w \in 0..2 /\ posted' = [posted EXCEPT ![d] = [posted[d] EXCEPT ![r] = w]]
    BY <2>2, <2>3 DEF w
  <2> QED  BY <2>1, <2>4 DEF StoreInv, DraftInv
<1>11. \A e \in Draft, s \in Revision : e # d \/ s # r => posted'[e][s] = posted[e][s]
  BY <1>3 DEF StoreInv, DraftInv
<1>12. ASSUME NEW e \in Draft PROVE DraftOK(e)'
  <2>1. DraftOK(e) /\ UNCHANGED <<now, described>>
    BY <1>3 DEF StoreInv, DraftInv
  <2>2. at'[DraftRow(e)] = at[DraftRow(e)]
    BY <1>6, <1>8, Keys
  <2>3. \A s \in Revision :
              /\ at'[RevisionRow(e, s)] = at[RevisionRow(e, s)]
              /\ content'[RevisionRow(e, s)] = content[RevisionRow(e, s)]
    BY <1>6, <1>8, Keys, TextRows
  <2>4. \A s \in Revision : at'[AttemptRow(e, s)] = IF e = d /\ s = r THEN now ELSE at[AttemptRow(e, s)]
    BY <1>5, <1>8, Keys
  <2>5. \A s \in Revision :
           /\ IsCurrent(e, s)' <=> IsCurrent(e, s)
           /\ Exists(DraftRow(e))' <=> Exists(DraftRow(e))
           /\ Exists(RevisionRow(e, s))' <=> Exists(RevisionRow(e, s))
           /\ Unexpired(e, s, now)' <=> Unexpired(e, s, now)
           /\ Loads(e)' <=> Loads(e)
    BY <2>1, <2>2, <2>3 DEF IsCurrent, Exists, Unexpired, Loads
  <2>6. ASSUME NEW s \in Revision
        PROVE  /\ Exists(DraftRow(e))' /\ posted'[e][s] > 0 => Exists(RevisionRow(e, s))'
               /\ IsCurrent(e, s)' => at'[DraftRow(e)] = at'[RevisionRow(e, s)]
               /\ Exists(AttemptRow(e, s))' => at'[RevisionRow(e, s)] <= at'[AttemptRow(e, s)]
               /\ posted'[e][s] > 0 /\ IsCurrent(e, s)' /\ Unexpired(e, s, now)' /\ Loads(e)' =>
                     Exists(AttemptRow(e, s))'
    <3>1. CASE e = d /\ s = r
      <4>1. RevisionRow(d, r) \in Existing /\ at[RevisionRow(d, r)] <= now
        BY <1>3, Keys DEF StoreInv, RowInv, IsCurrent, Existing
      <4> QED  BY <3>1, <4>1, <2>1, <2>2, <2>3, <2>4, <2>5, <1>3, <1>8 DEF DraftOK, Exists, Existing
    <3>2. CASE e # d \/ s # r
      BY <3>2, <2>1, <2>2, <2>3, <2>4, <2>5, <1>11 DEF DraftOK, Exists
    <3> QED  BY <3>1, <3>2
  <2>7. e \in described' => Exists(DraftRow(e))'
    BY <2>1, <2>2 DEF DraftOK, Exists
  <2> QED  BY <2>6, <2>7 DEF DraftOK
<1>13. DraftInv'
  BY <1>3, <1>10, <1>12 DEF StoreInv, DraftInv
<1> QED  BY <1>3, <1>7, <1>9, <1>13 DEF StoreInv

\* The sweep takes drafts whole, and an attempt by its age only when its revision
\* has expired.
LEMMA SweepInv ==
    ASSUME StoreInv, Sweep
    PROVE  StoreInv' /\ UNCHANGED purges
<1> DEFINE S == SweptRows
<1>1. /\ Remove(S, Redacted, "expired")
      /\ described' = {d \in described : DraftRow(d) \notin S}
      /\ swept' = now
      /\ UNCHANGED <<refused, now, posted, purges>>
  BY SweepUnrestricted DEF Sweep, SweptRows
<1>2. S \subseteq Row /\ Redacted \subseteq TextRow \cap Existing
  BY TextRows DEF SweptRows, Redacted, Expired, Existing
<1>3. now \in Nat /\ \A k \in Row : Exists(k) => at[k] \in Nat
  BY PolicyAssumption DEF StoreInv, RowInv, Time, Exists
<1>4. \A d \in Draft, r \in Revision : Exists(RevisionRow(d, r)) =>
              (RevisionRow(d, r) \in S <=> DraftRow(d) \in S)
  <2> SUFFICES ASSUME NEW d \in Draft, NEW r \in Revision, Exists(RevisionRow(d, r))
               PROVE  RevisionRow(d, r) \in S <=> DraftRow(d) \in S
    OBVIOUS
  <2>1. DraftRow(d) \in Owner /\ RevisionRow(d, r) \in OwnedBy(DraftRow(d))
    BY OwnedByDraft DEF Owner
  <2>2. DraftRow(d) \in RemovedOwner => Exists(DraftRow(d))
    BY DEF RemovedOwner, Expired
  <2> QED  BY <2>1, <2>2, SweptOwners
<1>5. \A d \in Draft, r \in Revision :
              /\ Exists(AttemptRow(d, r)) /\ AttemptRow(d, r) \in S
              /\ DraftRow(d) \notin S /\ IsCurrent(d, r)
              => ~Unexpired(d, r, now)
  <2> SUFFICES ASSUME NEW d \in Draft, NEW r \in Revision,
                      Exists(AttemptRow(d, r)), AttemptRow(d, r) \in S,
                      DraftRow(d) \notin S, IsCurrent(d, r)
               PROVE  ~Unexpired(d, r, now)
    OBVIOUS
  <2>1. AttemptRow(d, r) \notin Owner
    BY Keys, OwnerRows
  <2>2. ASSUME NEW o \in RemovedOwner, AttemptRow(d, r) \in OwnedBy(o) PROVE FALSE
    <3>1. o = DraftRow(d)
      <4>1. CASE \E e \in Draft : o = DraftRow(e)
        BY <2>2, <4>1, OwnedByDraft, Keys
      <4>2. CASE \E i \in Item : o = ItemRow(i)
        BY <2>2, <4>2, OwnedByItem, Keys
      <4> QED  BY <2>2, <4>1, <4>2, SweptOwners DEF Owner
    <3> QED  BY <2>2, <3>1, SweptOwners DEF Existing
  <2>3. Expired(AttemptRow(d, r), MetadataDays)
    BY <2>1, <2>2, SweptOwners DEF SweptRows, RemovedRow
  <2>4. at[RevisionRow(d, r)] <= at[AttemptRow(d, r)]
    BY DEF StoreInv, DraftInv, DraftOK
  <2>5. at[RevisionRow(d, r)] \in Nat /\ at[AttemptRow(d, r)] \in Nat
    BY <1>3, Keys DEF IsCurrent
  <2> QED  BY <2>3, <2>4, <2>5, <1>3, PolicyAssumption DEF Expired, Unexpired
<1>6. /\ RowInv' /\ ReferenceInv' /\ ProcessInv'
      /\ \A k \in Row : at'[k] = IF k \in S THEN Never ELSE at[k]
      /\ \A k \in TextRow : content'[k] =
            IF k \in S THEN "none" ELSE IF k \in Redacted THEN "expired" ELSE content[k]
  BY <1>1, <1>2, SweepUnrestricted, RemoveRows DEF StoreInv
<1>7. DraftInv'
  BY <1>1, <1>2, <1>4, <1>5, <1>6, RemoveDrafts DEF StoreInv
<1>8. SweptInv'
  <2>1. ASSUME NEW k \in TextRow, Exists(k)', at'[k] + ContentDays <= now
        PROVE  content'[k] # "text"
    <3>1. Exists(k) /\ k \notin S /\ Expired(k, ContentDays)
      BY <2>1, <1>6, TextRows DEF Exists, Expired
    <3> QED  BY <3>1, <1>6 DEF Redacted
  <2>2. ASSUME NEW k \in Evidence, Exists(k)' PROVE at'[k] + MetadataDays > now
    <3>1. k \in Row /\ Exists(k) /\ k \notin S /\ at'[k] = at[k]
      BY <2>2, <1>6, TextRows DEF Exists
    <3>2. ~Expired(k, MetadataDays)
      BY <3>1 DEF SweptRows, RemovedRow
    <3> QED  BY <3>1, <3>2, <1>3, PolicyAssumption DEF Expired
  <2>3. ASSUME NEW o \in Owner, Exists(o)', at'[o] + MetadataDays <= now
        PROVE  \E k \in OwnedBy(o) \ Evidence : Exists(k)' /\ at'[k] + ContentDays > now
    <3>1. o \in Row /\ Exists(o) /\ o \notin S /\ at'[o] = at[o]
      BY <2>3, <1>6, OwnerRows DEF Exists
    <3>2. Expired(o, MetadataDays) /\ Expired(o, ContentDays)
      BY <2>3, <3>1, <1>3, PolicyAssumption DEF Expired
    <3>3. FreshOwner(o)
      BY <3>1, <3>2, SweptOwners DEF RemovedOwner
    <3>4. PICK k \in OwnedBy(o) : k \notin Evidence /\ Exists(k) /\ ~Expired(k, ContentDays)
      BY <3>2, <3>3 DEF FreshOwner
    <3>5. k \in Row /\ k \notin S
      BY <3>4, OwnerRows, FreshStays DEF StoreInv
    <3>6. Exists(k)' /\ at'[k] + ContentDays > now
      BY <3>4, <3>5, <1>3, <1>6, PolicyAssumption DEF Exists, Expired
    <3> QED  BY <3>4, <3>6
  <2> QED  BY <2>1, <2>2, <2>3, <1>1 DEF SweptInv, OwnedBy, Evidence
<1> QED  BY <1>1, <1>6, <1>7, <1>8 DEF StoreInv, CleanupNeverRefused

\* Time only takes authority away.
LEMMA TickInv ==
    ASSUME StoreInv, Tick
    PROVE  StoreInv' /\ UNCHANGED purges
<1>1. /\ now' = now + 1 /\ now' \in Time
      /\ UNCHANGED <<at, content, described, sending, posted, purges, swept, refused>>
  BY PolicyAssumption DEF Tick, db, StoreInv, RowInv, Time
<1>2. now \in Nat /\ \A k \in Row : Exists(k) => at[k] \in Nat
  BY PolicyAssumption DEF StoreInv, RowInv, Time, Exists
<1>3. RowInv'
  <2>1. Existing' = Existing /\ \A k \in Existing : at[k] <= now + 1
    BY <1>1, <1>2 DEF Existing, Exists, StoreInv, RowInv
  <2>2. swept # Never => swept <= now + 1
    BY <1>2, PolicyAssumption DEF StoreInv, RowInv, Time
  <2> QED  BY <1>1, <2>1, <2>2 DEF StoreInv, RowInv, Exists
<1>4. ReferenceInv' /\ ProcessInv' /\ CleanupNeverRefused'
  BY <1>1 DEF StoreInv, ReferenceInv, ProcessInv, CleanupNeverRefused, Existing, Exists, Refers
<1>5. SweptInv'
  <2>1. swept' # now'
    BY <1>1, PolicyAssumption DEF StoreInv, RowInv, Never, Time
  <2> QED  BY <2>1 DEF SweptInv
<1>6. ASSUME NEW d \in Draft PROVE DraftOK(d)'
  <2>1. DraftOK(d)
    BY DEF StoreInv, DraftInv
  <2>2. \A r \in Revision : IsCurrent(d, r) => (Unexpired(d, r, now') => Unexpired(d, r, now))
    BY <1>1, <1>2, Keys, PolicyAssumption DEF IsCurrent, Unexpired
  <2> QED  BY <2>1, <2>2, <1>1 DEF DraftOK, Exists, IsCurrent, Unexpired, Loads
<1>7. DraftInv'
  BY <1>1, <1>6 DEF StoreInv, DraftInv
<1> QED  BY <1>1, <1>3, <1>4, <1>5, <1>7 DEF StoreInv

\* The store does not depend on the purge, nor on how many have executed.
LEMMA StoreUntouched ==
    ASSUME StoreInv, ProcessInv', UNCHANGED <<now, at, content, described, posted, swept, refused>>
    PROVE  StoreInv'
<1>1. RowInv' /\ ReferenceInv' /\ CleanupNeverRefused'
  BY DEF StoreInv, RowInv, ReferenceInv, CleanupNeverRefused, Existing, Exists, Refers
<1>2. DraftInv'
  BY DEF StoreInv, DraftInv, DraftOK, Exists, IsCurrent, Unexpired, Loads
<1>3. SweptInv'
  BY DEF StoreInv, SweptInv, Exists, OwnedBy, Evidence
<1> QED  BY <1>1, <1>2, <1>3 DEF StoreInv

LEMMA BeginSendInv ==
    ASSUME StoreInv, NEW p \in Process, NEW d \in Draft, NEW r \in Revision, BeginSend(p, d, r)
    PROVE  StoreInv' /\ UNCHANGED purges
<1>1. PICK k \in Authorities(d, r) :
         sending' = [sending EXCEPT ![p] = [pc |-> "evaluated", draft |-> d, revision |-> r,
             at |-> now, authority |-> k, since |-> at[k], basis |-> at[Activation]]]
  BY DEF BeginSend
<1>2. k \in Row /\ Activation \in Row
  BY Keys DEF Authorities
<1>3. [pc |-> "evaluated", draft |-> d, revision |-> r,
       at |-> now, authority |-> k, since |-> at[k], basis |-> at[Activation]] \in Evaluation
  BY <1>2 DEF Evaluation, StoreInv, RowInv
<1>4. ProcessInv'
  BY <1>1, <1>3 DEF StoreInv, ProcessInv
<1> QED  BY <1>4, StoreUntouched DEF BeginSend, db

LEMMA AbandonInv ==
    ASSUME StoreInv, NEW p \in Process, Abandon(p)
    PROVE  StoreInv' /\ UNCHANGED purges
<1>1. ProcessInv'
  BY DEF Abandon, StoreInv, ProcessInv
<1> QED  BY <1>1, StoreUntouched DEF Abandon, db

\* A purge of metadata that takes the attempt of a revision has seen the draft
\* at least as old, and clears what the draft loads with.
LEMMA ExecuteInv ==
    ASSUME StoreInv, PurgeInv, Execute
    PROVE  StoreInv'
<1>1. purge \in OpenPurge /\ purge.pc = "confirmed" /\ purge.drift = 0
  BY DEF Execute, PurgeInv, Quiet, Current
<1> DEFINE scope == purge.scope
           cutoff == purge.cutoff
           S == Deleted(scope, cutoff)
           M == Marked(scope, cutoff)
<1>2. scope \in Scope
  BY <1>1 DEF OpenPurge
<1>3. /\ Remove(S, M, "purged")
      /\ described' = {d \in described \ Cleared(scope, cutoff) : DraftRow(d) \notin S}
      /\ UNCHANGED <<refused, now, posted, swept>>
  BY <1>2, PurgeUnrestricted DEF Execute
<1>4. S \subseteq Row /\ M \subseteq TextRow \cap Existing
  BY TextRows DEF Deleted, Marked, Eligible, Existing
<1>5. /\ RowInv' /\ ReferenceInv' /\ ProcessInv'
      /\ \A k \in Row : at'[k] = IF k \in S THEN Never ELSE at[k]
      /\ \A k \in TextRow : content'[k] =
            IF k \in S THEN "none" ELSE IF k \in M THEN "purged" ELSE content[k]
  <2>1. ~Restricted(S) /\ swept' \in {swept, now}
    BY <1>2, <1>3, PurgeUnrestricted
  <2> HIDE DEF S, M
  <2> QED  BY <1>3, <1>4, <2>1, RemoveRows DEF StoreInv
<1>6. \A d \in Draft, r \in Revision : Exists(RevisionRow(d, r)) =>
              (RevisionRow(d, r) \in S <=> DraftRow(d) \in S)
  <2>1. CASE scope = "all"
    <3>1. S = Existing
      BY <2>1 DEF Deleted
    <3> QED  BY <3>1, References, Keys DEF StoreInv, ReferenceInv, Existing
  <2>2. CASE scope # "all"
    <3>1. S \subseteq Evidence
      BY <2>2 DEF Deleted
    <3> QED  BY <3>1, TextRows
  <2> QED  BY <2>1, <2>2
<1>7. \A d \in Draft, r \in Revision :
              /\ Exists(AttemptRow(d, r)) /\ AttemptRow(d, r) \in S
              /\ DraftRow(d) \notin S /\ IsCurrent(d, r)
              => d \notin described'
  <2> SUFFICES ASSUME NEW d \in Draft, NEW r \in Revision,
                      Exists(AttemptRow(d, r)), AttemptRow(d, r) \in S,
                      DraftRow(d) \notin S, IsCurrent(d, r), d \in described
               PROVE  d \in Cleared(scope, cutoff)
    BY <1>3
  <2>1. DraftOK(d) /\ Exists(DraftRow(d))
    BY DEF StoreInv, DraftInv, DraftOK
  <2>2. scope = "metadata"
    <3>1. scope # "all"
      BY <2>1, Keys DEF Deleted, Existing
    <3> QED  BY <3>1 DEF Deleted
  <2>3. at[AttemptRow(d, r)] <= cutoff
    BY <2>2 DEF Deleted, Eligible
  <2>4. at[DraftRow(d)] <= at[AttemptRow(d, r)]
    BY <2>1 DEF DraftOK
  <2>5. /\ at[DraftRow(d)] \in Nat /\ at[AttemptRow(d, r)] \in Nat /\ cutoff \in Nat
    BY <1>1, <2>1, Keys, PolicyAssumption DEF OpenPurge, StoreInv, RowInv, Time, Exists
  <2>6. DraftRow(d) \in Eligible(cutoff)
    BY <2>1, <2>3, <2>4, <2>5, Keys DEF Eligible, Existing
  <2> QED  BY <2>2, <2>6 DEF Cleared
<1>8. DraftInv'
  <2>1. described' \subseteq {d \in described : DraftRow(d) \notin S}
    BY <1>3
  <2> HIDE DEF S, M
  <2> QED  BY <1>3, <1>4, <1>5, <1>6, <1>7, <2>1, RemoveDrafts DEF StoreInv
<1>9. SweptInv'
  <2> SUFFICES ASSUME swept = now PROVE SweptInv'
    BY <1>3 DEF SweptInv
  <2> HIDE DEF S, M
  <2>1. ASSUME NEW k \in TextRow, Exists(k)', at'[k] + ContentDays <= now
        PROVE  content'[k] # "text"
    BY <2>1, <1>5, TextRows DEF StoreInv, SweptInv, Exists
  <2>2. ASSUME NEW k \in Evidence, Exists(k)' PROVE at'[k] + MetadataDays > now
    BY <2>2, <1>5, TextRows DEF StoreInv, SweptInv, Exists
  <2>3. ASSUME NEW o \in Owner, Exists(o)', at'[o] + MetadataDays <= now
        PROVE  \E k \in OwnedBy(o) \ Evidence : Exists(k)' /\ at'[k] + ContentDays > now
    <3>1. o \in Row /\ Exists(o) /\ o \notin S /\ at'[o] = at[o]
      BY <2>3, <1>5, OwnerRows DEF Exists
    <3>2. PICK k \in OwnedBy(o) \ Evidence : Exists(k) /\ at[k] + ContentDays > now
      BY <2>3, <3>1 DEF StoreInv, SweptInv
    <3>3. k \in Row /\ k \notin S
      <4>1. scope # "all"
        BY <3>1 DEF S, Deleted, Existing
      <4>2. S \subseteq Evidence
        BY <4>1 DEF S, Deleted
      <4> QED  BY <3>2, <4>2, OwnerRows
    <3> QED  BY <3>2, <3>3, <1>5 DEF Exists
  <2> QED  BY <1>3, <2>1, <2>2, <2>3 DEF SweptInv, OwnedBy, Evidence
<1> QED  BY <1>3, <1>5, <1>8, <1>9 DEF StoreInv, CleanupNeverRefused

-----------------------------------------------------------------------------
(***************************************************************************)
(* The purge.                                                              *)
(***************************************************************************)

\* A plan whose database is as it was shows what it would affect.
LEMMA SameAffected ==
    ASSUME UNCHANGED db, NEW scope, NEW cutoff
    PROVE  Affected(scope, cutoff)' = Affected(scope, cutoff)
BY DEF db, Affected, Marked, Deleted, Cleared, Eligible, Existing, Exists

LEMMA DriftInv ==
    ASSUME PurgeInv, Drift, UNCHANGED purges
    PROVE  PurgeInv'
<1>1. CASE UNCHANGED purge /\ purge.pc = "idle"
  BY <1>1 DEF PurgeInv
<1>2. CASE UNCHANGED purge /\ UNCHANGED db
  <2>1. Affected(purge.scope, purge.cutoff)' = Affected(purge.scope, purge.cutoff)
    BY <1>2, SameAffected
  <2> QED  BY <1>2, <2>1 DEF PurgeInv
<1>3. CASE purge.pc # "idle" /\ purge' = [purge EXCEPT !.drift = @ + 1]
  <2>1. purge \in OpenPurge
    BY <1>3 DEF PurgeInv, Quiet
  <2>2. purge' \in OpenPurge /\ purge'.drift # 0
    BY <1>3, <2>1 DEF OpenPurge
  <2> QED  BY <1>3, <2>1, <2>2 DEF PurgeInv
<1> QED  BY <1>1, <1>2, <1>3 DEF Drift

LEMMA PurgeStep ==
    ASSUME StoreInv, PurgeInv, Purge
    PROVE  StoreInv' /\ PurgeInv'
<1>1. ASSUME NEW scope \in Scope, NEW cutoff \in Time, Plan(scope, cutoff)
      PROVE  StoreInv' /\ PurgeInv'
  <2>1. ProcessInv' /\ UNCHANGED db
    BY <1>1 DEF Plan, StoreInv, ProcessInv, db
  <2>2. StoreInv'
    BY <1>1, <2>1, StoreUntouched DEF Plan, db
  <2>3. Affected(scope, cutoff) \subseteq Row
    BY TextRows, Keys DEF Affected, Marked, Deleted, Cleared, Eligible, Existing, StoreInv, DraftInv
  <2>4. purge' = [pc |-> "planned", scope |-> scope, cutoff |-> cutoff,
                  shown |-> Affected(scope, cutoff), drift |-> 0]
    BY <1>1 DEF Plan
  <2>5. Affected(scope, cutoff)' = Affected(scope, cutoff)
    BY <2>1, SameAffected
  <2> DEFINE W == Affected(scope, cutoff)
  <2>6. /\ purge' = [pc |-> "planned", scope |-> scope, cutoff |-> cutoff, shown |-> W, drift |-> 0]
        /\ W \subseteq Row /\ Affected(scope, cutoff)' = W
    BY <2>3, <2>4, <2>5
  <2> HIDE DEF W
  <2>7. purge' \in OpenPurge /\ purge'.scope = scope /\ purge'.cutoff = cutoff /\ purge'.shown = W
    BY <2>6 DEF OpenPurge
  <2>8. purges' = purges /\ purges < MaxPurges
    BY <1>1 DEF Plan
  <2>9. Affected(purge.scope, purge.cutoff)' = W
    BY <2>6, <2>7
  <2> QED  BY <2>2, <2>7, <2>8, <2>9 DEF PurgeInv
<1>2. CASE Confirm
  <2>1. ProcessInv' /\ UNCHANGED db
    BY <1>2 DEF Confirm, StoreInv, ProcessInv, db
  <2>2. StoreInv'
    BY <1>2, <2>1, StoreUntouched DEF Confirm, db
  <2>3. purge \in OpenPurge /\ purge' = [purge EXCEPT !.pc = "confirmed"] /\ purges' = purges
    BY <1>2 DEF Confirm, PurgeInv, Quiet
  <2>4. /\ purge' \in OpenPurge /\ purge.pc # "idle"
        /\ purge'.scope = purge.scope /\ purge'.cutoff = purge.cutoff
        /\ purge'.shown = purge.shown /\ purge'.drift = purge.drift
    BY <2>3 DEF OpenPurge
  <2>5. Affected(purge.scope, purge.cutoff)' = Affected(purge.scope, purge.cutoff)
    BY <2>1, <2>4, SameAffected
  <2> QED  BY <2>2, <2>3, <2>4, <2>5 DEF PurgeInv
<1>3. CASE Execute
  <2>1. StoreInv'
    BY <1>3, ExecuteInv
  <2>2. purge.pc # "idle" /\ purge' = Quiet /\ purges' = purges + 1
    BY <1>3 DEF Execute
  <2> QED  BY <2>1, <2>2, PolicyAssumption DEF PurgeInv, Quiet
<1>4. CASE Drop
  <2>1. ProcessInv'
    BY <1>4 DEF Drop, StoreInv, ProcessInv
  <2>2. StoreInv'
    BY <1>4, <2>1, StoreUntouched DEF Drop, db
  <2>3. purge' = Quiet /\ purges' = purges
    BY <1>4 DEF Drop
  <2> QED  BY <2>2, <2>3 DEF PurgeInv, Quiet
<1> QED  BY <1>1, <1>2, <1>3, <1>4 DEF Purge

-----------------------------------------------------------------------------
(***************************************************************************)
(* The invariant is inductive.                                             *)
(***************************************************************************)
LEMMA InitInv == Init => IInv
<1> SUFFICES ASSUME Init PROVE IInv
  OBVIOUS
<1>1. Existing = {} /\ \A k \in Row : ~Exists(k)
  BY DEF Init, Existing, Exists
<1>2. RowInv
  BY <1>1, PolicyAssumption, TextRows DEF Init, RowInv, Time, Never, Text
<1>3. ReferenceInv /\ ProcessInv /\ PurgeInv /\ CleanupNeverRefused
  BY <1>1, PolicyAssumption DEF Init, ReferenceInv, ProcessInv, PurgeInv, CleanupNeverRefused, Quiet
<1>4. DraftInv
  BY <1>1, Keys DEF Init, DraftInv, DraftOK, IsCurrent
<1>5. SweptInv
  BY PolicyAssumption DEF Init, SweptInv, Never
<1> QED  BY <1>2, <1>3, <1>4, <1>5 DEF IInv, StoreInv

LEMMA StutterInv == IInv /\ UNCHANGED vars => IInv'
<1> SUFFICES ASSUME IInv, UNCHANGED vars PROVE IInv'
  OBVIOUS
<1>1. ProcessInv'
  BY DEF IInv, StoreInv, ProcessInv, vars
<1>2. StoreInv'
  BY <1>1, StoreUntouched DEF IInv, vars
<1>3. Affected(purge.scope, purge.cutoff)' = Affected(purge.scope, purge.cutoff)
  BY SameAffected DEF vars, db
<1>4. PurgeInv'
  BY <1>3 DEF IInv, PurgeInv, vars
<1> QED  BY <1>2, <1>4 DEF IInv

LEMMA NextInv == IInv /\ [Next]_vars => IInv'
<1> SUFFICES ASSUME IInv, Next PROVE IInv'
  BY StutterInv
<1>1. StoreInv /\ PurgeInv
  BY DEF IInv
<1>2. CASE Tick
  <2>1. StoreInv' /\ UNCHANGED purges
    BY <1>1, <1>2, TickInv
  <2>2. Drift
    BY <1>2 DEF Tick, Drift
  <2> QED  BY <1>1, <2>1, <2>2, DriftInv DEF IInv
<1>3. CASE Write /\ Drift
  <2>1. ASSUME NEW d \in Draft, NEW answers \in SUBSET Item, CreateDraft(d, answers)
        PROVE  StoreInv' /\ UNCHANGED purges
    BY <1>1, <2>1, CreateDraftInv
  <2>2. ASSUME NEW d \in Draft, NEW r \in Revision, Revise(d, r) \/ Approve(d, r)
        PROVE  StoreInv' /\ UNCHANGED purges
    BY <1>1, <2>2, ReviseInv, ApproveInv
  <2>3. ASSUME Activate PROVE StoreInv' /\ UNCHANGED purges
    BY <1>1, <2>3, ActivateInv
  <2>4. ASSUME NEW i \in Item, Fetch(i) \/ ObserveEdit(i) PROVE StoreInv' /\ UNCHANGED purges
    BY <1>1, <2>4, FetchInv, ObserveEditInv
  <2>5. ASSUME NEW p \in Process, Claim(p) PROVE StoreInv' /\ UNCHANGED purges
    BY <1>1, <2>5, ClaimInv
  <2>6. ASSUME Sweep PROVE StoreInv' /\ UNCHANGED purges
    BY <1>1, <2>6, SweepInv
  <2>7. StoreInv' /\ UNCHANGED purges
    BY <1>3, <2>1, <2>2, <2>3, <2>4, <2>5, <2>6 DEF Write
  <2> QED  BY <1>1, <1>3, <2>7, DriftInv DEF IInv
<1>4. CASE Read /\ UNCHANGED purge
  <2>1. ASSUME NEW p \in Process, Abandon(p) PROVE StoreInv' /\ UNCHANGED purges /\ UNCHANGED db
    BY <1>1, <2>1, AbandonInv DEF Abandon
  <2>2. ASSUME NEW p \in Process, NEW d \in Draft, NEW r \in Revision, BeginSend(p, d, r)
        PROVE  StoreInv' /\ UNCHANGED purges /\ UNCHANGED db
    BY <1>1, <2>2, BeginSendInv DEF BeginSend
  <2>3. StoreInv' /\ UNCHANGED purges /\ UNCHANGED db
    BY <1>4, <2>1, <2>2 DEF Read
  <2> QED  BY <1>1, <1>4, <2>3, DriftInv DEF IInv, Drift
<1>5. CASE Purge
  BY <1>1, <1>5, PurgeStep DEF IInv
<1> QED  BY <1>2, <1>3, <1>4, <1>5 DEF Next

LEMMA Invariance == Spec => []IInv
<1> QED  BY InitInv, NextInv, PTL DEF Spec

-----------------------------------------------------------------------------
(***************************************************************************)
(* The properties.                                                         *)
(***************************************************************************)

\* Every variable keeps its type; each row with a text has one while it exists,
\* and what an existing row refers to exists (the foreign keys of the schema).
THEOREM TypeCorrect == Spec => []TypeOK
<1>1. IInv => TypeOK
  BY DEF IInv, StoreInv, PurgeInv, RowInv, ReferenceInv, DraftInv, DraftOK, TypeOK
<1> QED  BY <1>1, Invariance, PTL

\* No state of the database makes a sweep or a purge fail on a foreign key
\* (sweep_state_at, the purge's delete statements).
THEOREM NeverRefused == Spec => []CleanupNeverRefused
<1>1. IInv => CleanupNeverRefused
  BY DEF IInv, StoreInv
<1> QED  BY <1>1, Invariance, PTL

\* Until the day ends, what a sweep promised stays true whatever other commands
\* and purges do: no text beyond the content cutoff, no row beyond the metadata
\* cutoff unless its owner is still fresh.
THEOREM RetentionKept == Spec => []RetentionHolds
<1>1. IInv => RetentionHolds
  BY DEF IInv, StoreInv, SweptInv, RetentionHolds
<1> QED  BY <1>1, Invariance, PTL

\* While a posted revision could still be sent, no cleanup has taken the attempt
\* that makes a second send return the recorded outcome.
THEOREM SentStays == Spec => []SentStaysSent
<1>1. IInv => SentStaysSent
  BY DEF IInv, StoreInv, DraftInv, DraftOK, SentStaysSent
<1> QED  BY <1>1, Invariance, PTL

\* A sweep never takes or redacts a text that is younger than the content cutoff.
THEOREM SweepKeeps == Spec => SweepKeepsFresh
<1> DEFINE Step == \A k \in TextRow :
          /\ Exists(k) /\ at[k] + ContentDays > now
          /\ at'[k] # at[k] \/ content'[k] # content[k]
          => ~Sweep
<1>1. IInv /\ [Next]_vars => [Step]_vars
  <2> SUFFICES ASSUME IInv, NEW k \in TextRow, Exists(k), at[k] + ContentDays > now, Sweep
               PROVE  at'[k] = at[k] /\ content'[k] = content[k]
    OBVIOUS
  <2>1. RowInv /\ k \in Row /\ k \notin Evidence
    BY TextRows DEF IInv, StoreInv
  <2>2. ~Expired(k, ContentDays)
    <3>1. now \in Nat /\ at[k] \in Nat
      BY <2>1, PolicyAssumption DEF RowInv, Time, Exists
    <3> QED  BY <3>1, PolicyAssumption DEF Expired
  <2>3. k \notin SweptRows /\ k \notin Redacted
    BY <2>1, <2>2, FreshStays DEF Redacted
  <2>4. Remove(SweptRows, Redacted, "expired")
    BY SweepUnrestricted DEF Sweep, SweptRows
  <2> QED  BY <2>1, <2>3, <2>4 DEF Remove
<1> QED  BY <1>1, Invariance, PTL DEF Spec, SweepKeepsFresh

\* An executed purge changes exactly the rows the operator was shown, however
\* long the confirmation took and whatever other commands wrote meanwhile.
THEOREM PurgeShown == Spec => PurgeAsShown
<1> DEFINE Step == purges' # purges => refused' \/ Touched = purge.shown
<1>1. IInv /\ [Next]_vars => [Step]_vars
  <2> SUFFICES ASSUME IInv, Next, purges' # purges PROVE Touched = purge.shown
    OBVIOUS
  <2>1. StoreInv /\ PurgeInv
    BY DEF IInv
  <2>2. Execute
    BY DEF Next, Tick, Write, Read, Purge, CreateDraft, Revise, Approve, Activate, Fetch, ObserveEdit,
           Claim, Sweep, BeginSend, Abandon, Plan, Confirm, Drop, unmoved
  <2> DEFINE scope == purge.scope
             cutoff == purge.cutoff
             S == Deleted(scope, cutoff)
             M == Marked(scope, cutoff)
             C == Cleared(scope, cutoff)
  <2>3. purge \in OpenPurge /\ purge.drift = 0 /\ purge.shown = Affected(scope, cutoff) /\ scope \in Scope
    BY <2>1, <2>2 DEF Execute, Current, PurgeInv, Quiet, OpenPurge
  <2>4. /\ Remove(S, M, "purged")
        /\ described' = {d \in described \ C : DraftRow(d) \notin S}
    BY <2>2, <2>3, PurgeUnrestricted DEF Execute
  <2>5. S \subseteq Existing /\ C \subseteq described /\ described \subseteq Draft
    BY <2>1 DEF Deleted, Eligible, Cleared, StoreInv, DraftInv
  <2>6. M \subseteq TextRow \cap Existing /\ \A k \in M : content[k] # "purged"
    BY DEF Marked, Eligible, Existing
  <2>7. purge.shown = M \cup S \cup {DraftRow(d) : d \in C}
    BY <2>3 DEF Affected
  <2> HIDE DEF S, M, C
  <2>8. ASSUME NEW k \in Row
        PROVE  k \in Touched <=> k \in M \cup S \cup {DraftRow(d) : d \in C}
    <3>1. at'[k] # at[k] <=> k \in S
      BY <2>4, <2>5 DEF Remove, Existing, Exists
    <3>2. k \in TextRow /\ k \notin S => (content'[k] # content[k] <=> k \in M)
      BY <2>4, <2>6 DEF Remove
    <3>3. k \in M => k \in TextRow
      BY <2>6
    <3>4. CASE \E d \in Draft : k = DraftRow(d)
      <4>1. PICK d \in Draft : k = DraftRow(d)
        BY <3>4
      <4>2. k[1] = "draft" /\ k[2] = d /\ k \notin TextRow
        BY <4>1, Keys, TextRows
      <4>3. k \in {DraftRow(e) : e \in C} <=> d \in C
        BY <4>1, <2>5, Keys
      <4>4. (d \in described <=> d \in described') <=> ~(d \in C \/ (d \in described /\ k \in S))
        BY <2>4, <2>5, <4>1
      <4> QED  BY <3>1, <3>3, <4>2, <4>3, <4>4 DEF Touched
    <3>5. CASE ~ \E d \in Draft : k = DraftRow(d)
      <4>1. k[1] # "draft"
        BY <3>5, RowForms, Keys
      <4>2. k \notin {DraftRow(e) : e \in C}
        BY <3>5, <2>5
      <4> QED  BY <3>1, <3>2, <3>3, <4>1, <4>2 DEF Touched
    <3> QED  BY <3>4, <3>5
  <2>9. M \cup S \cup {DraftRow(d) : d \in C} \subseteq Row
    BY <2>5, <2>6, TextRows, Keys DEF Existing
  <2>10. Touched \subseteq Row
    BY DEF Touched
  <2> QED  BY <2>7, <2>8, <2>9, <2>10
<1> QED  BY <1>1, Invariance, PTL DEF Spec, PurgeAsShown
=============================================================================
