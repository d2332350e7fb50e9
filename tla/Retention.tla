------------------------------ MODULE Retention ------------------------------
(***************************************************************************)
(* What removes local rows: the retention sweep, one transaction over the  *)
(* rows of a repository, and the purge that an operator plans, confirms    *)
(* and executes (crates repo-com-retention and repo-com-purge, with the    *)
(* purge handler of repo-com-cli-operations).  Commands create, revise,    *)
(* approve, send and fetch meanwhile.                                      *)
(*                                                                         *)
(* A row is named by its key: <<table, owner, ...>>.  Each has the         *)
(* timestamp that the cleanup reads and, where the table holds a text,     *)
(* what is left of it.  Drafts carry no optional metadata: clearing the    *)
(* metadata of a revision then changes nothing that is read back.          *)
(***************************************************************************)
EXTENDS Naturals, FiniteSets

CONSTANTS
    Process,        \* running commands
    Draft, Item,
    MaxRevision,    \* bound: revisions of a draft
    MaxTime,        \* bound: the clock, in days
    MaxRows,        \* bound: rows that exist at once
    MaxDrift,       \* bound: writes while a purge is planned
    MaxPurges,      \* bound: purges that execute
    ContentDays, MetadataDays,    \* RetentionPolicy
    Lifetime        \* MAX_EXPIRY_SECONDS, the longest life of a revision

\* RetentionPolicy::validate, and 7 days against at least 30.
ASSUME PolicyAssumption ==
    /\ MaxRevision \in Nat \ {0} /\ MaxTime \in Nat /\ MaxRows \in Nat /\ MaxDrift \in Nat /\ MaxPurges \in Nat
    /\ ContentDays \in Nat \ {0} /\ MetadataDays \in Nat /\ Lifetime \in Nat \ {0}
    /\ ContentDays <= MetadataDays
    /\ Lifetime <= MetadataDays

VARIABLES
    now,
    at,         \* the timestamp of each row, Never while it does not exist
    content,    \* the text of each row that has one
    described,  \* drafts whose metadata_json is not '{}'
    sending,    \* the local state of each command that sends
    posted,     \* history: messages posted for each revision, 2 for more
    purge,      \* the operator's purge
    purges,     \* history: how many have executed
    swept,      \* history: when the latest sweep committed
    refused     \* history: a cleanup met a foreign key

vars == <<now, at, content, described, sending, posted, purge, purges, swept, refused>>
db == <<at, content, described>>

Time == 0..MaxTime
Never == MaxTime + 1
Revision == 1..MaxRevision

DraftRow(d) == <<"draft", d>>
RevisionRow(d, r) == <<"revision", d, r>>
ApprovalRow(d, r) == <<"approval", d, r>>
AttemptRow(d, r) == <<"attempt", d, r>>
ItemRow(i) == <<"item", i>>
CurrentRow(i) == <<"current", i>>
TransitionRow(i, type) == <<"transition", i, type>>
LinkRow(i, d) == <<"link", i, d>>
Activation == <<"activation">>    \* cursors and audit events age in the same way

TransitionType == {"edited", "reply_linked"}

Owner == {DraftRow(d) : d \in Draft} \cup {ItemRow(i) : i \in Item}

\* Acknowledgements and archives age like links without a draft.
OwnedBy(o) ==
    CASE o[1] = "draft" ->
           {RevisionRow(o[2], r) : r \in Revision} \cup {ApprovalRow(o[2], r) : r \in Revision}
           \cup {AttemptRow(o[2], r) : r \in Revision} \cup {LinkRow(i, o[2]) : i \in Item}
      [] o[1] = "item" ->
           {CurrentRow(o[2])} \cup {TransitionRow(o[2], t) : t \in TransitionType}
           \cup {LinkRow(o[2], d) : d \in Draft}

Row == Owner \cup {Activation} \cup UNION {OwnedBy(o) : o \in Owner}

\* Rows with a text, and rows that expire by their own age.
TextRow == {k \in Row : k[1] \in {"revision", "item", "current"} \/ (k[1] = "transition" /\ k[3] = "edited")}
Evidence == {k \in Row : k[1] \in {"approval", "attempt", "link", "activation"}}

Text == {"none", "text", "expired", "purged"}

\* Foreign keys: what a row refers to.
Refers(k) ==
    CASE k[1] \in {"revision"} -> {DraftRow(k[2])}
      [] k[1] \in {"approval", "attempt"} -> {RevisionRow(k[2], k[3])}
      [] k[1] \in {"current", "transition"} -> {ItemRow(k[2])}
      [] k[1] = "link" -> {ItemRow(k[2]), DraftRow(k[3])}
      [] OTHER -> {}

Exists(k) == at[k] # Never
Existing == {k \in Row : Exists(k)}

(***************************************************************************)
(* Faulty variants, see Delivery.                                          *)
(***************************************************************************)
Expired_Young(k, days) == Exists(k) /\ at[k] + days < now
FreshOwner_FirstTextOnly(o) == \E k \in {o} : Exists(k) /\ at[k] + ContentDays > now
RemovedRow_LinksByAge(k, removed) ==
    Exists(k) /\ (\/ k \in removed
                  \/ \E o \in removed : k \in OwnedBy(o) /\ k[1] # "link"
                  \/ k \in Evidence /\ at[k] + MetadataDays <= now)
Cleared_KeepsDrafts(scope, cutoff) == {}
Current_NotCompared == TRUE

(***************************************************************************)
(* The draft, as commands read it.                                         *)
(***************************************************************************)
IsCurrent(d, r) ==
    Exists(RevisionRow(d, r)) /\ \A s \in Revision : s > r => ~Exists(RevisionRow(d, s))

\* load_model: the metadata of the draft, and the text of every revision under
\* its hash.
Loads(d) ==
    /\ Exists(DraftRow(d)) /\ d \in described
    /\ \A r \in Revision : Exists(RevisionRow(d, r)) => content[RevisionRow(d, r)] = "text"

Unexpired(d, r, t) == t < at[RevisionRow(d, r)] + Lifetime

\* What may authorise a send: the activation or, during fifteen minutes of its
\* day, an approval of the revision.
Authorities(d, r) == {k \in {ApprovalRow(d, r), Activation} :
                        Exists(k) /\ (k # Activation => at[k] = now)}

Quiet == [pc |-> "idle"]

-----------------------------------------------------------------------------
Init ==
    /\ now = 0
    /\ at = [k \in Row |-> Never]
    /\ content = [k \in TextRow |-> "none"]
    /\ described = {}
    /\ sending = [p \in Process |-> Quiet]
    /\ posted = [d \in Draft |-> [r \in Revision |-> 0]]
    /\ purge = Quiet
    /\ purges = 0
    /\ swept = Never
    /\ refused = FALSE

Tick ==
    /\ now < MaxTime
    /\ now' = now + 1
    /\ UNCHANGED <<db, sending, posted, purge, purges, swept, refused>>

(***************************************************************************)
(* Commands that write rows; each is one transaction.                      *)
(***************************************************************************)
Insert(rows) ==
    /\ Cardinality(Existing \cup rows) <= MaxRows
    /\ at' = [k \in Row |-> IF k \in rows THEN now ELSE at[k]]
    /\ content' = [k \in TextRow |-> IF k \in rows THEN "text" ELSE content[k]]

unmoved == <<now, sending, purges, swept, refused>>

\* draft create, and reply create when it answers an item.  A name whose rows
\* are gone is a new draft.
CreateDraft(d, answers) ==
    /\ ~Exists(DraftRow(d))
    /\ \A i \in answers :
          /\ Exists(CurrentRow(i)) /\ content[CurrentRow(i)] = "text"
          /\ \A e \in Draft : ~Exists(LinkRow(i, e))
    /\ Insert({DraftRow(d), RevisionRow(d, 1)}
              \cup {LinkRow(i, d) : i \in answers}
              \cup {TransitionRow(i, "reply_linked") : i \in
                      {j \in answers : ~Exists(TransitionRow(j, "reply_linked"))}})
    /\ described' = described \cup {d}
    /\ posted' = [posted EXCEPT ![d] = [r \in Revision |-> 0]]
    /\ UNCHANGED unmoved

Revise(d, r) ==
    /\ Loads(d) /\ IsCurrent(d, r) /\ r + 1 \in Revision
    /\ Insert({DraftRow(d), RevisionRow(d, r + 1)})
    /\ UNCHANGED <<described, posted, unmoved>>

\* The same approval again changes nothing, unless the policy it is bound to has.
Approve(d, r) ==
    /\ Loads(d) /\ IsCurrent(d, r) /\ Unexpired(d, r, now)
    /\ ~Exists(ApprovalRow(d, r)) \/ (Exists(Activation) /\ at[ApprovalRow(d, r)] < at[Activation])
    /\ Insert({ApprovalRow(d, r)})
    /\ UNCHANGED <<described, posted, unmoved>>

\* policy activate: the row of the latest activation.
Activate ==
    /\ at[Activation] # now
    /\ Insert({Activation})
    /\ UNCHANGED <<described, posted, unmoved>>

Fetch(i) ==
    /\ ~Exists(ItemRow(i))
    /\ Insert({ItemRow(i), CurrentRow(i)})
    /\ UNCHANGED <<described, posted, unmoved>>

ObserveEdit(i) ==
    /\ Exists(ItemRow(i)) /\ ~Exists(TransitionRow(i, "edited"))
    /\ Insert({CurrentRow(i), TransitionRow(i, "edited")})
    /\ UNCHANGED <<described, posted, unmoved>>

(***************************************************************************)
(* send: the evaluation, then the claim's transaction.                     *)
(***************************************************************************)
BeginSend(p, d, r) ==
    /\ sending[p].pc = "idle"
    /\ Loads(d) /\ IsCurrent(d, r) /\ Unexpired(d, r, now)
    /\ \E k \in Authorities(d, r) :
          sending' = [sending EXCEPT ![p] = [pc |-> "evaluated", draft |-> d, revision |-> r,
             at |-> now, authority |-> k, since |-> at[k], basis |-> at[Activation]]]
    /\ UNCHANGED <<now, db, posted, purges, swept, refused>>

\* revalidate_request reads every row again, the activation also when an
\* approval authorises.  It does not read the metadata of the draft, and that
\* of the revision equals the cleared one.
Claim(p) ==
    LET s == sending[p] IN
    /\ s.pc = "evaluated"
    /\ Exists(DraftRow(s.draft)) /\ IsCurrent(s.draft, s.revision)
    /\ content[RevisionRow(s.draft, s.revision)] = "text"
    /\ Unexpired(s.draft, s.revision, s.at)
    /\ at[s.authority] = s.since /\ at[Activation] = s.basis
    /\ ~Exists(AttemptRow(s.draft, s.revision))
    /\ Insert({AttemptRow(s.draft, s.revision)})
    /\ posted' = [posted EXCEPT ![s.draft][s.revision] = IF @ < 2 THEN @ + 1 ELSE @]
    /\ sending' = [sending EXCEPT ![p] = Quiet]
    /\ UNCHANGED <<now, described, purges, swept, refused>>

Abandon(p) ==
    /\ sending[p].pc # "idle"
    /\ sending' = [sending EXCEPT ![p] = Quiet]
    /\ UNCHANGED <<now, db, posted, purges, swept, refused>>

(***************************************************************************)
(* The retention sweep.                                                    *)
(***************************************************************************)
Expired(k, days) == Exists(k) /\ at[k] + days <= now

\* collect_content_work.
Redacted == {k \in TextRow : Expired(k, ContentDays) /\ content[k] \in {"text", "purged"}}

\* fresh_drafts and fresh_inbound_items: the owner, or a text or transition of
\* it, is younger than the content cutoff.
FreshOwner(o) ==
    \E k \in {o} \cup {c \in OwnedBy(o) : c \notin Evidence} : Exists(k) /\ ~Expired(k, ContentDays)

RemovedOwner == {o \in Owner : Expired(o, MetadataDays) /\ ~FreshOwner(o)}

\* collect_child_metadata: with the owner, or by its own age.
RemovedRow(k, removed) ==
    Exists(k) /\ (\/ k \in removed
                  \/ \E o \in removed : k \in OwnedBy(o)
                  \/ k \in Evidence /\ Expired(k, MetadataDays))

\* The foreign keys restrict: a row that stays keeps what it refers to.
Restricted(removed) == \E k \in Existing \ removed : Refers(k) \cap removed # {}

Remove(rows, marked, marker) ==
    /\ at' = [k \in Row |-> IF k \in rows THEN Never ELSE at[k]]
    /\ content' = [k \in TextRow |->
          IF k \in rows THEN "none" ELSE IF k \in marked THEN marker ELSE content[k]]
    \* an authority given again is another row
    /\ sending' = [p \in Process |->
          IF sending[p].pc = "evaluated" /\ sending[p].authority \in rows
          THEN [sending[p] EXCEPT !.pc = "refused"] ELSE sending[p]]

\* sweep_state_at: all of it or, on any error, nothing and a blocking error.
Sweep ==
    LET owners == RemovedOwner
        removed == {k \in Row : RemovedRow(k, owners)}
    IN  /\ IF Restricted(removed)
           THEN refused' = TRUE /\ UNCHANGED <<db, sending, swept>>
           ELSE /\ Remove(removed, Redacted, "expired")
                /\ described' = {d \in described : DraftRow(d) \notin removed}
                /\ swept' = now
                /\ UNCHANGED refused
        /\ UNCHANGED <<now, posted, purges>>

(***************************************************************************)
(* The purge.                                                              *)
(***************************************************************************)
Scope == {"content", "metadata", "all"}

\* collect_work: rows at or before the cutoff.
Eligible(cutoff) == {k \in Existing : at[k] <= cutoff}

Marked(scope, cutoff) ==
    IF scope = "content"
    THEN {k \in TextRow \cap Eligible(cutoff) : content[k] # "purged"} ELSE {}

Cleared(scope, cutoff) ==
    IF scope = "metadata" THEN {d \in described : DraftRow(d) \in Eligible(cutoff)} ELSE {}

Deleted(scope, cutoff) ==
    CASE scope = "all" -> Existing
      [] scope = "metadata" -> Evidence \cap Eligible(cutoff)
      [] OTHER -> {}

Affected(scope, cutoff) ==
    Marked(scope, cutoff) \cup Deleted(scope, cutoff)
    \cup {DraftRow(d) : d \in Cleared(scope, cutoff)}

\* purge plan: a read snapshot.  The fingerprint of every row, part of the plan's
\* hash, is still that of the database while no write came after it.
Plan(scope, cutoff) ==
    /\ purge.pc = "idle" /\ purges < MaxPurges
    /\ cutoff <= now
    /\ purge' = [pc |-> "planned", scope |-> scope, cutoff |-> cutoff,
                 shown |-> Affected(scope, cutoff), drift |-> 0]
    /\ UNCHANGED <<now, db, sending, posted, purges, swept, refused>>

\* The plan made again, in purge execute before the prompt and in the
\* transaction that executes it, must have the hash that was shown.
Current == purge.drift = 0

Confirm ==
    /\ purge.pc = "planned"
    /\ Current
    /\ purge' = [purge EXCEPT !.pc = "confirmed"]
    /\ UNCHANGED <<now, db, sending, posted, purges, swept, refused>>

Execute ==
    LET deleted == Deleted(purge.scope, purge.cutoff) IN
    /\ purge.pc = "confirmed"
    /\ Current
    /\ IF Restricted(deleted)
       THEN refused' = TRUE /\ UNCHANGED <<db, sending>>
       ELSE /\ Remove(deleted, Marked(purge.scope, purge.cutoff), "purged")
            /\ described' = {d \in described \ Cleared(purge.scope, purge.cutoff) :
                                DraftRow(d) \notin deleted}
            /\ UNCHANGED refused
    /\ purge' = Quiet
    /\ purges' = purges + 1
    /\ UNCHANGED <<now, posted, swept>>

\* Declined, refused, failed and rolled back, or killed.
Drop ==
    /\ purge.pc # "idle"
    /\ purge' = Quiet
    /\ UNCHANGED <<now, db, sending, posted, purges, swept, refused>>

-----------------------------------------------------------------------------
Write ==
    \/ \E d \in Draft, answers \in SUBSET Item : CreateDraft(d, answers)
    \/ \E d \in Draft, r \in Revision : Revise(d, r) \/ Approve(d, r)
    \/ Activate
    \/ \E i \in Item : Fetch(i) \/ ObserveEdit(i)
    \/ \E p \in Process : Claim(p)
    \/ Sweep

Read == \E p \in Process : Abandon(p) \/ \E d \in Draft, r \in Revision : BeginSend(p, d, r)

Purge ==
    \/ \E scope \in Scope, cutoff \in Time : Plan(scope, cutoff)
    \/ Confirm
    \/ Execute
    \/ Drop

\* What a write does to a plan that is open.
Drift ==
    IF purge.pc = "idle" \/ db' = db THEN UNCHANGED purge
    ELSE purge.drift < MaxDrift /\ purge' = [purge EXCEPT !.drift = @ + 1]

Next ==
    \/ Tick
    \/ Write /\ Drift
    \/ Read /\ UNCHANGED purge
    \/ Purge

Spec == Init /\ [][Next]_vars

-----------------------------------------------------------------------------
(***************************************************************************)
(* Properties.                                                             *)
(***************************************************************************)
\* Every variable has its type, and a row has a text exactly while it exists.
TypeOK ==
    /\ now \in Time
    /\ at \in [Row -> Time \cup {Never}]
    /\ content \in [TextRow -> Text]
    /\ \A k \in TextRow : content[k] = "none" <=> ~Exists(k)
    /\ \A d \in described : Exists(DraftRow(d))
    /\ \A k \in Existing : Refers(k) \subseteq Existing
    /\ posted \in [Draft -> [Revision -> 0..2]]
    /\ swept \in Time \cup {Never} /\ purges \in 0..MaxPurges

\* RET-FR-02: no state of the database makes a sweep or a purge fail on a
\* foreign key; such a state would block every later mutation.
CleanupNeverRefused == ~refused

\* RET-FR-01, RET-FR-03: after a sweep nothing keeps a text beyond the content
\* cutoff, nor a row beyond the metadata cutoff unless its owner is still fresh.
RetentionHolds ==
    swept = now =>
        /\ \A k \in TextRow : Exists(k) /\ at[k] + ContentDays <= now => content[k] # "text"
        /\ \A k \in Evidence : Exists(k) => at[k] + MetadataDays > now
        /\ \A o \in Owner : Exists(o) /\ at[o] + MetadataDays <= now =>
              \E k \in OwnedBy(o) : Exists(k) /\ at[k] + ContentDays > now

\* A sweep never takes a text that is younger than the content cutoff, not even
\* with the item or draft it belongs to.
SweepKeepsFresh ==
    [][\A k \in TextRow :
          /\ Exists(k) /\ at[k] + ContentDays > now
          /\ at'[k] # at[k] \/ content'[k] # content[k]
          => ~Sweep]_vars

\* DEL-FR-07 against cleanup: while a posted revision could still be sent, its
\* attempt is there, or the draft cannot be loaded any more.
SentStaysSent ==
    \A d \in Draft, r \in Revision :
        posted[d][r] > 0 /\ IsCurrent(d, r) /\ Unexpired(d, r, now) /\ Loads(d) =>
            Exists(AttemptRow(d, r))

\* RET-FR-05: an executed purge changes exactly the rows whose counts the
\* operator was shown, however long the confirmation took.
Touched == {k \in Row : at'[k] # at[k] \/ (k \in TextRow /\ content'[k] # content[k])
                        \/ (k[1] = "draft" /\ (k[2] \in described) # (k[2] \in described'))}

PurgeAsShown == [][purges' # purges => refused' \/ Touched = purge.shown]_vars

\* "Duplicate or concurrent sends for the same draft and revision return the
\* recorded outcome": not when a purge of metadata removes the attempt while a
\* second send of the revision is between its evaluation and its claim.
SentOnce == \A d \in Draft, r \in Revision : posted[d][r] <= 1
=============================================================================
