------------------------------- MODULE Reply --------------------------------
(***************************************************************************)
(* Replies to stored inbound items: the validated target, the linked draft *)
(* of one transaction and the metadata of a second one, revisions that     *)
(* carry the reference on, the two target checks of a send before its      *)
(* claim, the record that an item was replied to, and the local            *)
(* acknowledge and archive marks (crates repo-com-reply, repo-com-inbox-   *)
(* state and the reply and inbox commands of repo-com-cli).                *)
(*                                                                         *)
(* The inbox changes under the commands: a fetch of another process stores *)
(* an edit or a deletion, a cleanup writes its marker, time passes.  The   *)
(* configuration is the one in force and a send is otherwise eligible:     *)
(* module Authority has those.                                             *)
(***************************************************************************)
EXTENDS Naturals, FiniteSets

CONSTANTS
    Process,        \* running commands
    Item,           \* inbound items of the configured channel
    Draft,          \* draft identifiers a caller may choose
    Content,        \* contents an item can show
    NoDraft, NoItem,
    Mark,           \* local marks of an item: "acknowledged", "archived"
    MaxRevision,    \* bound: revisions of a draft
    MaxTime,        \* bound: the clock
    ContentDays     \* retention.content_days, on that clock

ASSUME ReplyAssumption ==
    /\ MaxRevision \in Nat \ {0}
    /\ MaxTime \in Nat
    /\ ContentDays \in Nat
    /\ Mark \subseteq {"acknowledged", "archived"}
    /\ NoDraft \notin Draft
    /\ NoItem \notin Item
    /\ Content \cap {"absent", "gone"} = {}

VARIABLES
    now,
    items,      \* inbound_items with their current snapshots
    drafts,     \* drafts that answer an item
    attempts,   \* delivery attempts of their revisions
    links,      \* inbound_reply_links
    replied,    \* the audit event "inbound-replied-<draft>": the revision it names
    marks,      \* acknowledgement, archive and link rows: when they were made
    history,    \* inbound_item_transitions of those three kinds
    runs        \* the local state of each command; "seen" is a history field:
                \* what its target showed since a send began

vars == <<now, items, drafts, attempts, links, replied, marks, history, runs>>

Time == 0..MaxTime
Never == MaxTime + 1
Revision == 1..MaxRevision
Snapshot == Content \cup {"absent", "gone"}  \* gone: deleted

NoReply == [revision |-> 0, item |-> NoItem, snapshot |-> "absent", described |-> FALSE]

Idle == [pc |-> "idle", item |-> NoItem, draft |-> NoDraft,
         revision |-> 0, snapshot |-> "absent", at |-> 0, seen |-> {}]

Stored(i) == items[i].snapshot # "absent"

(***************************************************************************)
(* Faulty variants, see Delivery.                                          *)
(***************************************************************************)
LinkFree_Always(i, d) == TRUE
SameTarget_AnyContent(d) == items[drafts[d].item].snapshot \in Content
EvidenceMatches_AnyAttempt(i, d, r) == links[i] = d /\ attempts[d][r] # "none"

(***************************************************************************)
(* The target: ReplyTargetValidator over the current local state.          *)
(***************************************************************************)
\* validate: stored, not deleted, within the content window.
Usable(i) ==
    /\ items[i].snapshot \in Content
    /\ now < items[i].observed + ContentDays

\* same_snapshot and the reference of a revision compare the hash of what the
\* item shows: an edit and its reversal give the first hash again.
SameTarget(d) == items[drafts[d].item].snapshot = drafts[d].snapshot

\* ensure_current_records, in the transaction that stores the draft.
Stale(p) == items[runs[p].item].snapshot # runs[p].snapshot

Sending(p) == runs[p].pc \in {"evaluated", "rechecked"}

Exists(d) == drafts[d].revision > 0

\* load_model: a revision without its reply metadata does not load.
Loads(d) == Exists(d) /\ drafts[d].described

Revalidated(d) == Usable(drafts[d].item) /\ SameTarget(d)

LinkFree(i, d) == links[i] \in {NoDraft, d}

-----------------------------------------------------------------------------
Init ==
    /\ now = 0
    /\ items = [i \in Item |-> [snapshot |-> "absent", observed |-> 0]]
    /\ drafts = [d \in Draft |-> NoReply]
    /\ attempts = [d \in Draft |-> [r \in Revision |-> "none"]]
    /\ links = [i \in Item |-> NoDraft]
    /\ replied = [d \in Draft |-> 0]
    /\ marks = [i \in Item |-> [m \in Mark |-> Never]]
    /\ history = {}
    /\ runs = [p \in Process |-> Idle]

(***************************************************************************)
(* The inbox and the clock.                                                *)
(***************************************************************************)
Tick ==
    /\ now < MaxTime
    /\ now' = now + 1
    /\ UNCHANGED <<items, drafts, attempts, links, replied, marks, history, runs>>

\* A fetch commits what an item shows, or a cleanup its marker, one more content.
\* Overlapping fetches commit in any order, so a deletion may even be undone.
Observe(i, s) ==
    /\ s # "absent" /\ s # items[i].snapshot
    /\ Stored(i) \/ s \in Content
    /\ items' = [items EXCEPT ![i] =
          [snapshot |-> s, observed |-> IF Stored(i) THEN @.observed ELSE now]]
    /\ runs' = [p \in Process |->
          IF Sending(p) /\ runs[p].item = i
          THEN [runs[p] EXCEPT !.seen = @ \cup {s}] ELSE runs[p]]
    /\ UNCHANGED <<now, drafts, attempts, links, replied, marks, history>>

\* acknowledge and archive: one transaction for the whole list, refused when
\* an item of it is unknown; a mark that exists is left alone and leaves no
\* second transition.
Applied(i, m, I, mark) == i \in I /\ m = mark /\ marks[i][m] = Never

ApplyMark(I, mark) ==
    /\ I # {} /\ \A i \in I : Stored(i)
    /\ marks' = [i \in Item |-> [m \in Mark |->
          IF Applied(i, m, I, mark) THEN now ELSE marks[i][m]]]
    /\ history' = history \cup
          {[item |-> i, type |-> mark, at |-> now] : i \in {j \in I : Applied(j, mark, I, mark)}}
    /\ UNCHANGED <<now, items, drafts, attempts, links, replied, runs>>

(***************************************************************************)
(* reply create.                                                           *)
(***************************************************************************)
BeginReply(p, i, d) ==
    /\ runs[p].pc = "idle"
    /\ Stored(i) /\ Usable(i)
    /\ runs' = [runs EXCEPT ![p] = [Idle EXCEPT
          !.pc = "creating", !.item = i, !.draft = d, !.snapshot = items[i].snapshot, !.at = now]]
    /\ UNCHANGED <<now, items, drafts, attempts, links, replied, marks, history>>

\* persist_reply_draft: draft, first revision, link, transition and audit
\* event in one transaction, after the target was compared once more.
Persistable(p) ==
    /\ ~Stale(p)
    /\ ~Exists(runs[p].draft)
    /\ LinkFree(runs[p].item, runs[p].draft)

PersistReply(p) ==
    LET i == runs[p].item
        d == runs[p].draft IN
    /\ runs[p].pc = "creating"
    /\ Persistable(p)
    /\ drafts' = [drafts EXCEPT ![d] =
          [revision |-> 1, item |-> i, snapshot |-> runs[p].snapshot, described |-> FALSE]]
    /\ links' = [links EXCEPT ![i] = d]
    /\ history' = history \cup {[item |-> i, type |-> "reply_linked", at |-> runs[p].at]}
    /\ runs' = [runs EXCEPT ![p].pc = "describing"]
    /\ UNCHANGED <<now, items, attempts, replied, marks>>

\* persist_reply_metadata: what load_model needs, in a second transaction.
DescribeReply(p) ==
    /\ runs[p].pc = "describing"
    /\ drafts' = [drafts EXCEPT ![runs[p].draft].described = TRUE]
    /\ runs' = [runs EXCEPT ![p] = Idle]
    /\ UNCHANGED <<now, items, attempts, links, replied, marks, history>>

(***************************************************************************)
(* draft update: the new revision carries the old reference.               *)
(***************************************************************************)
BeginUpdate(p, d) ==
    /\ runs[p].pc = "idle"
    /\ Loads(d) /\ Revalidated(d)
    /\ drafts[d].revision < MaxRevision
    /\ runs' = [runs EXCEPT ![p] = [Idle EXCEPT !.pc = "updating", !.item = drafts[d].item,
          !.draft = d, !.revision = drafts[d].revision + 1, !.snapshot = drafts[d].snapshot]]
    /\ UNCHANGED <<now, items, drafts, attempts, links, replied, marks, history>>

\* insert_revision: the primary key refuses a revision that exists.
PersistRevision(p) ==
    /\ runs[p].pc = "updating"
    /\ drafts[runs[p].draft].revision < runs[p].revision
    /\ drafts' = [drafts EXCEPT ![runs[p].draft] =
          [@ EXCEPT !.revision = runs[p].revision, !.snapshot = runs[p].snapshot]]
    /\ runs' = [runs EXCEPT ![p] = Idle]
    /\ UNCHANGED <<now, items, attempts, links, replied, marks, history>>

(***************************************************************************)
(* send: target check, evaluation, target check, claim.                    *)
(***************************************************************************)
BeginSend(p, d) ==
    /\ runs[p].pc = "idle"
    /\ Loads(d) /\ Revalidated(d)
    /\ runs' = [runs EXCEPT ![p] = [Idle EXCEPT !.pc = "evaluated", !.item = drafts[d].item,
          !.draft = d, !.revision = drafts[d].revision, !.snapshot = drafts[d].snapshot,
          !.seen = {items[drafts[d].item].snapshot}]]
    /\ UNCHANGED <<now, items, drafts, attempts, links, replied, marks, history>>

\* revalidate_for_delivery compares the loaded revision with the stored one.
PersistedIsCurrent(p) == drafts[runs[p].draft].revision = runs[p].revision

RecheckTarget(p) ==
    /\ runs[p].pc = "evaluated"
    /\ PersistedIsCurrent(p)
    /\ Revalidated(runs[p].draft)
    /\ runs' = [runs EXCEPT ![p].pc = "rechecked"]
    /\ UNCHANGED <<now, items, drafts, attempts, links, replied, marks, history>>

\* The claim's transaction compares the revision and the item it answers, not
\* what the item shows.
ClaimReply(p) ==
    /\ runs[p].pc = "rechecked"
    /\ PersistedIsCurrent(p)
    /\ attempts[runs[p].draft][runs[p].revision] = "none"
    /\ attempts' = [attempts EXCEPT ![runs[p].draft][runs[p].revision] = "claimed"]
    /\ runs' = [runs EXCEPT ![p].pc = "posting"]
    /\ UNCHANGED <<now, items, drafts, links, replied, marks, history>>

\* The POST and its recorded outcome; module Delivery has them in detail.
RecordOutcome(p, outcome) ==
    /\ runs[p].pc = "posting"
    /\ attempts' = [attempts EXCEPT ![runs[p].draft][runs[p].revision] = outcome]
    /\ runs' = [runs EXCEPT ![p] = Idle]
    /\ UNCHANGED <<now, items, drafts, links, replied, marks, history>>

(***************************************************************************)
(* record_accepted_reply, a library operation.                             *)
(***************************************************************************)

\* What its transaction compares again: the link and the attempt.
EvidenceMatches(i, d, r) == links[i] = d /\ attempts[d][r] = "accepted"

BeginRecordReplied(p, i, d, r) ==
    /\ runs[p].pc = "idle"
    /\ EvidenceMatches(i, d, r)
    /\ drafts[d].item = i /\ drafts[d].revision = r
    /\ runs' = [runs EXCEPT ![p] = [Idle EXCEPT
          !.pc = "recording", !.item = i, !.draft = d, !.revision = r]]
    /\ UNCHANGED <<now, items, drafts, attempts, links, replied, marks, history>>

\* One event for each draft: equal evidence is returned, other evidence refused.
NotYetReplied(d, r) == replied[d] \in {0, r}

RecordReplied(p) ==
    LET d == runs[p].draft
        r == runs[p].revision IN
    /\ runs[p].pc = "recording"
    /\ EvidenceMatches(runs[p].item, d, r)
    /\ NotYetReplied(d, r)
    /\ replied' = [replied EXCEPT ![d] = r]
    /\ runs' = [runs EXCEPT ![p] = Idle]
    /\ UNCHANGED <<now, items, drafts, attempts, links, marks, history>>

\* A refused step, an error or a kill ends the command where it is.
Abandon(p) ==
    /\ runs[p].pc # "idle"
    /\ runs' = [runs EXCEPT ![p] = Idle]
    /\ UNCHANGED <<now, items, drafts, attempts, links, replied, marks, history>>

-----------------------------------------------------------------------------
Create(p) ==
    \/ \E i \in Item, d \in Draft : BeginReply(p, i, d)
    \/ PersistReply(p)
    \/ DescribeReply(p)

Update(p) ==
    \/ \E d \in Draft : BeginUpdate(p, d)
    \/ PersistRevision(p)

Send(p) ==
    \/ \E d \in Draft : BeginSend(p, d)
    \/ RecheckTarget(p)
    \/ ClaimReply(p)
    \/ \E outcome \in {"accepted", "failed", "unknown"} : RecordOutcome(p, outcome)

Replied(p) ==
    \/ \E i \in Item, d \in Draft, r \in Revision : BeginRecordReplied(p, i, d, r)
    \/ RecordReplied(p)

Inbox ==
    \/ Tick
    \/ \E i \in Item, s \in Snapshot : Observe(i, s)
    \/ \E I \in SUBSET Item, mark \in Mark : ApplyMark(I, mark)

Next ==
    \/ Inbox
    \/ \E p \in Process : Create(p) \/ Update(p) \/ Send(p) \/ Replied(p) \/ Abandon(p)

Spec == Init /\ [][Next]_vars

\* reply_status: what the command line and the library say of an item.
ReplyStatus(i) ==
    IF links[i] = NoDraft THEN "unlinked"
    ELSE IF replied[links[i]] = 0 THEN "linked"
    ELSE IF attempts[links[i]][replied[links[i]]] = "accepted" THEN "replied"
    ELSE "conflict"

-----------------------------------------------------------------------------
(***************************************************************************)
(* Properties.                                                             *)
(***************************************************************************)
Shown == Content \cup {"absent"}

RunState == [pc : {"idle", "creating", "describing", "updating", "evaluated",
                   "rechecked", "posting", "recording"},
             item : Item \cup {NoItem}, draft : Draft \cup {NoDraft},
             revision : Revision \cup {0}, snapshot : Shown, at : Time,
             seen : SUBSET Snapshot]

\* Every variable has its type; no draft and no command ever refers to a target
\* that showed nothing or was deleted.
TypeOK ==
    /\ now \in Time
    /\ items \in [Item -> [snapshot : Snapshot, observed : Time]]
    /\ drafts \in [Draft -> [revision : Revision \cup {0}, item : Item \cup {NoItem},
                             snapshot : Shown, described : BOOLEAN]]
    /\ attempts \in [Draft -> [Revision -> {"none", "claimed", "accepted", "failed", "unknown"}]]
    /\ links \in [Item -> Draft \cup {NoDraft}]
    /\ replied \in [Draft -> Revision \cup {0}]
    /\ marks \in [Item -> [Mark -> Time \cup {Never}]]
    /\ history \subseteq [item : Item, type : Mark \cup {"reply_linked"}, at : Time]
    /\ runs \in [Process -> RunState]

\* IN-REPLY-1, REPLY-FR-02: drafts and links come in pairs, whatever two
\* commands race for one item or one draft identifier: no item has two reply
\* drafts, no reply draft lacks its link (one transaction in persist_reply_draft).
LinkedTogether ==
    \A i \in Item, d \in Draft : links[i] = d <=> (Exists(d) /\ drafts[d].item = i)

\* REPLY-CON-02, as far as the code keeps it: a send that reaches its claim saw
\* the target, after it began, show exactly what the reply was written for,
\* whatever was edited, deleted, revised or redacted before.
ClaimedForShownTarget ==
    \A p \in Process : runs[p].pc \in {"rechecked", "posting"} =>
        /\ runs[p].snapshot \in runs[p].seen
        /\ runs[p].snapshot = drafts[runs[p].draft].snapshot

\* REPLY-FR-03: an item is reported replied only with an accepted attempt of
\* the draft that is linked to it; the evidence never turns into a conflict.
RepliedIsAccepted == \A i \in Item : ReplyStatus(i) # "conflict"

\* The recorded evidence is not replaced by that of a later revision.
RepliedIsFinal == [][\A d \in Draft : replied[d] # 0 => replied'[d] = replied[d]]_vars

\* A link and what its draft answers never change: revisions carry the first
\* reference on, and a draft identifier is not taken twice.
LinkIsForEver ==
    [][\A i \in Item : links[i] # NoDraft =>
          /\ links'[i] = links[i]
          /\ drafts'[links[i]].item = drafts[links[i]].item
          /\ drafts'[links[i]].snapshot = drafts[links[i]].snapshot]_vars

=============================================================================
