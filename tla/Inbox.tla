-------------------------------- MODULE Inbox --------------------------------
(***************************************************************************)
(* Bounded retrieval of one inbound channel into the local inbox: paging   *)
(* from an explicit boundary, the transaction that stores the page with    *)
(* its cursor, and the read-only point checks after it                     *)
(* (crates repo-com-inbox-fetch and repo-com-inbox-state).                 *)
(*                                                                         *)
(* Several processes fetch from one channel into one store while people    *)
(* post, edit and delete messages.  Messages are numbered in the order of  *)
(* their identifiers (snowflakes).                                         *)
(***************************************************************************)
EXTENDS Integers, FiniteSets

CONSTANTS
    Fetcher,          \* processes that may fetch
    MaxMessage,       \* bound: messages ever posted to the channel
    MaxVersion,       \* bound: versions of a message, edits included
    Addressed,        \* <<message, version>> whose content should_retain keeps
    PageSize,         \* MESSAGES_PER_PAGE
    MaxPages,         \* MAX_FETCH_PAGES (MAX_RAW_MESSAGES is as many full pages)
    MaxPointChecks,   \* MAX_POINT_CHECKS
    MaxClock          \* bound: distinct observation times

ASSUME BoundAssumption ==
    /\ MaxMessage \in Nat /\ MaxVersion \in Nat \ {0} /\ MaxClock \in Nat
    /\ PageSize \in Nat \ {0} /\ MaxPages \in Nat \ {0} /\ MaxPointChecks \in Nat

Message == 1..MaxMessage
Version == 1..MaxVersion
Gone == MaxVersion + 1      \* a deletion is the last thing that happens to a message
Boundary == 0..MaxMessage   \* a cursor, or the snowflake of a time; 0 is before all

ASSUME AddressedAssumption == Addressed \subseteq Message \X Version

VARIABLES
    remote,    \* Discord: the version of each message, 0 before it is posted
    items,     \* inbound_items: the first snapshot of each stored message
    snap,      \* inbound_current_snapshots: the version in it, Gone for a deletion
    changes,   \* inbound_item_transitions: the versions with an edited/deleted event
    cursor,    \* inbound_cursors: the alias cursor, 0 while there is none
    clock,     \* the time of the latest fetch
    fetch,     \* the local state of each process
    skipped    \* history: messages that some committed boundary jumped over

vars == <<remote, items, snap, changes, cursor, clock, fetch, skipped>>

NoItem == [version |-> 0, at |-> 0]

Idle == [pc |-> "idle", from |-> 0, after |-> 0, at |-> 0, pages |-> 0,
         seen |-> [m \in Message |-> 0], known |-> {}, todo |-> {}, found |-> 0]

Stored(m) == items[m] # NoItem
OnPage(f) == {m \in Message : fetch[f].seen[m] # 0}

IsLeast(m, S) == m \in S /\ \A k \in S : m <= k

(***************************************************************************)
(* Faulty variants of operators defined below; no action uses them.        *)
(***************************************************************************)
Page_Newest(after) ==
    LET live == {m \in Message : m > after /\ remote[m] \in Version}
    IN  {m \in live : Cardinality({k \in live : k > m}) < PageSize}

Changed_Always(f, m) == TRUE

(***************************************************************************)
(* Operators.                                                              *)
(***************************************************************************)

\* Discord's answer to "after": the oldest messages beyond it, at most a page.
Page(after) ==
    LET live == {m \in Message : m > after /\ remote[m] \in Version}
    IN  {m \in live : Cardinality({k \in live : k < m}) < PageSize}

\* A full page before the page limit asks for the next one.
More(f, page) == Cardinality(page) = PageSize /\ fetch[f].pages + 1 < MaxPages

\* should_retain, as the page shows the message.
Retained(m) == <<m, remote[m]>> \in Addressed

\* store_item: a first snapshot is written once.  The fetch repeats the stored
\* one when its lookup found it and builds its own otherwise.
FirstSnapshot(f, m) ==
    IF Stored(m) THEN items[m] ELSE [version |-> fetch[f].seen[m], at |-> fetch[f].at]

\* ... and a different first observation is refused, and the page with it.
Conflict(f) ==
    \E m \in OnPage(f) \ fetch[f].known :
        Stored(m) /\ items[m] # [version |-> fetch[f].seen[m], at |-> fetch[f].at]

\* advance_cursor: equal is idempotent, lower is refused.
MovesBackwards(f) == fetch[f].after < cursor

\* The current snapshot that the page stores for a message.
Snapshot(f, m) == fetch[f].seen[m]

\* record_present_probe / NotFound: other content, edit evidence, or no message.
Changed(f, m) == remote[m] # fetch[f].seen[m] \/ remote[m] > 1

\* The point checks: at most MAX_POINT_CHECKS items, oldest first.
PointChecks(f) ==
    {m \in OnPage(f) : Cardinality({k \in OnPage(f) : k < m}) < MaxPointChecks}

\* What is left of a fetch when "todo" is still to be checked.
Then(state, todo) ==
    IF todo = {} THEN Idle
    ELSE [Idle EXCEPT !.pc = "probing", !.seen = state.seen, !.todo = todo]

-----------------------------------------------------------------------------
Init ==
    /\ remote = [m \in Message |-> 0]
    /\ items = [m \in Message |-> NoItem]
    /\ snap = [m \in Message |-> 0]
    /\ changes = [m \in Message |-> {}]
    /\ cursor = 0
    /\ clock = 0
    /\ fetch = [f \in Fetcher |-> Idle]
    /\ skipped = {}

(***************************************************************************)
(* Discord.                                                                *)
(***************************************************************************)
local == <<items, snap, changes, cursor, clock, fetch, skipped>>

\* Identifiers grow with time.
RemotePost(m) ==
    /\ remote[m] = 0
    /\ \A k \in Message : k < m => remote[k] # 0
    /\ remote' = [remote EXCEPT ![m] = 1]
    /\ UNCHANGED local

RemoteEdit(m) ==
    /\ remote[m] \in Version
    /\ remote[m] < MaxVersion
    /\ remote' = [remote EXCEPT ![m] = @ + 1]
    /\ UNCHANGED local

RemoteDelete(m) ==
    /\ remote[m] \in Version
    /\ remote' = [remote EXCEPT ![m] = Gone]
    /\ UNCHANGED local

(***************************************************************************)
(* Fetching.                                                               *)
(***************************************************************************)

\* The caller gives the boundary; retrieved_at is the time of the fetch, and
\* two fetches may share it.
Start(f, from) ==
    /\ fetch[f].pc = "idle"
    /\ \E at \in {clock, clock + 1} :
          /\ at \in 1..MaxClock
          /\ clock' = at
          /\ fetch' = [fetch EXCEPT ![f] =
                          [Idle EXCEPT !.pc = "reading", !.from = from, !.after = from, !.at = at]]
    /\ UNCHANGED <<remote, items, snap, changes, cursor, skipped>>

\* One page; its highest identifier is where the next one, or the cursor, begins.
ReadPage(f) ==
    /\ fetch[f].pc = "reading"
    /\ LET page == Page(fetch[f].after)
       IN  \E last \in page \cup {fetch[f].after} :
             /\ \A m \in page : m <= last
             /\ fetch' = [fetch EXCEPT
                   ![f].pc = IF More(f, page) THEN "reading" ELSE "fetched",
                   ![f].after = last,
                   ![f].pages = @ + 1,
                   ![f].seen = [m \in Message |->
                                   IF m \in page /\ Retained(m) THEN remote[m] ELSE @[m]]]
    /\ UNCHANGED <<remote, items, snap, changes, cursor, clock, skipped>>

\* fetch_and_store looks every item up before the page's transaction begins.
\* (Only another commit can come between two lookups, and it inserts all of its
\* items or none: one action conflicts exactly when separate lookups would.)
Lookup(f) ==
    /\ fetch[f].pc = "fetched"
    /\ fetch' = [fetch EXCEPT ![f].pc = "ready",
                              ![f].known = {m \in OnPage(f) : Stored(m)}]
    /\ UNCHANGED <<remote, items, snap, changes, cursor, clock, skipped>>

\* commit_page: first snapshots, current snapshots and the cursor in one
\* transaction.
CommitPage(f) ==
    /\ fetch[f].pc = "ready"
    /\ ~Conflict(f)
    /\ ~MovesBackwards(f)
    /\ items' = [m \in Message |-> IF m \in OnPage(f) THEN FirstSnapshot(f, m) ELSE items[m]]
    /\ snap' = [m \in Message |-> IF m \in OnPage(f) THEN Snapshot(f, m) ELSE snap[m]]
    /\ cursor' = fetch[f].after
    /\ skipped' = skipped \cup {m \in Message : cursor < m /\ m <= fetch[f].from}
    /\ fetch' = [fetch EXCEPT ![f] = Then(fetch[f], PointChecks(f))]
    /\ UNCHANGED <<remote, changes, clock>>

\* ... or nothing at all.
CommitRefused(f) ==
    /\ fetch[f].pc = "ready"
    /\ Conflict(f) \/ MovesBackwards(f)
    /\ fetch' = [fetch EXCEPT ![f] = Idle]
    /\ UNCHANGED <<remote, items, snap, changes, cursor, clock, skipped>>

\* One exact point read.  An unchanged message needs no write.
ProbeRead(f) ==
    /\ fetch[f].pc = "probing"
    /\ \E m \in fetch[f].todo :
          /\ IsLeast(m, fetch[f].todo)
          /\ fetch' = [fetch EXCEPT ![f] =
                          IF Changed(f, m)
                          THEN [@ EXCEPT !.pc = "recording", !.found = remote[m]]
                          ELSE Then(@, @.todo \ {m})]
    /\ UNCHANGED <<remote, items, snap, changes, cursor, clock, skipped>>

\* A transient read failure is reported and changes nothing.
ProbeFails(f) ==
    /\ fetch[f].pc = "probing"
    /\ \E m \in fetch[f].todo :
          /\ IsLeast(m, fetch[f].todo)
          /\ fetch' = [fetch EXCEPT ![f] = Then(@, @.todo \ {m})]
    /\ UNCHANGED <<remote, items, snap, changes, cursor, clock, skipped>>

\* record_transition: the event and the current snapshot in a transaction of
\* their own.
ProbeRecord(f) ==
    /\ fetch[f].pc = "recording"
    /\ \E m \in fetch[f].todo :
         /\ IsLeast(m, fetch[f].todo)
         /\ snap' = [snap EXCEPT ![m] = fetch[f].found]
         /\ changes' = [changes EXCEPT ![m] = @ \cup {fetch[f].found}]
         /\ fetch' = [fetch EXCEPT ![f] = Then(@, @.todo \ {m})]
    /\ UNCHANGED <<remote, items, cursor, clock, skipped>>

\* A terminal read error, a storage error or a kill, at any point.
Abandon(f) ==
    /\ fetch[f].pc # "idle"
    /\ fetch' = [fetch EXCEPT ![f] = Idle]
    /\ UNCHANGED <<remote, items, snap, changes, cursor, clock, skipped>>

-----------------------------------------------------------------------------
Discord == \E m \in Message : RemotePost(m) \/ RemoteEdit(m) \/ RemoteDelete(m)

Advance(f) ==
    \/ ReadPage(f) \/ Lookup(f) \/ CommitPage(f) \/ CommitRefused(f)
    \/ ProbeRead(f) \/ ProbeFails(f) \/ ProbeRecord(f)

Next ==
    \/ Discord
    \/ \E f \in Fetcher :
          \/ \E from \in Boundary : Start(f, from)
          \/ Advance(f)
          \/ Abandon(f)

Spec == Init /\ [][Next]_vars

(***************************************************************************)
(* Properties.                                                             *)
(***************************************************************************)
FetchState == [pc : {"idle", "reading", "fetched", "ready", "probing", "recording"},
               from : Boundary, after : Boundary, at : 0..MaxClock, pages : 0..MaxPages,
               seen : [Message -> Version \cup {0}],
               known : SUBSET Message, todo : SUBSET Message, found : 0..Gone]

\* Every variable has its type; no fetch reads more than MAX_FETCH_PAGES pages,
\* and a point check is only ever under way for a message of the page.
TypeOK ==
    /\ remote \in [Message -> 0..Gone]
    /\ items \in [Message -> [version : Version \cup {0}, at : 0..MaxClock]]
    /\ snap \in [Message -> 0..Gone]
    /\ changes \in [Message -> SUBSET (1..Gone)]
    /\ cursor \in Boundary
    /\ clock \in 0..MaxClock
    /\ fetch \in [Fetcher -> FetchState]
    /\ skipped \subseteq Message
    /\ \A f \in Fetcher :
          /\ fetch[f].pc = "reading" => fetch[f].pages < MaxPages
          /\ fetch[f].pc \in {"probing", "recording"} =>
                fetch[f].todo # {} /\ fetch[f].todo \subseteq OnPage(f)

\* INBOX-FR-02: the page and the cursor are one transaction, whoever commits. No
\* item is ever stored beyond the cursor, so no later fetch from the cursor meets
\* an item again, and every item has a current snapshot.
StoredBelowCursor ==
    \A m \in Message :
        /\ Stored(m) => m <= cursor
        /\ Stored(m) <=> snap[m] # 0

\* IN-FR-02, IN-FR-03: paging, limits, refused commits, crashes and concurrent
\* fetches never lose a message: one that the cursor has passed, that was
\* addressed to the bot from the start and is still untouched, is stored, unless a
\* caller's own boundary jumped over it.
NothingMissed ==
    \A m \in Message :
        m <= cursor /\ m \notin skipped /\ remote[m] = 1 /\ <<m, 1>> \in Addressed => Stored(m)

\* IN-CON-04: the first snapshot survives refetches by any process, edits,
\* deletions and point checks.
FirstSnapshotKept ==
    [][\A m \in Message : Stored(m) => items'[m] = items[m]]_vars

\* IN-FR-05: what the store says did happen on Discord: the current snapshot is
\* one the message really had, and each recorded event is a real edit, or a
\* deletion of a message that is gone.
EventsAreReal ==
    \A m \in Message :
        /\ items[m].version <= remote[m]
        /\ snap[m] <= remote[m]
        /\ \A v \in changes[m] : 1 < v /\ v <= remote[m] /\ Stored(m)

\* PageItem: "current is the latest state known at the time the page is
\* committed": the current snapshot never falls back to an older version, and a
\* deletion is never undone.
SnapshotForward ==
    [][\A m \in Message : snap[m] <= snap'[m]]_vars

=============================================================================
