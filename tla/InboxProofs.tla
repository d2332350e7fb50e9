----------------------------- MODULE InboxProofs -----------------------------
(***************************************************************************)
(* Theorems about Inbox, for any number of fetchers, messages, versions    *)
(* and pages.                                                              *)
(*                                                                         *)
(* The inductive invariant adds to the properties what each fetch has in   *)
(* its hands: it read everything between its boundary and its last         *)
(* identifier, what it saw is no newer than Discord, and what it still     *)
(* checks is stored.                                                       *)
(***************************************************************************)
EXTENDS Inbox, FiniteSetTheorems, TLAPS

\* Identifiers are handed out in order.
PostedInOrder ==
    \A m, k \in Message : k < m /\ remote[m] # 0 => remote[k] # 0

\* A cursor passes only messages that exist, unless a boundary jumped ahead.
PassedIsPosted ==
    \A m \in Message : m <= cursor /\ m \notin skipped => remote[m] # 0

Gathering == {"reading", "fetched", "ready"}

FetchInv(f) ==
    /\ \A m \in Message : fetch[f].seen[m] <= remote[m]
    /\ fetch[f].pc \in Gathering =>
          /\ fetch[f].from <= fetch[f].after
          /\ fetch[f].from < fetch[f].after => remote[fetch[f].after] # 0
          /\ \A m \in Message : fetch[f].seen[m] # 0 => m <= fetch[f].after
          /\ \A m \in Message :
                fetch[f].from < m /\ m <= fetch[f].after /\ remote[m] = 1
                    /\ <<m, 1>> \in Addressed => fetch[f].seen[m] # 0
    /\ fetch[f].pc \in {"probing", "recording"} => \A m \in fetch[f].todo : Stored(m)
    /\ fetch[f].pc = "recording" =>
          \A m \in fetch[f].todo :
              IsLeast(m, fetch[f].todo) => 1 < fetch[f].found /\ fetch[f].found <= remote[m]

IInv ==
    /\ TypeOK
    /\ StoredBelowCursor
    /\ NothingMissed
    /\ EventsAreReal
    /\ PostedInOrder
    /\ PassedIsPosted
    /\ \A f \in Fetcher : FetchInv(f)

-----------------------------------------------------------------------------
LEMMA PageFacts ==
    ASSUME TypeOK, NEW a \in Boundary
    PROVE  /\ \A m \in Page(a) : m \in Message /\ a < m /\ remote[m] \in Version
           /\ \A m \in Page(a), k \in Message :
                 a < k /\ k < m /\ remote[k] \in Version => k \in Page(a)
<1> DEFINE live == {m \in Message : m > a /\ remote[m] \in Version}
           below(m) == {k \in live : k < m}
<1>1. Page(a) = {m \in live : Cardinality(below(m)) < PageSize}
  BY DEF Page
<1>2. \A m \in Page(a) : m \in Message /\ a < m /\ remote[m] \in Version
  BY <1>1
<1>3. ASSUME NEW m \in Page(a), NEW k \in Message, a < k, k < m, remote[k] \in Version
      PROVE  k \in Page(a)
  <2>1. k \in live /\ below(k) \subseteq below(m)
    BY <1>2, <1>3 DEF Message
  <2>2. IsFiniteSet(Message)
    BY FS_Interval, BoundAssumption DEF Message
  <2>3. IsFiniteSet(below(m)) /\ IsFiniteSet(below(k))
    BY <2>2, FS_Subset
  <2>4. Cardinality(below(k)) <= Cardinality(below(m))
    BY <2>1, <2>3, FS_Subset
  <2>5. Cardinality(below(k)) \in Nat /\ Cardinality(below(m)) \in Nat
    BY <2>3, FS_CardinalityType
  <2>6. Cardinality(below(m)) < PageSize
    BY <1>1
  <2> HIDE DEF live, below
  <2>7. Cardinality(below(k)) < PageSize
    BY <2>4, <2>5, <2>6, BoundAssumption
  <2> QED  BY <2>1, <2>7, <1>1
<1> QED  BY <1>2, <1>3

LEMMA IdleFacts ==
    /\ Idle \in FetchState
    /\ Idle.pc = "idle"
    /\ \A m \in Message : Idle.seen[m] = 0
BY BoundAssumption DEF Idle, FetchState, Boundary, Gone

\* What Then leaves of a fetch.
LEMMA ThenFacts ==
    ASSUME NEW state \in FetchState, NEW todo \in SUBSET Message
    PROVE  /\ Then(state, todo) \in FetchState
           /\ Then(state, todo).pc \in {"idle", "probing"}
           /\ Then(state, todo).pc = "idle" => Then(state, todo) = Idle
           /\ Then(state, todo).pc = "probing" =>
                 /\ Then(state, todo).todo = todo
                 /\ todo # {}
                 /\ Then(state, todo).seen = state.seen
<1>1. CASE todo = {}
  BY <1>1, IdleFacts DEF Then
<1>2. CASE todo # {}
  <2> DEFINE next == [Idle EXCEPT !.pc = "probing", !.seen = state.seen, !.todo = todo]
  <2>1. Then(state, todo) = next
    BY <1>2 DEF Then
  <2>2. state.seen \in [Message -> Version \cup {0}]
    BY DEF FetchState
  <2>3. next \in FetchState /\ next.pc = "probing" /\ next.todo = todo /\ next.seen = state.seen
    BY <2>2, IdleFacts DEF FetchState
  <2> QED  BY <1>2, <2>1, <2>3
<1> QED  BY <1>1, <1>2

-----------------------------------------------------------------------------
(***************************************************************************)
(* Discord moves on.                                                       *)
(***************************************************************************)
LEMMA RemoteStep ==
    ASSUME IInv, NEW m \in Message, NEW v \in 1..Gone,
           remote' = [remote EXCEPT ![m] = v],
           remote[m] < v,
           v = 1 => remote[m] = 0,
           remote[m] = 0 => \A k \in Message : k < m => remote[k] # 0,
           UNCHANGED local
    PROVE  IInv'
<1> USE DEF local
<1>0. /\ remote \in [Message -> 0..Gone] /\ remote'[m] = v /\ remote[m] \in 0..Gone
      /\ \A k \in Message \ {m} : remote'[k] = remote[k]
      /\ Gone \in Nat
  BY BoundAssumption DEF IInv, TypeOK, Gone
<1>1. TypeOK'
  BY <1>0 DEF IInv, TypeOK, OnPage
<1>2. StoredBelowCursor'
  BY DEF IInv, StoredBelowCursor, Stored
<1>3. \A k \in Message : remote[k] <= remote'[k]
  BY <1>0 DEF IInv, TypeOK
<1>4. PassedIsPosted'
  BY <1>0, <1>3 DEF IInv, PassedIsPosted
<1>5. NothingMissed'
  BY <1>0, <1>3 DEF IInv, NothingMissed, PassedIsPosted, Stored
<1>6. EventsAreReal'
  <2>1. ASSUME NEW k \in Message PROVE
          /\ items[k].version <= remote'[k]
          /\ snap[k] <= remote'[k]
          /\ \A w \in changes[k] : 1 < w /\ w <= remote'[k] /\ Stored(k)
    <3>1. items[k].version \in Int /\ snap[k] \in Int /\ changes[k] \subseteq Int
            /\ remote[k] \in Int /\ remote'[k] \in Int
      BY <1>0 DEF IInv, TypeOK, Version, Gone
    <3> QED  BY <3>1, <1>3 DEF IInv, EventsAreReal
  <2> QED  BY <2>1 DEF EventsAreReal, Stored
<1>7. PostedInOrder'
  BY <1>0 DEF IInv, PostedInOrder, Message
<1>8. ASSUME NEW f \in Fetcher PROVE FetchInv(f)'
  <2>0. FetchInv(f) /\ fetch[f] \in FetchState
    BY DEF IInv, TypeOK
  <2>1. \A k \in Message : fetch[f].seen[k] <= remote'[k]
    <3>1. \A k \in Message : fetch[f].seen[k] \in Int /\ remote[k] \in Int /\ remote'[k] \in Int
      BY <2>0, <1>0 DEF FetchState, Version, Gone
    <3> QED  BY <3>1, <2>0, <1>3 DEF FetchInv
  <2>2. ASSUME fetch[f].pc \in Gathering
        PROVE  /\ fetch[f].from < fetch[f].after => remote'[fetch[f].after] # 0
               /\ \A k \in Message :
                     fetch[f].from < k /\ k <= fetch[f].after /\ remote'[k] = 1
                         /\ <<k, 1>> \in Addressed => fetch[f].seen[k] # 0
    <3>1. fetch[f].from \in Boundary /\ fetch[f].after \in Boundary
      BY <2>0 DEF FetchState
    <3>2. ASSUME fetch[f].from < fetch[f].after
          PROVE  fetch[f].after \in Message /\ remote[fetch[f].after] # 0
      BY <3>1, <3>2, <2>0, <2>2 DEF Boundary, Message, FetchInv
    <3>3. fetch[f].from < fetch[f].after => remote'[fetch[f].after] # 0
      BY <3>2, <1>0, <1>3
    <3>4. ASSUME NEW k \in Message, fetch[f].from < k, k <= fetch[f].after, remote'[k] = 1,
                 <<k, 1>> \in Addressed
          PROVE  fetch[f].seen[k] # 0
      <4>1. CASE k # m
        BY <4>1, <3>4, <1>0, <2>0, <2>2 DEF FetchInv
      <4>2. CASE k = m
        <5>1. remote[m] = 0
          BY <4>2, <3>4, <1>0
        <5>2. fetch[f].from < fetch[f].after
          BY <3>1, <3>4 DEF Boundary, Message
        <5>3. fetch[f].after \in Message /\ remote[fetch[f].after] # 0
          BY <5>2, <3>2
        <5>4. m < fetch[f].after
          BY <4>2, <5>1, <5>3, <3>4 DEF Message
        <5>5. remote[m] # 0
          BY <5>3, <5>4 DEF IInv, PostedInOrder
        <5> QED  BY <5>1, <5>5
      <4> QED  BY <4>1, <4>2
    <3> QED  BY <3>3, <3>4
  <2>3. fetch[f].pc = "recording" =>
          \A k \in fetch[f].todo :
              IsLeast(k, fetch[f].todo) => 1 < fetch[f].found /\ fetch[f].found <= remote'[k]
    <3>1. \A k \in fetch[f].todo :
             k \in Message /\ fetch[f].found \in Int /\ remote[k] \in Int /\ remote'[k] \in Int
      BY <2>0, <1>0 DEF FetchState, Gone
    <3> QED  BY <3>1, <2>0, <1>3 DEF FetchInv
  <2> QED  BY <2>0, <2>1, <2>2, <2>3 DEF FetchInv, Stored, IsLeast
<1> QED  BY <1>1, <1>2, <1>4, <1>5, <1>6, <1>7, <1>8 DEF IInv

LEMMA DiscordStep ==
    ASSUME IInv, Discord
    PROVE  IInv'
<1> PICK m \in Message : RemotePost(m) \/ RemoteEdit(m) \/ RemoteDelete(m)
  BY DEF Discord
<1>0. remote[m] \in 0..Gone /\ MaxVersion \in Nat \ {0}
  BY BoundAssumption DEF IInv, TypeOK
<1>1. CASE RemotePost(m)
  <2>1. 1 \in 1..Gone /\ remote[m] < 1
    BY <1>0, <1>1 DEF RemotePost, Gone
  <2> QED  BY <2>1, <1>1, RemoteStep DEF RemotePost
<1>2. CASE RemoteEdit(m)
  <2>1. remote[m] + 1 \in 1..Gone /\ remote[m] < remote[m] + 1 /\ remote[m] # 0
            /\ remote[m] + 1 # 1 /\ remote' = [remote EXCEPT ![m] = remote[m] + 1]
    BY <1>0, <1>2 DEF RemoteEdit, Gone, Version
  <2> QED  BY <2>1, <1>2, RemoteStep DEF RemoteEdit
<1>3. CASE RemoteDelete(m)
  <2>1. Gone \in 1..Gone /\ remote[m] < Gone /\ remote[m] # 0 /\ Gone # 1
    BY <1>0, <1>3 DEF RemoteDelete, Gone, Version
  <2> QED  BY <2>1, <1>3, RemoteStep DEF RemoteDelete
<1> QED  BY <1>1, <1>2, <1>3

-----------------------------------------------------------------------------
(***************************************************************************)
(* A fetch moves on without touching the store.                            *)
(***************************************************************************)
LEMMA FetchStep ==
    ASSUME IInv, NEW f \in Fetcher, NEW next \in FetchState,
           fetch' = [fetch EXCEPT ![f] = next],
           clock' \in 0..MaxClock,
           next.pc = "reading" => next.pages < MaxPages,
           next.pc \in {"probing", "recording"} =>
               next.todo # {} /\ \A m \in next.todo : next.seen[m] # 0,
           FetchInv(f)',
           UNCHANGED <<remote, items, snap, changes, cursor, skipped>>
    PROVE  IInv'
<1>1. fetch \in [Fetcher -> FetchState] /\ fetch' \in [Fetcher -> FetchState]
  BY DEF IInv, TypeOK
<1>2. fetch'[f] = next /\ \A g \in Fetcher \ {f} : fetch'[g] = fetch[g]
  BY <1>1
<1>3. next.todo \subseteq Message
  BY DEF FetchState
<1>4. ASSUME NEW g \in Fetcher
      PROVE  /\ fetch'[g].pc = "reading" => fetch'[g].pages < MaxPages
             /\ fetch'[g].pc \in {"probing", "recording"} =>
                   fetch'[g].todo # {} /\ fetch'[g].todo \subseteq OnPage(g)'
  BY <1>2, <1>3 DEF IInv, TypeOK, OnPage
<1>5. TypeOK'
  BY <1>1, <1>4 DEF IInv, TypeOK
<1>6. ASSUME NEW g \in Fetcher PROVE FetchInv(g)'
  <2>1. CASE g = f  BY <2>1
  <2>2. CASE g # f
    BY <2>2, <1>2 DEF IInv, FetchInv, Stored
  <2> QED  BY <2>1, <2>2
<1>7. StoredBelowCursor' /\ NothingMissed' /\ EventsAreReal' /\ PostedInOrder' /\ PassedIsPosted'
  BY DEF IInv, StoredBelowCursor, NothingMissed, EventsAreReal, PostedInOrder,
         PassedIsPosted, Stored
<1> QED  BY <1>5, <1>6, <1>7 DEF IInv

\* A process that stops.
LEMMA StopStep ==
    ASSUME IInv, NEW f \in Fetcher,
           fetch' = [fetch EXCEPT ![f] = Idle],
           UNCHANGED <<remote, items, snap, changes, cursor, clock, skipped>>
    PROVE  IInv'
<1>1. fetch'[f] = Idle
  BY DEF IInv, TypeOK
<1>2. \A m \in Message : remote[m] \in 0..Gone /\ Gone \in Nat
  BY BoundAssumption DEF IInv, TypeOK, Gone
<1>3. \A m \in Message : Idle.seen[m] <= remote[m]
  BY <1>2, IdleFacts
<1>4. FetchInv(f)'
  BY <1>1, <1>3, IdleFacts DEF FetchInv, Gathering
<1>5. clock' \in 0..MaxClock
  BY DEF IInv, TypeOK
<1> QED  BY <1>4, <1>5, IdleFacts, FetchStep

LEMMA StartStep ==
    ASSUME IInv, NEW f \in Fetcher, NEW from \in Boundary, Start(f, from)
    PROVE  IInv'
<1>0. PICK at \in 1..MaxClock :
        /\ clock' = at
        /\ fetch' = [fetch EXCEPT ![f] =
                       [Idle EXCEPT !.pc = "reading", !.from = from, !.after = from, !.at = at]]
  BY DEF Start
<1> DEFINE next == [Idle EXCEPT !.pc = "reading", !.from = from, !.after = from, !.at = at]
<1>1. next \in FetchState
  <2>1. at \in 0..MaxClock
    BY BoundAssumption
  <2> QED  BY <2>1, IdleFacts DEF FetchState
<1>2. /\ next.pc = "reading" /\ next.from = from /\ next.after = from /\ next.pages = 0
      /\ next.seen = Idle.seen
  BY <1>0, IdleFacts DEF FetchState, Idle
<1>3. fetch'[f] = next
  BY <1>0 DEF IInv, TypeOK
<1> HIDE DEF next
<1>4. \A m \in Message : remote[m] \in 0..Gone /\ Gone \in Nat
  BY BoundAssumption DEF IInv, TypeOK, Gone
<1>5. \A m \in Message : next.seen[m] = 0
  BY <1>2, IdleFacts
<1>6. from \in Int /\ \A m \in Message : m \in Int
  BY DEF Boundary, Message
<1>7. FetchInv(f)'
  BY <1>2, <1>3, <1>4, <1>5, <1>6 DEF FetchInv, Gathering, Start
<1>8. clock' \in 0..MaxClock
  BY <1>0, BoundAssumption
<1>9. next.pages < MaxPages
  BY <1>2, BoundAssumption
<1>10. UNCHANGED <<remote, items, snap, changes, cursor, skipped>>
  BY DEF Start
<1>11. fetch' = [fetch EXCEPT ![f] = next]
  BY <1>0 DEF next
<1> QED  BY <1>1, <1>2, <1>7, <1>8, <1>9, <1>10, <1>11, FetchStep

LEMMA ReadPageStep ==
    ASSUME IInv, NEW f \in Fetcher, ReadPage(f)
    PROVE  IInv'
<1> DEFINE page == Page(fetch[f].after)
<1>0. fetch[f] \in FetchState /\ fetch[f].after \in Boundary /\ fetch[f].pc = "reading"
        /\ fetch[f].from \in Boundary /\ fetch[f].seen \in [Message -> Version \cup {0}]
        /\ fetch[f].pages \in 0..MaxPages /\ fetch[f].pages < MaxPages
        /\ FetchInv(f)
  BY DEF IInv, TypeOK, FetchState, ReadPage
<1>1. PICK last \in page \cup {fetch[f].after} :
        /\ \A m \in page : m <= last
        /\ fetch' = [fetch EXCEPT
              ![f].pc = IF More(f, page) THEN "reading" ELSE "fetched",
              ![f].after = last,
              ![f].pages = @ + 1,
              ![f].seen = [m \in Message |->
                             IF m \in page /\ Retained(m) THEN remote[m] ELSE @[m]]]
  BY DEF ReadPage
<1> DEFINE seen == [m \in Message |->
                      IF m \in page /\ Retained(m) THEN remote[m] ELSE fetch[f].seen[m]]
           next == [fetch[f] EXCEPT !.pc = IF More(f, page) THEN "reading" ELSE "fetched",
                                    !.after = last,
                                    !.pages = @ + 1,
                                    !.seen = seen]
<1>2. /\ \A m \in page : m \in Message /\ fetch[f].after < m /\ remote[m] \in Version
      /\ \A m \in page, k \in Message :
            fetch[f].after < k /\ k < m /\ remote[k] \in Version => k \in page
  BY <1>0, PageFacts DEF IInv
<1>3. last \in Boundary /\ fetch[f].after <= last
  BY <1>0, <1>1, <1>2 DEF Boundary, Message
<1>4. seen \in [Message -> Version \cup {0}]
  BY <1>0, <1>2
<1>5. fetch[f].pages + 1 \in 0..MaxPages
  BY <1>0, BoundAssumption
<1>6. /\ next \in FetchState
      /\ next.pc = IF More(f, page) THEN "reading" ELSE "fetched"
      /\ next.after = last /\ next.pages = fetch[f].pages + 1 /\ next.seen = seen
      /\ next.from = fetch[f].from
  <2> HIDE DEF seen, page
  <2> QED  BY <1>0, <1>3, <1>4, <1>5 DEF FetchState
<1>7. fetch' = [fetch EXCEPT ![f] = next]
  BY <1>1
<1>8. fetch'[f] = next
  BY <1>7 DEF IInv, TypeOK
<1>9. UNCHANGED <<remote, items, snap, changes, cursor, clock, skipped>>
  BY DEF ReadPage
<1>10. \A m \in Message :
          seen[m] = IF m \in page /\ Retained(m) THEN remote[m] ELSE fetch[f].seen[m]
  OBVIOUS
<1>11. More(f, page) => next.pages < MaxPages
  BY <1>6 DEF More
<1> HIDE DEF next, seen, page
<1>12. \A m \in Message : next.seen[m] <= remote[m]
  <2>1. \A m \in Message : remote[m] \in Int
    BY BoundAssumption DEF IInv, TypeOK, Gone
  <2> QED  BY <2>1, <1>0, <1>6, <1>10 DEF FetchInv
<1>13. next.pc \in Gathering /\ next.pc \notin {"probing", "recording"}
  BY <1>6 DEF Gathering
<1>14. fetch[f].pc \in Gathering
  BY <1>0 DEF Gathering
<1>15. next.from <= next.after
  BY <1>0, <1>3, <1>6, <1>14 DEF FetchInv, Boundary
<1>16. next.from < next.after => remote[next.after] # 0
  <2>1. CASE last \in page
    BY <2>1, <1>2, <1>6 DEF Version
  <2>2. CASE last = fetch[f].after
    BY <2>2, <1>0, <1>6, <1>14 DEF FetchInv
  <2> QED  BY <2>1, <2>2, <1>1
<1>17. \A m \in Message : next.seen[m] # 0 => m <= next.after
  <2> TAKE m \in Message
  <2>1. CASE m \in page
    BY <2>1, <1>1, <1>6
  <2>2. CASE m \notin page
    BY <2>2, <1>0, <1>3, <1>6, <1>10, <1>14 DEF FetchInv, Boundary, Message
  <2> QED  BY <2>1, <2>2
<1>18. ASSUME NEW m \in Message, next.from < m, m <= next.after, remote[m] = 1,
              <<m, 1>> \in Addressed
       PROVE  next.seen[m] # 0
  <2>1. CASE m <= fetch[f].after
    <3>1. fetch[f].seen[m] # 0
      BY <2>1, <1>18, <1>0, <1>6, <1>14 DEF FetchInv
    <3> QED  BY <3>1, <1>6, <1>10, <1>18
  <2>2. CASE ~(m <= fetch[f].after)
    <3>1. fetch[f].after < m /\ m <= last
      BY <2>2, <1>18, <1>0, <1>6 DEF Boundary, Message
    <3>2. last \in page
      BY <3>1, <1>0, <1>1 DEF Boundary, Message
    <3>3. 1 \in Version
      BY BoundAssumption DEF Version
    <3>4. m \in page
      BY <3>1, <3>2, <3>3, <1>2, <1>18 DEF Message
    <3> QED  BY <3>4, <1>6, <1>10, <1>18 DEF Retained
  <2> QED  BY <2>1, <2>2
<1>19. FetchInv(f)'
  BY <1>8, <1>9, <1>12, <1>13, <1>15, <1>16, <1>17, <1>18 DEF FetchInv
<1>20. clock' \in 0..MaxClock
  BY <1>9 DEF IInv, TypeOK
<1> QED  BY <1>6, <1>7, <1>9, <1>11, <1>13, <1>19, <1>20, FetchStep

LEMMA LookupStep ==
    ASSUME IInv, NEW f \in Fetcher, Lookup(f)
    PROVE  IInv'
<1> DEFINE known == {m \in OnPage(f) : Stored(m)}
           next == [fetch[f] EXCEPT !.pc = "ready", !.known = known]
<1>0. fetch[f] \in FetchState /\ fetch[f].pc = "fetched" /\ FetchInv(f)
  BY DEF IInv, TypeOK, Lookup
<1>1. known \subseteq Message
  BY DEF OnPage
<1>2. /\ next \in FetchState /\ next.pc = "ready" /\ next.seen = fetch[f].seen
      /\ next.from = fetch[f].from /\ next.after = fetch[f].after
  <2> HIDE DEF known
  <2> QED  BY <1>0, <1>1 DEF FetchState
<1>3. fetch' = [fetch EXCEPT ![f] = next]
  BY DEF Lookup
<1>4. fetch'[f] = next
  BY <1>3 DEF IInv, TypeOK
<1>5. UNCHANGED <<remote, items, snap, changes, cursor, clock, skipped>>
  BY DEF Lookup
<1>6. clock' \in 0..MaxClock
  BY <1>5 DEF IInv, TypeOK
<1> HIDE DEF next
<1>7. FetchInv(f)'
  BY <1>0, <1>2, <1>4, <1>5 DEF FetchInv, Gathering
<1> QED  BY <1>2, <1>3, <1>5, <1>6, <1>7, FetchStep

-----------------------------------------------------------------------------
(***************************************************************************)
(* The page's transaction.                                                 *)
(***************************************************************************)
LEMMA CommitPageStep ==
    ASSUME IInv, NEW f \in Fetcher, CommitPage(f)
    PROVE  IInv'
<1> DEFINE next == Then(fetch[f], PointChecks(f))
<1>0. /\ fetch[f] \in FetchState /\ fetch[f].pc = "ready" /\ fetch[f].pc \in Gathering
      /\ FetchInv(f)
      /\ fetch[f].after \in Boundary /\ fetch[f].from \in Boundary /\ cursor \in Boundary
      /\ fetch[f].at \in 0..MaxClock
      /\ fetch[f].seen \in [Message -> Version \cup {0}]
      /\ items \in [Message -> [version : Version \cup {0}, at : 0..MaxClock]]
  BY DEF IInv, TypeOK, FetchState, CommitPage, Gathering
<1>1. PointChecks(f) \subseteq OnPage(f) /\ OnPage(f) \subseteq Message
  BY DEF PointChecks, OnPage
<1>2. /\ next \in FetchState /\ next.pc \in {"idle", "probing"}
      /\ next.pc = "idle" => next = Idle
      /\ next.pc = "probing" =>
            next.todo = PointChecks(f) /\ PointChecks(f) # {} /\ next.seen = fetch[f].seen
  BY <1>0, <1>1, ThenFacts
<1>3. /\ fetch' = [fetch EXCEPT ![f] = next]
      /\ items' = [m \in Message |-> IF m \in OnPage(f) THEN FirstSnapshot(f, m) ELSE items[m]]
      /\ snap' = [m \in Message |-> IF m \in OnPage(f) THEN Snapshot(f, m) ELSE snap[m]]
      /\ cursor' = fetch[f].after
      /\ skipped' = skipped \cup {m \in Message : cursor < m /\ m <= fetch[f].from}
      /\ UNCHANGED <<remote, changes, clock>>
      /\ cursor <= fetch[f].after
  BY <1>0 DEF CommitPage, MovesBackwards, Boundary
<1>4. /\ fetch' \in [Fetcher -> FetchState] /\ fetch'[f] = next
      /\ \A g \in Fetcher \ {f} : fetch'[g] = fetch[g]
  BY <1>2, <1>3 DEF IInv, TypeOK
<1> HIDE DEF next
<1>5. ASSUME NEW m \in Message
      PROVE  /\ items'[m] \in [version : Version \cup {0}, at : 0..MaxClock]
             /\ Stored(m)' <=> Stored(m) \/ m \in OnPage(f)
             /\ Stored(m) => items'[m] = items[m]
             /\ ~Stored(m) /\ m \in OnPage(f) => items'[m].version = fetch[f].seen[m]
             /\ m \notin OnPage(f) => items'[m] = items[m]
  <2>1. CASE m \in OnPage(f) /\ ~Stored(m)
    <3>1. items'[m] = [version |-> fetch[f].seen[m], at |-> fetch[f].at]
      BY <2>1, <1>3 DEF FirstSnapshot
    <3>2. fetch[f].seen[m] # 0
      BY <2>1 DEF OnPage
    <3> QED  BY <2>1, <3>1, <3>2, <1>0 DEF Stored, NoItem
  <2>2. CASE m \notin OnPage(f) \/ Stored(m)
    <3>1. items'[m] = items[m]
      BY <2>2, <1>3 DEF FirstSnapshot
    <3> QED  BY <2>2, <3>1, <1>0 DEF Stored
  <2> QED  BY <2>1, <2>2
<1>6. \A m \in Message : snap'[m] = IF m \in OnPage(f) THEN fetch[f].seen[m] ELSE snap[m]
  BY <1>3 DEF Snapshot
<1>7. \A m \in Message : m \in OnPage(f) <=> fetch[f].seen[m] # 0
  BY DEF OnPage
<1>8. TypeOK'
  <2>1. items' \in [Message -> [version : Version \cup {0}, at : 0..MaxClock]]
    BY <1>3, <1>5
  <2>2. snap' \in [Message -> 0..Gone]
    <3>1. \A m \in Message : snap'[m] \in 0..Gone
      <4>1. \A m \in Message : fetch[f].seen[m] \in 0..Gone
        BY <1>0, BoundAssumption DEF Version, Gone
      <4> QED  BY <4>1, <1>6 DEF IInv, TypeOK
    <3> QED  BY <3>1, <1>3
  <2>3. skipped' \subseteq Message /\ cursor' \in Boundary
    BY <1>0, <1>3 DEF IInv, TypeOK
  <2>4. ASSUME NEW g \in Fetcher
        PROVE  /\ fetch'[g].pc = "reading" => fetch'[g].pages < MaxPages
               /\ fetch'[g].pc \in {"probing", "recording"} =>
                     fetch'[g].todo # {} /\ fetch'[g].todo \subseteq OnPage(g)'
    <3>1. CASE g = f
      BY <3>1, <1>1, <1>2, <1>4, <1>7 DEF OnPage
    <3>2. CASE g # f
      BY <3>2, <1>4 DEF IInv, TypeOK, OnPage
    <3> QED  BY <3>1, <3>2
  <2> QED  BY <1>3, <1>4, <2>1, <2>2, <2>3, <2>4 DEF IInv, TypeOK
<1>9. StoredBelowCursor'
  <2> SUFFICES ASSUME NEW m \in Message
               PROVE  /\ Stored(m)' => m <= cursor'
                      /\ Stored(m)' <=> snap'[m] # 0
    BY DEF StoredBelowCursor
  <2>1. CASE m \in OnPage(f)
    <3>1. m <= fetch[f].after
      BY <2>1, <1>0, <1>7 DEF FetchInv
    <3> QED  BY <2>1, <3>1, <1>3, <1>5, <1>6, <1>7
  <2>2. CASE m \notin OnPage(f)
    <3>1. Stored(m) => m <= cursor
      BY DEF IInv, StoredBelowCursor
    <3>2. Stored(m) => m <= cursor'
      BY <3>1, <1>0, <1>3 DEF Boundary, Message
    <3> QED  BY <2>2, <3>2, <1>5, <1>6 DEF IInv, StoredBelowCursor
  <2> QED  BY <2>1, <2>2
<1>10. ASSUME NEW m \in Message, m <= cursor', m \notin skipped'
       PROVE  m <= cursor \/ (fetch[f].from < m /\ m <= fetch[f].after)
  BY <1>0, <1>3, <1>10 DEF Boundary, Message
<1>11. NothingMissed'
  <2> SUFFICES ASSUME NEW m \in Message, m <= cursor', m \notin skipped', remote[m] = 1,
                      <<m, 1>> \in Addressed
               PROVE  Stored(m)'
    BY <1>3 DEF NothingMissed
  <2>1. CASE m <= cursor
    BY <2>1, <1>3, <1>5 DEF IInv, NothingMissed
  <2>2. CASE fetch[f].from < m /\ m <= fetch[f].after
    BY <2>2, <1>0, <1>5, <1>7 DEF FetchInv
  <2> QED  BY <2>1, <2>2, <1>10
<1>12. PassedIsPosted'
  <2> SUFFICES ASSUME NEW m \in Message, m <= cursor', m \notin skipped'
               PROVE  remote[m] # 0
    BY <1>3 DEF PassedIsPosted
  <2>1. CASE m <= cursor
    BY <2>1, <1>3 DEF IInv, PassedIsPosted
  <2>2. CASE fetch[f].from < m /\ m <= fetch[f].after
    <3>1. fetch[f].after \in Message /\ remote[fetch[f].after] # 0
      BY <2>2, <1>0 DEF FetchInv, Boundary, Message
    <3>2. m = fetch[f].after \/ m < fetch[f].after
      BY <2>2, <1>0 DEF Boundary, Message
    <3> QED  BY <3>1, <3>2 DEF IInv, PostedInOrder
  <2> QED  BY <2>1, <2>2, <1>10
<1>13. EventsAreReal'
  <2> SUFFICES ASSUME NEW m \in Message
               PROVE  /\ items'[m].version <= remote[m]
                      /\ snap'[m] <= remote[m]
                      /\ \A v \in changes[m] : 1 < v /\ v <= remote[m] /\ Stored(m)'
    BY <1>3 DEF EventsAreReal
  <2>1. fetch[f].seen[m] <= remote[m]
    BY <1>0 DEF FetchInv
  <2> QED  BY <2>1, <1>5, <1>6 DEF IInv, EventsAreReal
<1>14. ASSUME NEW g \in Fetcher PROVE FetchInv(g)'
  <2>1. CASE g = f
    <3>1. fetch'[f].pc \in {"probing", "recording"} => \A m \in fetch'[f].todo : Stored(m)'
      BY <1>1, <1>2, <1>4, <1>5, IdleFacts
    <3>2. \A m \in Message : fetch'[f].seen[m] <= remote[m]
      <4>1. \A m \in Message : remote[m] \in 0..Gone /\ Gone \in Nat
        BY BoundAssumption DEF IInv, TypeOK, Gone
      <4> QED  BY <4>1, <1>0, <1>2, <1>4, IdleFacts DEF FetchInv
    <3> QED  BY <2>1, <3>1, <3>2, <1>2, <1>3, <1>4 DEF FetchInv, Gathering
  <2>2. CASE g # f
    <3>1. FetchInv(g) /\ fetch'[g] = fetch[g] /\ fetch[g] \in FetchState
      BY <2>2, <1>4 DEF IInv, TypeOK
    <3>2. fetch[g].todo \subseteq Message
      BY <3>1 DEF FetchState
    <3>3. \A m \in fetch[g].todo : Stored(m) => Stored(m)'
      BY <3>2, <1>5
    <3> QED  BY <3>1, <3>3, <1>3 DEF FetchInv, IsLeast
  <2> QED  BY <2>1, <2>2
<1>15. PostedInOrder'
  BY <1>3 DEF IInv, PostedInOrder
<1> QED  BY <1>8, <1>9, <1>11, <1>12, <1>13, <1>14, <1>15 DEF IInv

-----------------------------------------------------------------------------
(***************************************************************************)
(* The point checks.                                                       *)
(***************************************************************************)
LEMMA ProbeStep ==
    ASSUME IInv, NEW f \in Fetcher, fetch[f].pc \in {"probing", "recording"},
           NEW m \in fetch[f].todo
    PROVE  /\ fetch[f] \in FetchState
           /\ FetchInv(f)
           /\ m \in Message
           /\ fetch[f].seen[m] # 0
           /\ fetch[f].seen[m] \in Version
           /\ remote[m] \in 0..Gone /\ Gone \in Nat
           /\ Stored(m)
BY BoundAssumption DEF IInv, TypeOK, FetchInv, OnPage, FetchState, Gone

\* A point check that leaves no trace.
LEMMA ProbeDone ==
    ASSUME IInv, NEW f \in Fetcher, fetch[f].pc = "probing",
           NEW m \in fetch[f].todo,
           fetch' = [fetch EXCEPT ![f] = Then(@, @.todo \ {m})],
           UNCHANGED <<remote, items, snap, changes, cursor, clock, skipped>>
    PROVE  IInv'
<1> DEFINE next == Then(fetch[f], fetch[f].todo \ {m})
<1>0. /\ fetch[f] \in FetchState /\ FetchInv(f) /\ fetch[f].todo \subseteq Message
      /\ \A k \in fetch[f].todo : fetch[f].seen[k] # 0
  BY DEF IInv, TypeOK, FetchState, OnPage
<1>1. /\ next \in FetchState /\ next.pc \in {"idle", "probing"}
      /\ next.pc = "idle" => next = Idle
      /\ next.pc = "probing" =>
            /\ next.todo = fetch[f].todo \ {m}
            /\ fetch[f].todo \ {m} # {}
            /\ next.seen = fetch[f].seen
  BY <1>0, ThenFacts
<1>2. fetch' = [fetch EXCEPT ![f] = next] /\ fetch'[f] = next
  BY DEF IInv, TypeOK
<1> HIDE DEF next
<1>3. \A k \in Message : next.seen[k] <= remote[k]
  <2>1. \A k \in Message : remote[k] \in 0..Gone /\ Gone \in Nat
    BY BoundAssumption DEF IInv, TypeOK, Gone
  <2> QED  BY <2>1, <1>0, <1>1, IdleFacts DEF FetchInv
<1>4. FetchInv(f)'
  BY <1>0, <1>1, <1>2, <1>3 DEF FetchInv, Gathering, Stored
<1>5. clock' \in 0..MaxClock
  BY DEF IInv, TypeOK
<1> QED  BY <1>0, <1>1, <1>2, <1>4, <1>5, FetchStep

LEMMA ProbeReadStep ==
    ASSUME IInv, NEW f \in Fetcher, ProbeRead(f)
    PROVE  IInv'
<1>0. fetch[f].pc = "probing"
  BY DEF ProbeRead
<1>1. PICK m \in fetch[f].todo :
        /\ IsLeast(m, fetch[f].todo)
        /\ fetch' = [fetch EXCEPT ![f] =
                       IF Changed(f, m)
                       THEN [@ EXCEPT !.pc = "recording", !.found = remote[m]]
                       ELSE Then(@, @.todo \ {m})]
  BY DEF ProbeRead
<1>2. UNCHANGED <<remote, items, snap, changes, cursor, clock, skipped>>
  BY DEF ProbeRead
<1>3. CASE ~Changed(f, m)
  BY <1>0, <1>1, <1>2, <1>3, ProbeDone
<1>4. CASE Changed(f, m)
  <2> DEFINE next == [fetch[f] EXCEPT !.pc = "recording", !.found = remote[m]]
  <2>1. /\ fetch[f] \in FetchState /\ FetchInv(f) /\ m \in Message
        /\ fetch[f].seen[m] \in Version /\ remote[m] \in 0..Gone /\ Gone \in Nat
    BY <1>0, ProbeStep
  <2>2. /\ next \in FetchState /\ next.pc = "recording" /\ next.found = remote[m]
        /\ next.todo = fetch[f].todo /\ next.seen = fetch[f].seen
    BY <2>1 DEF FetchState
  <2>3. fetch' = [fetch EXCEPT ![f] = next] /\ fetch'[f] = next
    BY <1>1, <1>4 DEF IInv, TypeOK
  <2> HIDE DEF next
  <2>4. 1 < remote[m]
    <3>1. fetch[f].seen[m] <= remote[m]
      BY <2>1 DEF FetchInv
    <3> QED  BY <3>1, <2>1, <1>4, BoundAssumption DEF Changed, Version
  <2>5. \A k \in next.todo : IsLeast(k, next.todo) => k = m
    <3>1. next.todo \subseteq Message
      BY <2>2 DEF FetchState
    <3> QED  BY <3>1, <2>2, <1>1 DEF IsLeast, Message
  <2>6. FetchInv(f)'
    <3>1. \A k \in next.todo :
             IsLeast(k, next.todo) => 1 < next.found /\ next.found <= remote[k]
      BY <2>1, <2>2, <2>4, <2>5
    <3> QED  BY <3>1, <2>1, <2>2, <2>3, <1>0, <1>2 DEF FetchInv, Gathering, Stored, IsLeast
  <2>7. next.todo # {} /\ \A k \in next.todo : next.seen[k] # 0
    BY <2>2, <1>0 DEF IInv, TypeOK, OnPage
  <2>8. clock' \in 0..MaxClock
    BY <1>2 DEF IInv, TypeOK
  <2> QED  BY <2>2, <2>3, <2>6, <2>7, <2>8, <1>2, FetchStep
<1> QED  BY <1>3, <1>4

LEMMA ProbeRecordStep ==
    ASSUME IInv, NEW f \in Fetcher, ProbeRecord(f)
    PROVE  IInv'
<1>0. fetch[f].pc = "recording"
  BY DEF ProbeRecord
<1>1. PICK m \in fetch[f].todo :
        /\ IsLeast(m, fetch[f].todo)
        /\ snap' = [snap EXCEPT ![m] = fetch[f].found]
        /\ changes' = [changes EXCEPT ![m] = @ \cup {fetch[f].found}]
        /\ fetch' = [fetch EXCEPT ![f] = Then(@, @.todo \ {m})]
  BY DEF ProbeRecord
<1>2. UNCHANGED <<remote, items, cursor, clock, skipped>>
  BY DEF ProbeRecord
<1> DEFINE next == Then(fetch[f], fetch[f].todo \ {m})
<1>3. /\ fetch[f] \in FetchState /\ FetchInv(f) /\ m \in Message /\ Stored(m)
      /\ remote[m] \in 0..Gone /\ Gone \in Nat
      /\ fetch[f].todo \subseteq Message /\ fetch[f].found \in 0..Gone
      /\ \A k \in fetch[f].todo : fetch[f].seen[k] # 0
  BY <1>0, ProbeStep DEF IInv, TypeOK, FetchState, OnPage
<1>4. 1 < fetch[f].found /\ fetch[f].found <= remote[m] /\ fetch[f].found \in 1..Gone
  BY <1>0, <1>1, <1>3 DEF FetchInv
<1>5. /\ next \in FetchState /\ next.pc \in {"idle", "probing"}
      /\ next.pc = "idle" => next = Idle
      /\ next.pc = "probing" =>
            /\ next.todo = fetch[f].todo \ {m}
            /\ fetch[f].todo \ {m} # {}
            /\ next.seen = fetch[f].seen
  BY <1>3, ThenFacts
<1>6. /\ fetch' = [fetch EXCEPT ![f] = next] /\ fetch'[f] = next
      /\ fetch' \in [Fetcher -> FetchState]
      /\ \A g \in Fetcher \ {f} : fetch'[g] = fetch[g]
  BY <1>1, <1>5 DEF IInv, TypeOK
<1> HIDE DEF next
<1>7. /\ snap' \in [Message -> 0..Gone] /\ snap'[m] = fetch[f].found
      /\ changes' \in [Message -> SUBSET (1..Gone)]
      /\ changes'[m] = changes[m] \cup {fetch[f].found}
      /\ \A k \in Message \ {m} : snap'[k] = snap[k] /\ changes'[k] = changes[k]
  BY <1>1, <1>3, <1>4 DEF IInv, TypeOK
<1>8. TypeOK'
  <2>1. ASSUME NEW g \in Fetcher
        PROVE  /\ fetch'[g].pc = "reading" => fetch'[g].pages < MaxPages
               /\ fetch'[g].pc \in {"probing", "recording"} =>
                     fetch'[g].todo # {} /\ fetch'[g].todo \subseteq OnPage(g)'
    <3>1. CASE g = f
      BY <3>1, <1>3, <1>5, <1>6 DEF OnPage
    <3>2. CASE g # f
      BY <3>2, <1>6 DEF IInv, TypeOK, OnPage
    <3> QED  BY <3>1, <3>2
  <2> QED  BY <2>1, <1>2, <1>6, <1>7 DEF IInv, TypeOK
<1>9. StoredBelowCursor'
  BY <1>2, <1>3, <1>4, <1>7 DEF IInv, StoredBelowCursor, Stored
<1>10. NothingMissed' /\ PassedIsPosted' /\ PostedInOrder'
  BY <1>2 DEF IInv, NothingMissed, PassedIsPosted, PostedInOrder, Stored
<1>11. EventsAreReal'
  <2> SUFFICES ASSUME NEW k \in Message
               PROVE  /\ items[k].version <= remote[k]
                      /\ snap'[k] <= remote[k]
                      /\ \A v \in changes'[k] : 1 < v /\ v <= remote[k] /\ Stored(k)
    BY <1>2 DEF EventsAreReal, Stored
  <2>1. CASE k = m
    BY <2>1, <1>3, <1>4, <1>7 DEF IInv, EventsAreReal
  <2>2. CASE k # m
    BY <2>2, <1>7 DEF IInv, EventsAreReal
  <2> QED  BY <2>1, <2>2
<1>12. ASSUME NEW g \in Fetcher PROVE FetchInv(g)'
  <2>1. CASE g = f
    <3>1. \A k \in Message : next.seen[k] <= remote[k]
      <4>1. \A k \in Message : remote[k] \in 0..Gone
        BY DEF IInv, TypeOK
      <4> QED  BY <4>1, <1>3, <1>5, IdleFacts DEF FetchInv
    <3> QED  BY <2>1, <3>1, <1>0, <1>2, <1>3, <1>5, <1>6 DEF FetchInv, Gathering, Stored
  <2>2. CASE g # f
    BY <2>2, <1>2, <1>6 DEF IInv, FetchInv, Stored, IsLeast
  <2> QED  BY <2>1, <2>2
<1> QED  BY <1>8, <1>9, <1>10, <1>11, <1>12 DEF IInv

-----------------------------------------------------------------------------
LEMMA InitIInv == Init => IInv
<1> SUFFICES ASSUME Init PROVE IInv
  OBVIOUS
<1>0. MaxMessage \in Nat /\ MaxVersion \in Nat \ {0} /\ MaxClock \in Nat /\ Gone \in Nat
  BY BoundAssumption DEF Gone
<1>1. TypeOK
  <2>1. remote \in [Message -> 0..Gone] /\ snap \in [Message -> 0..Gone]
          /\ changes \in [Message -> SUBSET (1..Gone)] /\ skipped \subseteq Message
          /\ cursor \in Boundary /\ clock \in 0..MaxClock
    BY <1>0 DEF Init, Boundary
  <2>2. items \in [Message -> [version : Version \cup {0}, at : 0..MaxClock]]
    BY <1>0 DEF Init, NoItem
  <2>3. fetch \in [Fetcher -> FetchState] /\ \A f \in Fetcher : fetch[f].pc = "idle"
    BY IdleFacts DEF Init
  <2> QED  BY <2>1, <2>2, <2>3 DEF TypeOK
<1>2. StoredBelowCursor /\ NothingMissed /\ PostedInOrder /\ PassedIsPosted
  BY DEF Init, StoredBelowCursor, NothingMissed, PostedInOrder, PassedIsPosted, Stored,
         Message
<1>3. EventsAreReal
  BY DEF Init, EventsAreReal, NoItem
<1>4. ASSUME NEW f \in Fetcher PROVE FetchInv(f)
  BY IdleFacts DEF Init, FetchInv, Gathering
<1> QED  BY <1>1, <1>2, <1>3, <1>4 DEF IInv

LEMMA NextIInv == IInv /\ [Next]_vars => IInv'
<1> SUFFICES ASSUME IInv, [Next]_vars PROVE IInv'
  OBVIOUS
<1>1. CASE UNCHANGED vars
  BY <1>1 DEF vars, IInv, TypeOK, StoredBelowCursor, NothingMissed, EventsAreReal,
              PostedInOrder, PassedIsPosted, FetchInv, Stored, OnPage, IsLeast
<1>2. CASE Discord
  BY <1>2, DiscordStep
<1>3. ASSUME NEW f \in Fetcher, NEW from \in Boundary, Start(f, from) PROVE IInv'
  BY <1>3, StartStep
<1>4. ASSUME NEW f \in Fetcher, Advance(f) PROVE IInv'
  <2>1. CASE ReadPage(f)      BY <2>1, ReadPageStep
  <2>2. CASE Lookup(f)        BY <2>2, LookupStep
  <2>3. CASE CommitPage(f)    BY <2>3, CommitPageStep
  <2>4. CASE CommitRefused(f) BY <2>4, StopStep DEF CommitRefused
  <2>5. CASE ProbeRead(f)     BY <2>5, ProbeReadStep
  <2>6. CASE ProbeFails(f)    BY <2>6, ProbeDone DEF ProbeFails
  <2>7. CASE ProbeRecord(f)   BY <2>7, ProbeRecordStep
  <2> QED  BY <1>4, <2>1, <2>2, <2>3, <2>4, <2>5, <2>6, <2>7 DEF Advance
<1>5. ASSUME NEW f \in Fetcher, Abandon(f) PROVE IInv'
  BY <1>5, StopStep DEF Abandon
<1> QED  BY <1>1, <1>2, <1>3, <1>4, <1>5 DEF Next

\* The strengthened invariant holds in every reachable state: a fetch has read all
\* that lies between its boundary and its last identifier, whatever else happens.
THEOREM InboxInductive == Spec => []IInv
<1> QED  BY InitIInv, NextIInv, PTL DEF Spec

\* Types hold, no fetch exceeds the page limit.
THEOREM InboxTypeCorrect == Spec => []TypeOK
<1>1. IInv => TypeOK
  BY DEF IInv
<1> QED  BY <1>1, InboxInductive, PTL

\* commit_page: items and cursor move together, for any number of fetchers.
THEOREM ItemsStayBelowCursor == Spec => []StoredBelowCursor
<1>1. IInv => StoredBelowCursor
  BY DEF IInv
<1> QED  BY <1>1, InboxInductive, PTL

\* fetch_with_reader and commit_page together lose no untouched addressed message
\* that the cursor has passed, unless a caller's boundary jumped over it.
THEOREM NoMessageIsMissed == Spec => []NothingMissed
<1>1. IInv => NothingMissed
  BY DEF IInv
<1> QED  BY <1>1, InboxInductive, PTL

\* Point checks and page commits only record what Discord really showed.
THEOREM RecordedEventsAreReal == Spec => []EventsAreReal
<1>1. IInv => EventsAreReal
  BY DEF IInv
<1> QED  BY <1>1, InboxInductive, PTL

\* store_item and record_transition never replace a first snapshot.
THEOREM FirstSnapshotsAreKept == Spec => FirstSnapshotKept
<1> DEFINE Step == \A m \in Message : Stored(m) => items'[m] = items[m]
<1>1. IInv /\ [Next]_vars => [Step]_vars
  <2> SUFFICES ASSUME IInv, Next PROVE Step
    OBVIOUS
  <2> SUFFICES ASSUME NEW m \in Message, Stored(m) PROVE items'[m] = items[m]
    OBVIOUS
  <2>1. ASSUME NEW f \in Fetcher, CommitPage(f) PROVE items'[m] = items[m]
    BY <2>1 DEF CommitPage, FirstSnapshot
  <2>2. CASE UNCHANGED items
    BY <2>2
  <2> QED
    BY <2>1, <2>2 DEF Next, Discord, RemotePost, RemoteEdit, RemoteDelete, local, Start,
                      Advance, ReadPage, Lookup, CommitRefused, ProbeRead, ProbeFails,
                      ProbeRecord, Abandon
<1> QED  BY <1>1, InboxInductive, PTL DEF Spec, FirstSnapshotKept

-----------------------------------------------------------------------------
(***************************************************************************)
(* One fetch at a time.  Two fetches at the same time do not have this     *)
(* property: the later commit may be the older observation.                *)
(***************************************************************************)
Ahead ==
    \A f \in Fetcher, m \in Message :
        /\ fetch[f].pc \in Gathering /\ fetch[f].seen[m] # 0 => snap[m] <= fetch[f].seen[m]
        /\ fetch[f].pc = "recording" /\ IsLeast(m, fetch[f].todo) => snap[m] <= fetch[f].found

\* Who gathers or records keeps what it saw, until it commits or stops.
LEMMA AheadStep ==
    ASSUME \A f, g \in Fetcher : f = g, IInv, Ahead, Next
    PROVE  Ahead'
<1>0. \A m \in Message : snap[m] <= remote[m]
  BY DEF IInv, EventsAreReal
<1>1. ASSUME UNCHANGED <<snap, fetch>> PROVE Ahead'
  BY <1>1 DEF Ahead, IsLeast
<1>2. ASSUME NEW f \in Fetcher, fetch'[f].pc \in {"idle", "probing"} PROVE Ahead'
  BY <1>2 DEF Ahead, Gathering
<1>3. CASE Discord
  BY <1>1, <1>3 DEF Discord, RemotePost, RemoteEdit, RemoteDelete, local
<1>4. ASSUME NEW f \in Fetcher, Abandon(f) \/ CommitRefused(f) PROVE Ahead'
  <2>1. fetch'[f] = Idle
    BY <1>4 DEF Abandon, CommitRefused, IInv, TypeOK
  <2> QED  BY <1>2, <2>1, IdleFacts
<1>5. ASSUME NEW f \in Fetcher, NEW from \in Boundary, Start(f, from) PROVE Ahead'
  <2>1. fetch'[f].pc = "reading" /\ fetch'[f].seen = Idle.seen
    BY <1>5, IdleFacts DEF Start, IInv, TypeOK, FetchState
  <2>2. \A m \in Message : fetch'[f].seen[m] = 0
    BY <2>1, IdleFacts
  <2> QED  BY <2>1, <2>2 DEF Ahead
<1>6. ASSUME NEW f \in Fetcher, ReadPage(f) PROVE Ahead'
  <2>1. \A m \in Message :
           /\ snap'[m] = snap[m]
           /\ fetch'[f].seen[m] \in {remote[m], fetch[f].seen[m]}
    BY <1>6 DEF ReadPage, IInv, TypeOK, FetchState
  <2>2. fetch'[f].pc # "recording" /\ fetch[f].pc \in Gathering
    BY <1>6 DEF ReadPage, IInv, TypeOK, Gathering
  <2> QED  BY <2>1, <2>2, <1>0 DEF Ahead
<1>7. ASSUME NEW f \in Fetcher, Lookup(f) PROVE Ahead'
  <2>1. fetch'[f].pc = "ready" /\ fetch'[f].seen = fetch[f].seen /\ fetch[f].pc \in Gathering
          /\ snap' = snap
    BY <1>7 DEF Lookup, IInv, TypeOK, FetchState, Gathering
  <2> QED  BY <2>1 DEF Ahead
<1>8. ASSUME NEW f \in Fetcher, CommitPage(f) PROVE Ahead'
  <2>1. fetch'[f] = Then(fetch[f], PointChecks(f))
    BY <1>8 DEF CommitPage, IInv, TypeOK
  <2>2. PointChecks(f) \subseteq Message /\ fetch[f] \in FetchState
    BY DEF PointChecks, OnPage, IInv, TypeOK
  <2> QED  BY <2>1, <2>2, ThenFacts, <1>2
<1>9. ASSUME NEW f \in Fetcher, ProbeFails(f) \/ ProbeRecord(f) PROVE Ahead'
  <2>1. PICK m \in fetch[f].todo : fetch'[f] = Then(fetch[f], fetch[f].todo \ {m})
    BY <1>9 DEF ProbeFails, ProbeRecord, IInv, TypeOK
  <2>2. fetch[f].todo \ {m} \subseteq Message /\ fetch[f] \in FetchState
    BY DEF IInv, TypeOK, FetchState
  <2> QED  BY <2>1, <2>2, ThenFacts, <1>2
<1>10. ASSUME NEW f \in Fetcher, ProbeRead(f) PROVE Ahead'
  <2>1. PICK m \in fetch[f].todo :
          /\ IsLeast(m, fetch[f].todo)
          /\ fetch'[f] = IF Changed(f, m)
                         THEN [fetch[f] EXCEPT !.pc = "recording", !.found = remote[m]]
                         ELSE Then(fetch[f], fetch[f].todo \ {m})
    BY <1>10 DEF ProbeRead, IInv, TypeOK
  <2>2. fetch[f].todo \subseteq Message /\ fetch[f] \in FetchState /\ snap' = snap
    BY <1>10 DEF ProbeRead, IInv, TypeOK, FetchState
  <2>3. CASE ~Changed(f, m)
    BY <2>1, <2>2, <2>3, ThenFacts, <1>2
  <2>4. CASE Changed(f, m)
    <3>1. fetch'[f].pc = "recording" /\ fetch'[f].found = remote[m]
            /\ fetch'[f].todo = fetch[f].todo
      BY <2>1, <2>2, <2>4 DEF FetchState
    <3>2. \A k \in Message : IsLeast(k, fetch[f].todo) => k = m
      BY <2>1, <2>2 DEF IsLeast, Message
    <3> QED  BY <3>1, <3>2, <2>2, <1>0 DEF Ahead, Gathering, IsLeast
  <2> QED  BY <2>3, <2>4
<1> QED
  BY <1>3, <1>4, <1>5, <1>6, <1>7, <1>8, <1>9, <1>10 DEF Next, Advance

\* PageItem's "current is the latest state known": with one fetch at a time, the
\* current snapshot never falls back, and a deletion is never undone.
THEOREM SnapshotsGoForward ==
    ASSUME \A f, g \in Fetcher : f = g
    PROVE  Spec => SnapshotForward
<1> DEFINE Step == \A m \in Message : snap[m] <= snap'[m]
<1>1. Init => Ahead
  BY IdleFacts DEF Init, Ahead, Gathering
<1>2. IInv /\ Ahead /\ [Next]_vars => Ahead'
  <2>1. ASSUME Ahead, UNCHANGED vars PROVE Ahead'
    BY <2>1 DEF vars, Ahead, IsLeast
  <2> QED  BY <2>1, AheadStep
<1>3. IInv /\ Ahead /\ [Next]_vars => [Step]_vars
  <2> SUFFICES ASSUME IInv, Ahead, Next PROVE Step
    OBVIOUS
  <2> SUFFICES ASSUME NEW m \in Message PROVE snap[m] <= snap'[m]
    OBVIOUS
  <2>0. snap[m] \in 0..Gone /\ Gone \in Nat
    BY BoundAssumption DEF IInv, TypeOK, Gone
  <2>1. CASE UNCHANGED snap
    BY <2>0, <2>1
  <2>2. ASSUME NEW f \in Fetcher, CommitPage(f) PROVE snap[m] <= snap'[m]
    <3>1. fetch[f].pc \in Gathering
      BY <2>2 DEF CommitPage, Gathering
    <3> QED  BY <2>0, <2>2, <3>1 DEF CommitPage, Snapshot, OnPage, Ahead
  <2>3. ASSUME NEW f \in Fetcher, ProbeRecord(f) PROVE snap[m] <= snap'[m]
    <3>1. PICK k \in fetch[f].todo :
            IsLeast(k, fetch[f].todo) /\ snap' = [snap EXCEPT ![k] = fetch[f].found]
      BY <2>3 DEF ProbeRecord
    <3>2. fetch[f].pc = "recording" /\ k \in Message /\ snap \in [Message -> 0..Gone]
      BY <2>3 DEF ProbeRecord, IInv, TypeOK, FetchState
    <3>3. snap[k] <= fetch[f].found
      BY <3>1, <3>2 DEF Ahead
    <3> QED  BY <2>0, <3>1, <3>2, <3>3
  <2> QED
    BY <2>1, <2>2, <2>3 DEF Next, Discord, RemotePost, RemoteEdit, RemoteDelete, local,
                            Start, Advance, ReadPage, Lookup, CommitRefused, ProbeRead,
                            ProbeFails, Abandon
<1> QED  BY <1>1, <1>2, <1>3, InboxInductive, PTL DEF Spec, SnapshotForward

=============================================================================
