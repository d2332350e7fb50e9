------------------------------- MODULE Paging -------------------------------
(***************************************************************************)
(* Listings of the local state: drafts, revisions, attempts, inbound items  *)
(* and their markers, and audit events.  A listing is a sequence of bounded *)
(* pages; each page is one SELECT that starts after the key of the last row *)
(* of the page before it.  Other invocations insert and purge rows between *)
(* two pages.  A row is its key here: an identifier, a draft and a revision,*)
(* or the time and the sequence number of an event.                         *)
(***************************************************************************)
EXTENDS Naturals, Sequences, FiniteSets, SequencesExt

CONSTANTS
    MaxMajor,   \* identifiers, drafts or times of events
    MaxMinor,   \* revisions or sequence numbers
    MaxPages    \* bound on the pages of a listing

VARIABLES
    kind,       \* what the key of a row is
    rows,       \* the rows of the repository
    unsafe,     \* audit rows that do not pass the check of the reader
    masked,     \* identifiers that the redaction of the output replaces
    cursor,     \* the key that the last page continues after, or {}
    pages,      \* the pages so far
    returned,   \* the rows that the listing returned
    steady,     \* rows that were there from the beginning of the listing
    answer      \* the last answer

vars == <<kind, rows, unsafe, masked, cursor, pages, returned, steady, answer>>

-----------------------------------------------------------------------------
(* Keys and cursors *)

Kind == {"id", "revision", "audit"}

Key == (1..MaxMajor) \X (1..MaxMinor)

\* ORDER BY the first column, then the second
After(k, c) == k[1] > c[1] \/ (k[1] = c[1] /\ k[2] > c[2])

\* The key with n - 1 others before it, and all keys in their order
Nth(keys, n) == CHOOSE k \in keys : Cardinality({l \in keys : After(k, l)}) = n - 1
Ascending(keys) == [n \in 1..Cardinality(keys) |-> Nth(keys, n)]

\* One row more than the page holds says whether there is a next page
Selected(from, limit) ==
    LET sorted == Ascending({k \in rows : \A c \in from : After(k, c)})
    IN  SubSeq(sorted, 1, IF Len(sorted) > limit THEN limit + 1 ELSE Len(sorted))

\* A cursor carries what the page showed; the shown identifier of a masked row
\* is one constant, which sorts before the identifiers that start with a letter
CursorKey(row) == IF row[1] \in masked THEN <<0, row[2]>> ELSE row

\* finish_page with the cursor of the row it only looked at
NextAfter_Peeked(selected, limit) ==
    IF Len(selected) > limit THEN {CursorKey(selected[limit + 1])} ELSE {}

NextAfter(selected, limit) ==
    IF Len(selected) > limit THEN {CursorKey(selected[limit])} ELSE {}

\* A cursor names its repository
Accepts(repository) == repository = "home"

-----------------------------------------------------------------------------
(* The reader *)

Begin ==
    /\ answer' = "begun"
    /\ cursor' = {} /\ pages' = 0 /\ returned' = <<>> /\ steady' = rows
    /\ UNCHANGED <<kind, rows, unsafe, masked>>

\* The caller continues with the cursor it was given, or with one of its own
\* from a listing of another repository
Page ==
    \E repository \in {"home", "other"}, limit \in 1..2 :
    \E from \in IF repository = "home" THEN {cursor} ELSE {{k} : k \in Key} :
        LET selected == Selected(from, limit)
            shown == SubSeq(selected, 1, IF Len(selected) > limit THEN limit ELSE Len(selected))
        IN  /\ answer \in {"begun", "more"} /\ pages < MaxPages
            /\ Accepts(repository)
            /\ Range(shown) \cap unsafe = {}
            /\ returned' = returned \o shown
            /\ cursor' = NextAfter(selected, limit)
            /\ answer' = IF cursor' = {} THEN "complete" ELSE "more"
            /\ pages' = pages + 1
            /\ UNCHANGED <<kind, rows, unsafe, masked, steady>>

\* A cursor of another repository is refused, and nothing is read
PageDenied ==
    \E repository \in {"home", "other"} :
        /\ answer \in {"begun", "more"}
        /\ ~Accepts(repository)
        /\ answer' = "denied"
        /\ UNCHANGED <<kind, rows, unsafe, masked, cursor, pages, returned, steady>>

\* One audit row that cannot be shown fails its page; the row that the reader
\* only looks at is not checked yet
PageUnsafe ==
    \E limit \in 1..2 :
        LET selected == Selected(cursor, limit)
        IN  /\ answer \in {"begun", "more"}
            /\ \E i \in 1..limit : i <= Len(selected) /\ selected[i] \in unsafe
            /\ answer' = "unsafe"
            /\ UNCHANGED <<kind, rows, unsafe, masked, cursor, pages, returned, steady>>

\* One exact row
Inspect ==
    \E k \in Key :
        /\ answer \notin {"begun", "more"}
        /\ answer' = IF k \in rows THEN "row" ELSE "absent"
        /\ UNCHANGED <<kind, rows, unsafe, masked, cursor, pages, returned, steady>>

-----------------------------------------------------------------------------
(* The other invocations *)

\* The keys a new row can have
Fresh ==
    {k \in Key \ rows :
        CASE kind = "id" -> k[2] = 1
          [] kind = "revision" -> \A l \in rows : l[1] = k[1] => l[2] < k[2]
          [] kind = "audit" -> \A l \in rows \union steady \union Range(returned) : l[2] < k[2]}

Insert ==
    \E k \in Fresh :
        /\ rows' = rows \union {k}
        /\ unsafe' \in {unsafe} \union (IF kind = "audit" THEN {unsafe \union {k}} ELSE {})
        /\ UNCHANGED <<kind, masked, cursor, pages, returned, steady, answer>>

\* A purge or a cleanup
Purge ==
    \E k \in rows :
        /\ rows' = rows \ {k}
        /\ unsafe' = unsafe \ {k}
        /\ steady' = steady \ {k}
        /\ UNCHANGED <<kind, masked, cursor, pages, returned, answer>>

Init ==
    /\ kind \in Kind
    /\ rows = {} /\ unsafe = {}
    /\ masked \in {{}} \union (IF kind = "audit" THEN {} ELSE {{i} : i \in 1..MaxMajor})
    /\ cursor = {} /\ pages = 0 /\ returned = <<>> /\ steady = {}
    /\ answer = "none"

Next == Begin \/ Page \/ PageDenied \/ PageUnsafe \/ Inspect \/ Insert \/ Purge

Spec == Init /\ [][Next]_vars

-----------------------------------------------------------------------------
(* Properties *)

\* A complete listing has every row that was there all along, once and in
\* order, whatever was inserted and purged between its pages (finish_page,
\* decode_after); the masked identifiers are the exception.
ListedOnce ==
    masked = {} =>
        /\ answer = "complete" => steady \subseteq Range(returned)
        /\ \A i \in 1..(Len(returned) - 1) : After(returned[i + 1], returned[i])

=============================================================================
