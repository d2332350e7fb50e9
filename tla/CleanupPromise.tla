--------------------------- MODULE CleanupPromise ----------------------------
(***************************************************************************)
(* What a cleanup of the local database promises to whoever reads it: a    *)
(* retention sweep or a confirmed purge happens at once or not at all, and *)
(* the triggers that protect the other rows are always there.              *)
(***************************************************************************)
CONSTANTS
    Databases,           \* databases a cleanup may find
    Grown(_),            \* what another command may make of a database
    Sweep(_),            \* the database after a sweep
    Purge(_, _),         \* the database after a purge of a scope
    Scope

VARIABLE db

Init == db \in Databases

Next ==
    /\ db' # db
    /\ \/ db' = Sweep(db)
       \/ \E scope \in Scope : db' = Purge(scope, db)
       \/ db' \in Grown(db)

Spec == Init /\ [][Next]_db
=============================================================================
