------------------------------ MODULE MCStorage ------------------------------
(***************************************************************************)
(* The database file: the transactions that clean it, the opening of it,   *)
(* and the listings of its rows.  The three share no state; a behaviour is *)
(* one of one part, and the others stay in their initial state.            *)
(***************************************************************************)
EXTENDS Cleanup

CONSTANTS
    p1, p2, Process, MaxOpens, MaxFiles, DiskMayFill, FirstFiles,   \* Opening
    MaxMajor, MaxMinor, MaxPages                                    \* Paging

VARIABLES
    part,
    path, disk, lock, pc, file, snapshot, why, opens, reading, replaced, alone,
    kind, rows, unsafe, masked, cursor, pages, returned, steady, answer

openingVars == <<path, disk, lock, pc, file, snapshot, why, opens, reading, replaced, alone>>
pagingVars == <<kind, rows, unsafe, masked, cursor, pages, returned, steady, answer>>

O == INSTANCE Opening
P == INSTANCE Paging

ASSUME StorageAssumption ==
    /\ MaxFiles \in Nat \ {0} /\ FirstFiles \subseteq DOMAIN O!First
    /\ MaxMajor \in Nat /\ MaxMinor \in Nat

-----------------------------------------------------------------------------
(* Instances *)

\* Cleanup: one row of each table, or fewer.
Rows == {<<t, [id |-> 1]>> : t \in Range(FieldTables) \cup Range(IdTables)}

Family(t) ==
    {k \in Rows : k = <<t, [id |-> 1]>> \/ <<t, [id |-> 1]>> \in Refers(k) \/ <<"draft_revisions", [id |-> 1]>> \in Refers(k)}

Populations == {Rows, Rows \ Family("drafts"), Rows \ Family("inbound_items"), {}}

\* All rows are old but for at most one, or only one is.
Young == {{}} \cup {{k} : k \in Rows} \cup {Rows \ {k} : k \in Rows}

\* What is not old is stale, or fresh.
MCDatabases ==
    {Database(Rows, In(FieldTables, Rows), Rows, Rows \ young) : young \in Young}
    \cup {Database(population, In(<<"drafts">>, population), population, population) : population \in Populations}
    \cup {Database(Rows, {}, Rows \ {k}, Rows \ {k}) : k \in In(TextTables, Rows)}

-----------------------------------------------------------------------------
PartsInit ==
    /\ part \in {"cleanup", "opening", "paging"}
    /\ Init /\ O!Init /\ P!Init
    /\ part # "cleanup" => db = Database(Rows, In(FieldTables, Rows), Rows, Rows)
    /\ part # "opening" => path = O!NoFile
    /\ part # "paging" => kind = "id" /\ masked = {}

PartsNext ==
    \/ part = "cleanup" /\ Next /\ UNCHANGED <<part, openingVars, pagingVars>>
    \/ part = "opening" /\ O!Next /\ UNCHANGED <<part, vars, pagingVars>>
    \/ part = "paging" /\ P!Next /\ UNCHANGED <<part, vars, openingVars>>

PartsSpec == PartsInit /\ [][PartsNext]_<<part, vars, openingVars, pagingVars>>

-----------------------------------------------------------------------------
\* Opening: an open store has the schema of this build, a WAL and a private file.
OpenedIsReady == O!OpenedIsReady

\* Opening: the verifier sees every row that was committed when it connected.
VerifierSeesCommits == O!VerifierSeesCommits

\* Opening: committed rows are lost only by a restore after certain failures.
LossOnlyByFault == O!LossOnlyByFault

\* Opening: a failed open that was alone puts back what it found.
FailedOpenLeavesBytes == O!FailedOpenLeavesBytes

\* Paging: a complete listing has every row that was there all along, once.
ListedOnce == P!ListedOnce
=============================================================================
