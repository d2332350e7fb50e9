------------------------------ MODULE Cleanup -------------------------------
(***************************************************************************)
(* The transaction of a retention sweep and that of a purge, statement by  *)
(* statement: the triggers that protect immutable rows are dropped and     *)
(* made again, rows are overwritten, cleared or deleted one by one in the  *)
(* order of the code (repo-com-retention/src/sweep.rs and                  *)
(* repo-com-purge/src/execute.rs), any statement may fail and the process  *)
(* may be killed.  Module Retention says which rows have which age; here a *)
(* row is <<table, id>> and its age is an input.                           *)
(***************************************************************************)
EXTENDS Naturals, FiniteSets, SequencesExt

CONSTANTS
    Databases,      \* databases that a cleanup may find
    MaxCleanups,    \* bound: transactions begun
    MaxChanges      \* bound: rows that other commands insert

Owners == {"drafts", "inbound_items"}

\* Tables with a text, and those with a JSON field that a purge clears.
TextTables == <<"draft_revisions", "inbound_items", "inbound_current_snapshots", "inbound_item_transitions">>
FieldTables == <<"drafts">> \o TextTables

\* Tables whose rows a purge of metadata deletes, in its order.
IdTables == <<"inbound_reply_links", "inbound_acknowledgements", "inbound_archives", "delivery_attempts",
              "approvals", "policy_activations", "inbound_cursors", "audit_events">>

Table(k) == k[1]
In(tables, rows) == {k \in rows : Table(k) \in Range(tables)}

\* The foreign keys of 0001_initial.sql.
Refers(k) ==
    CASE Table(k) = "draft_revisions" -> {<<"drafts", k[2]>>}
      [] Table(k) \in {"approvals", "delivery_attempts"} -> {<<"draft_revisions", k[2]>>}
      [] Table(k) \in {"inbound_current_snapshots", "inbound_item_transitions",
                       "inbound_acknowledgements", "inbound_archives"} -> {<<"inbound_items", k[2]>>}
      [] Table(k) = "inbound_reply_links" -> {<<"inbound_items", k[2]>>, <<"drafts", k[2]>>}
      [] OTHER -> {}

\* Its triggers: RAISE(ABORT) before the operation on the table.
DraftUpdate == <<"overwrite", "draft_revisions">>
DraftDelete == <<"delete", "draft_revisions">>
InboundUpdate == <<"overwrite", "inbound_items">>
InboundDelete == <<"delete", "inbound_items">>
AuditDelete == <<"delete", "audit_events">>
Trigger == {DraftUpdate, DraftDelete, InboundUpdate, InboundDelete, AuditDelete}

\* Identifiers of ordinary rows; an event of a cleanup has a plan instead.
Id == {[id |-> n] : n \in 1..2}
NoPlan == [scope |-> "none"]

\* A database: its rows, the text of those that have one, those whose JSON
\* field is not empty, the triggers, and the rows whose timestamp is beyond the
\* content and beyond the metadata cutoff; the cutoff of a purge is the latter.
Database(rows, described, stale, old) ==
    [rows |-> rows, text |-> [k \in In(TextTables, rows) |-> "text"],
     described |-> described, triggers |-> Trigger, stale |-> stale, old |-> old]

Without(f, S) == [k \in DOMAIN f \ S |-> f[k]]
Delete(base, S) ==
    [base EXCEPT !.rows = @ \ S, !.text = Without(@, S), !.described = @ \ S]
Overwrite(base, S, marker) ==
    [base EXCEPT !.text = [k \in DOMAIN @ |-> IF k \in S THEN marker ELSE @[k]]]
Clear(base, S) == [base EXCEPT !.described = @ \ S]
Insert1(base, k) == [base EXCEPT !.rows = @ \cup {k}]

\* The event of a purge is named after its plan; a first database has none that
\* could meet the name of a later one, and none is old.
NamesPlan(k) == "fingerprint" \in DOMAIN k[2]

ASSUME InputAssumption ==
    /\ MaxCleanups \in Nat /\ MaxChanges \in Nat
    /\ \A base \in Databases :
          /\ base = [rows |-> base.rows, text |-> [k \in In(TextTables, base.rows) |-> base.text[k]],
                     described |-> base.described, triggers |-> Trigger, stale |-> base.stale,
                     old |-> base.old]
          /\ base.old \subseteq base.stale
          /\ \A k \in base.rows : Refers(k) \subseteq base.rows
          /\ \A k \in base.rows \cup base.stale : ~NamesPlan(k)

VARIABLES
    db,         \* what is committed
    plan,       \* the plan that was confirmed
    executor,   \* PurgeExecutor: failed_plan_hash, consumed_plan_hashes
    tx,         \* the open transaction
    begun, changed,
    executed    \* history: how often each plan was executed

vars == <<db, plan, executor, tx, begun, changed, executed>>

(***************************************************************************)
(* Faulty variants, see Delivery.                                          *)
(***************************************************************************)
Restored_Never(dropped) == <<>>
Current_CountsOnly(p, q) == p.counts = q.counts

(***************************************************************************)
(* What a sweep does: collect_content_work, collect_metadata_work.         *)
(***************************************************************************)
Owned(o, rows) == {k \in rows : o \in Refers(k) \/ \E r \in Refers(k) : o \in Refers(r)}

Redacted(base) == {k \in DOMAIN base.text : k \in base.stale /\ base.text[k] \in {"text", "purged"}}

FreshOwner(o, base) ==
    \E k \in {o} \cup In(TextTables, Owned(o, base.rows)) : k \notin base.stale

RemovedOwners(base) ==
    {o \in base.rows : Table(o) \in Owners /\ o \in base.old /\ ~FreshOwner(o, base)}

\* The children of removed owners, and what expires by its own age.
Children(base) == UNION {Owned(o, base.rows) : o \in RemovedOwners(base)}
OwnAge(base) == {k \in In(IdTables, base.rows) : k \in base.old}

Removed(base) == RemovedOwners(base) \cup Children(base) \cup OwnAge(base)

SweepEvent == <<"audit_events", NoPlan>>

Swept(base) ==
    Insert1(Delete(Overwrite(base, Redacted(base), "expired"), Removed(base)), SweepEvent)

(***************************************************************************)
(* What a purge does: collect_work, PurgeCounts::from_work.                *)
(***************************************************************************)
Scope == {"content", "metadata", "all"}

\* A text that is not yet the marker; of items and snapshots also attachments.
Texts(scope, base) ==
    IF scope = "metadata" THEN {}
    ELSE {k \in DOMAIN base.text : \/ scope = "all"
                                   \/ /\ k \in base.old
                                      /\ \/ base.text[k] # "purged"
                                         \/ k \in base.described
                                            /\ Table(k) \in {"inbound_items", "inbound_current_snapshots"}}

Fields(scope, base) ==
    CASE scope = "content" -> {}
      [] scope = "metadata" -> {k \in In(FieldTables, base.rows) : k \in base.old /\ k \in base.described}
      [] scope = "all" -> {k \in base.rows : Table(k) = "drafts"}

Ids(scope, base) ==
    IF scope = "content" THEN {} ELSE {k \in In(IdTables, base.rows) : scope = "all" \/ k \in base.old}

\* All drafts of the scope "all" count as content.
Counts(scope, base) ==
    IF scope = "all"
    THEN [content |-> Cardinality(Texts(scope, base) \cup Fields(scope, base)),
          metadata |-> Cardinality(Ids(scope, base))]
    ELSE [content |-> Cardinality(Texts(scope, base)),
          metadata |-> Cardinality(Fields(scope, base)) + Cardinality(Ids(scope, base))]

\* PurgePlan: the fingerprint is a hash of every row.
BuildPlan(scope, base) ==
    [scope |-> scope, counts |-> Counts(scope, base), fingerprint |-> <<base.rows, base.text, base.described>>]

\* The event is named after the plan.
PurgeEvent(p) == <<"audit_events", p>>

Purged(scope, base) ==
    LET texts == Texts(scope, base)
        kept == {k \in texts : Table(k) \in {"inbound_items", "inbound_current_snapshots"}}
    IN  Insert1(IF scope = "all"
                THEN Delete(base, texts \cup Fields(scope, base) \cup Ids(scope, base))
                ELSE Delete(Clear(Overwrite(base, texts, "purged"), kept \cup Fields(scope, base)),
                            Ids(scope, base)),
                PurgeEvent(BuildPlan(scope, base)))

(***************************************************************************)
(* The statements, phase by phase.  A phase has one kind of statement, for *)
(* the rows of one table; their order among each other is left open.       *)
(* "remove" is a DELETE that may find nothing; every other statement must  *)
(* change exactly one row (expect_one).                                    *)
(***************************************************************************)
Phase(op, rows) == [op |-> op, rows |-> rows]

ByTable(op, tables, rows) == [i \in DOMAIN tables |-> Phase(op, In(<<tables[i]>>, rows))]

Restored(dropped) == <<Phase("create_trigger", dropped)>>
Unguarded(dropped, body) == <<Phase("drop_trigger", dropped)>> \o body \o Restored(dropped)

\* remove_metadata.
SweepDeletes ==
    <<"inbound_reply_links", "inbound_acknowledgements", "inbound_archives", "inbound_current_snapshots",
      "inbound_item_transitions", "delivery_attempts", "approvals", "draft_revisions", "drafts", "inbound_items">>

\* sweep_transaction.
SweepProgram(base) ==
    LET redacted == Redacted(base)
        removed == Removed(base)
        owned == RemovedOwners(base) \cup Children(base)
        byAge == removed \ owned
        deletes == ByTable("remove", SweepDeletes,
                           owned \cup In(<<"delivery_attempts", "approvals">>, byAge))
                   \o ByTable("remove", <<"inbound_acknowledgements", "inbound_archives", "inbound_reply_links",
                                         "policy_activations", "inbound_cursors", "audit_events">>, byAge)
    IN  (IF redacted = {} THEN <<>>
         ELSE Unguarded({DraftUpdate, InboundUpdate}, ByTable("expire", TextTables, redacted)))
        \o (IF removed = {} THEN <<>>
            ELSE Unguarded({DraftDelete, InboundDelete, AuditDelete}, deletes))
        \o <<Phase("audit", {SweepEvent})>>

Guards(tables, triggers, rows) == {t \in triggers : t[2] \in tables /\ In(<<t[2]>>, rows) # {}}

\* execute_content, execute_metadata and execute_all.
PurgeProgram(p, base) ==
    LET texts == Texts(p.scope, base)
        fields == Fields(p.scope, base)
        ids == Ids(p.scope, base)
        body ==
          CASE p.scope = "content" ->
                 Unguarded(Guards({"draft_revisions", "inbound_items"}, {DraftUpdate, InboundUpdate}, texts),
                           ByTable("purge", TextTables, texts))
            [] p.scope = "metadata" ->
                 Unguarded(Guards({"draft_revisions", "inbound_items"}, {DraftUpdate, InboundUpdate}, fields)
                           \cup Guards({"audit_events"}, {AuditDelete}, ids),
                           ByTable("clear", FieldTables, fields) \o ByTable("delete", IdTables, ids))
            [] p.scope = "all" ->
                 Unguarded(Trigger,
                           ByTable("delete", SubSeq(IdTables, 1, 5), ids)
                           \o ByTable("delete", <<"draft_revisions", "inbound_current_snapshots",
                                                 "inbound_item_transitions", "drafts", "inbound_items">>,
                                     texts \cup fields)
                           \o ByTable("delete", SubSeq(IdTables, 6, 8), ids))
    IN  body \o <<Phase("audit", {PurgeEvent(p)})>>

\* A statement that SQLite or expect_one refuses.
Rejected(s, base) ==
    CASE s[1] = "drop_trigger" -> s[2] \notin base.triggers
      [] s[1] = "create_trigger" -> s[2] \in base.triggers
      [] s[1] = "audit" -> FALSE
      [] OTHER ->
           \/ s[1] # "remove" /\ s[2] \notin base.rows
           \/ s[1] \in {"remove", "delete"} /\ \E k \in base.rows : s[2] \in Refers(k)
           \/ <<IF s[1] \in {"remove", "delete"} THEN "delete" ELSE "overwrite", Table(s[2])>> \in base.triggers

Effect(s, base) ==
    CASE s[1] = "drop_trigger" -> [base EXCEPT !.triggers = @ \ {s[2]}]
      [] s[1] = "create_trigger" -> [base EXCEPT !.triggers = @ \cup {s[2]}]
      [] s[1] = "audit" -> Insert1(base, s[2])
      [] s[1] \in {"remove", "delete"} -> Delete(base, {s[2]})
      [] s[1] = "expire" -> Overwrite(base, {s[2]}, "expired")
      [] s[1] = "clear" -> Clear(base, {s[2]})
      [] s[1] = "purge" ->
           LET marked == Overwrite(base, {s[2]}, "purged")
           IN  IF Table(s[2]) \in {"inbound_items", "inbound_current_snapshots"}
               THEN Clear(marked, {s[2]}) ELSE marked

\* record_count: in the scope "all" the owners and texts are content.
Category(s) ==
    IF s[1] = "purge" \/ (s[1] = "delete" /\ Table(s[2]) \in Range(FieldTables)) THEN "content"
    ELSE IF s[1] \in {"clear", "delete"} THEN "metadata" ELSE "none"

Counted(counts, s) ==
    IF Category(s) = "none" THEN counts ELSE [counts EXCEPT ![Category(s)] = @ + 1]

NoCounts == [content |-> 0, metadata |-> 0]
Idle == [pc |-> "idle"]
NewExecutor == [failed |-> NoPlan, consumed |-> {}]

-----------------------------------------------------------------------------
Init ==
    /\ db \in Databases
    /\ plan = NoPlan
    /\ executor = NewExecutor
    /\ tx = Idle
    /\ begun = 0 /\ changed = 0
    /\ executed = <<>>

\* Another command inserts a row: its owner is there, it is of today.
NewRows(base) ==
    {k \in {<<t, i>> : t \in {"drafts", "policy_activations", "inbound_reply_links"}, i \in Id} :
        k \notin base.rows /\ k \notin base.stale /\ Refers(k) \subseteq base.rows}

Grown(base) == {Insert1(base, k) : k \in NewRows(base)}

Change ==
    /\ tx.pc = "idle" /\ changed < MaxChanges
    /\ db' \in Grown(db)
    /\ changed' = changed + 1
    /\ UNCHANGED <<plan, executor, tx, begun, executed>>

\* build_plan in a read snapshot, shown and confirmed.
MakePlan(scope) ==
    /\ tx.pc = "idle" /\ begun < MaxCleanups
    /\ plan' = BuildPlan(scope, db)
    /\ plan' # plan
    /\ UNCHANGED <<db, executor, tx, begun, changed, executed>>

\* begin_transaction, IMMEDIATE: nobody else writes until it ends.
BeginSweep ==
    /\ tx.pc = "idle" /\ begun < MaxCleanups
    /\ tx' = [pc |-> "sweep", base |-> db, todo |-> SweepProgram(db), counts |-> NoCounts]
    /\ begun' = begun + 1
    /\ UNCHANGED <<db, plan, executor, changed, executed>>

\* The plan built again inside the transaction has the same hash.
Current(p, q) == p = q

MayExecute == plan # NoPlan /\ executor.failed # plan /\ plan \notin executor.consumed

BeginPurge ==
    /\ tx.pc = "idle" /\ begun < MaxCleanups /\ MayExecute
    /\ begun' = begun + 1
    /\ IF Current(plan, BuildPlan(plan.scope, db))
       THEN /\ tx' = [pc |-> "purge", base |-> db, todo |-> PurgeProgram(plan, db), counts |-> NoCounts]
            /\ UNCHANGED executor
       ELSE executor' = [executor EXCEPT !.failed = plan] /\ UNCHANGED tx
    /\ UNCHANGED <<db, plan, changed, executed>>

\* The audit event comes after the counts were compared with the plan.
CountsHold(s) == tx.pc = "purge" /\ s[1] = "audit" => tx.counts = plan.counts

Rest(todo, i, k) ==
    [j \in DOMAIN todo |-> IF j = i THEN Phase(todo[j].op, todo[j].rows \ {k}) ELSE todo[j]]

\* A statement of the first phase that is not finished.
Runs(i, k) ==
    LET s == <<tx.todo[i].op, k>>
    IN  /\ \A j \in 1..(i - 1) : tx.todo[j].rows = {}
        /\ ~Rejected(s, tx.base) /\ CountsHold(s)
        /\ tx' = [tx EXCEPT !.todo = Rest(@, i, k), !.base = Effect(s, @), !.counts = Counted(@, s)]

Step ==
    /\ tx.pc # "idle"
    /\ \E i \in DOMAIN tx.todo : \E k \in tx.todo[i].rows : Runs(i, k)
    /\ UNCHANGED <<db, plan, executor, begun, changed, executed>>

\* A statement is refused; or it, or the commit, fails for a reason of its own,
\* such as a full disk.  The transaction is rolled back.
Fail ==
    /\ tx.pc # "idle"
    /\ tx' = Idle
    /\ executor' = IF tx.pc = "purge" THEN [executor EXCEPT !.failed = plan] ELSE executor
    /\ UNCHANGED <<db, plan, begun, changed, executed>>

Times(p) == IF p \in DOMAIN executed THEN executed[p] ELSE 0

Commit ==
    /\ tx.pc # "idle" /\ \A i \in DOMAIN tx.todo : tx.todo[i].rows = {}
    /\ db' = tx.base
    /\ tx' = Idle
    /\ IF tx.pc = "purge"
       THEN /\ executor' = [executor EXCEPT !.consumed = @ \cup {plan}]
            /\ executed' = [p \in DOMAIN executed \cup {plan} |-> Times(p) + IF p = plan THEN 1 ELSE 0]
       ELSE UNCHANGED <<executor, executed>>
    /\ UNCHANGED <<plan, begun, changed>>

\* The process dies; the next one has the plan from its input.
Kill ==
    /\ executor # NewExecutor \/ tx.pc # "idle"
    /\ executor' = NewExecutor
    /\ tx' = Idle
    /\ UNCHANGED <<db, plan, begun, changed, executed>>

Next ==
    \/ Change
    \/ \E scope \in Scope : MakePlan(scope)
    \/ BeginSweep
    \/ BeginPurge
    \/ Step
    \/ Fail
    \/ Commit
    \/ Kill

Spec == Init /\ [][Next]_vars

-----------------------------------------------------------------------------
(***************************************************************************)
(* Properties.                                                             *)
(***************************************************************************)
\* RET-FR-02, RET-FR-05: whatever statement fails and wherever the process
\* dies, the database shows all of a sweep or purge or nothing of it, and the
\* triggers that a transaction dropped are there again.
Promise == INSTANCE CleanupPromise WITH Sweep <- Swept, Purge <- Purged

ImplementsPromise == Promise!Spec

\* A confirmed plan is executed at most once, also by a process that was
\* killed and began again with an empty memory.
PlanExecutedOnce == \A p \in DOMAIN executed : executed[p] <= 1
=============================================================================
