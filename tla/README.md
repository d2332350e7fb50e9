# repo-com in TLA+

repo-com lets a coding agent post messages to Discord on behalf of a repository
and read the replies. Everything durable is in one SQLite file per user; every
command line invocation is a process of its own; Discord is reached over HTTP.
So the system is a set of short-lived processes that share a transactional
store and talk to an external service that may answer late, wrongly or not at
all. These modules model what such a process does from its command line to its
exit code, its transactions beside those of the others, the file they live in
and what removes rows from it. TLC checks them on small instances, and TLAPS
proves the central invariants for any number of processes, revisions, attempts
and messages.

## 1. The system

### Components

Each is a crate `src/crates/repo-com-<name>`; `PROJECT.json` lists all of them.

| Component | State it keeps | Operations | What makes it correct |
|---|---|---|---|
| delivery | `delivery_attempts` rows, audit events, the single-use `ClaimPermit` | `claim`, `claim_retry`, `record_transition`, `read_revision_outcome` | one permit per content at a time; outcomes final; the claim rests on what is current inside its own transaction |
| delivery-retry | transport counter of a run | classify an outcome, `RetryRunner::run`, `reconcile` | a budget of three posts in all; never retry what may have happened; absence is only proved by a complete window |
| discord-message | none | one POST; its result is classified by certainty | a definite answer is definite |
| state | the database file, `IMMEDIATE` transactions | open, migrate, restore after a failed open; repositories per table | an open store is migrated, logged and private; a failed open loses nothing; uniqueness constraints, append-only triggers |
| inbox-fetch | a fetch's pages in memory | boundary, paging, filter, point checks | nothing addressed to the bot is lost by limits, continuation or crashes |
| inbox-state | items, current snapshots, transitions, cursor, acknowledgement, archive | `commit_page`, `record_transition`, `acknowledge`, `archive`, `link_reply` | first snapshots are immutable; items and cursor move together; one-way lifecycle |
| reply | reply drafts, `reply_links` | `create_reply`, `revalidate_for_delivery`, `record_accepted_reply` | a reply answers the target its author saw |
| approval | `approvals` | `preview`, `approve`, `override`, `check_current` | an approval is good for one exact content, configuration and expiry |
| policy | `policy_activations` | `activate`, `deactivate`, `evaluate` | exactly one current row of a tuple permits; a deactivated row stays so; hashes fresh |
| send-eligibility | none | `evaluate`: a decision from draft, approval, policy and safety scan | the decision is re-derived, never stored |
| audit, audit-query | `audit_events` | append, query | append-only; the latest event of an attempt is its state |
| purge | a plan that a human confirms | `build_plan`, `execute` | what is deleted is what was confirmed |
| retention | none | content redaction after 30 days, metadata removal after 365 | parents outlive what refers to them; nothing fresh is touched |
| cli | none; the `MessagingRuntime` wires the crates | `draft`, `update`, `approve`, `override`, `send`, `inbox ...`, `reply`, `policy ...`, `purge` | each command leaves the store in a state the next can use |
| config | none; the file is read once per invocation | parse, validate, resolve, `canonical_hash` | the hash changes exactly with what the configuration means |
| draft-model, draft-content | the nonce footer in a stored text | build and hash a revision, normalise, resolve mentions, render | the nonce stands for one message; only listed targets are notified |
| draft-safety | none | `SecretScanner::scan` | nothing found in the text goes unreported |
| discord-client | none | `check_setup`: a sequence of reads | "ready" means that the bot can do all of it |
| lifecycle | the cursor a caller holds between two pages | `verify`, `inspect` | a listing shows every row once; the verifier sees what is committed |
| cli-messaging, cli-operations, foundation, terminal-\* | none | strict inputs, prompts, envelopes, exit codes | one document on standard output; no permission is widened without a terminal |
| ci-policy, release-policy, doc-validation, performance, e2e | none | tooling of the repository | outside the running program |

### How they interact

    send:    cli -> send-eligibility (reads draft, approval, policy, config)
                 -> delivery.claim   (transaction: re-reads all of it, inserts the row)
                 -> discord-message  (POST, outside any transaction)
                 -> delivery-retry   (classify) -> delivery.record_transition (transaction)
    inbox:   cli -> inbox-fetch: boundary, GET pages, filter
                 -> inbox-state.commit_page (transaction: items, snapshots, cursor)
                 -> inbox-fetch.reconcile: GET each item
                 -> inbox-state.record_transition (a transaction each)
    reply:   cli -> reply.create_reply ; send, with the target checked before the claim
    purge:   cli -> purge.build_plan -> a human -> purge.execute (plans again, in its transaction)
    any:     cli: arguments -> input -> config -> state.open -> prompt -> work -> envelope, exit code

The only shared state is the store; the only messages are HTTP requests and
replies. There are no threads or callbacks inside a command that matter here:
concurrency is between processes.

### What is hard

* The check and the use are apart: `send` evaluates eligibility, then claims,
  then posts, then records; a `fetch` reads pages, looks items up, commits, then
  probes. Other processes run in between, and a process may die at each gap.
* A POST whose reply is lost may or may not have created a message, and may do so
  after the sender is gone.
* One fact in two places: the state column of an attempt and its latest audit event
  (`retry_wait` lives only in the event); the stored and the current configuration
  hash; the first and the current snapshot of an item.
* Limits: three transports, ten pages, one hundred point checks.
* Rows that other rows rely on are removed by purge and retention, statement by
  statement, with the protecting triggers dropped meanwhile.
* A failed open writes the bytes it captured over a file that others may have opened.
* What a command stores is rebuilt by the next one under a configuration that people edit.

`PROJECT.json` `hazards` lists these at their lines, with the properties that
cover them.

## 2. Modules

| Module | Models | Kind |
|---|---|---|
| `Delivery` | delivery, delivery-retry/policy, discord-message, the send path of the cli | specification and properties |
| `DeliveryPromise` | the delivery state machine of `delivery/src/model.rs` as an outsider sees it | abstract specification |
| `MCDelivery` + 2 cfgs | instances of `Delivery` | TLC |
| `DeliveryProofs` | invariants of `Delivery`; it implements `DeliveryPromise` | TLAPS |
| `Inbox` | inbox-fetch, the page and event transactions of inbox-state | specification and properties |
| `MCInbox` + cfg | an instance of `Inbox` | TLC |
| `InboxProofs` | invariants of `Inbox` | TLAPS |
| `Authority` | approval, policy, send-eligibility, the draft and policy commands of the cli, `revalidate_request` of delivery | specification and properties |
| `MCAuthority` + 3 cfgs | instances of `Authority` | TLC |
| `AuthorityProofs` | invariants of `Authority` | TLAPS |
| `Reply` | reply, the marks and links of inbox-state, the reply and inbox commands of the cli | specification and properties |
| `MCReply` + cfg | an instance of `Reply` | TLC |
| `ReplyProofs` | invariants of `Reply` | TLAPS |
| `Retention` | which rows retention and purge select, and what is left for the other commands | specification and properties |
| `MCRetention` + 2 cfgs | instances of `Retention` | TLC |
| `RetentionProofs` | invariants of `Retention` | TLAPS |
| `Cleanup` | the transactions of a sweep and of a purge, statement by statement | specification and properties |
| `CleanupPromise` | a cleanup happens at once or not at all | abstract specification |
| `Opening` | opening, migrating and restoring the database file; the verifier | specification and properties |
| `Paging` | listings of lifecycle and audit-query | specification and properties |
| `MCStorage` + cfg | `Cleanup`, `Opening` and `Paging` side by side | TLC |
| `StorageProofs` | invariants of `Opening` and `Paging`; `Cleanup` implements `CleanupPromise` | TLAPS |
| `Command` | one invocation after another: foundation, cli-\*, terminal-\*, the dispatcher | specification and properties |
| `Composition` | a draft from its text to its request: draft-model, draft-content, draft-safety, discord-message/request | specification and properties |
| `Configuration` | config | specification and properties |
| `Setup` | discord-client/setup | specification and properties |
| `Reconcile` | delivery-retry/reconcile | specification and properties |
| `MCInvocation` + cfg | the five before it side by side; `MCCompositionLoads.cfg` has `Composition` alone | TLC |
| `ReconcileProofs` | invariants of `Reconcile` | TLAPS |
| `InvocationProofs` | invariants of `Command`, `Composition`, `Configuration`, `Setup`; those of `Reconcile` as a part | TLAPS |

`MCStorage` and `MCInvocation` put modules that share no state into one
instance. A variable `part` says which of them a behaviour is about; the others stay in
their initial state, so the states of one part do not multiply with those of another,
and each property says of its part what it would say alone.

The operators whose names end in `_Something` (`Classify_OffByOne`,
`Page_Newest`, ...) are deliberately faulty variants. No action uses them. Put in
the place of the sound operator, each makes the property named in
`PROJECT.json` `mutants` fail, which shows that the property watches the code.

### Delivery

| Variable | In the code |
|---|---|
| `content`, `current` | `draft_revisions.canonical_hash`, `drafts.current_revision` |
| `authority` | everything `revalidate_request` compares: configuration hash, approval or policy basis, expiry, as one opaque value |
| `attempts` | `delivery_attempts` (`column`) joined with the latest audit event of the attempt (`event`) |
| `senders` | one `send`, `RetryRunner::run` or single-step library caller each: decision, permit, transport number, last outcome |
| `posted`, `inflight`, `created` | requests handed to HTTP, those Discord may still act on, and its messages |

`Evaluate` is the eligibility decision outside the claim; `ClaimFirst` and
`ClaimRetry` are `claim` and `claim_retry`, each one transaction with the
re-reading, the uniqueness constraints, the row and its audit event;
`ClaimWithoutPermit` is each way a claim ends without a permit. `Post`,
`Respond` and `DiscordCreates` are the transport: a definite refusal proves that no
message exists, everything unclear proves nothing, and a message may appear after
its sender died. `RetryUnderPermit` is the loop of `RetryRunner`, `Record` and
`RecordRefused` are the recorder, and `Abandon` is a crash or any error path that
ends a sender early. `Revise` and `ChangeAuthority` are the rest of the program.
`Kind` distinguishes the three ways the repository uses the library: the command
line (one post, never `claim_retry`, an exhausted budget is recorded as unknown),
the retry loop, and a caller that claims each retry anew.

The content hash is the nonce and attempt numbers, transport numbers and row ids
are kept exactly, with the derivation of retry ids.

### DeliveryPromise

A status and a set of messages per revision: claimed after unclaimed or
retry_wait; a message may appear while claimed or unknown; an accepted outcome has
its message, a failed or retry_wait one has none. `Delivery` implements it with
`status` the event of the latest attempt and `messages` what Discord created.

### Inbox

| Variable | In the code |
|---|---|
| `remote` | the channel: 0 before a message is posted, then its version, `Gone` when deleted |
| `items` | `inbound_items`: the first snapshot with its observation time |
| `snap` | `inbound_current_snapshots` |
| `changes` | `inbound_item_transitions` |
| `cursor` | `inbound_cursors` of the alias |
| `clock`, `fetch` | `retrieved_at` and the local state of each fetching process |
| `skipped` | history, read by one property: messages a caller's own boundary jumped over |

`Start` takes the caller's boundary, `ReadPage` is one GET with the filter and the
limits, `Lookup` the reads before the transaction, `CommitPage` / `CommitRefused`
the transaction, `ProbeRead` / `ProbeFails` / `ProbeRecord` the point checks in
order, `Abandon` a terminal error or a crash. `RemotePost`, `RemoteEdit` and
`RemoteDelete` are Discord's users. One channel and one alias: rows of
different aliases never meet, since every key has the alias or the message id in it.
The lookups of a page are one action; the comment there says why that is exact.
Authors, mentions and reply suppression enter only through `Addressed`, the set of
versions that `should_retain` keeps, because no property looks further.

### Authority

| Variable | In the code |
|---|---|
| `file`, `registered` | the configuration file, with `edits`, the bound on its changes; `repositories.config_hash` |
| `clock` | the time a command is given |
| `current`, `created` | `drafts.current_revision`, `draft_revisions` with their creation time |
| `approvals`, `evidence`, `overrides` | `approvals` rows; the audit events of approvals and of secret overrides, each named by the preview hash |
| `rows` | `policy_activations` of one tuple, by identifier |
| `claims` | `delivery_attempts`, as far as this module looks: what each claimed revision was claimed under |
| `work` | the local state of each command: the configuration and time it started with, and what it read |

A process runs one command at a time. `Begin` loads configuration, time and draft,
and `Register` is `ensure_repository`. `Persist` writes a new revision. `Show` is the preview
before the prompt, `Bind` the second preview that the runtime takes after it;
`Approve`, `ApproveAgain`, `ApproveConflict` and `Override` are the transactions.
`Choose` picks an activation identifier and `Activate` inserts the row, `Deactivate`
ends one. `Evaluate` is the decision and `Claim` / `ClaimRefused` the second check of all
of it inside the claim's transaction, which `Delivery` describes from there on.
`Abandon` is every other end of a command, including its death.

There is one draft and one policy tuple: rows of different drafts or tuples never meet.
A hash is the value it is taken of, since hashes are only compared. A preview is the
revision, the configuration and the policy basis (the snapshots that
`decision_from_status` puts in the decision). Configurations differ in anything but the
destination of the draft. A flagged revision is one in which the scanner finds a secret.

### Reply

| Variable | In the code |
|---|---|
| `items` | `inbound_items` with `inbound_current_snapshots`: what an item shows and when it was first observed |
| `drafts`, `links` | reply drafts with the hash of the target in `metadata_json`; `inbound_reply_links` |
| `attempts`, `replied` | `delivery_attempts` of the revisions; the event `inbound-replied-<draft>` |
| `marks`, `history` | acknowledgements, archives and links; `inbound_item_transitions` |
| `runs` | the local state of each command |

`BeginReply` is the validation of the target, `PersistReply` the first transaction (draft,
revision, link, transition, event) and `DescribeReply` the second one, which writes the
metadata that `load_model` needs. `BeginUpdate` / `PersistRevision` carry the reference
on. `BeginSend`, `RecheckTarget` and `ClaimReply` are the two checks of a send and its
claim; `BeginRecordReplied` / `RecordReplied` are `record_accepted_reply`. `ApplyMark` is
`acknowledge` and `archive`. `Observe` is any fetch, deletion or cleanup that
changes what an item shows: the marker that a cleanup writes is a content like others.

### Retention, Cleanup and CleanupPromise

`Retention` keeps the timestamp of every row (`at`), what is left of its text
(`content`), the drafts with metadata (`described`), and the foreign keys
(`Refers`). `Sweep` is one transaction of `sweep_state_at`: texts beyond the content cutoff get a
marker, owners beyond the metadata cutoff go with their children unless one of those is
fresh, and evidence goes by its own age. `Plan`, `Confirm`, `Execute` and `Drop` are the
purge; `purge.drift` stands for the fingerprint over all rows, which changes with any
write. The other actions are the writing commands, as far as they make, read or need rows.

`Cleanup` has the two transactions in detail: `SweepProgram` and `PurgeProgram` are their
phases in the order of the code (drop the triggers, overwrite, clear, delete, make the
triggers again, write the event), each the statements of one kind on the rows of one table;
`Step` runs a statement of the first unfinished phase on the transaction's own copy and counts it,
`Fail` rolls back, `Commit` publishes, `Kill` ends the process. A purge compares its counts with
the plan before it writes the event.
`executor` is what a `PurgeExecutor` remembers of plans that failed or were executed.
It implements `CleanupPromise`: whoever reads the database sees all of a cleanup or nothing.
The two modules meet in what a row is: in `Cleanup` its age is an input, in `Retention`
the transaction is one step.

### Opening

A file has a `main` part and a `view`, which is the main part with the commits of the
write-ahead log. `CaptureMain` / `CaptureSidecars` read the bytes, `Create` and `Connect`
make or open a private file, `Configure` to `Recheck` are the migration with its race and its lock
timeouts, `EnableWal` the rest of an open; `RestoreMain` / `RestoreSidecars` write the
captured bytes back after the errors of `should_restore_bytes`. `Write`, `Checkpoint` and `Close` are
commands with an open store, `Kill` ends a process anywhere. `VerifyPermissions` to
`VerifyScope` are the reads of the verifier, which opens the file itself and takes it for
immutable where it finds no log. `NewerWrites` is a newer build in its own database.
A row stands for one committed transaction.

### Paging

`rows` are keys: an identifier, a draft and a revision, or a time and a sequence number.
`Page` is one SELECT behind `cursor`, `PageDenied` a cursor of another repository,
`PageUnsafe` an audit row that cannot be shown; `Insert` and `Purge` run between pages.
`masked` are identifiers that the output redacts; the continuation of a lifecycle listing is computed
from the redacted one, which `ListedOnce` excepts (section 5).

### Command

`pc` is the step of one invocation: `ParseLine`, `ReadInput`, `ResolveConfig`,
`OpenState`, `Gate`, `Check`, `ShowPrompt`, `Answer`, `Work...` and `Render`, each with its
refusals. `inv` has the command and everything about its environment that a step looks at: output
mode, terminal, fields of the input, files found. `rows` counts the generations of what a
prompt shows, and `Others` changes it while a prompt is open. What the work does
is in the other modules; here it commits, fails, fails after part of it, or returns what was there.
`result` is what the handler returned: nothing, a good result or a bad one. The bad ones are the
deliveries recorded as failed, unknown or to be retried, a workspace that is not
ready and an unhealthy state, all of which end in zero (section 5). `Render` is the buffered write
to standard output; a document that is lost in it may go unnoticed.

### Composition

A text is a sequence of tokens: a word, a word of nearly the whole length, a gap, a full
stop, a nonce marker, a raw mention, an at-sign with a name. `Create` builds, renders and
stores; `Load` is the next invocation, which builds, hashes and renders the stored text again
under the configuration of that moment (`Edit`); `RenderNow`, `Preview` and `Compose` go on
to the request. `Scan` is the order, deduplication and overlap of secret matches.
A hash is the value it is taken of. The length counts every token with a weight.

### Configuration

`file` is the document and `Edit` a change of one line; `Load` is one invocation. `ShapeError`,
`ReferenceChecks` and `WorkspaceError` are the checks in the order of the loader, `Canonical` is what
the hash is taken of, and `Meaning` is written without it: what may be sent
automatically, whom an alias may mention, what is read and what is kept.

### Setup

`ReadIdentity` to `ReadMentions` are the reads of `check_setup`, with `Administer` between
them; `PermissionsFor` is the code's computation and `Allowed` Discord's rule, the most
specific statement decides, written independently of it. `uses` has what the aliases ask for, with
a mention of the bot itself (`"self"`), which is always an issue. The bot has one role, so the union of several
role overwrites (`discord-client/src/setup.rs:885-899`) is that of one.

### Reconcile

`channel` is what Discord shows of the messages that carry the nonce. `Reconcile` starts a call
(or answers from the cached decision), `ReadPage` and `ReadFails` end it: with a page, which may be
incomplete and still show messages, and without one. `Restart` loses what
is in memory, `SetBack` moves the injected clock back. `Arrive`, `Change`, `Vanish` are
Discord. `Classify` and `Cached` are `classify_observation` and `should_cache`; an incomplete page
is not looked at, as in the code. `evidence` is the history of the candidates on complete pages,
read by one property.
`ReconcileStamped` is `reconcile_attempt`, which stamps the call with its own time.

## 3. Runs

| Run | Instance | Shows |
|---|---|---|
| `delivery` | three senders, one of each kind; 2 revisions of equal content; 2 authorities; 3 transports, 4 rows | `OneMessagePerNonce`, `EvidenceSound`, `AttemptChain`, `TransportBudget`, `OutcomeIsFinal` |
| `delivery_live` | three senders, 1 revision, fair | `ImplementsPromise`, `ClaimSettles` |
| `inbox` | 2 fetchers, 2 messages, 2 versions, pages of one, 2 pages, 1 point check | `NothingMissed`, `EventsAreReal` |
| `authority` | an approver and an author who sends; 2 configurations, 2 revisions of which one flagged, 3 times, 2 edits of the file | `ApprovalEvidence` |
| `authority_policy` | two processes that activate and revise, of which one approves and the other one sends; 1 edit, a chosen and a derived identifier | `SecretsAreReviewed`, `ClaimsAreAuthorised`, `DeactivationIsFinal`, `ClaimSeesNow` |
| `authority_widen` | two operators activate | **violates** `DeactivationNeverWidens` |
| `reply` | 2 commands, 1 item, 2 contents, 2 drafts of 2 revisions | `LinkedTogether`, `ClaimedForShownTarget`, `RepliedIsAccepted` |
| `retention` | a sender, 1 draft of 2 revisions, 1 item, 3 days, at most 6 rows, a purge | `CleanupNeverRefused`, `RetentionHolds`, `SentStaysSent`, `SweepKeepsFresh`, `PurgeAsShown` |
| `retention_once` | the same | **violates** `SentOnce` |
| `storage` | `Cleanup`: 2 cleanups of a database with a row in each table, all fresh or old but one; `Opening`: 2 processes, 3 opens, 3 files, 8 states of the first file; `Paging`: 2 by 2 keys, 3 pages | `PlanExecutedOnce`, `ImplementsPromise` (of `CleanupPromise`); `OpenedIsReady`, `LossOnlyByFault`, `FailedOpenLeavesBytes`, `VerifierSeesCommits`; `ListedOnce` |
| `invocation` | `Command`: all commands; `Composition`: texts of 3 tokens, 1 edit; `Configuration`: 2 edits; `Setup`: 2 changes; `Reconcile`: 2 messages, a window of 2 | `MachineReadsOneDocument`, `AutomationLeavesNoTrace`, `ExitTellsTheEnd`; `PingsAreListed`, `NonceNamesMessage`, `RenderedIsRequestable`, `TextMatchesReported`; `HashIsMeaning`; `ReadyIsUsable`; `AbsenceIsTrue`, `VerdictFromCompletePages` |
| `composition_loads` | `Composition` | **violates** `CreatedLoads` |

Type invariants are theorems for `Delivery`, `Inbox`, `Authority`, `Reply` and `Retention`, and no
part of a run.

### Bounds

* Delivery. Three transports is the program's own constant; four rows is one more
  than the budget, so a fourth claim would be seen. Two revisions suffice for a race
  between revisions with a shared nonce, and three senders let two race while the
  third's message is still in flight. Equal content is the case in which
  revisions meet (they share a nonce); the proofs cover different content as well.
  Two authorities let one be revoked and another come before the claim.
* Inbox. Pages of one message and two pages per fetch put the limits, the
  continuation and the cursor in reach of two messages. Two versions and a deletion give
  each order of edit, deletion, read and write. The two fetchers are interchangeable, so
  the run uses them as a symmetry set. A backlog beyond the page limit is covered by the proof.
* Authority. What a command can meet at its steps is split over two runs. In `authority` the
  operator approves and overrides while the author writes, revises and sends, and the
  configuration (edited twice, so also back) and the clock move under both; nobody activates.
  With an approval lifetime of one and a draft lifetime of two, an approval can expire before its draft,
  with it, and be given again. In `authority_policy` a send meets, between its evaluation and its
  claim, a new revision, an approval, an activation, a deactivation and an edit of the file, and so do
  the activations each other; the clock stands still there, and nobody overrides. That a claim has not
  expired, and the override of `SecretsAreReviewed`, are by proof. The
  registered hash cannot change between the two steps, since the code writes it once
  (section 5). Two configurations of which one holds the tuple give each kind of decision. Two
  revisions, the second flagged, put the override on a revision that supersedes another. The first
  form of a derived identifier is in the passing run, the second one in `authority_widen`, the
  others in the proofs.
* Reply. Two commands race for one item and for one draft identifier; an item can be edited, edited
  back, deleted and shown again. The proof covers several items.
* Retention. Content days 1, metadata days 2 and lifetime 2 keep the order of the
  real numbers (1..365, 30..3650, 7). Six rows hold a draft with two revisions, one of them approved
  and sent, and an activation; one drift and one purge put a write before and after the plan.
* Storage. Two cleanups, so that one meets what the other left; one row that differs in
  age from all others, so that each selection is tested for each table. Two openers and a
  verifier make each race of two; three opens let a process come back after its own kill, and
  three files let a path be removed and made twice. Keys of two by two and three pages
  give the last page, the full last page and a row inserted before, at and behind the cursor.
* Invocation. Every command, mode and refusal is there, so `Command` has only the
  number of row generations to bound. Three tokens are the longest context of one mention:
  what stands before it, itself, what follows. Two edits of a file reach a change and its reversal, or two that
  cancel. A window of two, two reads, and a latency of three put the last possible arrival at the
  end of the window.
* Deadlock is checked but for `storage`, `invocation` and `composition_loads`, whose bounded
  parts come to their end: a listing is complete, a process has used its opens, time is up.

### Fairness

Only `delivery_live` needs any. `Fairness` is weak fairness of each sender's own progress: a
running process goes on, and the connect and total timeouts of the HTTP client
(`discord-message/src/lib.rs`) end each wait. Nothing is assumed of Discord, of other processes,
or of survival: `Abandon` stays enabled, and `ClaimSettles` says only that a claimed attempt
gets an outcome or loses its sender.

## 4. Proofs

All are checked by `tlapm` with no step left out, for every value of the
constants, under the named assumptions of the modules: bounds are natural numbers
of the stated sign, the none-values are outside their sets, `Addressed` is a
set of message versions, and a database that a cleanup starts with has no dangling
reference and no event of a purge (`InputAssumption`). Two theorems need more, and say so:
`AbsenceIsProof`, with `NothingComesAfterAbsence`, and `SnapshotsGoForward`.

Every property of a passing run is the statement of a theorem, but for `ClaimSettles`.

**DeliveryProofs.** `OneMessagePerNonce` is not inductive: nothing in it says why a
claim may follow a `retry_wait`. The inductive invariant adds who may be where:
a sender with a permit owns the latest attempt, still claimed, of its revision
and no other sender has a permit for equal content; a request in flight or created belongs
to the permit holder's attempt or to an attempt accepted, unknown or abandoned while
claimed; nothing is out for an attempt that failed or waits for a retry;
the rows of a revision are a chain of `retry_wait`s under one authority with one open end;
two revisions of equal content never both have rows; the transport counter is
at least the attempt number and every earlier post has a smaller one. Each conjunct
names one fact; the step of each action reproves the conjuncts it can disturb.
From it follow `TypeCorrect`, `AtMostOneMessage`, `PermitsAreExclusive`,
`EvidenceIsSound`, `BudgetIsShared`, `ChainIsConsistent`, `ClaimsAreCurrent` and
`OutcomesAreFinal`.

`DeliveryImplementsPromise` maps each action to a step of
`DeliveryPromise` or a stutter. The uniqueness of the latest attempt makes the
`CHOOSE` of the refinement mapping definite; the inductive invariant supplies that
`Appear` finds no earlier message and that `Settle` tells the truth.

**InboxProofs.** `NothingMissed` needs what a fetch carries in memory: between its
boundary and the highest identifier it has read, each message that is untouched and
addressed is in its hands (or was never visible); what it holds is not newer than
Discord; a boundary not yet committed accounts for what it skips. `SnapshotsGoForward`
is proved for a single fetcher (`SnapshotForward` is false for two, see below) with
the further fact that no probe is older than the snapshot its page
stored. The others are `InboxTypeCorrect`, `ItemsStayBelowCursor`,
`NoMessageIsMissed`, `RecordedEventsAreReal` and `FirstSnapshotsAreKept`.

**AuthorityProofs.** The inductive invariant is the type invariant, what the store
says and what each command carries. Of the store: revisions exist exactly up to the
current one, so that a new one never meets an old creation time; events are of
stored revisions; beside the three safety invariants. Of a command: the
revision it loaded is not newer than the current one; what it bound is a preview of that
revision under its own configuration, of an unexpired draft, so that the approval it will record
expires after it is given. From it follow `AuthorityTypeCorrect`,
`ApprovalsHaveEvidence`, `SecretsNeedOverride` and `ClaimsHaveAuthority`, and the
action properties `ClaimIsExact`, `RevisionsStay` and `DeactivatedRowsStay`.

**ReplyProofs.** The invariant adds to the types what a draft and a command carry: a draft
that exists names an item and a snapshot that was shown; a command that sends has its draft's
target among what it has seen since it began; a recorded evidence belongs to a revision
that was accepted; and two commands never both post one revision. The link of an item and the draft it
names are written by one step, which is why `DraftsAndLinksArePaired` needs no more. Also
`ReplyTypeCorrect`, `ClaimsAreForShownTargets`, `RepliesAreAccepted`, `EvidenceOfReplyIsFinal`
and `LinksAreForEver`.

**RetentionProofs.** `CleanupNeverRefused` says that no sweep and no purge runs into a foreign key, and
`SentStaysSent` that a draft which loads and does not expire keeps the attempts of what it posted.
Neither is inductive: a sweep takes an owner by the owner's age and keeps it for a child that is
fresh, so both depend on how the ages of related rows compare. The invariant (`StoreInv`) has these: every
row refers to rows that exist; a draft is exactly as old as its current revision, and an attempt no
older than its revision; what was posted has its revision as long as the draft is there. `SweptInv` is what
a sweep leaves and no writer of the same day undoes. `PurgeInv` adds that a plan without
drift is of the rows as they are. The steps of the writers are one lemma each over
`Insert`, which makes rows young and never removes one. From it follow `TypeCorrect`, `NeverRefused`,
`RetentionKept`, `SentStays`, and the action properties `SweepKeeps` and `PurgeShown`.

**StorageProofs.** *Opening.* What a process knows of the file is tied to what the file is
(`OpeningInv`). As long as no restore has changed a file under a connection (`replaced`), the state of an open
that has passed a check is what the check found (`Established`). The file is in one of three
conditions from beginning to end: its schema is usable, it is unsound, or it is newer than the
build (`Usable`, `Unsound`, `TooNew`), and in the last two nobody commits. A process that was alone since its
capture finds what it captured (`AloneInv`). The verifier's file has kept what it held at the
connection (`VerifierInv`). From these follow `OpenReady`, `VerifierComplete`, `LossExplained` and
`FailedOpenRestores`.
*Paging.* `ListingComplete`: the rows returned are ascending, and each row that was there all along is
returned or ahead of the cursor. That a page returns the next rows and no others is proved of
the sorted prefix that `Page` takes, for tables of any size.
*Cleanup.* `CleanupAtOnce` is the refinement. The invariant is one equation: the open transaction's copy together with
its unfinished phases always ends in the same database (`Final(todo, base)`), which is what
`Swept` or `Purged` makes of the committed one. It holds when the phases are laid out, each statement
keeps it (triggers are dropped before they are made again, nothing follows the event,
and no text gets two markers), and when no phase is left the copy is that database. `ExecutedOnce` rests on the fingerprint. A plan contains the rows
it was made of, and its execution leaves an event that is named after the plan. So the
executed plans can be dated, each later than those whose events it has seen, and the event of the
latest is always there (`OnceInv`). A plan that could be executed again would have seen that event, and be
later than the latest.

**ReconcileProofs.** `AbsenceIsProof` rests on an assumption about Discord, named
`WindowOutlastsLatency`: a message appears before `Latency`, at most one second after the window,
or never. The code cannot check it; its window is the guess that this holds. Without it the
theorem is false, and an `Arrive` after the verdict is the counterexample. The invariant (`TimingInv`)
says that a read began, in real time, no earlier than the second it counts from, and that a
verdict of absence was given when the channel had no candidate and none could come.
`DecisionsRestOnCompletePages` needs no such assumption: the complete pages that a reconciler without a
decision has read showed no candidate, an accepted page has one, and an incomplete page decides
nothing (`EvidenceInv`). It says nothing of what incomplete pages showed.

**InvocationProofs.** *Composition.* A message is a function of its nonce (`RenderByNonce`): the hash covers
the text and the resolved destination, and nothing else enters a rendering. So `NonceStandsForOneMessage`
follows once the revision in memory has the stored nonce, which a load checks. `RequestsPingTheListed` and
`RenderedMessagesAreRequestable` add that a text without errors names only
aliases of the allowlist and resolves to a text without the marker, that the list of mentions is
that set without repetition, and, for the second, that an injective allowlist has as many targets as
aliases. `TextIsReported` is about the scan that takes matches in order and drops the one that overlaps an
earlier. The result is stated as the set that is closed under that rule. That it exists is proved by
well-founded induction on the place of a match in the order; that every match of the text is covered follows from
the place that the text has in it, before the fields.
*Command.* `OneDocument`, `NoTrace` and `ExitTellsHowItEnded` from what each step has written, touched and
decided so far (`CommandInv`). The last says how the handler ended, not how the delivery did.
*Configuration.* `HashIsExact`: the canonical form is equal for two accepted documents exactly if their
meanings are. A sorted list is known by its members and how often each is there; the loader accepts no
duplicates, so the members alone say it (`DocumentsInv`, `SortedMeaning`).
*Setup.* `ReadyIsReal`, from what was read so far when nothing moved in between (`SetupInv`), and the lemma that the
computation of permissions agrees with the most specific statement.
*Reconcile.* Its results for the specification that the run checks, by an instance of `ReconcileProofs`.

Only model-checked: `ClaimSettles`, since liveness under fairness is out of the prover's reach. The three runs
that find a violation are TLC's by nature.

## 5. Where code and documents differ

Shown by a run:

* **Deactivation may widen permission** (`authority_widen`). Two activations that
  raced leave two current rows, which deny; deactivating one of them leaves the tuple eligible,
  also between the transactions of `deactivate_for` (`policy/src/activation.rs:421`).
* **A purge of metadata forgets a posted message** (`retention_once`). A second send that
  was evaluated before the purge claims and posts after it, since its claim compares neither the
  metadata of the draft nor any attempt that is gone (`delivery/src/claim.rs:560`,
  against `docs/IDEA.md:74`).
* **A draft with a mention cannot be loaded** (`composition_loads`). The stored text is the
  rendered one, and the loader takes it for the author's (`cli/src/app.rs:1072`). The same
  holds for a text that normalisation changed. `NonceNamesMessage` says that nothing worse comes
  of it: what does load is what was stored.

Seen while modelling; the models have the behaviour, and no run is spent on it.

Delivery and reconciliation:

* `retry_attempt_id` (`delivery/src/claim.rs:1466`) only avoids the identifier of the previous row, so a
  default request collides with the first row at the third claim, although three transport
  attempts are promised.
* `record_delivery_decision` (`delivery-retry/src/policy.rs:1025`) refuses `Stop`, so an exhausted
  retry loop of the library leaves its attempt claimed for ever. The command line records unknown.
* `RetryRunner` posts up to three times under one attempt row (`policy.rs:859-915`).
* `reconcile_attempt` stamps "unknown since" with the time of the call
  (`delivery-retry/src/reconcile.rs:801-808`): through it an absence is never proved, and a second
  call is answered `StaleTarget`. Nothing records the outcome of a reconciliation
  (`delivery/src/transition.rs:299`).
* Reads that prove an absence need not be spaced.
* An incomplete page is refused before its messages are looked at (`delivery-retry/src/reconcile.rs:586-591`).
  A deleted or edited copy that only such a page showed is forgotten, and a later complete page may still
  prove an absence or an acceptance. `VerdictFromCompletePages` is restricted to complete pages for that.

Authority:

* The runtime ignores the confirmation of `approve` and `policy activate` (`cli/src/app.rs:1449`, `:875`) and
  binds what it reads itself after the prompt.
* `ensure_repository` (`cli/src/app.rs:1010`) never refreshes the stored configuration hash that
  every claim compares, so after an edit a new preview and decision do not help.
* `approve` of an approved preview returns the stored record without a look at its expiry
  (`approval/src/service.rs:755`, action `ApproveAgain`); after a configuration was changed and
  changed back it meets the identifier of its old event (`ApproveConflict`).
* The claim compares expiry with the time at which its command started.

Inbox and replies:

* A page's observation overwrites the current snapshot without a comparison
  (`inbox-fetch/src/fetch.rs:1096`): of two fetches the later commit wins, not the later observation.
* The page with its snapshots and cursor is committed (`fetch.rs:1106`) before the point checks
  record edits and deletions; a crash in between leaves a changed snapshot with no event.
* The target of a reply is checked outside the transaction of the claim, so it may change in between;
  `ClaimedForShownTarget` says what remains true.
* A crash between the two transactions of a reply leaves a linked draft without the metadata that
  loading it needs, and an item takes no second link.
* No command records a reply as accepted; after a purge its status is an `AuditConflict`.

Retention and purge:

* No command runs the sweep. It reports rows that go with their owner's, and does not delete them one by one.
* Attempts leave with the metadata, and with them the reservation of a nonce for equal content.
* A redacted older revision makes its whole draft unloadable.
* The configuration only refuses zero days, `RetentionPolicy` needs 1..365 and 30..3650 (`docs/configuration.md` admits it).

Opening and listing:

* An open that meets a newer schema, an unreadable version or a full disk writes its captured bytes back
  although another process may have committed since (`state/src/store.rs:371-372`); where it
  captured no file it removes one. `LossOnlyByFault` has these as exceptions. After such a
  removal SQLite makes the file again with the default mode.
* A listing continues behind the redacted identifier (`lifecycle/src/inspect.rs:1910-2075`), so pages
  repeat or skip rows whose identifier is redacted. One audit row that fails the reader's check hides all behind it.

Messages and configuration:

* `validate_mentions` refuses a destination with two aliases for one target, which every earlier step
  accepts, after the claim is committed (`cli/src/app.rs:1530-1735`).
* `SecretScanResult::from_raw` takes matches of the text and of a metadata field with equal range
  for one; `TextMatchesReported` says that the text's is the one kept.
* "word@everyone" and "Done.@name" stay plain text.

Command line:

* `--help` and `--version` print text also with `--output json`; `MachineReadsOneDocument` excepts them.
* `send` ends in zero also when it recorded the delivery as failed, unknown or to be retried
  (`cli/src/app.rs:1658-1736` returns the view of whatever was recorded), and so do a setup check that
  is not ready and a verification that is unhealthy. `docs/operator-guide.md:98` lists the exit
  code 8 for `unknown-delivery`, explained at line 390 as "Dispatch may have reached Discord", next to
  "A successful command exits 0" (line 103). `DeliveryOutcome::exit_code`
  (`terminal-outbound/src/preview.rs:1024`) would give these codes, and nothing calls it. A
  caller has to read the state in the document: `ExitTellsTheEnd` states what zero does mean.
* The document for a machine has no line end, so it stands in the buffer of standard output until the
  process ends. Where it cannot be written then, nobody learns of it and the exit code is that of
  the outcome, although `cli/src/app.rs:494-497` means to report "stdout could not be written" with one.
* Prompts for an exact line advertise "N/Esc = cancel", which is answered as a wrong line.
* `purge plan`, `purge execute`, the audit and the lifecycle commands do not compare the repository of their
  input with that of the configuration.

## 6. What is left

All parts of the running program have a module. Worth adding, in this order:

1. The composition of `Authority` and `Delivery`: the opaque `authority` of `Delivery` as a
   function of the configuration, approval and policy rows of `Authority`, so that both
   claims are one step.
2. `Reply` over `Inbox`, so that `Observe` is what a fetch commits.
3. A refinement of the `Sweep` and `Execute` of `Retention` by the programs of `Cleanup`.

## 7. Not modelled

* The verifier's look for a log (`lifecycle/src/verify.rs:516-531`) and its connection (`:546`) are one step of
  `Opening`: a log that appears in between, and torn reads of an immutable file, are left out.
* `ListedOnce` is checked with two rows of each kind, so an audit row inserted between two pages is by proof.
* In `Configuration` an alias changes with its channel, never the identifier of the channel alone.
* What texts look like: the patterns of secrets, the redaction of logs and audit
  fields, layout, widths and escaping of views, the TOML and JSON grammars. Their results are inputs.
* Loading the token, the HTTP client, the parsing of rate-limit headers: `Delivery` and
  `Setup` take the outcome of a request.
* SQLite is trusted to serialise `IMMEDIATE` transactions and to roll back; a lock timeout
  ends a command. `Opening` models the log, the lock and the files as far as opens and
  restores see them.
* Two repositories in one database: every key has the repository in it, and the statements above name it.
* Revoked approvals: the schema has the state, nothing writes it.
* Shape errors of rows that another program wrote into the database.
* The repository's own tooling (ci-policy, release-policy, doc-validation, performance, e2e).
