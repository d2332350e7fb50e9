------------------------------ MODULE Delivery ------------------------------
(***************************************************************************)
(* The durable delivery of one draft: the claim that must be committed     *)
(* before any POST, the POST itself, the classification of its outcome and *)
(* the recorded transition (crates repo-com-delivery,                      *)
(* repo-com-delivery-retry and the send path of repo-com-cli).             *)
(*                                                                         *)
(* Several processes deliver against one SQLite store and one Discord      *)
(* channel.  Every claim and every transition is one IMMEDIATE             *)
(* transaction, so each is one action; the evaluation, the POST and the    *)
(* reply lie outside the transactions and are actions of their own.        *)
(*                                                                         *)
(* "authority" stands for everything revalidate_request compares with the  *)
(* sender's decision: configuration, approval or policy basis, expiry.     *)
(***************************************************************************)
EXTENDS Naturals, Sequences

CONSTANTS
    Sender,                \* processes that may deliver
    Kind,                  \* Sender -> "cli" | "runner" | "step"
    MaxRevision,           \* bound: revisions of the draft
    Content,               \* content hashes a revision can have
    NoContent,
    Authority,             \* exact authorities a decision can rest on
    NoAuthority,
    ExplicitId,            \* attempt identifiers a caller may choose itself
    MaxAttempts,           \* bound: attempt rows of one revision
    MaxTransportAttempts   \* MAX_TRANSPORT_ATTEMPTS

ASSUME KindAssumption == Kind \in [Sender -> {"cli", "runner", "step"}]
ASSUME BoundAssumption ==
    /\ MaxRevision \in Nat \ {0}
    /\ MaxAttempts \in Nat \ {0}
    /\ MaxTransportAttempts \in Nat \ {0}
ASSUME NoneAssumption == NoContent \notin Content /\ NoAuthority \notin Authority

VARIABLES
    content,     \* draft_revisions: the content hash of each revision
    current,     \* drafts.current_revision
    authority,   \* the authority that is current for the current revision
    attempts,    \* delivery_attempts joined with their latest audit event
    posted,      \* every request a sender handed to the transport
    inflight,    \* posted requests Discord may still turn into a message
    created,     \* posted requests that became a Discord message
    senders      \* the local state of each process

vars == <<content, current, authority, attempts, posted, inflight, created, senders>>

Revision == 1..MaxRevision
Number == 1..MaxAttempts
Transport == 1..MaxTransportAttempts

Outcome == {"accepted", "rejected", "unknown", "pre_dispatch",
            "rate_limited", "rate_limited_no_delay"}
NotDispatched == {"rejected", "pre_dispatch", "rate_limited", "rate_limited_no_delay"}
Recorded == {"accepted", "failed", "retry_wait", "unknown"}

\* The value of the attempt row that does not exist yet.
NoAttempt == [column |-> "unclaimed", event |-> "unclaimed",
              id |-> <<>>, authority |-> NoAuthority]

Idle == [pc |-> "idle", rev |-> 0, seen |-> NoAuthority,
         number |-> 0, transport |-> 0, outcome |-> "none"]

Request == [sender : Sender, rev : Revision, number : Number, transport : Transport]

(***************************************************************************)
(* Faulty variants of operators defined below.  No action uses them; each  *)
(* is put in the place of the sound operator to show that a property       *)
(* notices the fault.                                                      *)
(***************************************************************************)
PermitsNextAttempt_AfterUnknown(state) == state \in {"retry_wait", "unknown"}
PermitsNextAttempt_AfterFailure(state) == state \in {"retry_wait", "failed"}

EnsureSameClaim_Skipped(s, n) == TRUE
Revalidates_RevisionOnly(s) == senders[s].rev = current

Classify_TimeoutIsFailure(t, outcome) ==
    CASE outcome = "accepted" -> "accepted"
      [] outcome \in {"rejected", "unknown"} -> "failed"
      [] outcome = "rate_limited_no_delay" -> "stop"
      [] OTHER -> IF t >= MaxTransportAttempts THEN "stop" ELSE "wait"

FirstTransport_Restart(n) == 1

RetryUnderPermit_SameTransport(s) ==
    /\ senders[s].pc = "responded" /\ Kind[s] = "runner"
    /\ senders[s].outcome \in {"pre_dispatch", "rate_limited"}
    /\ senders' = [senders EXCEPT ![s].pc = "permitted", ![s].outcome = "none"]
    /\ UNCHANGED <<content, current, authority, attempts, posted, inflight, created>>

(***************************************************************************)
(* What the store shows of a revision.                                     *)
(***************************************************************************)
Claimed(r, n) == attempts[r][n].column # "unclaimed"

\* load_attempt: the state of an attempt is its latest audit event.
Effective(r, n) == attempts[r][n].event

IsLatest(r, n) == Claimed(r, n) /\ \A m \in Number : m > n => ~Claimed(r, m)

\* The canonical content hash is the nonce: two revisions with equal content
\* share it, and UNIQUE (repository_id, claim_nonce) spans revisions.
NonceFree(r, n) == \A q \in Revision : content[q] = content[r] => ~Claimed(q, n)

IdFree(id) == \A r \in Revision, n \in Number : Claimed(r, n) => attempts[r][n].id # id

DefaultId(r) == <<r>>
NoId == <<>>   \* asks for a derived identifier
RequestedId(r) == {NoId, DefaultId(r)} \cup {<<e>> : e \in ExplicitId}

FirstAttemptId(requested, r) == IF requested = NoId THEN DefaultId(r) ELSE requested

RetryAttemptId(requested, previous, n) ==
    IF requested \in {NoId, previous} THEN Append(previous, n) ELSE requested

PermitsNextAttempt(state) == state = "retry_wait"

CanTransitionTo(from, to) ==
    from = "claimed" /\ to \in {"accepted", "failed", "retry_wait", "unknown"}

(***************************************************************************)
(* RetryPolicy: what an outcome of transport attempt t means.              *)
(***************************************************************************)
Classify(t, outcome) ==
    CASE outcome = "accepted" -> "accepted"
      [] outcome = "rejected" -> "failed"
      [] outcome = "unknown" -> "unknown"
      [] outcome = "rate_limited_no_delay" -> "stop"
      [] outcome \in {"pre_dispatch", "rate_limited"} ->
            IF t >= MaxTransportAttempts THEN "stop" ELSE "wait"

\* The state a sender records for a decision.  The command line records an
\* exhausted budget as unknown; record_delivery_decision refuses it ("none").
RecordedState(kind, decision) ==
    CASE decision = "wait" -> "retry_wait"
      [] decision = "stop" -> IF kind = "cli" THEN "unknown" ELSE "none"
      [] OTHER -> decision

Decision(s) == Classify(senders[s].transport, senders[s].outcome)

\* run_recorded_attempt: transports are counted on from the attempt's number.
FirstTransport(n) == n

HoldsPermit(s) == senders[s].pc \in {"permitted", "waiting", "responded"}

\* revalidate_request, in the claim's transaction: the decision still describes
\* the current revision and the authority in force.
Revalidates(s) ==
    /\ senders[s].rev = current
    /\ senders[s].seen = authority

\* ensure_same_claim: a retry must rest on the basis of the attempt before it.
EnsureSameClaim(s, n) == attempts[senders[s].rev][n].authority = senders[s].seen

-----------------------------------------------------------------------------
Init ==
    /\ content \in {[r \in Revision |-> IF r = 1 THEN c ELSE NoContent] : c \in Content}
    /\ current = 1
    /\ authority \in Authority \cup {NoAuthority}
    /\ attempts = [r \in Revision |-> [n \in Number |-> NoAttempt]]
    /\ posted = {}
    /\ inflight = {}
    /\ created = {}
    /\ senders = [s \in Sender |-> Idle]

(***************************************************************************)
(* The rest of the program: drafts are revised and authority comes and     *)
(* goes while deliveries run.                                              *)
(***************************************************************************)

\* A new immutable revision becomes current.  An approval binds one revision
\* and is lost with it; a policy basis may cover the new one.
Revise(c) ==
    /\ current < MaxRevision
    /\ current' = current + 1
    /\ content' = [content EXCEPT ![current + 1] = c]
    /\ authority' \in Authority \cup {NoAuthority}
    /\ UNCHANGED <<attempts, posted, inflight, created, senders>>

\* Approval, expiry, configuration change, policy activation or revocation.
ChangeAuthority(a) ==
    /\ a # authority
    /\ authority' = a
    /\ UNCHANGED <<content, current, attempts, posted, inflight, created, senders>>

(***************************************************************************)
(* Claiming.                                                               *)
(***************************************************************************)

\* An eligible decision for the current revision, read outside the claim.
Evaluate(s) ==
    /\ senders[s].pc = "idle"
    /\ authority # NoAuthority
    /\ senders' = [senders EXCEPT ![s] =
                      [Idle EXCEPT !.pc = "evaluated", !.rev = current, !.seen = authority]]
    /\ UNCHANGED <<content, current, authority, attempts, posted, inflight, created>>

\* insert_claim: the row and its "claimed" audit event, in one transaction,
\* then the single-use permit.
InsertClaim(s, n, id) ==
    LET r == senders[s].rev IN
    /\ n \in Number
    /\ NonceFree(r, n)
    /\ IdFree(id)
    /\ attempts' = [attempts EXCEPT ![r][n] =
                       [column |-> "claimed", event |-> "claimed",
                        id |-> id, authority |-> senders[s].seen]]
    /\ senders' = [senders EXCEPT ![s].pc = "permitted",
                                  ![s].number = n, ![s].transport = FirstTransport(n)]
    /\ UNCHANGED <<content, current, authority, posted, inflight, created>>

ClaimFirst(s) ==
    /\ senders[s].pc = "evaluated"
    /\ \A n \in Number : ~Claimed(senders[s].rev, n)
    /\ Revalidates(s)
    /\ \E id \in RequestedId(senders[s].rev) :
          InsertClaim(s, 1, FirstAttemptId(id, senders[s].rev))

\* claim_retry, which only the library's senders call.
ClaimRetry(s) ==
    LET r == senders[s].rev IN
    /\ senders[s].pc = "evaluated"
    /\ Kind[s] # "cli"
    /\ \E n \in Number :
          /\ IsLatest(r, n)
          /\ PermitsNextAttempt(Effective(r, n))
          /\ Revalidates(s)
          /\ EnsureSameClaim(s, n)
          /\ \E id \in RequestedId(r) :
                InsertClaim(s, n + 1, RetryAttemptId(id, attempts[r][n].id, n + 1))

\* No permit: the revision was claimed before and its outcome is returned, or
\* the claim is refused (stale input, nonce already taken, claim_retry before
\* any attempt).
ClaimWithoutPermit(s) ==
    /\ senders[s].pc = "evaluated"
    /\ \/ Kind[s] # "cli"
       \/ \E n \in Number : Claimed(senders[s].rev, n)
       \/ ~Revalidates(s)
       \/ ~NonceFree(senders[s].rev, 1)
    /\ senders' = [senders EXCEPT ![s] = Idle]
    /\ UNCHANGED <<content, current, authority, attempts, posted, inflight, created>>

(***************************************************************************)
(* The transport.                                                          *)
(***************************************************************************)
OwnRequest(s) == [sender |-> s, rev |-> senders[s].rev,
                  number |-> senders[s].number, transport |-> senders[s].transport]

\* One POST under the permit.  RetryRunner refuses a first attempt beyond the
\* budget before it posts; the other senders post what they were permitted.
Post(s) ==
    /\ senders[s].pc = "permitted"
    /\ Kind[s] = "runner" => senders[s].transport <= MaxTransportAttempts
    /\ posted' = posted \cup {OwnRequest(s)}
    /\ inflight' = inflight \cup {OwnRequest(s)}
    /\ senders' = [senders EXCEPT ![s].pc = "waiting"]
    /\ UNCHANGED <<content, current, authority, attempts, created>>

\* Discord turns a request into a message, perhaps long after its sender gave
\* up or died.  A lost request simply stays in flight.
DiscordCreates(q) ==
    /\ q \in inflight
    /\ inflight' = inflight \ {q}
    /\ created' = created \cup {q}
    /\ UNCHANGED <<content, current, authority, attempts, posted, senders>>

\* The outcome the client reports.  2xx with a message is proof of creation;
\* 4xx, 429 and a failed connection are proof that nothing was created; a
\* timeout, a 5xx or an unreadable reply proves nothing.
Respond(s, outcome) ==
    /\ senders[s].pc = "waiting"
    /\ outcome = "accepted" => OwnRequest(s) \in created
    /\ outcome \in NotDispatched => OwnRequest(s) \notin created
    /\ inflight' = IF outcome \in NotDispatched
                   THEN inflight \ {OwnRequest(s)} ELSE inflight
    /\ senders' = [senders EXCEPT ![s].pc = "responded", ![s].outcome = outcome]
    /\ UNCHANGED <<content, current, authority, attempts, posted, created>>

\* RetryRunner repeats the transport under the same permit and the same row.
RetryUnderPermit(s) ==
    /\ senders[s].pc = "responded"
    /\ Kind[s] = "runner"
    /\ Decision(s) = "wait"
    /\ senders' = [senders EXCEPT ![s].pc = "permitted", ![s].outcome = "none",
                                  ![s].transport = @ + 1]
    /\ UNCHANGED <<content, current, authority, attempts, posted, inflight, created>>

(***************************************************************************)
(* Recording.                                                              *)
(***************************************************************************)
FinalDecision(s) ==
    /\ senders[s].pc = "responded"
    /\ ~(Kind[s] = "runner" /\ Decision(s) = "wait")

\* record_transition: the row and its audit event change in one transaction.
\* A retry_wait outcome leaves the column "claimed"; only the event tells.
Record(s) ==
    LET r == senders[s].rev
        n == senders[s].number
        state == RecordedState(Kind[s], Decision(s)) IN
    /\ FinalDecision(s)
    /\ CanTransitionTo(Effective(r, n), state)
    /\ attempts[r][n].column = "claimed"
    /\ attempts' = [attempts EXCEPT
          ![r][n].column = IF state = "retry_wait" THEN "claimed" ELSE state,
          ![r][n].event = state]
    /\ senders' = [senders EXCEPT ![s] = Idle]
    /\ UNCHANGED <<content, current, authority, posted, inflight, created>>

\* The recorder refuses (a Stop decision in the library, an illegal
\* transition): the attempt stays claimed for ever.
RecordRefused(s) ==
    /\ FinalDecision(s)
    /\ ~CanTransitionTo(Effective(senders[s].rev, senders[s].number),
                        RecordedState(Kind[s], Decision(s)))
    /\ senders' = [senders EXCEPT ![s] = Idle]
    /\ UNCHANGED <<content, current, authority, attempts, posted, inflight, created>>

\* The process dies, or gives up: a kill, a lock timeout while recording, a
\* request that cannot be built, a wait that fails.  What it posted stays out.
Abandon(s) ==
    /\ senders[s].pc # "idle"
    /\ senders' = [senders EXCEPT ![s] = Idle]
    /\ UNCHANGED <<content, current, authority, attempts, posted, inflight, created>>

-----------------------------------------------------------------------------
Claim(s) == ClaimFirst(s) \/ ClaimRetry(s) \/ ClaimWithoutPermit(s)
Settle(s) == RetryUnderPermit(s) \/ Record(s) \/ RecordRefused(s)

Work(s) ==
    \/ Evaluate(s)
    \/ ClaimFirst(s)
    \/ ClaimRetry(s)
    \/ ClaimWithoutPermit(s)
    \/ Post(s)
    \/ \E outcome \in Outcome : Respond(s, outcome)
    \/ RetryUnderPermit(s)
    \/ Record(s)
    \/ RecordRefused(s)

Environment ==
    \/ \E c \in Content : Revise(c)
    \/ \E a \in Authority \cup {NoAuthority} : ChangeAuthority(a)
    \/ \E q \in inflight : DiscordCreates(q)

Next ==
    \/ Environment
    \/ \E s \in Sender : Work(s) \/ Abandon(s)

Spec == Init /\ [][Next]_vars

\* A running process keeps running, and the HTTP client's timeouts end every
\* wait for a reply.  Nobody promises that a process survives.
SenderProgress(s) ==
    \/ Claim(s)
    \/ Post(s)
    \/ \E outcome \in Outcome : Respond(s, outcome)
    \/ Settle(s)

Fairness == \A s \in Sender : WF_vars(SenderProgress(s))

FairSpec == Spec /\ Fairness

-----------------------------------------------------------------------------
(***************************************************************************)
(* The promise that this specification implements: a status and a set of   *)
(* Discord messages for each revision.                                     *)
(***************************************************************************)
Status(r) == IF \A n \in Number : ~Claimed(r, n)
             THEN "unclaimed"
             ELSE Effective(r, CHOOSE n \in Number : IsLatest(r, n))

Promise == INSTANCE DeliveryPromise WITH
    Message <- Request,
    status <- [r \in Revision |-> Status(r)],
    messages <- [r \in Revision |-> {q \in created : q.rev = r}]

(***************************************************************************)
(* Properties.                                                             *)
(***************************************************************************)
AttemptRow == [column : {"unclaimed", "claimed", "accepted", "failed", "unknown"},
               event : {"unclaimed", "claimed"} \cup Recorded,
               id : Seq(Revision \cup Number \cup ExplicitId),
               authority : Authority \cup {NoAuthority}]

SenderState == [pc : {"idle", "evaluated", "permitted", "waiting", "responded"},
                rev : Revision \cup {0},
                seen : Authority \cup {NoAuthority},
                number : Number \cup {0},
                transport : Transport \cup {0},
                outcome : Outcome \cup {"none"}]

\* Every variable has its type; no sender ever holds a transport number beyond
\* the budget, so the retry loop's AttemptLimitReached is never returned.
TypeOK ==
    /\ content \in [Revision -> Content \cup {NoContent}]
    /\ current \in Revision
    /\ authority \in Authority \cup {NoAuthority}
    /\ attempts \in [Revision -> [Number -> AttemptRow]]
    /\ posted \subseteq Request
    /\ inflight \subseteq Request
    /\ created \subseteq Request
    /\ senders \in [Sender -> SenderState]

\* RC-NFR-02, DEL-FR-01: whatever crashes, retries, concurrent senders and late
\* deliveries happen, at most one Discord message exists, or can still come to
\* exist, for one content nonce - hence for one draft revision.
OneMessagePerNonce ==
    \A p, q \in inflight \cup created : content[p.rev] = content[q.rev] => p = q

\* A permit is single-use authority over a whole revision: while a sender holds
\* one, its attempt is the latest, still claimed, and no other sender holds a
\* permit for a revision with the same content.
PermitExclusive ==
    \A s \in Sender : HoldsPermit(s) =>
        /\ IsLatest(senders[s].rev, senders[s].number)
        /\ Effective(senders[s].rev, senders[s].number) = "claimed"
        /\ \A t \in Sender \ {s} :
              HoldsPermit(t) => content[senders[t].rev] # content[senders[s].rev]

\* What the store says of an attempt is true of Discord, and stays true: an
\* accepted attempt has its message; after a failed or retry_wait outcome no
\* message of that revision's earlier attempts exists or can still appear.
EvidenceSound ==
    \A r \in Revision, n \in Number :
        /\ Effective(r, n) = "accepted" => \E q \in created : q.rev = r /\ q.number = n
        /\ Effective(r, n) \in {"failed", "retry_wait"} =>
              ~\E q \in inflight \cup created : q.rev = r /\ q.number <= n

\* DEL-FR-06: retries inside one permit and retries through new claims share one
\* budget: each POST of a revision uses a transport number of its own, and none
\* goes beyond MAX_TRANSPORT_ATTEMPTS.
TransportBudget ==
    \A p \in posted :
        /\ p.transport <= MaxTransportAttempts
        /\ \A q \in posted : p.rev = q.rev /\ p.transport = q.transport => p = q

\* The rows of a revision form one chain under one authority: a further attempt
\* exists only behind one that ended in retry_wait and with the same basis, and
\* the column and the audit event that loads it never disagree (CorruptAttempt).
AttemptChain ==
    \A r \in Revision, n \in Number : Claimed(r, n) =>
        /\ \/ attempts[r][n].column = Effective(r, n)
           \/ attempts[r][n].column = "claimed" /\ Effective(r, n) = "retry_wait"
        /\ \A m \in Number : m < n =>
              /\ Claimed(r, m)
              /\ Effective(r, m) = "retry_wait"
              /\ attempts[r][m].authority = attempts[r][n].authority

\* DEL-FR-02: a permit is never issued on the sender's earlier reading alone. In
\* the step that adds a row, the row's revision is the current one and its
\* authority is the one in force.
ClaimIsCurrent ==
    [][\A r \in Revision, n \in Number :
          (~Claimed(r, n) /\ Claimed(r, n)') =>
              r = current /\ attempts'[r][n].authority = authority]_vars

\* Outcomes are final: an accepted, failed or unknown attempt is never changed
\* again, by its own sender, by another one or after a restart.
OutcomeIsFinal ==
    [][\A r \in Revision, n \in Number :
          Effective(r, n) \in {"accepted", "failed", "unknown"} =>
              attempts'[r] = attempts[r]]_vars

\* Seen from outside - a status and the messages of each revision - every step of
\* claims, transports, crashes and records is a step of the delivery state
\* machine, or changes nothing.
ImplementsPromise == Promise!Spec

\* A claimed attempt does not stay open while somebody works on it: it gets an
\* outcome, or its sender is gone (died, or refused to record).
ClaimSettles ==
    \A r \in Revision, n \in Number :
        Effective(r, n) = "claimed" ~>
            \/ Effective(r, n) # "claimed"
            \/ \A s \in Sender : HoldsPermit(s) => senders[s].rev # r

=============================================================================
