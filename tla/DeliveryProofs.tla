--------------------------- MODULE DeliveryProofs ---------------------------
(***************************************************************************)
(* Proofs about Delivery, for any number of senders, revisions, contents,  *)
(* authorities and attempt rows, and any transport budget.                 *)
(***************************************************************************)
EXTENDS Delivery, TLAPS

\* Requests that are, or can still become, a Discord message.
Live == inflight \cup created

(***************************************************************************)
(* The inductive invariant, in four parts.                                 *)
(***************************************************************************)

\* The store: rows only of revisions that exist, one chain per revision, the
\* column agrees with the audit event, one first claim per content nonce.
StoreInv ==
    /\ \A r \in Revision, n \in Number : Claimed(r, n) =>
          /\ r <= current
          /\ \/ attempts[r][n].column = Effective(r, n)
             \/ attempts[r][n].column = "claimed" /\ Effective(r, n) = "retry_wait"
          /\ \A m \in Number : m < n =>
                /\ Claimed(r, m)
                /\ Effective(r, m) = "retry_wait"
                /\ attempts[r][m].authority = attempts[r][n].authority
    /\ \A r \in Revision, n \in Number :
          Effective(r, n) = "unclaimed" <=> ~Claimed(r, n)
    /\ \A r \in Revision :
          (\A n \in Number : ~Claimed(r, n)) \/ (\E n \in Number : IsLatest(r, n))
    /\ \A p, q \in Revision :
          Claimed(p, 1) /\ Claimed(q, 1) /\ content[p] = content[q] => p = q

\* The requests: each belongs to a row, ordinals are unique and within the
\* budget, and a revision has one live request, none after a safe failure.
RequestInv ==
    /\ Live \subseteq posted
    /\ \A q \in posted :
          /\ Claimed(q.rev, q.number)
          /\ q.transport <= MaxTransportAttempts
    /\ \A p, q \in posted : p.rev = q.rev /\ p.transport = q.transport => p = q
    /\ \A p, q \in Live : p.rev = q.rev => p = q
    /\ \A q \in Live : Effective(q.rev, q.number) \in {"claimed", "accepted", "unknown"}

\* The outcomes: an accepted row has its message; behind a retry_wait row the
\* ordinals used so far end at its number, within the budget.
OutcomeInv ==
    \A r \in Revision, n \in Number :
        /\ Effective(r, n) = "accepted" => \E q \in created : q.rev = r /\ q.number = n
        /\ Effective(r, n) = "retry_wait" /\ IsLatest(r, n) =>
              /\ n < MaxTransportAttempts
              /\ \A q \in posted : q.rev = r => q.transport <= n

\* The senders: a permit is for the latest row, which is still claimed; its
\* holder alone may have a live request of that revision.
SenderOK(s) ==
    /\ senders[s].pc # "idle" => senders[s].rev \in Revision /\ senders[s].rev <= current
    /\ HoldsPermit(s) =>
          /\ senders[s].number \in Number
          /\ IsLatest(senders[s].rev, senders[s].number)
          /\ Effective(senders[s].rev, senders[s].number) = "claimed"
          /\ senders[s].transport \in 1..MaxTransportAttempts
          /\ Kind[s] # "runner" => senders[s].transport = senders[s].number
    /\ senders[s].pc = "permitted" =>
          /\ \A q \in Live : q.rev # senders[s].rev
          /\ \A q \in posted : q.rev = senders[s].rev => q.transport < senders[s].transport
    /\ senders[s].pc \in {"waiting", "responded"} =>
          /\ \A q \in posted : q.rev = senders[s].rev => q.transport <= senders[s].transport
          /\ \A q \in Live : q.rev = senders[s].rev => q = OwnRequest(s)
    /\ senders[s].pc = "responded" =>
          /\ senders[s].outcome \in Outcome
          /\ senders[s].outcome = "accepted" => OwnRequest(s) \in created
          /\ senders[s].outcome \in NotDispatched =>
                \A q \in Live : q.rev # senders[s].rev

SenderInv ==
    /\ \A s \in Sender : SenderOK(s)
    /\ \A s, t \in Sender :
          HoldsPermit(s) /\ HoldsPermit(t) /\ senders[s].rev = senders[t].rev => s = t

IInv == TypeOK /\ StoreInv /\ RequestInv /\ OutcomeInv /\ SenderInv

-----------------------------------------------------------------------------
(***************************************************************************)
(* What does not change keeps its part of the invariant.                   *)
(***************************************************************************)
LEMMA SenderOnlyStep ==
    ASSUME StoreInv, RequestInv, OutcomeInv,
           UNCHANGED <<content, current, authority, attempts, posted, inflight, created>>
    PROVE  StoreInv' /\ RequestInv' /\ OutcomeInv'
<1>1. StoreInv'
  BY DEF StoreInv, Claimed, Effective, IsLatest
<1>2. RequestInv'
  BY DEF RequestInv, Claimed, Effective, Live
<1>3. OutcomeInv'
  BY DEF OutcomeInv, Effective, IsLatest, Claimed
<1> QED  BY <1>1, <1>2, <1>3

\* A sender whose local state, row and requests a step leaves alone.
LEMMA OtherSender ==
    ASSUME NEW t \in Sender, SenderOK(t), senders'[t] = senders[t],
           current' = current,
           created \subseteq created',
           HoldsPermit(t) =>
               /\ IsLatest(senders[t].rev, senders[t].number)'
               /\ Effective(senders[t].rev, senders[t].number)' = "claimed"
               /\ \A q \in Live' : q.rev = senders[t].rev => q \in Live
               /\ \A q \in posted' : q.rev = senders[t].rev => q \in posted
    PROVE  SenderOK(t)'
<1>1. OwnRequest(t)' = OwnRequest(t)
  BY DEF OwnRequest
<1>2. HoldsPermit(t)' <=> HoldsPermit(t)
  BY DEF HoldsPermit
<1>3. senders[t].pc \in {"permitted", "waiting", "responded"} => HoldsPermit(t)
  BY DEF HoldsPermit
<1> QED
  BY <1>1, <1>2, <1>3 DEF SenderOK

LEMMA UntouchedSender ==
    ASSUME NEW t \in Sender, SenderOK(t), senders'[t] = senders[t],
           UNCHANGED <<content, current, attempts, posted, inflight, created>>
    PROVE  SenderOK(t)'
BY DEF SenderOK, HoldsPermit, IsLatest, Claimed, Effective, OwnRequest, Live

\* Permits stay exclusive when one sender moves within its revision.
LEMMA ExclusiveStep ==
    ASSUME SenderInv, NEW s \in Sender,
           \A t \in Sender : t # s => senders'[t] = senders[t],
           senders'[s].rev = senders[s].rev,
           \/ HoldsPermit(s)
           \/ \A t \in Sender : HoldsPermit(t) => senders[t].rev # senders[s].rev
    PROVE  \A p, t \in Sender :
              HoldsPermit(p)' /\ HoldsPermit(t)' /\ senders'[p].rev = senders'[t].rev => p = t
BY DEF SenderInv, HoldsPermit

\* A sender that stops, or starts with a decision and no permit.
LEMMA NoPermitStep ==
    ASSUME IInv, NEW s \in Sender, NEW new \in SenderState,
           new.pc \in {"idle", "evaluated"},
           new.pc = "evaluated" => new.rev = current,
           senders' = [senders EXCEPT ![s] = new],
           UNCHANGED <<content, current, authority, attempts, posted, inflight, created>>
    PROVE  IInv'
<1>1. TypeOK'
  BY DEF IInv, TypeOK
<1>2. StoreInv' /\ RequestInv' /\ OutcomeInv'
  BY SenderOnlyStep DEF IInv
<1>3. senders'[s] = new /\ \A t \in Sender : t # s => senders'[t] = senders[t]
  BY DEF IInv, TypeOK
<1>4. ASSUME NEW t \in Sender PROVE SenderOK(t)'
  <2>1. CASE t = s
    BY <1>3, <2>1 DEF IInv, TypeOK, SenderOK, HoldsPermit, Revision
  <2>2. CASE t # s
    BY <1>3, <2>2, UntouchedSender DEF IInv, SenderInv
  <2> QED  BY <2>1, <2>2
<1>5. \A p, t \in Sender :
         HoldsPermit(p)' /\ HoldsPermit(t)' /\ senders'[p].rev = senders'[t].rev => p = t
  BY <1>3 DEF IInv, SenderInv, HoldsPermit
<1> QED  BY <1>1, <1>2, <1>4, <1>5 DEF IInv, SenderInv, HoldsPermit

LEMMA RetryUnderPermitStep ==
    ASSUME IInv, NEW s \in Sender, RetryUnderPermit(s)
    PROVE  IInv'
<1>1. /\ senders[s].outcome \in {"pre_dispatch", "rate_limited"}
      /\ senders[s].transport < MaxTransportAttempts
  <2>1. senders[s].outcome \in Outcome /\ senders[s].transport \in Nat
    BY BoundAssumption DEF IInv, SenderInv, SenderOK, RetryUnderPermit, HoldsPermit
  <2> QED
    BY <2>1, BoundAssumption DEF RetryUnderPermit, Decision, Classify, Outcome
<1>2. TypeOK'
  <2>1. senders[s] \in SenderState
    BY DEF IInv, TypeOK
  <2>2. senders[s].transport + 1 \in Transport
    BY <1>1, <2>1, BoundAssumption DEF RetryUnderPermit, IInv, SenderInv, SenderOK, HoldsPermit, Transport
  <2>3. [senders[s] EXCEPT !.pc = "permitted", !.outcome = "none", !.transport = @ + 1] \in SenderState
    BY <2>1, <2>2 DEF SenderState
  <2> QED  BY <2>3 DEF IInv, TypeOK, RetryUnderPermit
<1>3. StoreInv' /\ RequestInv' /\ OutcomeInv'
  BY SenderOnlyStep DEF IInv, RetryUnderPermit
<1>4. /\ senders'[s] = [senders[s] EXCEPT !.pc = "permitted", !.outcome = "none",
                                          !.transport = @ + 1]
      /\ \A t \in Sender : t # s => senders'[t] = senders[t]
  BY DEF IInv, TypeOK, RetryUnderPermit
<1>5. ASSUME NEW t \in Sender PROVE SenderOK(t)'
  <2>1. CASE t = s
    BY <1>1, <1>4, <2>1, BoundAssumption
    DEF IInv, TypeOK, SenderInv, SenderState, SenderOK, HoldsPermit, RetryUnderPermit, IsLatest,
        Claimed, Effective, NotDispatched, Live, Request, Transport
  <2>2. CASE t # s
    BY <1>4, <2>2, UntouchedSender DEF IInv, SenderInv, RetryUnderPermit
  <2> QED  BY <2>1, <2>2
<1>6. \A p, t \in Sender :
         HoldsPermit(p)' /\ HoldsPermit(t)' /\ senders'[p].rev = senders'[t].rev => p = t
  BY <1>4 DEF IInv, TypeOK, SenderState, SenderInv, HoldsPermit, RetryUnderPermit
<1> QED  BY <1>2, <1>3, <1>5, <1>6 DEF IInv, SenderInv, HoldsPermit

-----------------------------------------------------------------------------
(***************************************************************************)
(* The environment.                                                        *)
(***************************************************************************)
LEMMA ReviseStep ==
    ASSUME IInv, NEW c \in Content, Revise(c)
    PROVE  IInv'
<1>1. /\ current \in Nat /\ current' = current + 1 /\ current' \in Revision
      /\ \A r \in Revision : r <= current => content'[r] = content[r]
  BY BoundAssumption DEF IInv, TypeOK, Revise, Revision
<1>2. TypeOK'
  BY <1>1 DEF IInv, TypeOK, Revise
<1>3. StoreInv'
  BY <1>1, BoundAssumption DEF IInv, StoreInv, Revise, Claimed, Effective, IsLatest, Revision, Number
<1>4. RequestInv' /\ OutcomeInv'
  BY DEF IInv, RequestInv, OutcomeInv, Revise, Claimed, Effective, Live, IsLatest
<1>5. ASSUME NEW t \in Sender PROVE SenderOK(t)'
  BY <1>1 DEF IInv, SenderInv, SenderOK, Revise, HoldsPermit, IsLatest, Claimed, Effective,
              OwnRequest, Live, Revision
<1> QED  BY <1>2, <1>3, <1>4, <1>5 DEF IInv, SenderInv, HoldsPermit, Revise

LEMMA ChangeAuthorityStep ==
    ASSUME IInv, NEW a \in Authority \cup {NoAuthority}, ChangeAuthority(a)
    PROVE  IInv'
BY DEF IInv, TypeOK, StoreInv, RequestInv, OutcomeInv, SenderInv, SenderOK, ChangeAuthority,
       HoldsPermit, IsLatest, Claimed, Effective, OwnRequest, Live

LEMMA DiscordCreatesStep ==
    ASSUME IInv, NEW q \in inflight, DiscordCreates(q)
    PROVE  IInv'
<1>1. Live' = Live /\ created \subseteq created'
  BY DEF Live, DiscordCreates
<1>2. TypeOK'
  BY DEF IInv, TypeOK, DiscordCreates
<1>3. StoreInv' /\ RequestInv'
  BY <1>1 DEF IInv, StoreInv, RequestInv, DiscordCreates, Claimed, Effective, IsLatest
<1>4. OutcomeInv'
  BY <1>1 DEF IInv, OutcomeInv, DiscordCreates, Claimed, Effective, IsLatest
<1>5. ASSUME NEW t \in Sender PROVE SenderOK(t)'
  BY <1>1 DEF IInv, SenderInv, SenderOK, DiscordCreates, HoldsPermit, IsLatest, Claimed, Effective,
              OwnRequest
<1> QED  BY <1>2, <1>3, <1>4, <1>5 DEF IInv, SenderInv, HoldsPermit, DiscordCreates

-----------------------------------------------------------------------------
(***************************************************************************)
(* The transport.                                                          *)
(***************************************************************************)
LEMMA PostStep ==
    ASSUME IInv, NEW s \in Sender, Post(s)
    PROVE  IInv'
<1> DEFINE own == OwnRequest(s)
<1>1. /\ senders[s].pc = "permitted"
      /\ senders[s] \in SenderState
      /\ senders[s].rev \in Revision /\ senders[s].number \in Number
      /\ senders[s].transport \in 1..MaxTransportAttempts
      /\ IsLatest(senders[s].rev, senders[s].number)
      /\ Effective(senders[s].rev, senders[s].number) = "claimed"
  BY DEF IInv, TypeOK, SenderInv, SenderOK, Post, HoldsPermit
<1>2. /\ own \in Request
      /\ own.rev = senders[s].rev /\ own.number = senders[s].number
      /\ own.transport = senders[s].transport
  BY <1>1, BoundAssumption DEF OwnRequest, Request, Transport
<1>3. /\ senders'[s] = [senders[s] EXCEPT !.pc = "waiting"]
      /\ \A t \in Sender : t # s => senders'[t] = senders[t]
  BY DEF IInv, TypeOK, Post
<1>4. TypeOK'
  BY <1>1, <1>2 DEF IInv, TypeOK, Post, SenderState
<1>5. Live' = Live \cup {own} /\ posted' = posted \cup {own}
  BY DEF Live, Post
<1>6. /\ \A q \in Live : q.rev # own.rev
      /\ \A q \in posted : q.rev = own.rev => q.transport < own.transport
  BY <1>1, <1>2 DEF IInv, SenderInv, SenderOK
<1>7. StoreInv'
  BY DEF IInv, StoreInv, Post, Claimed, Effective, IsLatest
<1>8. RequestInv'
  <2>1. Live' \subseteq posted'
    BY <1>5 DEF IInv, RequestInv
  <2>2. \A q \in posted' : Claimed(q.rev, q.number)' /\ q.transport <= MaxTransportAttempts
    BY <1>1, <1>2, <1>5 DEF IInv, RequestInv, Post, Claimed, IsLatest
  <2>3. \A p, q \in posted' : p.rev = q.rev /\ p.transport = q.transport => p = q
    BY <1>2, <1>1, <1>5, <1>6 DEF IInv, RequestInv
  <2>4. \A p, q \in Live' : p.rev = q.rev => p = q
    BY <1>5, <1>6 DEF IInv, RequestInv
  <2>5. \A q \in Live' : Effective(q.rev, q.number)' \in {"claimed", "accepted", "unknown"}
    BY <1>1, <1>2, <1>5 DEF IInv, RequestInv, Post, Effective
  <2> QED  BY <2>1, <2>2, <2>3, <2>4, <2>5 DEF RequestInv
<1>9. OutcomeInv'
  <2>1. ASSUME NEW r \in Revision, NEW n \in Number, Effective(r, n) = "retry_wait", IsLatest(r, n)
        PROVE  r # own.rev
    BY <1>1, <1>2, <2>1 DEF IsLatest, Number
  <2> QED
    BY <1>5, <2>1 DEF IInv, OutcomeInv, Post, Effective, IsLatest, Claimed
<1>10. ASSUME NEW t \in Sender PROVE SenderOK(t)'
  <2>1. CASE t = s
    <3>1. OwnRequest(s)' = own
      BY <1>1, <1>3 DEF OwnRequest, SenderState
    <3>2. \A q \in posted' : q.rev = own.rev => q.transport <= own.transport
      BY <1>1, <1>2, <1>5, <1>6 DEF IInv, TypeOK, Request, Transport
    <3> QED
      BY <1>1, <1>2, <1>3, <1>5, <1>6, <2>1, <3>1, <3>2
      DEF IInv, SenderInv, SenderOK, SenderState, HoldsPermit, IsLatest, Claimed, Effective, Post
  <2>2. CASE t # s
    <3>1. HoldsPermit(t) => senders[t].rev # own.rev
      BY <1>1, <1>2, <2>2 DEF IInv, SenderInv, HoldsPermit
    <3> QED
      BY <1>3, <1>5, <2>2, <3>1
      DEF IInv, SenderInv, SenderOK, HoldsPermit, IsLatest, Claimed, Effective, OwnRequest, Post
  <2> QED  BY <2>1, <2>2
<1>11. \A p, t \in Sender :
         HoldsPermit(p)' /\ HoldsPermit(t)' /\ senders'[p].rev = senders'[t].rev => p = t
  BY <1>1, <1>3 DEF IInv, SenderState, SenderInv, HoldsPermit
<1> QED  BY <1>4, <1>7, <1>8, <1>9, <1>10, <1>11 DEF IInv, SenderInv, HoldsPermit

LEMMA RespondStep ==
    ASSUME IInv, NEW s \in Sender, NEW outcome \in Outcome, Respond(s, outcome)
    PROVE  IInv'
<1> DEFINE own == OwnRequest(s)
<1>1. /\ senders[s].pc = "waiting"
      /\ senders[s] \in SenderState
      /\ \A q \in Live : q.rev = senders[s].rev => q = own
      /\ own.rev = senders[s].rev
  BY DEF IInv, TypeOK, SenderInv, SenderOK, Respond, OwnRequest
<1>2. /\ senders'[s] = [senders[s] EXCEPT !.pc = "responded", !.outcome = outcome]
      /\ \A t \in Sender : t # s => senders'[t] = senders[t]
  BY DEF IInv, TypeOK, Respond
<1>3. TypeOK'
  <2>1. inflight' \subseteq inflight
    BY DEF Respond
  <2>2. [senders[s] EXCEPT !.pc = "responded", !.outcome = outcome] \in SenderState
    BY <1>1 DEF SenderState
  <2> QED  BY <2>1, <2>2 DEF IInv, TypeOK, Respond
<1>4. Live' \subseteq Live
  BY DEF Live, Respond
<1>5. outcome \in NotDispatched => own \notin Live'
  BY DEF Live, Respond
<1>6. StoreInv'
  BY DEF IInv, StoreInv, Respond, Claimed, Effective, IsLatest
<1>7. RequestInv'
  BY <1>4 DEF IInv, RequestInv, Respond, Claimed, Effective
<1>8. OutcomeInv'
  BY DEF IInv, OutcomeInv, Respond, Claimed, Effective, IsLatest
<1>9. ASSUME NEW t \in Sender PROVE SenderOK(t)'
  <2>1. CASE t = s
    <3>1. OwnRequest(s)' = own
      BY <1>1, <1>2 DEF OwnRequest, SenderState
    <3>2. outcome \in NotDispatched => \A q \in Live' : q.rev # senders[s].rev
      BY <1>1, <1>4, <1>5
    <3>3. outcome = "accepted" => own \in created'
      BY DEF Respond
    <3>4. /\ senders'[s].pc = "responded" /\ senders'[s].outcome = outcome
          /\ senders'[s].rev = senders[s].rev /\ senders'[s].number = senders[s].number
          /\ senders'[s].transport = senders[s].transport
      BY <1>1, <1>2 DEF SenderState
    <3>5. /\ posted' = posted /\ attempts' = attempts /\ current' = current
          /\ SenderOK(s)
      BY DEF Respond, IInv, SenderInv
    <3>6. /\ IsLatest(senders[s].rev, senders[s].number)' = IsLatest(senders[s].rev, senders[s].number)
          /\ Effective(senders[s].rev, senders[s].number)' = Effective(senders[s].rev, senders[s].number)
      BY <3>4, <3>5 DEF IsLatest, Claimed, Effective
    <3>7. \A q \in Live' : q.rev = senders[s].rev => q = own
      BY <1>1, <1>4
    <3> HIDE DEF own
    <3> QED
      BY <1>1, <2>1, <3>1, <3>2, <3>3, <3>4, <3>5, <3>6, <3>7
      DEF SenderOK, HoldsPermit, IsLatest, Claimed, Effective
  <2>2. CASE t # s
    <3>1. SenderOK(t) /\ senders'[t] = senders[t]
      BY <1>2, <2>2 DEF IInv, SenderInv
    <3>2. HoldsPermit(t) =>
             /\ IsLatest(senders[t].rev, senders[t].number)'
             /\ Effective(senders[t].rev, senders[t].number)' = "claimed"
      BY <3>1 DEF SenderOK, Respond, IsLatest, Claimed, Effective
    <3> QED
      BY <1>4, <3>1, <3>2, OtherSender DEF Respond
  <2> QED  BY <2>1, <2>2
<1>10. \A p, t \in Sender :
         HoldsPermit(p)' /\ HoldsPermit(t)' /\ senders'[p].rev = senders'[t].rev => p = t
  <2>1. senders'[s].rev = senders[s].rev /\ HoldsPermit(s)
    BY <1>1, <1>2 DEF SenderState, HoldsPermit
  <2> QED  BY <1>2, <2>1, ExclusiveStep DEF IInv
<1> QED  BY <1>3, <1>6, <1>7, <1>8, <1>9, <1>10 DEF IInv, SenderInv, HoldsPermit

-----------------------------------------------------------------------------
(***************************************************************************)
(* Claiming.                                                               *)
(***************************************************************************)
LEMMA LatestUnique ==
    ASSUME NEW r \in Revision, NEW n \in Number, NEW m \in Number, IsLatest(r, n), IsLatest(r, m)
    PROVE  n = m
BY BoundAssumption DEF IsLatest, Number

\* A new row behind the existing ones, none of which has a live request or a
\* permit, keeps the invariant.
LEMMA InsertClaimStep ==
    ASSUME IInv, NEW s \in Sender, NEW n \in Number,
           NEW id \in Seq(Revision \cup Number \cup ExplicitId),
           senders[s].pc = "evaluated",
           Revalidates(s),
           InsertClaim(s, n, id),
           n <= MaxTransportAttempts,
           \A m \in Number : m >= n => ~Claimed(senders[s].rev, m),
           \A m \in Number : m < n =>
               /\ Claimed(senders[s].rev, m)
               /\ Effective(senders[s].rev, m) = "retry_wait"
               /\ attempts[senders[s].rev][m].authority = senders[s].seen,
           \A q \in posted : q.rev = senders[s].rev => q.transport < n
    PROVE  IInv'
<1> DEFINE r == senders[s].rev
           row == [column |-> "claimed", event |-> "claimed", id |-> id,
                   authority |-> senders[s].seen]
<1>1. /\ r \in Revision /\ r <= current /\ senders[s] \in SenderState
      /\ n \in Nat /\ n >= 1 /\ n \in Transport
  BY BoundAssumption DEF IInv, TypeOK, SenderInv, SenderOK, Number, Transport
<1>2. /\ attempts' \in [Revision -> [Number -> AttemptRow]]
      /\ \A p \in Revision, m \in Number :
            attempts'[p][m] = IF p = r /\ m = n THEN row ELSE attempts[p][m]
  <2>1. row \in AttemptRow
    BY <1>1 DEF AttemptRow, SenderState
  <2> QED  BY <1>1, <2>1 DEF IInv, TypeOK, InsertClaim, FirstTransport
<1>3. /\ senders'[s] = [senders[s] EXCEPT !.pc = "permitted", !.number = n, !.transport = n]
      /\ \A t \in Sender : t # s => senders'[t] = senders[t]
  BY DEF IInv, TypeOK, InsertClaim, FirstTransport
<1>4. TypeOK'
  <2>1. [senders[s] EXCEPT !.pc = "permitted", !.number = n, !.transport = n] \in SenderState
    BY <1>1 DEF SenderState
  <2> QED  BY <1>2, <2>1 DEF IInv, TypeOK, InsertClaim, FirstTransport
<1>5. /\ \A p \in Revision, m \in Number :
            /\ Claimed(p, m)' <=> Claimed(p, m) \/ (p = r /\ m = n)
            /\ Effective(p, m)' = IF p = r /\ m = n THEN "claimed" ELSE Effective(p, m)
  BY <1>2 DEF Claimed, Effective
<1>6. ~Claimed(r, n) /\ IsLatest(r, n)'
  <2>0. senders'[s].rev = r
    BY <1>1, <1>3 DEF SenderState
  <2>1. \A m \in Number : m >= n => ~Claimed(r, m)
    OBVIOUS
  <2>2. \A m \in Number : m > n => m >= n
    BY DEF Number
  <2>3. n >= n
    BY <1>1
  <2>4. ~Claimed(r, n)
    BY <2>1, <2>3
  <2>5. Claimed(r, n)' /\ \A m \in Number : m > n => ~Claimed(r, m)'
    BY <1>1, <1>5, <2>0, <2>1, <2>2
  <2>6. IsLatest(r, n)'
    BY <2>5 DEF IsLatest
  <2> QED  BY <2>4, <2>6
<1>7. \A q \in posted : q.rev \in Revision /\ q.number \in Number /\ Claimed(q.rev, q.number)
  BY DEF IInv, TypeOK, RequestInv, Request
<1>8. \A q \in Live : q.rev # r
  <2>1. SUFFICES ASSUME NEW q \in Live, q.rev = r PROVE FALSE
    OBVIOUS
  <2>2. q \in posted /\ Effective(r, q.number) \in {"claimed", "accepted", "unknown"}
    BY <2>1 DEF IInv, RequestInv
  <2>3. q.number < n
    BY <1>1, <1>7, <2>1, <2>2 DEF Number
  <2> QED  BY <1>7, <2>2, <2>3
<1>9. \A t \in Sender : HoldsPermit(t) => senders[t].rev # r
  <2>1. SUFFICES ASSUME NEW t \in Sender, HoldsPermit(t), senders[t].rev = r PROVE FALSE
    OBVIOUS
  <2>2. senders[t].number \in Number /\ Claimed(r, senders[t].number)
        /\ Effective(r, senders[t].number) = "claimed"
    BY <2>1 DEF IInv, SenderInv, SenderOK, IsLatest
  <2>3. senders[t].number < n
    BY <1>1, <2>2 DEF Number
  <2> QED  BY <2>2, <2>3
<1>10. StoreInv'
  <2>1. ASSUME NEW p \in Revision, NEW m \in Number, Claimed(p, m)'
        PROVE  /\ p <= current'
               /\ \/ attempts'[p][m].column = Effective(p, m)'
                  \/ attempts'[p][m].column = "claimed" /\ Effective(p, m)' = "retry_wait"
               /\ \A k \in Number : k < m =>
                     /\ Claimed(p, k)'
                     /\ Effective(p, k)' = "retry_wait"
                     /\ attempts'[p][k].authority = attempts'[p][m].authority
    <3>1. CASE p = r /\ m = n
      BY <1>1, <1>2, <1>5, <3>1 DEF InsertClaim, Effective, Number
    <3>2. CASE ~(p = r /\ m = n)
      <4>1. Claimed(p, m)
        BY <1>5, <2>1, <3>2
      <4>2. \A k \in Number : k < m => ~(p = r /\ k = n)
        BY <1>1, <1>6, <4>1 DEF IInv, StoreInv
      <4> QED
        BY <1>2, <1>5, <3>2, <4>1, <4>2 DEF IInv, StoreInv, InsertClaim, Effective
    <3> QED  BY <3>1, <3>2
  <2>2. \A p \in Revision, m \in Number : Effective(p, m)' = "unclaimed" <=> ~Claimed(p, m)'
    BY <1>5 DEF IInv, StoreInv
  <2>3. \A p, q \in Revision :
           Claimed(p, 1)' /\ Claimed(q, 1)' /\ content'[p] = content'[q] => p = q
    <3>1. 1 \in Number
      BY BoundAssumption DEF Number
    <3>2. CASE n = 1
      <4>1. \A q \in Revision : content[q] = content[r] => ~Claimed(q, 1)
        BY <3>2 DEF InsertClaim, NonceFree
      <4> QED
        BY <1>1, <1>5, <3>1, <3>2, <4>1 DEF IInv, StoreInv, InsertClaim
    <3>3. CASE n # 1
      BY <1>5, <3>1, <3>3 DEF IInv, StoreInv, InsertClaim
    <3> QED  BY <3>2, <3>3
  <2>4. ASSUME NEW p \in Revision
        PROVE  (\A m \in Number : ~Claimed(p, m)') \/ (\E m \in Number : IsLatest(p, m)')
    <3>1. CASE p = r
      <4>1. senders'[s].rev = r
        BY <1>1, <1>3 DEF SenderState
      <4> QED  BY <1>6, <3>1, <4>1 DEF IsLatest, Claimed
    <3>2. CASE p # r
      <4>1. \A m \in Number : Claimed(p, m)' <=> Claimed(p, m)
        BY <1>5, <3>2
      <4> QED  BY <4>1 DEF IInv, StoreInv, IsLatest
    <3> QED  BY <3>1, <3>2
  <2> QED  BY <2>1, <2>2, <2>3, <2>4 DEF StoreInv
<1>11. RequestInv'
  BY <1>5, <1>6, <1>7, <1>8 DEF IInv, RequestInv, InsertClaim, Live
<1>12. OutcomeInv'
  <2>1. ASSUME NEW p \in Revision, NEW m \in Number, IsLatest(p, m)', ~(p = r /\ m = n)
        PROVE  IsLatest(p, m)
    BY <1>5, <2>1 DEF IsLatest
  <2> QED
    BY <1>5, <2>1 DEF IInv, OutcomeInv, InsertClaim
<1>13. ASSUME NEW t \in Sender PROVE SenderOK(t)'
  <2>1. CASE t = s
    <3>1. /\ senders'[s].pc = "permitted" /\ senders'[s].number = n
          /\ senders'[s].rev = r /\ senders'[s].transport = n
      BY <1>1, <1>3 DEF SenderState
    <3>2. IsLatest(senders[s].rev, senders[s].number)'
          /\ Effective(senders[s].rev, senders[s].number)' = "claimed"
      BY <1>1, <1>5, <1>6, <3>1 DEF IsLatest
    <3>3. /\ \A q \in Live' : q.rev # r
          /\ \A q \in posted' : q.rev = r => q.transport < n
          /\ current' = current
      BY <1>8 DEF InsertClaim, Live
    <3> QED
      BY <1>1, <2>1, <3>1, <3>2, <3>3, BoundAssumption DEF SenderOK, HoldsPermit
  <2>2. CASE t # s
    <3>1. SenderOK(t) /\ senders'[t] = senders[t]
      BY <1>3, <2>2 DEF IInv, SenderInv
    <3>2. HoldsPermit(t) =>
             /\ IsLatest(senders[t].rev, senders[t].number)'
             /\ Effective(senders[t].rev, senders[t].number)' = "claimed"
      <4>1. SUFFICES ASSUME HoldsPermit(t)
                     PROVE  /\ IsLatest(senders[t].rev, senders[t].number)'
                            /\ Effective(senders[t].rev, senders[t].number)' = "claimed"
        OBVIOUS
      <4>2. /\ senders[t].rev \in Revision /\ senders[t].number \in Number
            /\ senders[t].rev # r
            /\ IsLatest(senders[t].rev, senders[t].number)
            /\ Effective(senders[t].rev, senders[t].number) = "claimed"
        BY <1>9, <3>1, <4>1 DEF SenderOK, HoldsPermit
      <4>3. \A m \in Number : Claimed(senders[t].rev, m)' <=> Claimed(senders[t].rev, m)
        BY <1>5, <3>1, <4>2
      <4>4. Effective(senders[t].rev, senders[t].number)' = "claimed"
        BY <1>5, <3>1, <4>2
      <4> QED  BY <3>1, <4>2, <4>3, <4>4 DEF IsLatest
    <3> QED
      BY <3>1, <3>2, OtherSender DEF InsertClaim, Live
  <2> QED  BY <2>1, <2>2
<1>14. \A p, t \in Sender :
         HoldsPermit(p)' /\ HoldsPermit(t)' /\ senders'[p].rev = senders'[t].rev => p = t
  <2>1. senders'[s].rev = senders[s].rev
    BY <1>1, <1>3 DEF SenderState
  <2> QED  BY <1>3, <1>9, <2>1, ExclusiveStep DEF IInv
<1> QED  BY <1>4, <1>10, <1>11, <1>12, <1>13, <1>14 DEF IInv, SenderInv, HoldsPermit

LEMMA RequestedIdType ==
    ASSUME NEW r \in Revision, NEW id \in RequestedId(r)
    PROVE  id \in Seq(Revision \cup Number \cup ExplicitId)
<1> DEFINE S == Revision \cup Number \cup ExplicitId
<1>1. \A x \in S : <<x>> \in Seq(S)
  <2> HIDE DEF S
  <2> QED  OBVIOUS
<1>2. <<>> \in Seq(S)
  <2> HIDE DEF S
  <2> QED  OBVIOUS
<1>3. id = <<>> \/ \E x \in S : id = <<x>>
  BY DEF RequestedId, DefaultId, NoId
<1> HIDE DEF S
<1>4. id \in Seq(S)
  BY <1>1, <1>2, <1>3
<1> QED  BY <1>4 DEF S

LEMMA ClaimFirstStep ==
    ASSUME IInv, NEW s \in Sender, ClaimFirst(s)
    PROVE  IInv'
<1>1. /\ senders[s].pc = "evaluated" /\ senders[s].rev \in Revision
      /\ \A n \in Number : ~Claimed(senders[s].rev, n)
      /\ 1 \in Number /\ 1 <= MaxTransportAttempts
      /\ \A m \in Number : ~(m < 1)
  BY BoundAssumption DEF IInv, SenderInv, SenderOK, ClaimFirst, Number
<1>2. PICK id \in RequestedId(senders[s].rev) :
         InsertClaim(s, 1, FirstAttemptId(id, senders[s].rev))
  BY DEF ClaimFirst
<1>3. FirstAttemptId(id, senders[s].rev) \in Seq(Revision \cup Number \cup ExplicitId)
  BY <1>1, <1>2, RequestedIdType DEF FirstAttemptId, RequestedId
<1>4. \A q \in posted : q.rev # senders[s].rev
  BY <1>1 DEF IInv, RequestInv, TypeOK, Request
<1>5. Revalidates(s)
  BY DEF ClaimFirst
<1> QED  BY <1>1, <1>2, <1>3, <1>4, <1>5, InsertClaimStep

LEMMA ClaimRetryStep ==
    ASSUME IInv, NEW s \in Sender, ClaimRetry(s)
    PROVE  IInv'
<1> DEFINE r == senders[s].rev
<1>1. senders[s].pc = "evaluated" /\ r \in Revision
  BY DEF IInv, SenderInv, SenderOK, ClaimRetry
<1>2. PICK n \in Number :
         /\ IsLatest(r, n)
         /\ Effective(r, n) = "retry_wait"
         /\ Revalidates(s)
         /\ attempts[r][n].authority = senders[s].seen
         /\ \E id \in RequestedId(r) :
               InsertClaim(s, n + 1, RetryAttemptId(id, attempts[r][n].id, n + 1))
  BY DEF ClaimRetry, PermitsNextAttempt, EnsureSameClaim
<1>3. PICK id \in RequestedId(r) :
         InsertClaim(s, n + 1, RetryAttemptId(id, attempts[r][n].id, n + 1))
  BY <1>2
<1>4. n \in Nat /\ n + 1 \in Number
  BY <1>3, BoundAssumption DEF InsertClaim, Number
<1>5. RetryAttemptId(id, attempts[r][n].id, n + 1) \in Seq(Revision \cup Number \cup ExplicitId)
  <2>1. attempts[r][n].id \in Seq(Revision \cup Number \cup ExplicitId)
    BY <1>1, <1>2 DEF IInv, TypeOK, AttemptRow
  <2>2. id \in Seq(Revision \cup Number \cup ExplicitId)
    BY <1>1, <1>3, RequestedIdType
  <2>3. Append(attempts[r][n].id, n + 1) \in Seq(Revision \cup Number \cup ExplicitId)
    BY <1>4, <2>1
  <2> QED  BY <2>2, <2>3 DEF RetryAttemptId
<1>6. n + 1 <= MaxTransportAttempts /\ \A q \in posted : q.rev = r => q.transport < n + 1
  <2>1. n < MaxTransportAttempts /\ \A q \in posted : q.rev = r => q.transport <= n
    BY <1>1, <1>2 DEF IInv, OutcomeInv
  <2>2. \A q \in posted : q.transport \in Nat
    BY BoundAssumption DEF IInv, TypeOK, Request, Transport
  <2> QED  BY <1>4, <2>1, <2>2, BoundAssumption
<1>7. \A m \in Number : m >= n + 1 => ~Claimed(r, m)
  BY <1>2, <1>4, BoundAssumption DEF IsLatest, Number
<1>8. \A m \in Number : m < n + 1 =>
         /\ Claimed(r, m)
         /\ Effective(r, m) = "retry_wait"
         /\ attempts[r][m].authority = senders[s].seen
  <2>1. SUFFICES ASSUME NEW m \in Number, m < n + 1
                 PROVE  /\ Claimed(r, m)
                        /\ Effective(r, m) = "retry_wait"
                        /\ attempts[r][m].authority = senders[s].seen
    OBVIOUS
  <2>2. CASE m = n
    BY <1>2, <2>2 DEF IsLatest
  <2>3. CASE m < n
    BY <1>1, <1>2, <2>3 DEF IInv, StoreInv, IsLatest
  <2> QED  BY <1>4, <2>1, <2>2, <2>3, BoundAssumption DEF Number
<1> QED
  BY <1>1, <1>2, <1>3, <1>4, <1>5, <1>6, <1>7, <1>8, InsertClaimStep

-----------------------------------------------------------------------------
(***************************************************************************)
(* Recording.                                                              *)
(***************************************************************************)
LEMMA RecordStep ==
    ASSUME IInv, NEW s \in Sender, Record(s)
    PROVE  IInv'
<1> DEFINE state == RecordedState(Kind[s], Decision(s))
<1>1. PICK r \in Revision, n \in Number : r = senders[s].rev /\ n = senders[s].number
  BY DEF IInv, SenderInv, SenderOK, Record, FinalDecision, HoldsPermit
<1>2. /\ senders[s].pc = "responded" /\ HoldsPermit(s)
      /\ senders[s].outcome \in Outcome
      /\ senders[s].transport \in Nat /\ n \in Nat
      /\ IsLatest(r, n) /\ Effective(r, n) = "claimed"
      /\ Kind[s] # "runner" => senders[s].transport = n
  BY <1>1, BoundAssumption
  DEF IInv, SenderInv, SenderOK, Record, FinalDecision, HoldsPermit, Number
<1>3. state \in {"accepted", "failed", "retry_wait", "unknown"}
  BY <1>1, <1>2 DEF Record, CanTransitionTo
<1>4. /\ state = "accepted" => senders[s].outcome = "accepted"
      /\ state = "failed" => senders[s].outcome = "rejected"
      /\ state = "retry_wait" =>
            /\ senders[s].outcome \in {"pre_dispatch", "rate_limited"}
            /\ senders[s].transport < MaxTransportAttempts
            /\ Kind[s] # "runner"
  <2>1. CASE senders[s].outcome \in {"pre_dispatch", "rate_limited"}
    <3>1. CASE senders[s].transport >= MaxTransportAttempts
      <4>1. Decision(s) = "stop"
        BY <2>1, <3>1 DEF Decision, Classify
      <4>2. state \in {"unknown", "none"}
        BY <4>1 DEF RecordedState
      <4> QED  BY <4>2
    <3>2. CASE ~(senders[s].transport >= MaxTransportAttempts)
      <4>1. Decision(s) = "wait"
        BY <2>1, <3>2 DEF Decision, Classify
      <4>2. state = "retry_wait" /\ Kind[s] # "runner"
        BY <4>1 DEF RecordedState, Record, FinalDecision
      <4> QED  BY <1>2, <2>1, <3>2, <4>2, BoundAssumption
    <3> QED  BY <3>1, <3>2
  <2>2. CASE senders[s].outcome = "accepted"
    BY <2>2 DEF Decision, Classify, RecordedState
  <2>3. CASE senders[s].outcome = "rejected"
    BY <2>3 DEF Decision, Classify, RecordedState
  <2>4. CASE senders[s].outcome \in {"unknown", "rate_limited_no_delay"}
    <3>1. Decision(s) \in {"unknown", "stop"}
      BY <2>4 DEF Decision, Classify
    <3> QED  BY <3>1 DEF RecordedState
  <2> QED  BY <1>2, <2>1, <2>2, <2>3, <2>4 DEF Outcome
<1> DEFINE row == [attempts[r][n] EXCEPT
                      !.column = IF state = "retry_wait" THEN "claimed" ELSE state,
                      !.event = state]
<1>5. attempts' = [attempts EXCEPT ![r][n] = row]
  <2>1. attempts' = [attempts EXCEPT
          ![r][n].column = IF state = "retry_wait" THEN "claimed" ELSE state,
          ![r][n].event = state]
    BY <1>1 DEF Record
  <2>2. attempts[r][n] \in AttemptRow
    BY DEF IInv, TypeOK
  <2> HIDE DEF state
  <2> QED  BY <2>1, <2>2 DEF IInv, TypeOK
<1>6. senders' = [senders EXCEPT ![s] = Idle]
      /\ UNCHANGED <<content, current, authority, posted, inflight, created>>
  BY DEF Record
<1>7. row \in AttemptRow
  <2>1. attempts[r][n] \in AttemptRow
    BY DEF IInv, TypeOK
  <2> HIDE DEF state
  <2> QED  BY <1>3, <2>1 DEF AttemptRow, Recorded
<1>8. \A p \in Revision, m \in Number :
         attempts'[p][m] = IF p = r /\ m = n THEN row ELSE attempts[p][m]
  <2> HIDE DEF row
  <2> QED  BY <1>5 DEF IInv, TypeOK
<1>9. /\ row.event = state /\ row.authority = attempts[r][n].authority
      /\ row.column = IF state = "retry_wait" THEN "claimed" ELSE state
  <2>1. attempts[r][n] \in AttemptRow
    BY DEF IInv, TypeOK
  <2> HIDE DEF state
  <2> QED  BY <2>1 DEF AttemptRow
<1> HIDE DEF state, row
<1>10. \A p \in Revision, m \in Number :
          /\ Claimed(p, m)' <=> Claimed(p, m)
          /\ Effective(p, m)' = IF p = r /\ m = n THEN state ELSE Effective(p, m)
          /\ attempts'[p][m].authority = attempts[p][m].authority
  <2>1. Claimed(r, n)
    BY <1>2 DEF IsLatest
  <2> QED  BY <1>3, <1>8, <1>9, <2>1 DEF Claimed, Effective
<1>11. \A p \in Revision, m \in Number : IsLatest(p, m)' <=> IsLatest(p, m)
  BY <1>10 DEF IsLatest
<1>12. TypeOK'
  <2>1. Idle \in SenderState
    BY DEF Idle, SenderState
  <2> QED  BY <1>5, <1>6, <1>7, <2>1 DEF IInv, TypeOK
<1>13. StoreInv'
  <2>1. ASSUME NEW p \in Revision, NEW m \in Number, Claimed(p, m)'
        PROVE  /\ p <= current'
               /\ \/ attempts'[p][m].column = Effective(p, m)'
                  \/ attempts'[p][m].column = "claimed" /\ Effective(p, m)' = "retry_wait"
    <3>1. CASE p = r /\ m = n
      BY <1>2, <1>6, <1>8, <1>9, <1>10, <2>1, <3>1 DEF IInv, StoreInv
    <3>2. CASE ~(p = r /\ m = n)
      BY <1>6, <1>8, <1>10, <2>1, <3>2 DEF IInv, StoreInv, Effective
    <3> QED  BY <3>1, <3>2
  <2>2. ASSUME NEW p \in Revision, NEW m \in Number, Claimed(p, m)', NEW k \in Number, k < m
        PROVE  /\ Claimed(p, k)'
               /\ Effective(p, k)' = "retry_wait"
               /\ attempts'[p][k].authority = attempts'[p][m].authority
    <3>1. Claimed(p, k) /\ Effective(p, k) = "retry_wait"
          /\ attempts[p][k].authority = attempts[p][m].authority
      BY <1>10, <2>2 DEF IInv, StoreInv
    <3> QED  BY <1>2, <1>10, <3>1
  <2>3. \A p \in Revision, m \in Number : Effective(p, m)' = "unclaimed" <=> ~Claimed(p, m)'
    BY <1>2, <1>3, <1>10 DEF IInv, StoreInv, IsLatest
  <2>4. 1 \in Number
    BY BoundAssumption DEF Number
  <2>5. \A p, q \in Revision :
           Claimed(p, 1)' /\ Claimed(q, 1)' /\ content'[p] = content'[q] => p = q
    BY <1>6, <1>10, <2>4 DEF IInv, StoreInv
  <2>6. \A p \in Revision :
           (\A m \in Number : ~Claimed(p, m)') \/ (\E m \in Number : IsLatest(p, m)')
    BY <1>10, <1>11 DEF IInv, StoreInv
  <2> QED  BY <2>1, <2>2, <2>3, <2>5, <2>6 DEF StoreInv
<1>14. state \in {"failed", "retry_wait"} => \A q \in Live : q.rev # r
  BY <1>1, <1>2, <1>4 DEF IInv, SenderInv, SenderOK, NotDispatched
<1>15. RequestInv'
  <2>1. \A q \in posted : q.rev \in Revision /\ q.number \in Number
    BY DEF IInv, TypeOK, Request
  <2>2. Live' = Live
    BY <1>6 DEF Live
  <2>3. \A q \in posted' : Claimed(q.rev, q.number)' /\ q.transport <= MaxTransportAttempts
    BY <1>6, <1>10, <2>1 DEF IInv, RequestInv
  <2>4. \A q \in Live' : Effective(q.rev, q.number)' \in {"claimed", "accepted", "unknown"}
    BY <1>3, <1>10, <1>14, <2>1, <2>2 DEF IInv, RequestInv
  <2> QED  BY <1>6, <2>2, <2>3, <2>4 DEF IInv, RequestInv
<1>16. OutcomeInv'
  <2>1. state = "accepted" => \E q \in created : q.rev = r /\ q.number = n
    BY <1>1, <1>2, <1>4 DEF IInv, SenderInv, SenderOK, OwnRequest
  <2>2. state = "retry_wait" =>
           n < MaxTransportAttempts /\ \A q \in posted : q.rev = r => q.transport <= n
    BY <1>1, <1>2, <1>4 DEF IInv, SenderInv, SenderOK
  <2> QED
    BY <1>6, <1>10, <1>11, <2>1, <2>2 DEF IInv, OutcomeInv
<1>17. ASSUME NEW t \in Sender PROVE SenderOK(t)'
  <2>1. CASE t = s
    BY <1>6, <2>1 DEF IInv, TypeOK, SenderOK, HoldsPermit, Idle
  <2>2. CASE t # s
    <3>1. SenderOK(t) /\ senders'[t] = senders[t]
      BY <1>6, <2>2 DEF IInv, TypeOK, SenderInv
    <3>2. HoldsPermit(t) =>
             /\ IsLatest(senders[t].rev, senders[t].number)'
             /\ Effective(senders[t].rev, senders[t].number)' = "claimed"
      <4>1. SUFFICES ASSUME HoldsPermit(t)
                     PROVE  /\ IsLatest(senders[t].rev, senders[t].number)'
                            /\ Effective(senders[t].rev, senders[t].number)' = "claimed"
        OBVIOUS
      <4>2. /\ senders[t].rev \in Revision /\ senders[t].number \in Number
            /\ senders[t].rev # r
            /\ IsLatest(senders[t].rev, senders[t].number)
            /\ Effective(senders[t].rev, senders[t].number) = "claimed"
        BY <1>1, <1>2, <2>2, <3>1, <4>1 DEF IInv, SenderInv, SenderOK, HoldsPermit
      <4>3. Effective(senders[t].rev, senders[t].number)' = "claimed"
        BY <1>10, <3>1, <4>2
      <4>4. IsLatest(senders[t].rev, senders[t].number)'
        BY <1>11, <3>1, <4>2
      <4> QED  BY <4>3, <4>4
    <3> QED
      BY <1>6, <3>1, <3>2, OtherSender DEF Live
  <2> QED  BY <2>1, <2>2
<1>18. \A p, t \in Sender :
         HoldsPermit(p)' /\ HoldsPermit(t)' /\ senders'[p].rev = senders'[t].rev => p = t
  <2>1. ~HoldsPermit(s)' /\ \A t \in Sender : t # s => senders'[t] = senders[t]
    BY <1>6 DEF IInv, TypeOK, HoldsPermit, Idle
  <2> QED  BY <2>1 DEF IInv, SenderInv, HoldsPermit
<1> QED  BY <1>12, <1>13, <1>15, <1>16, <1>17, <1>18 DEF IInv, SenderInv, HoldsPermit

-----------------------------------------------------------------------------
(***************************************************************************)
(* The theorems.                                                           *)
(***************************************************************************)
LEMMA InitIInv == Init => IInv
<1> SUFFICES ASSUME Init PROVE IInv
  OBVIOUS
<1>1. NoAttempt \in AttemptRow
  BY DEF NoAttempt, AttemptRow
<1>2. TypeOK
  BY <1>1, BoundAssumption DEF Init, TypeOK, Revision, Idle, SenderState
<1>3. \A r \in Revision, n \in Number : ~Claimed(r, n) /\ Effective(r, n) = "unclaimed"
  BY DEF Init, NoAttempt, Claimed, Effective
<1>4. StoreInv
  <2>1. 1 \in Number
    BY BoundAssumption DEF Number
  <2> QED  BY <1>3, <2>1 DEF StoreInv
<1>5. RequestInv /\ OutcomeInv
  BY <1>3 DEF Init, RequestInv, OutcomeInv, Live
<1>6. SenderInv
  BY DEF Init, SenderInv, SenderOK, HoldsPermit, Idle
<1> QED  BY <1>2, <1>4, <1>5, <1>6 DEF IInv

LEMMA NextIInv == IInv /\ [Next]_vars => IInv'
<1> SUFFICES ASSUME IInv, [Next]_vars PROVE IInv'
  OBVIOUS
<1>1. ASSUME NEW c \in Content, Revise(c) PROVE IInv'
  BY <1>1, ReviseStep
<1>2. ASSUME NEW a \in Authority \cup {NoAuthority}, ChangeAuthority(a) PROVE IInv'
  BY <1>2, ChangeAuthorityStep
<1>3. ASSUME NEW q \in inflight, DiscordCreates(q) PROVE IInv'
  BY <1>3, DiscordCreatesStep
<1>4. ASSUME NEW s \in Sender, Evaluate(s) PROVE IInv'
  <2> DEFINE new == [Idle EXCEPT !.pc = "evaluated", !.rev = current, !.seen = authority]
  <2>1. new \in SenderState /\ new.pc = "evaluated" /\ new.rev = current
    BY DEF IInv, TypeOK, Idle, SenderState
  <2> HIDE DEF new
  <2>2. senders' = [senders EXCEPT ![s] = new]
        /\ UNCHANGED <<content, current, authority, attempts, posted, inflight, created>>
    BY <1>4 DEF Evaluate, new
  <2> QED  BY <2>1, <2>2, NoPermitStep
<1>5. ASSUME NEW s \in Sender, ClaimFirst(s) PROVE IInv'
  BY <1>5, ClaimFirstStep
<1>6. ASSUME NEW s \in Sender, ClaimRetry(s) PROVE IInv'
  BY <1>6, ClaimRetryStep
<1>7. ASSUME NEW s \in Sender, ClaimWithoutPermit(s) \/ RecordRefused(s) \/ Abandon(s) PROVE IInv'
  <2>1. Idle \in SenderState /\ Idle.pc = "idle"
    BY DEF Idle, SenderState
  <2>2. senders' = [senders EXCEPT ![s] = Idle]
        /\ UNCHANGED <<content, current, authority, attempts, posted, inflight, created>>
    BY <1>7 DEF ClaimWithoutPermit, RecordRefused, Abandon
  <2> QED  BY <2>1, <2>2, NoPermitStep
<1>8. ASSUME NEW s \in Sender, Post(s) PROVE IInv'
  BY <1>8, PostStep
<1>9. ASSUME NEW s \in Sender, NEW outcome \in Outcome, Respond(s, outcome) PROVE IInv'
  BY <1>9, RespondStep
<1>10. ASSUME NEW s \in Sender, RetryUnderPermit(s) PROVE IInv'
  BY <1>10, RetryUnderPermitStep
<1>11. ASSUME NEW s \in Sender, Record(s) PROVE IInv'
  BY <1>11, RecordStep
<1>12. CASE UNCHANGED vars
  BY <1>12 DEF vars, IInv, TypeOK, StoreInv, RequestInv, OutcomeInv, SenderInv, SenderOK,
               HoldsPermit, IsLatest, Claimed, Effective, OwnRequest, Live
<1> QED
  BY <1>1, <1>2, <1>3, <1>4, <1>5, <1>6, <1>7, <1>8, <1>9, <1>10, <1>11, <1>12
  DEF Next, Environment, Work

\* The inductive invariant holds in every reachable state of every instance.
THEOREM InductiveInvariant == Spec => []IInv
<1>1. Init => IInv
  BY InitIInv
<1>2. IInv /\ [Next]_vars => IInv'
  BY NextIInv
<1> QED  BY <1>1, <1>2, PTL DEF Spec

\* Every variable keeps its type, and with it the transport counter its bound.
THEOREM TypeCorrect == Spec => []TypeOK
<1>1. IInv => TypeOK
  BY DEF IInv
<1> QED  BY <1>1, InductiveInvariant, PTL

\* RC-NFR-02 for any number of senders, crashes and late deliveries: at most one
\* Discord message exists or can still appear for one content nonce.
THEOREM AtMostOneMessage == Spec => []OneMessagePerNonce
<1>1. IInv => OneMessagePerNonce
  <2> SUFFICES ASSUME IInv, NEW p \in Live, NEW q \in Live, content[p.rev] = content[q.rev]
               PROVE  p = q
    BY DEF OneMessagePerNonce, Live
  <2>1. \A x \in Live : x.rev \in Revision /\ x.number \in Number /\ Claimed(x.rev, x.number)
    BY DEF IInv, RequestInv, TypeOK, Request
  <2>2. \A x \in Live : Claimed(x.rev, 1)
    <3>1. SUFFICES ASSUME NEW x \in Live PROVE Claimed(x.rev, 1)
      OBVIOUS
    <3>2. 1 \in Number /\ (x.number = 1 \/ 1 < x.number)
      BY <2>1, BoundAssumption DEF Number
    <3> QED  BY <2>1, <3>2 DEF IInv, StoreInv
  <2>3. p.rev = q.rev
    BY <2>1, <2>2 DEF IInv, StoreInv
  <2> QED  BY <2>3 DEF IInv, RequestInv
<1> QED  BY <1>1, InductiveInvariant, PTL

\* A permit is exclusive over its revision and over every revision with the same
\* content nonce, and its attempt is the latest and still claimed.
THEOREM PermitsAreExclusive == Spec => []PermitExclusive
<1>1. IInv => PermitExclusive
  <2> SUFFICES ASSUME IInv, NEW s \in Sender, HoldsPermit(s)
               PROVE  /\ IsLatest(senders[s].rev, senders[s].number)
                      /\ Effective(senders[s].rev, senders[s].number) = "claimed"
                      /\ \A t \in Sender \ {s} :
                            HoldsPermit(t) => content[senders[t].rev] # content[senders[s].rev]
    BY DEF PermitExclusive
  <2>1. \A t \in Sender : HoldsPermit(t) =>
           senders[t].rev \in Revision /\ Claimed(senders[t].rev, 1)
    <3>1. SUFFICES ASSUME NEW t \in Sender, HoldsPermit(t)
                   PROVE  senders[t].rev \in Revision /\ Claimed(senders[t].rev, 1)
      OBVIOUS
    <3>2. /\ senders[t].rev \in Revision /\ senders[t].number \in Number
          /\ Claimed(senders[t].rev, senders[t].number)
      BY <3>1 DEF IInv, SenderInv, SenderOK, HoldsPermit, IsLatest
    <3>3. 1 \in Number /\ (senders[t].number = 1 \/ 1 < senders[t].number)
      BY <3>2, BoundAssumption DEF Number
    <3> QED  BY <3>2, <3>3 DEF IInv, StoreInv
  <2>2. \A t \in Sender \ {s} :
           HoldsPermit(t) => content[senders[t].rev] # content[senders[s].rev]
    BY <2>1 DEF IInv, StoreInv, SenderInv
  <2> QED  BY <2>2 DEF IInv, SenderInv, SenderOK
<1> QED  BY <1>1, InductiveInvariant, PTL

\* What the store says of an attempt is true of Discord and stays true.
THEOREM EvidenceIsSound == Spec => []EvidenceSound
<1>1. IInv => EvidenceSound
  <2> SUFFICES ASSUME IInv, NEW r \in Revision, NEW n \in Number
               PROVE  /\ Effective(r, n) = "accepted" =>
                            \E q \in created : q.rev = r /\ q.number = n
                      /\ Effective(r, n) \in {"failed", "retry_wait"} =>
                            ~\E q \in Live : q.rev = r /\ q.number <= n
    BY DEF EvidenceSound, Live
  <2>1. ASSUME Effective(r, n) \in {"failed", "retry_wait"}, NEW q \in Live,
               q.rev = r, q.number <= n
        PROVE  FALSE
    <3>1. Effective(r, q.number) \in {"claimed", "accepted", "unknown"} /\ q.number \in Number
      BY <2>1 DEF IInv, TypeOK, RequestInv, Request, Live
    <3>2. Claimed(r, n)
      BY <2>1 DEF IInv, StoreInv
    <3>3. q.number = n \/ q.number < n
      BY <2>1, <3>1, BoundAssumption DEF Number
    <3> QED  BY <2>1, <3>1, <3>2, <3>3 DEF IInv, StoreInv
  <2> QED  BY <2>1 DEF IInv, OutcomeInv
<1> QED  BY <1>1, InductiveInvariant, PTL

\* DEL-FR-06: one transport budget per revision, shared by both kinds of retry.
THEOREM BudgetIsShared == Spec => []TransportBudget
<1>1. IInv => TransportBudget
  BY DEF IInv, RequestInv, TransportBudget
<1> QED  BY <1>1, InductiveInvariant, PTL

\* The rows of a revision form one chain under one authority, and the column
\* never disagrees with the audit event.
THEOREM ChainIsConsistent == Spec => []AttemptChain
<1>1. IInv => AttemptChain
  BY DEF IInv, StoreInv, AttemptChain
<1> QED  BY <1>1, InductiveInvariant, PTL

-----------------------------------------------------------------------------
(***************************************************************************)
(* Steps: who changes a row of the store, and to what.                     *)
(***************************************************************************)
LEMMA RowsChangeOnlyIn ==
    ASSUME IInv, [Next]_vars
    PROVE  \/ attempts' = attempts
           \/ \E s \in Sender, n \in Number : \E id :
                 /\ InsertClaim(s, n, id)
                 /\ Revalidates(s)
                 /\ senders[s].pc = "evaluated"
                 /\ n = 1 \/ (n - 1 \in Number /\ IsLatest(senders[s].rev, n - 1)
                              /\ Effective(senders[s].rev, n - 1) = "retry_wait")
                 /\ n = 1 => \A m \in Number : ~Claimed(senders[s].rev, m)
           \/ \E s \in Sender : Record(s)
<1>1. ASSUME NEW s \in Sender, ClaimFirst(s)
      PROVE  \E n \in Number : \E id :
                /\ InsertClaim(s, n, id)
                /\ Revalidates(s)
                /\ senders[s].pc = "evaluated"
                /\ n = 1 \/ (n - 1 \in Number /\ IsLatest(senders[s].rev, n - 1)
                             /\ Effective(senders[s].rev, n - 1) = "retry_wait")
                /\ n = 1 => \A m \in Number : ~Claimed(senders[s].rev, m)
  <2>1. PICK id \in RequestedId(senders[s].rev) :
           InsertClaim(s, 1, FirstAttemptId(id, senders[s].rev))
    BY <1>1 DEF ClaimFirst
  <2>2. 1 \in Number
    BY BoundAssumption DEF Number
  <2> QED  BY <1>1, <2>1, <2>2 DEF ClaimFirst
<1>2. ASSUME NEW s \in Sender, ClaimRetry(s)
      PROVE  \E n \in Number : \E id :
                /\ InsertClaim(s, n, id)
                /\ Revalidates(s)
                /\ senders[s].pc = "evaluated"
                /\ n = 1 \/ (n - 1 \in Number /\ IsLatest(senders[s].rev, n - 1)
                             /\ Effective(senders[s].rev, n - 1) = "retry_wait")
                /\ n = 1 => \A m \in Number : ~Claimed(senders[s].rev, m)
  <2>1. PICK k \in Number :
           /\ IsLatest(senders[s].rev, k)
           /\ PermitsNextAttempt(Effective(senders[s].rev, k))
           /\ Revalidates(s)
           /\ \E id \in RequestedId(senders[s].rev) :
                 InsertClaim(s, k + 1, RetryAttemptId(id, attempts[senders[s].rev][k].id, k + 1))
    BY <1>2 DEF ClaimRetry
  <2>2. PICK id : InsertClaim(s, k + 1, id)
    BY <2>1
  <2>3. k \in Nat \ {0} /\ k + 1 \in Number /\ (k + 1) - 1 = k /\ k + 1 # 1
    BY <2>2, BoundAssumption DEF InsertClaim, Number
  <2> QED  BY <1>2, <2>1, <2>2, <2>3 DEF ClaimRetry, PermitsNextAttempt
<1>3. ASSUME NEW s \in Sender, NEW outcome \in Outcome, Respond(s, outcome)
      PROVE  attempts' = attempts
  BY <1>3 DEF Respond
<1>4. ASSUME NEW s \in Sender,
             Evaluate(s) \/ ClaimWithoutPermit(s) \/ Post(s) \/ RetryUnderPermit(s)
                \/ RecordRefused(s) \/ Abandon(s)
      PROVE  attempts' = attempts
  BY <1>4 DEF Evaluate, ClaimWithoutPermit, Post, RetryUnderPermit, RecordRefused, Abandon
<1>5. ASSUME Environment PROVE attempts' = attempts
  BY <1>5 DEF Environment, Revise, ChangeAuthority, DiscordCreates
<1>6. ASSUME UNCHANGED vars PROVE attempts' = attempts
  BY <1>6 DEF vars
<1>7. CASE UNCHANGED vars \/ Environment
  BY <1>7, <1>5, <1>6
<1>8. CASE \E s \in Sender : Work(s) \/ Abandon(s)
  <2>1. PICK s \in Sender : Work(s) \/ Abandon(s)
    BY <1>8
  <2>2. CASE ClaimFirst(s)
    BY <1>1, <2>2
  <2>3. CASE ClaimRetry(s)
    BY <1>2, <2>3
  <2> QED  BY <2>1, <2>2, <2>3, <1>3, <1>4 DEF Work
<1> QED  BY <1>7, <1>8 DEF Next

\* What recording an outcome does to the rows, and to which row.
LEMMA RecordEffect ==
    ASSUME IInv, NEW s \in Sender, Record(s), NEW r \in Revision, NEW n \in Number
    PROVE  /\ Claimed(r, n)' => Claimed(r, n)
           /\ Effective(r, n) \in {"accepted", "failed", "unknown"} => attempts'[r] = attempts[r]
<1> DEFINE q == senders[s].rev
           k == senders[s].number
           state == RecordedState(Kind[s], Decision(s))
<1>1. /\ HoldsPermit(s) /\ q \in Revision /\ k \in Number /\ IsLatest(q, k)
      /\ Effective(q, k) = "claimed"
  BY DEF Record, FinalDecision, HoldsPermit, IInv, SenderInv, SenderOK
<1>2. attempts' = [attempts EXCEPT
          ![q][k].column = IF state = "retry_wait" THEN "claimed" ELSE state,
          ![q][k].event = state]
  BY DEF Record
<1>3. attempts \in [Revision -> [Number -> AttemptRow]]
  BY DEF IInv, TypeOK
<1> HIDE DEF q, k, state
<1>4. r # q => attempts'[r] = attempts[r]
  BY <1>2, <1>3
<1>5. r = q /\ n # k => attempts'[r][n] = attempts[r][n]
  BY <1>1, <1>2, <1>3
<1>6. Claimed(r, n)' => Claimed(r, n)
  BY <1>1, <1>4, <1>5 DEF Claimed, IsLatest
<1>7. ASSUME r = q, Effective(r, n) \in {"accepted", "failed", "unknown"} PROVE FALSE
  <2>1. Claimed(r, n) /\ n # k
    BY <1>1, <1>7 DEF IInv, StoreInv
  <2>2. n < k
    BY <1>1, <1>7, <2>1, BoundAssumption DEF IsLatest, Number
  <2>3. Effective(q, n) = "retry_wait"
    BY <1>1, <1>7, <2>1, <2>2 DEF IInv, StoreInv, IsLatest
  <2> QED  BY <1>7, <2>3
<1> QED  BY <1>4, <1>6, <1>7

\* DEL-FR-02: the step that adds a row adds it for the current revision, under the
\* authority in force in that very step.
THEOREM ClaimsAreCurrent == Spec => ClaimIsCurrent
<1> DEFINE Step == \A r \in Revision, n \in Number :
                      (~Claimed(r, n) /\ Claimed(r, n)') =>
                          r = current /\ attempts'[r][n].authority = authority
<1>1. IInv /\ [Next]_vars => [Step]_vars
  <2> SUFFICES ASSUME IInv, [Next]_vars, NEW r \in Revision, NEW n \in Number,
                      ~Claimed(r, n), Claimed(r, n)'
               PROVE  r = current /\ attempts'[r][n].authority = authority
    OBVIOUS
  <2>1. attempts' # attempts
    BY DEF Claimed
  <2>2. ASSUME NEW s \in Sender, Record(s) PROVE FALSE
    BY <2>2, RecordEffect
  <2>a. PICK s \in Sender, k \in Number :
           \E i : InsertClaim(s, k, i) /\ Revalidates(s)
    BY <2>1, <2>2, RowsChangeOnlyIn
  <2>3. PICK id : InsertClaim(s, k, id) /\ Revalidates(s)
    BY <2>a
  <2> DEFINE q == senders[s].rev
             row == [column |-> "claimed", event |-> "claimed",
                     id |-> id, authority |-> senders[s].seen]
  <2>4. attempts' = [attempts EXCEPT ![q][k] = row] /\ q = current /\ senders[s].seen = authority
    BY <2>3 DEF InsertClaim, Revalidates
  <2>5. attempts \in [Revision -> [Number -> AttemptRow]] /\ row.authority = senders[s].seen
    BY DEF IInv, TypeOK
  <2> HIDE DEF q, row
  <2>6. r = q /\ n = k
    BY <2>4, <2>5 DEF Claimed
  <2>7. attempts'[r][n] = row
    BY <2>4, <2>5, <2>6
  <2> QED  BY <2>4, <2>5, <2>6, <2>7
<1> QED  BY <1>1, InductiveInvariant, PTL DEF Spec, ClaimIsCurrent

\* Nothing changes a row of a revision with an accepted, failed or unknown
\* outcome: no sender, no retry, no restart.
THEOREM OutcomesAreFinal == Spec => OutcomeIsFinal
<1> DEFINE Step == \A r \in Revision, n \in Number :
                      Effective(r, n) \in {"accepted", "failed", "unknown"} =>
                          attempts'[r] = attempts[r]
<1>1. IInv /\ [Next]_vars => [Step]_vars
  <2> SUFFICES ASSUME IInv, [Next]_vars, NEW r \in Revision, NEW n \in Number,
                      Effective(r, n) \in {"accepted", "failed", "unknown"},
                      attempts' # attempts
               PROVE  attempts'[r] = attempts[r]
    OBVIOUS
  <2>1. ASSUME NEW s \in Sender, Record(s) PROVE attempts'[r] = attempts[r]
    BY <2>1, RecordEffect
  <2>2. ASSUME NEW s \in Sender, NEW k \in Number, NEW id,
               InsertClaim(s, k, id),
               k = 1 \/ (k - 1 \in Number /\ IsLatest(senders[s].rev, k - 1)
                         /\ Effective(senders[s].rev, k - 1) = "retry_wait"),
               k = 1 => \A m \in Number : ~Claimed(senders[s].rev, m)
        PROVE  attempts'[r] = attempts[r]
    <3>1. Claimed(r, n)
      BY DEF IInv, StoreInv
    <3>2. ASSUME r = senders[s].rev, k # 1 PROVE FALSE
      <4>1. n <= k - 1
        BY <2>2, <3>1, <3>2, BoundAssumption DEF IsLatest, Number
      <4>2. n # k - 1
        BY <2>2, <3>2
      <4>3. n < k - 1
        BY <4>1, <4>2, BoundAssumption DEF Number
      <4>4. Effective(r, n) = "retry_wait"
        BY <2>2, <3>2, <4>3 DEF IInv, StoreInv, IsLatest
      <4> QED  BY <4>4
    <3>3. r # senders[s].rev
      BY <2>2, <3>1, <3>2
    <3>4. attempts \in [Revision -> [Number -> AttemptRow]]
      BY DEF IInv, TypeOK
    <3> QED  BY <2>2, <3>3, <3>4 DEF InsertClaim
  <2> QED  BY <2>1, <2>2, RowsChangeOnlyIn
<1> QED  BY <1>1, InductiveInvariant, PTL DEF Spec, OutcomeIsFinal

-----------------------------------------------------------------------------
(***************************************************************************)
(* The refinement: under the mapping of module Delivery every step is a    *)
(* step of DeliveryPromise or a stutter.                                   *)
(***************************************************************************)
LEMMA StatusOfLatest ==
    \A r \in Revision, n \in Number : IsLatest(r, n) => Status(r) = Effective(r, n)
<1> SUFFICES ASSUME NEW r \in Revision, NEW n \in Number, IsLatest(r, n)
             PROVE  Status(r) = Effective(r, n)
  OBVIOUS
<1>1. \A m \in Number : IsLatest(r, m) => m = n
  BY LatestUnique
<1>2. (CHOOSE m \in Number : IsLatest(r, m)) = n
  BY <1>1
<1> QED  BY <1>2 DEF Status, IsLatest

LEMMA StatusOfLatestNext ==
    (\A r \in Revision, n \in Number : IsLatest(r, n) => Status(r) = Effective(r, n))'
BY StatusOfLatest, PTL

LEMMA StatusOfUnclaimed ==
    ASSUME NEW r \in Revision, \A n \in Number : ~Claimed(r, n)
    PROVE  Status(r) = "unclaimed"
BY DEF Status

\* A step that keeps the rows of a revision keeps its status.
LEMMA StatusKept ==
    ASSUME IInv, IInv', NEW r \in Revision, attempts'[r] = attempts[r]
    PROVE  Status(r)' = Status(r)
<1>1. /\ \A n \in Number : Claimed(r, n)' <=> Claimed(r, n)
      /\ \A n \in Number : IsLatest(r, n)' <=> IsLatest(r, n)
      /\ \A n \in Number : Effective(r, n)' = Effective(r, n)
  BY DEF Claimed, IsLatest, Effective
<1>2. CASE \A n \in Number : ~Claimed(r, n)
  <2>1. Status(r) = "unclaimed"
    BY <1>2, StatusOfUnclaimed
  <2>2. Status(r)' = "unclaimed"
    BY <1>1, <1>2 DEF Status
  <2> QED  BY <2>1, <2>2
<1>3. CASE \E n \in Number : IsLatest(r, n)
  <2>1. PICK n \in Number : IsLatest(r, n)
    BY <1>3
  <2>2. Status(r) = Effective(r, n)
    BY <2>1, StatusOfLatest
  <2>3. IsLatest(r, n)'
    BY <1>1, <2>1
  <2> QED  BY <1>1, <2>2, <2>3, StatusOfLatestNext
<1> QED  BY <1>2, <1>3 DEF IInv, StoreInv

-----------------------------------------------------------------------------
\* Steps that touch neither rows nor messages are stutters.
LEMMA QuietStep ==
    ASSUME IInv, IInv', UNCHANGED <<attempts, created>>
    PROVE  UNCHANGED Promise!vars
<1>1. \A r \in Revision : Status(r)' = Status(r)
  BY StatusKept
<1> QED  BY <1>1 DEF Promise!vars

\* A new row, first or behind a retry_wait row, is an abstract claim.
LEMMA InsertClaimImplements ==
    ASSUME IInv, IInv', NEW s \in Sender, NEW n \in Number, NEW id, InsertClaim(s, n, id),
           NEW r \in Revision, r = senders[s].rev,
           Status(r) \in {"unclaimed", "retry_wait"},
           \A m \in Number : m > n => ~Claimed(r, m)
    PROVE  Promise!Next
<1> DEFINE row == [column |-> "claimed", event |-> "claimed", id |-> id,
                   authority |-> senders[s].seen]
<1>1. /\ attempts' = [attempts EXCEPT ![r][n] = row]
      /\ created' = created
  BY DEF InsertClaim
<1>2. /\ attempts'[r][n] = row
      /\ \A m \in Number : m # n => attempts'[r][m] = attempts[r][m]
      /\ \A p \in Revision : p # r => attempts'[p] = attempts[p]
  <2> HIDE DEF row
  <2> QED  BY <1>1 DEF IInv, TypeOK
<1>3. n \in Nat /\ \A m \in Number : m > n => m # n
  BY BoundAssumption DEF Number
<1>4. IsLatest(r, n)' /\ Effective(r, n)' = "claimed"
  BY <1>2, <1>3 DEF IsLatest, Claimed, Effective
<1>5. Status(r)' = "claimed"
  BY <1>4, StatusOfLatestNext
<1>6. \A p \in Revision : p # r => Status(p)' = Status(p)
  BY <1>2, StatusKept
<1>7. Promise!Claim(r)
  BY <1>1, <1>5, <1>6 DEF Promise!Claim
<1> QED  BY <1>7 DEF Promise!Next

LEMMA ClaimFirstImplements ==
    ASSUME IInv, IInv', NEW s \in Sender, ClaimFirst(s)
    PROVE  Promise!Next
<1>1. PICK r \in Revision : r = senders[s].rev
  BY DEF IInv, SenderInv, SenderOK, ClaimFirst
<1>2. /\ 1 \in Number /\ \A m \in Number : ~Claimed(r, m)
      /\ \E id : InsertClaim(s, 1, id)
  BY <1>1, BoundAssumption DEF ClaimFirst, Number
<1>3. Status(r) = "unclaimed"
  BY <1>2, StatusOfUnclaimed
<1> QED  BY <1>1, <1>2, <1>3, InsertClaimImplements

LEMMA ClaimRetryImplements ==
    ASSUME IInv, IInv', NEW s \in Sender, ClaimRetry(s)
    PROVE  Promise!Next
<1>1. PICK r \in Revision : r = senders[s].rev
  BY DEF IInv, SenderInv, SenderOK, ClaimRetry
<1>2. PICK n \in Number :
         /\ IsLatest(r, n) /\ Effective(r, n) = "retry_wait"
         /\ \E id : InsertClaim(s, n + 1, id)
  BY <1>1 DEF ClaimRetry, PermitsNextAttempt
<1>3. /\ n + 1 \in Number
      /\ \A m \in Number : m > n + 1 => ~Claimed(r, m)
  BY <1>2, BoundAssumption DEF InsertClaim, IsLatest, Number
<1>4. Status(r) = "retry_wait"
  BY <1>2, StatusOfLatest
<1> QED  BY <1>1, <1>2, <1>3, <1>4, InsertClaimImplements

\* A recorded outcome is an abstract settlement, with the evidence it needs.
LEMMA RecordImplements ==
    ASSUME IInv, IInv', NEW s \in Sender, Record(s)
    PROVE  Promise!Next
<1>1. PICK r \in Revision, n \in Number :
         /\ r = senders[s].rev /\ n = senders[s].number
         /\ IsLatest(r, n) /\ Effective(r, n) = "claimed"
  BY DEF IInv, SenderInv, SenderOK, Record, FinalDecision, HoldsPermit
<1>2. PICK state \in {"accepted", "failed", "retry_wait", "unknown"} :
         attempts' = [attempts EXCEPT
            ![r][n].column = IF state = "retry_wait" THEN "claimed" ELSE state,
            ![r][n].event = state]
  BY <1>1 DEF Record, CanTransitionTo
<1>3. /\ Effective(r, n)' = state
      /\ Claimed(r, n)'
      /\ \A m \in Number : m # n => attempts'[r][m] = attempts[r][m]
      /\ \A p \in Revision : p # r => attempts'[p] = attempts[p]
  <2> DEFINE row == [attempts[r][n] EXCEPT
                        !.column = IF state = "retry_wait" THEN "claimed" ELSE state,
                        !.event = state]
  <2>1. attempts[r][n] \in AttemptRow
    BY DEF IInv, TypeOK
  <2>2. row.event = state /\ row.column # "unclaimed"
    BY <2>1 DEF AttemptRow
  <2>3. attempts' = [attempts EXCEPT ![r][n] = row]
    BY <1>2, <2>1 DEF IInv, TypeOK
  <2> HIDE DEF row
  <2>4. /\ attempts'[r][n] = row
        /\ \A m \in Number : m # n => attempts'[r][m] = attempts[r][m]
        /\ \A p \in Revision : p # r => attempts'[p] = attempts[p]
    BY <2>3 DEF IInv, TypeOK
  <2> QED  BY <2>2, <2>4 DEF Effective, Claimed
<1>4. n \in Nat /\ \A m \in Number : m > n => m # n
  BY BoundAssumption DEF Number
<1>5. IsLatest(r, n)'
  BY <1>1, <1>3, <1>4 DEF IsLatest, Claimed
<1>6. Status(r) = "claimed" /\ Status(r)' = state
  BY <1>1, <1>3, <1>5, StatusOfLatest, StatusOfLatestNext
<1>7. \A p \in Revision : p # r => Status(p)' = Status(p)
  BY <1>3, StatusKept
<1>8. created' = created
  BY DEF Record
<1>9. state = "accepted" => {q \in created : q.rev = r} # {}
  BY <1>3, <1>8 DEF IInv, OutcomeInv
<1>10. state \in {"failed", "retry_wait"} => {q \in created : q.rev = r} = {}
  <2>1. SUFFICES ASSUME state \in {"failed", "retry_wait"}, NEW q \in created, q.rev = r
                 PROVE  FALSE
    OBVIOUS
  <2>2. /\ q \in Live /\ q \in Live' /\ q.number \in Number /\ Claimed(r, q.number)
        /\ Effective(r, q.number) # "retry_wait"
    BY <1>8, <2>1 DEF Live, IInv, RequestInv, TypeOK, Request
  <2>3. q.number = n
    BY <1>1, <1>4, <2>2, BoundAssumption DEF IInv, StoreInv, IsLatest, Number
  <2>4. Effective(r, n)' \in {"claimed", "accepted", "unknown"}
    BY <2>1, <2>2, <2>3 DEF IInv, RequestInv
  <2> QED  BY <1>3, <2>1, <2>4
<1>11. Promise!Settle(r, state)
  BY <1>6, <1>7, <1>8, <1>9, <1>10 DEF Promise!Settle
<1> QED  BY <1>11 DEF Promise!Next

\* A message appears for a claimed or unknown revision that has none.
LEMMA DiscordCreatesImplements ==
    ASSUME IInv, IInv', NEW q \in inflight, DiscordCreates(q)
    PROVE  Promise!Next \/ UNCHANGED Promise!vars
<1>1. /\ q \in Live /\ q \in Request /\ q \in posted
      /\ q.rev \in Revision /\ q.number \in Number
      /\ created' = created \cup {q}
      /\ attempts' = attempts
  BY DEF Live, IInv, TypeOK, Request, DiscordCreates, RequestInv
<1>2. \A r \in Revision : Status(r)' = Status(r)
  BY <1>1, StatusKept
<1>3. CASE q \in created
  BY <1>1, <1>2, <1>3 DEF Promise!vars
<1>4. CASE q \notin created
  <2>1. \A p \in created : p.rev # q.rev
    BY <1>1, <1>4 DEF IInv, RequestInv, Live
  <2>2. Effective(q.rev, q.number) \in {"claimed", "unknown"} /\ Claimed(q.rev, q.number)
    BY <1>1, <2>1 DEF IInv, RequestInv, OutcomeInv
  <2>3. \A m \in Number : m > q.number => ~Claimed(q.rev, m)
    BY <1>1, <2>2, BoundAssumption DEF IInv, StoreInv, Number
  <2>4. Status(q.rev) \in {"claimed", "unknown"}
    BY <1>1, <2>2, <2>3, StatusOfLatest DEF IsLatest
  <2>5. /\ {p \in created : p.rev = q.rev} = {}
        /\ {p \in created' : p.rev = q.rev} = {q}
        /\ \A r \in Revision : r # q.rev =>
              {p \in created' : p.rev = r} = {p \in created : p.rev = r}
    BY <1>1, <2>1
  <2>6. Promise!Appear(q.rev, q)
    <3> DEFINE before == [r \in Revision |-> {p \in created : p.rev = r}]
               after == [r \in Revision |-> {p \in created' : p.rev = r}]
    <3>1. after = [before EXCEPT ![q.rev] = {q}]
      <4>1. after[q.rev] = {q}
        BY <1>1, <2>5
      <4>2. \A r \in Revision : r # q.rev => after[r] = before[r]
        BY <2>5
      <4>3. after = [r \in Revision |-> after[r]] /\ before = [r \in Revision |-> before[r]]
        OBVIOUS
      <4> HIDE DEF before, after
      <4> QED  BY <4>1, <4>2, <4>3
    <3>2. before[q.rev] = {}
      BY <1>1, <2>5
    <3>3. [r \in Revision |-> Status(r)'] = [r \in Revision |-> Status(r)]
      BY <1>2
    <3> QED
      BY <1>1, <2>4, <3>1, <3>2, <3>3 DEF Promise!Appear
  <2> QED  BY <1>1, <2>6 DEF Promise!Next
<1> QED  BY <1>3, <1>4

-----------------------------------------------------------------------------
LEMMA InitImplements == Init => Promise!Init
<1> SUFFICES ASSUME Init PROVE Promise!Init
  OBVIOUS
<1>1. \A r \in Revision : Status(r) = "unclaimed"
  BY DEF Init, NoAttempt, Claimed, Status
<1> QED  BY <1>1 DEF Init, Promise!Init

LEMMA NextImplements == IInv /\ IInv' /\ [Next]_vars => [Promise!Next]_(Promise!vars)
<1> SUFFICES ASSUME IInv, IInv', [Next]_vars
             PROVE  Promise!Next \/ UNCHANGED Promise!vars
  OBVIOUS
<1>1. ASSUME NEW c \in Content, Revise(c) PROVE UNCHANGED Promise!vars
  BY <1>1, QuietStep DEF Revise
<1>2. ASSUME NEW a \in Authority \cup {NoAuthority}, ChangeAuthority(a)
      PROVE  UNCHANGED Promise!vars
  BY <1>2, QuietStep DEF ChangeAuthority
<1>3. ASSUME NEW q \in inflight, DiscordCreates(q)
      PROVE  Promise!Next \/ UNCHANGED Promise!vars
  BY <1>3, DiscordCreatesImplements
<1>4. ASSUME NEW s \in Sender,
             \/ Evaluate(s) \/ ClaimWithoutPermit(s) \/ Post(s) \/ RetryUnderPermit(s)
             \/ RecordRefused(s) \/ Abandon(s)
      PROVE  UNCHANGED Promise!vars
  BY <1>4, QuietStep
  DEF Evaluate, ClaimWithoutPermit, Post, RetryUnderPermit, RecordRefused, Abandon
<1>5. ASSUME NEW s \in Sender, NEW outcome \in Outcome, Respond(s, outcome)
      PROVE  UNCHANGED Promise!vars
  BY <1>5, QuietStep DEF Respond
<1>6. ASSUME NEW s \in Sender, ClaimFirst(s) PROVE Promise!Next
  BY <1>6, ClaimFirstImplements
<1>7. ASSUME NEW s \in Sender, ClaimRetry(s) PROVE Promise!Next
  BY <1>7, ClaimRetryImplements
<1>8. ASSUME NEW s \in Sender, Record(s) PROVE Promise!Next
  BY <1>8, RecordImplements
<1>9. CASE UNCHANGED vars
  BY <1>9, QuietStep DEF vars
<1> QED
  BY <1>1, <1>2, <1>3, <1>4, <1>5, <1>6, <1>7, <1>8, <1>9 DEF Next, Environment, Work

\* Every behaviour of the detailed delivery is, per revision, a behaviour of the
\* delivery state machine with at most one message.
THEOREM DeliveryImplementsPromise == Spec => ImplementsPromise
<1>1. Init => Promise!Init
  BY InitImplements
<1>2. IInv /\ IInv' /\ [Next]_vars => [Promise!Next]_(Promise!vars)
  BY NextImplements
<1>3. Spec => Promise!Spec
  BY <1>1, <1>2, InductiveInvariant, PTL DEF Spec, Promise!Spec
<1> QED  BY <1>3 DEF ImplementsPromise
=============================================================================
