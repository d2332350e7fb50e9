----------------------------- MODULE Reconcile -----------------------------
(***************************************************************************)
(* Reconciliation of one send whose outcome is unknown.  A reconciler reads *)
(* the history of the destination, looks for the nonce of the attempt and  *)
(* decides: the message is there, it is absent, the evidence conflicts, or *)
(* it is too early to tell.  Meanwhile the send may still take effect, and *)
(* people edit and delete messages.  The decision about absence is earned  *)
(* with complete reads that cover an observation window.                   *)
(***************************************************************************)
EXTENDS Naturals, FiniteSets

CONSTANTS
    Message,    \* messages that can carry the nonce of the attempt
    Window,     \* seconds an absence must be observed for
    MinReads,   \* complete reads an absence takes
    Latency,    \* the service shows a message before this second, or never
    MaxTime,    \* bound on the clock
    MaxReads    \* bound on the reads that find nothing

VARIABLES
    time,       \* seconds since the attempt became unknown
    behind,     \* how far the injected clock was set back
    channel,    \* what the service shows of the messages with the nonce
    asking,     \* the target and the time of the read under way, or {}
    target,     \* the target of this reconciler, or {}
    reads,      \* complete reads that found nothing
    terminal,   \* the cached decision, or {}
    evidence,   \* every candidate on a complete page that this reconciler read
    verdicts    \* the decisions that any reconciler ever returned

vars == <<time, behind, channel, asking, target, reads, terminal, evidence, verdicts>>

-----------------------------------------------------------------------------
(* Observations and decisions *)

Decision ==
    [state : {"accepted", "unknown", "absent", "unresolved"},
     reason : {"none", "early", "read", "multiple", "content", "edited", "deleted", "invalid"}]

Verdict(state, reason) == [state |-> state, reason |-> reason]

\* Neither an early answer nor a failed read says anything for later
IsConflict(reason) == reason \in {"multiple", "content", "edited", "deleted", "invalid"}

\* should_cache without the conflicts
Cached_Settled(decision) == decision.state \in {"accepted", "absent"}

Cached(decision) ==
    decision.state \in {"accepted", "absent"} \/ IsConflict(decision.reason)

\* can_prove_absence with one gate instead of both
AbsenceGate_Either(elapsed, count) == elapsed >= Window \/ count >= MinReads

AbsenceGate(elapsed, count) == elapsed >= Window /\ count >= MinReads

\* A stranger's copy of the nonce is no candidate
Candidates(page) == {m \in DOMAIN page : page[m].mine}

\* What the candidates say; a deletion speaks before an edit, an edit before content
Conflict(page, garbled) ==
    LET present == Candidates(page) \ garbled
        Has(state) == \E m \in present : page[m].state = state
        foreign == \E m \in present : page[m].state = "present" /\ ~page[m].exact
        exact == {m \in present : page[m].state = "present" /\ page[m].exact}
    IN  IF Has("deleted") THEN "deleted"
        ELSE IF Has("edited") THEN "edited"
        ELSE IF foreign THEN "content"
        ELSE IF Candidates(page) \cap garbled # {} THEN "invalid"
        ELSE IF Cardinality(exact) > 1 THEN "multiple"
        ELSE "none"

\* What a complete page shows
Finding(page, garbled, elapsed) ==
    LET conflict == Conflict(page, garbled)
    IN  IF conflict # "none" THEN Verdict("unresolved", conflict)
        ELSE IF Candidates(page) # {} THEN Verdict("accepted", "none")
        ELSE IF AbsenceGate(elapsed, reads + 1) THEN Verdict("absent", "none")
        ELSE Verdict("unknown", "early")

\* classify_observation without its check that the page is complete
Classify_AnyPage(page, complete, garbled, elapsed) == Finding(page, garbled, elapsed)

\* An incomplete page is not looked at, whatever is on it
Classify(page, complete, garbled, elapsed) ==
    IF complete THEN Finding(page, garbled, elapsed) ELSE Verdict("unresolved", "read")

-----------------------------------------------------------------------------
(* The reconciler *)

Now == time - behind

Answered(decision) == verdicts' = verdicts \union {decision.state}

\* A call names a target: the attempt, and the second it has been unknown since.
\* A reconciler keeps the first; what is cached is answered without a read.
Reconcile(since) ==
    /\ asking = {}
    /\ target \in {{}, {since}}
    /\ target' = {since}
    /\ IF terminal # {}
       THEN \A decision \in terminal : Answered(decision) /\ UNCHANGED asking
       ELSE asking' = {<<since, Now>>} /\ UNCHANGED verdicts
    /\ UNCHANGED <<time, behind, channel, reads, terminal, evidence>>

\* The attempt is unknown since the second that the row records
ReconcileAt == Reconcile(1)

\* reconcile_attempt stamps the call: a later call names another target
ReconcileStamped == time <= 2 /\ Reconcile(Now)

\* A read without a page ends the call
ReadFails ==
    /\ asking # {}
    /\ asking' = {}
    /\ Answered(Verdict("unresolved", "read"))
    /\ UNCHANGED <<time, behind, channel, target, reads, terminal, evidence>>

\* The clock moved back to before the target: an error, with nothing kept
ClockMovedBack ==
    /\ \E ask \in asking : ask[2] < ask[1]
    /\ asking' = {}
    /\ UNCHANGED <<time, behind, channel, target, reads, terminal, evidence, verdicts>>

\* What a reconciler keeps of a page
Observe(page, complete, garbled, elapsed) ==
    LET decision == Classify(page, complete, garbled, elapsed)
    IN  /\ reads' = IF decision.state \in {"unknown", "absent"} THEN reads + 1 ELSE reads
        /\ terminal' = IF Cached(decision) THEN {decision} ELSE terminal
        /\ Answered(decision)
        /\ evidence' = IF complete
              THEN evidence \union {<<m, page[m], m \in garbled>> : m \in Candidates(page)}
              ELSE evidence

\* A page; the adapter may garble the identifier of a message, and may say that
\* the page is not all there is
ReadPage ==
    \E ask \in asking, shown \in SUBSET DOMAIN channel, complete \in BOOLEAN :
    \E garbled \in SUBSET shown :
        /\ ask[2] >= ask[1] /\ reads < MaxReads
        /\ complete => shown = DOMAIN channel
        /\ Cardinality(garbled) <= 1
        /\ Observe([m \in shown |-> channel[m]], complete, garbled, ask[2] - ask[1])
        /\ asking' = {}
        /\ UNCHANGED <<time, behind, channel, target>>

\* The counters live in memory
Restart ==
    /\ target # {}
    /\ target' = {} /\ asking' = {} /\ terminal' = {} /\ reads' = 0 /\ evidence' = {}
    /\ UNCHANGED <<time, behind, channel, verdicts>>

-----------------------------------------------------------------------------
(* The destination and the clock *)

\* A message with the nonce becomes visible: the send of the attempt, perhaps
\* twice, with its content, or a stranger's copy
Arrive ==
    \E m \in Message \ DOMAIN channel, mine \in BOOLEAN :
        /\ time < Latency
        /\ channel' = [n \in DOMAIN channel \cup {m} |->
              IF n = m THEN [mine |-> mine, exact |-> TRUE, state |-> "present"] ELSE channel[n]]
        /\ UNCHANGED <<time, behind, asking, target, reads, terminal, evidence, verdicts>>

\* An edit, with its mark or without, or a deletion that leaves a tombstone
Change ==
    \E m \in Candidates(channel), state \in {"present", "edited", "deleted"} :
        /\ channel[m].state # "deleted"
        /\ channel' = [channel EXCEPT ![m] = [mine |-> TRUE, exact |-> FALSE, state |-> state]]
        /\ UNCHANGED <<time, behind, asking, target, reads, terminal, evidence, verdicts>>

\* A deletion that leaves nothing in the history
Vanish ==
    \E m \in DOMAIN channel :
        /\ channel' = [n \in DOMAIN channel \ {m} |-> channel[n]]
        /\ UNCHANGED <<time, behind, asking, target, reads, terminal, evidence, verdicts>>

Tick ==
    /\ time < MaxTime
    /\ time' = time + 1
    /\ UNCHANGED <<behind, channel, asking, target, reads, terminal, evidence, verdicts>>

SetBack ==
    /\ behind = 0
    /\ behind' = 1
    /\ UNCHANGED <<time, channel, asking, target, reads, terminal, evidence, verdicts>>

Init ==
    /\ time = 1 /\ behind = 0
    /\ channel = <<>>
    /\ asking = {} /\ target = {} /\ reads = 0 /\ terminal = {}
    /\ evidence = {} /\ verdicts = {}

Next ==
    \/ ReconcileAt \/ ReconcileStamped \/ ReadFails \/ ClockMovedBack \/ ReadPage
    \/ Restart \/ Arrive \/ Change \/ Vanish \/ Tick \/ SetBack

Spec == Init /\ [][Next]_vars

-----------------------------------------------------------------------------
(* Properties *)

\* Who reads "absent" may send again: nothing of the attempt is there, or can
\* come, however the reads, the late arrivals and the clock interleave
\* (ReconciliationProgress::can_prove_absence, classify_observation).
AbsenceIsTrue ==
    "absent" \in verdicts => \A m \in DOMAIN channel : ~channel[m].mine

\* On the complete pages that it read, a reconciler that accepts was shown nothing
\* but that message, in its exact form, and one that calls it absent was shown no
\* candidate: a conflict is never outlived, and an incomplete page never decides
\* (should_cache, classify_observation).  What was on an incomplete page does not
\* count: it is neither kept nor held against a later decision.
VerdictFromCompletePages ==
    \A decision \in terminal :
        /\ decision.state = "accepted" =>
            \E m \in Message :
                evidence = {<<m, [mine |-> TRUE, exact |-> TRUE, state |-> "present"], FALSE>>}
        /\ decision.state = "absent" => evidence = {}

=============================================================================
