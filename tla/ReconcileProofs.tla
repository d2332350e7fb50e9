--------------------------- MODULE ReconcileProofs --------------------------
(***************************************************************************)
(* The verdicts of Reconcile for every number of messages, observation     *)
(* window and number of complete reads.  That a verdict of absence is true *)
(* takes a window that outlasts the latency of the service.                *)
(***************************************************************************)
EXTENDS Reconcile, FiniteSetTheorems, TLAPS

\* The attempt is unknown since second 1; what it can still cause is visible
\* when a window that begins there ends.
WindowOutlastsLatency ==
    /\ Window \in Nat /\ Latency \in Nat
    /\ Latency <= Window + 1

(***************************************************************************)
(* The inductive invariant.                                                *)
(***************************************************************************)
PageOK(page) ==
    /\ DOMAIN page \subseteq Message /\ IsFiniteSet(DOMAIN page)
    /\ \A m \in DOMAIN page :
          /\ page[m].mine \in BOOLEAN /\ page[m].exact \in BOOLEAN
          /\ page[m].state \in {"present", "edited", "deleted"}
          /\ page[m] = [mine |-> page[m].mine, exact |-> page[m].exact,
                        state |-> page[m].state]

ChannelOK == PageOK(channel)

\* A read began at or after the second it counts from, in real time.
ReadInv ==
    \A ask \in asking :
        /\ ask[1] \in Nat /\ ask[2] \in Nat
        /\ time - ask[2] + ask[1] >= 1

ClockInv == time \in Nat \ {0} /\ behind \in {0, 1}

\* A reconciler asks as long as it has not decided, and decides on the first
\* complete page with a candidate.
DecisionInv ==
    /\ terminal # {} => asking = {}
    /\ terminal = {} => evidence = {}

\* An absence is only found when nothing can come any more.
AbsenceInv ==
    /\ "absent" \in verdicts => time >= Latency /\ Candidates(channel) = {}
    /\ \A decision \in terminal : decision.state = "absent" => "absent" \in verdicts

\* What holds however long the service takes, and what rests on its latency.
EvidenceInv == ChannelOK /\ DecisionInv /\ VerdictFromCompletePages
TimingInv == ClockInv /\ ReadInv /\ AbsenceInv

IInv == EvidenceInv /\ TimingInv

-----------------------------------------------------------------------------
(***************************************************************************)
(* What a page says.                                                       *)
(***************************************************************************)

\* An accepted message is the only candidate of its page, and exact.
LEMMA AcceptedPage ==
    ASSUME NEW page, PageOK(page), NEW garbled, NEW elapsed,
           Finding(page, garbled, elapsed).state = "accepted"
    PROVE  \E m \in Message :
              /\ Candidates(page) = {m} /\ m \notin garbled
              /\ page[m] = [mine |-> TRUE, exact |-> TRUE, state |-> "present"]
<1> DEFINE present == Candidates(page) \ garbled
           exact == {m \in present : page[m].state = "present" /\ page[m].exact}
<1>1. Conflict(page, garbled) = "none" /\ Candidates(page) # {}
  BY DEF Finding, Verdict
<1>2. /\ \A m \in present : page[m].state # "deleted" /\ page[m].state # "edited"
      /\ \A m \in present : page[m].state = "present" => page[m].exact
      /\ Candidates(page) \cap garbled = {}
      /\ ~(Cardinality(exact) > 1)
  BY <1>1 DEF Conflict
<1>3. \A m \in Candidates(page) : page[m].state = "present" /\ page[m].exact /\ page[m].mine
  BY <1>2 DEF Candidates, PageOK
<1>4. exact = Candidates(page)
  BY <1>2, <1>3
<1>5. IsFiniteSet(Candidates(page))
  <2>1. Candidates(page) \subseteq DOMAIN page
    BY DEF Candidates
  <2> QED  BY <2>1, FS_Subset DEF PageOK
<1>6. Cardinality(Candidates(page)) = 1
  <2>1. Cardinality(Candidates(page)) \in Nat
    BY <1>5, FS_CardinalityType
  <2>2. Cardinality(Candidates(page)) # 0
    BY <1>1, <1>5, FS_EmptySet
  <2>3. ~(Cardinality(Candidates(page)) > 1)
    BY <1>2, <1>4
  <2> HIDE DEF exact
  <2> QED  BY <2>1, <2>2, <2>3
<1>7. PICK m : Candidates(page) = {m}
  BY <1>5, <1>6, FS_Singleton
<1>8. page[m] = [mine |-> TRUE, exact |-> TRUE, state |-> "present"]
  <2>1. page[m].mine = TRUE /\ page[m].exact = TRUE
    BY <1>3, <1>7 DEF PageOK
  <2> QED  BY <1>3, <1>7, <2>1 DEF PageOK, Candidates
<1>9. m \in Message /\ m \notin garbled
  BY <1>2, <1>7 DEF PageOK, Candidates
<1> QED  BY <1>7, <1>8, <1>9

\* A complete page with a candidate is decided at once and for good.
LEMMA CandidatesDecide ==
    ASSUME NEW page, NEW garbled, NEW elapsed, Candidates(page) # {}
    PROVE  /\ Cached(Finding(page, garbled, elapsed))
           /\ Finding(page, garbled, elapsed).state \notin {"absent", "unknown"}
<1>1. Conflict(page, garbled) \in {"none", "multiple", "content", "edited", "deleted", "invalid"}
  BY DEF Conflict
<1> QED  BY <1>1 DEF Finding, Verdict, Cached, IsConflict

\* Absence is only found over the whole window.
LEMMA AbsentPage ==
    ASSUME NEW page, NEW garbled, NEW elapsed, Finding(page, garbled, elapsed).state = "absent"
    PROVE  Candidates(page) = {} /\ elapsed >= Window
BY DEF Finding, Verdict, AbsenceGate

\* A complete page is the channel at that moment.
WholePage == [m \in DOMAIN channel |-> channel[m]]

LEMMA WholePageIsChannel ==
    /\ ChannelOK => PageOK(WholePage)
    /\ Candidates(WholePage) = Candidates(channel)
<1>1. DOMAIN WholePage = DOMAIN channel /\ \A m \in DOMAIN channel : WholePage[m] = channel[m]
  BY DEF WholePage
<1>2. Candidates(WholePage) = Candidates(channel)
  BY <1>1 DEF Candidates
<1>3. ChannelOK => PageOK(WholePage)
  BY <1>1 DEF ChannelOK, PageOK
<1> QED  BY <1>2, <1>3

-----------------------------------------------------------------------------
(***************************************************************************)
(* The steps, as far as they need no clock.                                *)
(***************************************************************************)

\* What a read of a complete page leaves behind, and of an incomplete one.
FoundAll(ask, garbled, decision) ==
    /\ decision = Finding(WholePage, garbled, ask[2] - ask[1])
    /\ terminal' = IF Cached(decision) THEN {decision} ELSE {}
    /\ verdicts' = verdicts \union {decision.state}
    /\ evidence' = {<<m, WholePage[m], m \in garbled>> : m \in Candidates(WholePage)}

FoundNothing ==
    /\ terminal' = {} /\ evidence' = {}
    /\ verdicts' = verdicts \union {"unresolved"}

\* A page is read by a reconciler that had not decided.
LEMMA PageRead ==
    ASSUME DecisionInv, ReadPage
    PROVE  /\ asking' = {} /\ UNCHANGED <<time, behind, channel, target>>
           /\ \/ FoundNothing
              \/ \E ask \in asking : \E garbled, decision : FoundAll(ask, garbled, decision)
<1>1. PICK ask \in asking, shown \in SUBSET DOMAIN channel, complete \in BOOLEAN :
        \E garbled \in SUBSET shown :
            /\ complete => shown = DOMAIN channel
            /\ Observe([m \in shown |-> channel[m]], complete, garbled, ask[2] - ask[1])
            /\ asking' = {} /\ UNCHANGED <<time, behind, channel, target>>
  BY DEF ReadPage
<1>2. PICK garbled \in SUBSET shown :
        Observe([m \in shown |-> channel[m]], complete, garbled, ask[2] - ask[1])
  BY <1>1
<1>3. terminal = {} /\ evidence = {}
  BY <1>1 DEF DecisionInv
<1> DEFINE decision == Classify([m \in shown |-> channel[m]], complete, garbled, ask[2] - ask[1])
<1>4. CASE complete
  <2>1. [m \in shown |-> channel[m]] = WholePage
    BY <1>1, <1>4 DEF WholePage
  <2>2. Observe(WholePage, TRUE, garbled, ask[2] - ask[1])
    BY <1>2, <1>4, <2>1
  <2>3. FoundAll(ask, garbled, Finding(WholePage, garbled, ask[2] - ask[1]))
    BY <1>3, <2>2 DEF FoundAll, Observe, Classify, Answered
  <2> QED  BY <1>1, <2>3
<1>5. CASE ~complete
  <2>1. decision = Verdict("unresolved", "read")
    BY <1>5 DEF Classify
  <2>2. ~Cached(decision) /\ decision.state = "unresolved"
    BY <2>1 DEF Verdict, Cached, IsConflict
  <2>3. FoundNothing
    BY <1>2, <1>3, <1>5, <2>2 DEF FoundNothing, Observe, Answered
  <2> QED  BY <1>1, <2>3
<1> QED  BY <1>4, <1>5

LEMMA PageEvidence ==
    ASSUME EvidenceInv, ReadPage
    PROVE  EvidenceInv'
<1>1. asking' = {} /\ UNCHANGED channel
  BY PageRead DEF EvidenceInv
<1>2. ChannelOK /\ ChannelOK'
  BY <1>1 DEF EvidenceInv, ChannelOK, PageOK
<1>3. CASE FoundNothing
  BY <1>1, <1>2, <1>3 DEF FoundNothing, EvidenceInv, DecisionInv, VerdictFromCompletePages
<1>4. ASSUME NEW ask, NEW garbled, NEW decision, FoundAll(ask, garbled, decision)
      PROVE  EvidenceInv'
  <2>1. /\ decision = Finding(WholePage, garbled, ask[2] - ask[1])
        /\ terminal' = IF Cached(decision) THEN {decision} ELSE {}
        /\ evidence' = {<<m, WholePage[m], m \in garbled>> : m \in Candidates(WholePage)}
    BY <1>4 DEF FoundAll
  <2>2. Candidates(WholePage) # {} => Cached(decision) /\ decision.state # "absent"
    BY <2>1, CandidatesDecide
  <2>3. DecisionInv'
    BY <1>1, <2>1, <2>2 DEF DecisionInv
  <2>4. ASSUME decision.state = "accepted"
        PROVE  \E m \in Message :
                  evidence' = {<<m, [mine |-> TRUE, exact |-> TRUE, state |-> "present"], FALSE>>}
    <3>1. PICK m \in Message :
            /\ Candidates(WholePage) = {m} /\ m \notin garbled
            /\ WholePage[m] = [mine |-> TRUE, exact |-> TRUE, state |-> "present"]
      BY <1>2, <2>1, <2>4, AcceptedPage, WholePageIsChannel
    <3>2. {<<n, WholePage[n], n \in garbled>> : n \in Candidates(WholePage)}
            = {<<m, WholePage[m], m \in garbled>>}
      BY <3>1
    <3>3. (m \in garbled) = FALSE
      BY <3>1
    <3> QED  BY <2>1, <3>1, <3>2, <3>3
  <2>5. decision.state = "absent" => evidence' = {}
    BY <2>1, <2>2
  <2>6. VerdictFromCompletePages'
    BY <2>1, <2>4, <2>5 DEF VerdictFromCompletePages
  <2> QED  BY <1>2, <2>3, <2>6 DEF EvidenceInv
<1> QED  BY <1>3, <1>4, PageRead DEF EvidenceInv

\* The channel alone changes.
LEMMA ChannelEvidence ==
    ASSUME EvidenceInv, Arrive \/ Change \/ Vanish
    PROVE  EvidenceInv'
<1>1. UNCHANGED <<asking, terminal, evidence>>
  BY DEF Arrive, Change, Vanish
<1>2. CASE Arrive
  <2>1. PICK n \in Message \ DOMAIN channel, mine \in BOOLEAN :
          channel' = [m \in DOMAIN channel \cup {n} |->
                IF m = n THEN [mine |-> mine, exact |-> TRUE, state |-> "present"] ELSE channel[m]]
    BY <1>2 DEF Arrive
  <2>2. /\ DOMAIN channel' = DOMAIN channel \cup {n}
        /\ channel'[n] = [mine |-> mine, exact |-> TRUE, state |-> "present"]
        /\ \A m \in DOMAIN channel : channel'[m] = channel[m]
    BY <2>1
  <2>3. channel'[n].mine = mine /\ channel'[n].exact = TRUE /\ channel'[n].state = "present"
    BY <2>2
  <2>4. IsFiniteSet(DOMAIN channel')
    BY <2>2, FS_AddElement DEF EvidenceInv, ChannelOK, PageOK
  <2>5. ChannelOK'
    BY <2>1, <2>2, <2>3, <2>4 DEF EvidenceInv, ChannelOK, PageOK
  <2> QED  BY <1>1, <2>5 DEF EvidenceInv, DecisionInv, VerdictFromCompletePages
<1>3. CASE Change
  <2>1. PICK n \in Candidates(channel), state \in {"present", "edited", "deleted"} :
          channel' = [channel EXCEPT ![n] = [mine |-> TRUE, exact |-> FALSE, state |-> state]]
    BY <1>3 DEF Change
  <2>2. n \in DOMAIN channel
    BY <2>1 DEF Candidates
  <2>3. /\ DOMAIN channel' = DOMAIN channel
        /\ channel'[n] = [mine |-> TRUE, exact |-> FALSE, state |-> state]
        /\ \A m \in DOMAIN channel : m # n => channel'[m] = channel[m]
    BY <2>1, <2>2
  <2>4. channel'[n].mine = TRUE /\ channel'[n].exact = FALSE /\ channel'[n].state = state
    BY <2>3
  <2>5. ASSUME NEW m \in DOMAIN channel'
        PROVE  /\ channel'[m].mine \in BOOLEAN /\ channel'[m].exact \in BOOLEAN
               /\ channel'[m].state \in {"present", "edited", "deleted"}
               /\ channel'[m] = [mine |-> channel'[m].mine, exact |-> channel'[m].exact,
                                  state |-> channel'[m].state]
    <3>1. CASE m = n
      BY <2>1, <2>3, <2>4, <3>1
    <3>2. CASE m # n
      BY <2>3, <3>2 DEF EvidenceInv, ChannelOK, PageOK
    <3> QED  BY <3>1, <3>2
  <2>6. ChannelOK'
    BY <2>3, <2>5 DEF EvidenceInv, ChannelOK, PageOK
  <2> QED  BY <1>1, <2>6 DEF EvidenceInv, DecisionInv, VerdictFromCompletePages
<1>4. CASE Vanish
  <2>1. PICK n \in DOMAIN channel : channel' = [m \in DOMAIN channel \ {n} |-> channel[m]]
    BY <1>4 DEF Vanish
  <2>2. DOMAIN channel' = DOMAIN channel \ {n} /\ \A m \in DOMAIN channel' : channel'[m] = channel[m]
    BY <2>1
  <2>3. IsFiniteSet(DOMAIN channel')
    BY <2>2, FS_Subset DEF EvidenceInv, ChannelOK, PageOK
  <2>4. ChannelOK'
    BY <2>2, <2>3 DEF EvidenceInv, ChannelOK, PageOK
  <2> QED  BY <1>1, <2>4 DEF EvidenceInv, DecisionInv, VerdictFromCompletePages
<1> QED  BY <1>2, <1>3, <1>4

LEMMA EvidenceStep == EvidenceInv /\ [Next]_vars => EvidenceInv'
<1> SUFFICES ASSUME EvidenceInv, [Next]_vars PROVE EvidenceInv'
  OBVIOUS
<1>1. ASSUME NEW since, Reconcile(since) PROVE EvidenceInv'
  BY <1>1 DEF Reconcile, EvidenceInv, ChannelOK, PageOK, DecisionInv, VerdictFromCompletePages
<1>2. CASE ReadFails \/ ClockMovedBack
  BY <1>2 DEF ReadFails, ClockMovedBack, EvidenceInv, ChannelOK, PageOK, DecisionInv, VerdictFromCompletePages
<1>3. CASE Restart
  BY <1>3 DEF Restart, EvidenceInv, ChannelOK, PageOK, DecisionInv, VerdictFromCompletePages
<1>4. CASE Tick \/ SetBack \/ UNCHANGED vars
  BY <1>4 DEF Tick, SetBack, vars, EvidenceInv, ChannelOK, PageOK, DecisionInv, VerdictFromCompletePages
<1> QED  BY <1>1, <1>2, <1>3, <1>4, PageEvidence, ChannelEvidence DEF Next, ReconcileAt, ReconcileStamped

-----------------------------------------------------------------------------
(***************************************************************************)
(* The clock and the verdicts of absence.                                  *)
(***************************************************************************)
LEMMA ReconcileTiming ==
    ASSUME IInv, NEW since \in Nat, since \in {1, Now}, Reconcile(since)
    PROVE  TimingInv'
<1>1. UNCHANGED <<time, behind, channel, terminal>>
  BY DEF Reconcile
<1>2. Now \in Nat /\ time - Now + since >= 1
  BY DEF IInv, TimingInv, ClockInv, Now
<1>3. ReadInv'
  BY <1>1, <1>2 DEF IInv, TimingInv, ReadInv, Reconcile
<1>4. AbsenceInv'
  <2>1. verdicts \subseteq verdicts'
    BY DEF IInv, EvidenceInv, DecisionInv, Reconcile, Answered
  <2>2. "absent" \in verdicts' => "absent" \in verdicts
    <3>1. CASE terminal = {}
      BY <3>1 DEF Reconcile
    <3>2. CASE terminal # {}
      BY <3>2 DEF IInv, TimingInv, AbsenceInv, Reconcile, Answered
    <3> QED  BY <3>1, <3>2
  <2> QED  BY <1>1, <2>1, <2>2 DEF IInv, TimingInv, AbsenceInv, Candidates
<1> QED  BY <1>1, <1>3, <1>4 DEF IInv, TimingInv, ClockInv

LEMMA PageTiming ==
    ASSUME WindowOutlastsLatency, IInv, ReadPage
    PROVE  TimingInv'
<1>1. asking' = {} /\ UNCHANGED <<time, behind, channel, target>>
  BY PageRead DEF IInv, EvidenceInv
<1>2. ClockInv' /\ ReadInv'
  BY <1>1 DEF IInv, TimingInv, ClockInv, ReadInv
<1>3. CASE FoundNothing
  BY <1>1, <1>2, <1>3 DEF FoundNothing, IInv, TimingInv, AbsenceInv, Candidates
<1>4. ASSUME NEW ask \in asking, NEW garbled, NEW decision, FoundAll(ask, garbled, decision)
      PROVE  AbsenceInv'
  <2>1. /\ decision = Finding(WholePage, garbled, ask[2] - ask[1])
        /\ terminal' = IF Cached(decision) THEN {decision} ELSE {}
        /\ verdicts' = verdicts \union {decision.state}
    BY <1>4 DEF FoundAll
  <2>2. decision.state = "absent" => Candidates(channel) = {} /\ time >= Latency
    <3> SUFFICES ASSUME decision.state = "absent" PROVE Candidates(channel) = {} /\ time >= Latency
      OBVIOUS
    <3>1. Candidates(channel) = {} /\ ask[2] - ask[1] >= Window
      BY <2>1, AbsentPage, WholePageIsChannel
    <3>2. ask[1] \in Nat /\ ask[2] \in Nat /\ time - ask[2] + ask[1] >= 1 /\ time \in Nat
      BY DEF IInv, TimingInv, ReadInv, ClockInv
    <3> QED  BY <3>1, <3>2 DEF WindowOutlastsLatency
  <2>3. "absent" \in verdicts' => time' >= Latency /\ Candidates(channel)' = {}
    BY <1>1, <2>1, <2>2 DEF IInv, TimingInv, AbsenceInv, Candidates
  <2>4. \A d \in terminal' : d.state = "absent" => "absent" \in verdicts'
    BY <2>1
  <2> QED  BY <2>3, <2>4 DEF AbsenceInv
<1> QED  BY <1>2, <1>3, <1>4, PageRead DEF IInv, EvidenceInv, TimingInv

\* What arrives late arrives before the service's latency is over; what changes
\* or vanishes was there.
LEMMA ChannelTiming ==
    ASSUME WindowOutlastsLatency, IInv, Arrive \/ Change \/ Vanish
    PROVE  TimingInv'
<1>1. UNCHANGED <<time, behind, asking, terminal, verdicts>>
  BY DEF Arrive, Change, Vanish
<1>2. CASE Arrive \/ Change
  <2>1. "absent" \notin verdicts
    <3>1. CASE Arrive
      <4>1. time < Latency /\ time \in Nat /\ Latency \in Nat
        BY <3>1 DEF Arrive, IInv, TimingInv, ClockInv, WindowOutlastsLatency
      <4> QED  BY <4>1 DEF IInv, TimingInv, AbsenceInv
    <3>2. CASE Change
      <4>1. Candidates(channel) # {}
        BY <3>2 DEF Change
      <4> QED  BY <4>1 DEF IInv, TimingInv, AbsenceInv
    <3> QED  BY <1>2, <3>1, <3>2
  <2> QED  BY <1>1, <2>1 DEF IInv, TimingInv, ClockInv, ReadInv, AbsenceInv
<1>3. CASE Vanish
  <2>1. PICK n \in DOMAIN channel : channel' = [m \in DOMAIN channel \ {n} |-> channel[m]]
    BY <1>3 DEF Vanish
  <2>2. /\ DOMAIN channel' \subseteq DOMAIN channel
        /\ \A m \in DOMAIN channel' : channel'[m] = channel[m]
    BY <2>1
  <2>3. Candidates(channel) = {} => Candidates(channel') = {}
    BY <2>2 DEF Candidates
  <2> QED  BY <1>1, <2>3 DEF IInv, TimingInv, ClockInv, ReadInv, AbsenceInv
<1> QED  BY <1>2, <1>3

LEMMA OtherTiming ==
    ASSUME WindowOutlastsLatency, IInv,
           ReadFails \/ ClockMovedBack \/ Restart \/ Tick \/ SetBack \/ UNCHANGED vars
    PROVE  TimingInv'
<1>1. CASE ReadFails
  BY <1>1 DEF ReadFails, Answered, Verdict, IInv, TimingInv, ClockInv, ReadInv, AbsenceInv, Candidates
<1>2. CASE ClockMovedBack
  BY <1>2 DEF ClockMovedBack, IInv, TimingInv, ClockInv, ReadInv, AbsenceInv, Candidates
<1>3. CASE Restart
  BY <1>3 DEF Restart, IInv, TimingInv, ClockInv, ReadInv, AbsenceInv, Candidates
<1>4. CASE Tick
  <2>1. time \in Nat /\ time' = time + 1 /\ Latency \in Nat
    BY <1>4 DEF Tick, IInv, TimingInv, ClockInv, WindowOutlastsLatency
  <2>2. ClockInv' /\ ReadInv'
    BY <1>4, <2>1 DEF Tick, IInv, TimingInv, ClockInv, ReadInv
  <2>3. AbsenceInv'
    BY <1>4, <2>1 DEF Tick, IInv, TimingInv, AbsenceInv, Candidates
  <2> QED  BY <2>2, <2>3 DEF TimingInv
<1>5. CASE SetBack
  BY <1>5 DEF SetBack, IInv, TimingInv, ClockInv, ReadInv, AbsenceInv, Candidates
<1>6. CASE UNCHANGED vars
  BY <1>6 DEF vars, IInv, TimingInv, ClockInv, ReadInv, AbsenceInv, Candidates
<1> QED  BY <1>1, <1>2, <1>3, <1>4, <1>5, <1>6

-----------------------------------------------------------------------------
LEMMA InitialState == Init => IInv
<1> SUFFICES ASSUME Init PROVE IInv
  OBVIOUS
<1>1. DOMAIN channel = {} /\ IsFiniteSet(DOMAIN channel)
  BY FS_EmptySet DEF Init
<1> QED  BY <1>1 DEF Init, IInv, EvidenceInv, TimingInv, ClockInv, ChannelOK, PageOK, ReadInv, DecisionInv, AbsenceInv,
                     VerdictFromCompletePages

LEMMA EveryStep == WindowOutlastsLatency /\ IInv /\ [Next]_vars => IInv'
<1> SUFFICES ASSUME WindowOutlastsLatency, IInv, [Next]_vars PROVE IInv'
  OBVIOUS
<1>1. EvidenceInv'
  BY EvidenceStep DEF IInv
<1>2. CASE ReconcileAt
  BY <1>1, <1>2, ReconcileTiming DEF ReconcileAt, IInv
<1>3. CASE ReconcileStamped
  <2>1. Now \in Nat
    BY DEF IInv, TimingInv, ClockInv, Now
  <2> QED  BY <1>1, <1>3, <2>1, ReconcileTiming DEF ReconcileStamped, IInv
<1> QED  BY <1>1, <1>2, <1>3, PageTiming, ChannelTiming, OtherTiming DEF Next, IInv

\* Whoever reads "absent" may send again: nothing of the attempt is there or can come.
THEOREM AbsenceIsProof == ASSUME WindowOutlastsLatency PROVE Spec => []AbsenceIsTrue
<1>1. Init => IInv
  BY InitialState
<1>2. IInv /\ [Next]_vars => IInv'
  BY EveryStep
<1>3. IInv => AbsenceIsTrue
  BY DEF IInv, TimingInv, AbsenceInv, AbsenceIsTrue, Candidates
<1> QED  BY <1>1, <1>2, <1>3, PTL DEF Spec

\* A decision that a reconciler keeps rests on all the complete pages that it ever
\* read, however late the service shows a message; no incomplete page decides.
THEOREM DecisionsRestOnCompletePages == Spec => []VerdictFromCompletePages
<1>1. Init => EvidenceInv
  BY InitialState DEF IInv
<1>2. EvidenceInv => VerdictFromCompletePages
  BY DEF EvidenceInv
<1> QED  BY <1>1, <1>2, EvidenceStep, PTL DEF Spec

=============================================================================
