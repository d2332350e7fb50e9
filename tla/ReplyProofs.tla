---------------------------- MODULE ReplyProofs -----------------------------
(***************************************************************************)
(* The properties of Reply hold for every set of processes, items, drafts  *)
(* and contents, and for every retention of content.                       *)
(***************************************************************************)
EXTENDS Reply, TLAPS

(***************************************************************************)
(* The inductive invariant.                                                *)
(***************************************************************************)

\* A stored reply draft answers an item.
DraftInv == \A d \in Draft : Exists(d) => drafts[d].item \in Item

\* The recorded evidence names an accepted attempt.
RepliedInv == \A d \in Draft : replied[d] # 0 => attempts[d][replied[d]] = "accepted"

\* What a command carries from one step to the next.
RunOK(p) ==
    /\ runs[p].pc # "idle" => runs[p].item \in Item /\ runs[p].draft \in Draft
    /\ runs[p].pc \in {"describing", "updating", "evaluated", "rechecked", "posting"} =>
          Exists(runs[p].draft)
    /\ runs[p].pc \in {"updating", "evaluated", "rechecked", "posting"} =>
          runs[p].snapshot = drafts[runs[p].draft].snapshot
    /\ runs[p].pc \in {"updating", "evaluated", "rechecked", "posting", "recording"} =>
          runs[p].revision \in Revision
    /\ runs[p].pc \in {"evaluated", "rechecked", "posting"} => runs[p].snapshot \in runs[p].seen
    /\ runs[p].pc = "posting" => attempts[runs[p].draft][runs[p].revision] = "claimed"

RunInv == \A p \in Process : RunOK(p)

\* One command at a time posts a revision: the row of its attempt was new.
PostersDiffer ==
    \A p, q \in Process :
        runs[p].pc = "posting" /\ runs[q].pc = "posting" /\ p # q =>
            <<runs[p].draft, runs[p].revision>> # <<runs[q].draft, runs[q].revision>>

IInv == TypeOK /\ LinkedTogether /\ DraftInv /\ RepliedInv /\ RunInv /\ PostersDiffer

-----------------------------------------------------------------------------
(***************************************************************************)
(* Steps of one command that leave the store alone.                        *)
(***************************************************************************)
LEMMA Bounds == MaxRevision \in Nat \ {0} /\ 1 \in Revision /\ 0 \notin Revision
BY ReplyAssumption DEF Revision

LEMMA IdleType == Idle \in RunState
BY ReplyAssumption DEF Idle, RunState, Shown, Time, Snapshot

LEMMA CommandGoesOn ==
    ASSUME IInv, NEW p \in Process, NEW w \in RunState, w.pc # "posting",
           runs' = [runs EXCEPT ![p] = w], RunOK(p)',
           UNCHANGED <<now, items, drafts, attempts, links, replied, marks, history>>
    PROVE  IInv'
<1>1. TypeOK'
  BY DEF IInv, TypeOK
<1>2. LinkedTogether' /\ DraftInv' /\ RepliedInv'
  BY DEF IInv, LinkedTogether, DraftInv, RepliedInv, Exists
<1>3. runs'[p] = w /\ \A q \in Process : q # p => runs'[q] = runs[q]
  BY DEF IInv, TypeOK
<1>4. RunInv'
  <2> SUFFICES ASSUME NEW q \in Process, q # p PROVE RunOK(q)'
    BY DEF RunInv
  <2> QED  BY <1>3 DEF IInv, RunInv, RunOK, Exists
<1>5. PostersDiffer'
  BY <1>3 DEF IInv, PostersDiffer
<1> QED  BY <1>1, <1>2, <1>4, <1>5 DEF IInv

LEMMA BeginReplyStep ==
    ASSUME IInv, NEW p \in Process, NEW i \in Item, NEW d \in Draft, BeginReply(p, i, d)
    PROVE  IInv'
<1> DEFINE w == [Idle EXCEPT !.pc = "creating", !.item = i, !.draft = d,
                             !.snapshot = items[i].snapshot, !.at = now]
<1>1. items[i].snapshot \in Shown /\ now \in Time
  BY DEF IInv, TypeOK, BeginReply, Usable, Shown
<1>2. w \in RunState /\ w.pc = "creating" /\ w.item = i /\ w.draft = d
  BY <1>1, IdleType DEF RunState, Idle
<1>3. runs' = [runs EXCEPT ![p] = w]
  BY DEF BeginReply
<1> HIDE DEF w
<1>4. RunOK(p)'
  BY <1>2, <1>3 DEF IInv, TypeOK, RunOK
<1> QED  BY <1>2, <1>3, <1>4, CommandGoesOn DEF BeginReply

LEMMA BeginUpdateStep ==
    ASSUME IInv, NEW p \in Process, NEW d \in Draft, BeginUpdate(p, d)
    PROVE  IInv'
<1> DEFINE w == [Idle EXCEPT !.pc = "updating", !.item = drafts[d].item, !.draft = d,
                             !.revision = drafts[d].revision + 1, !.snapshot = drafts[d].snapshot]
<1>1. drafts[d].revision + 1 \in Revision /\ drafts[d].snapshot \in Shown /\ drafts[d].item \in Item
  BY Bounds DEF IInv, TypeOK, BeginUpdate, DraftInv, Loads, Exists, Revision
<1>2. /\ w \in RunState /\ w.pc = "updating" /\ w.item \in Item /\ w.draft = d
      /\ w.revision \in Revision /\ w.snapshot = drafts[d].snapshot
  BY <1>1, IdleType DEF RunState, Idle
<1>3. runs' = [runs EXCEPT ![p] = w] /\ UNCHANGED drafts /\ Exists(d)
  BY DEF BeginUpdate, Loads
<1> HIDE DEF w
<1>4. RunOK(p)'
  BY <1>2, <1>3 DEF IInv, TypeOK, RunOK, Exists
<1> QED  BY <1>2, <1>3, <1>4, CommandGoesOn DEF BeginUpdate

LEMMA BeginSendStep ==
    ASSUME IInv, NEW p \in Process, NEW d \in Draft, BeginSend(p, d)
    PROVE  IInv'
<1> DEFINE w == [Idle EXCEPT !.pc = "evaluated", !.item = drafts[d].item, !.draft = d,
                             !.revision = drafts[d].revision, !.snapshot = drafts[d].snapshot,
                             !.seen = {items[drafts[d].item].snapshot}]
<1>1. /\ drafts[d].revision \in Revision /\ drafts[d].snapshot \in Shown /\ drafts[d].item \in Item
      /\ items[drafts[d].item].snapshot = drafts[d].snapshot
      /\ drafts[d].snapshot \in Snapshot
  BY DEF IInv, TypeOK, BeginSend, DraftInv, Loads, Exists, Revision, Revalidated, SameTarget, Shown, Snapshot
<1>2. /\ w \in RunState /\ w.pc = "evaluated" /\ w.item \in Item /\ w.draft = d
      /\ w.revision \in Revision /\ w.snapshot = drafts[d].snapshot /\ w.snapshot \in w.seen
  BY <1>1, IdleType DEF RunState, Idle
<1>3. runs' = [runs EXCEPT ![p] = w] /\ UNCHANGED drafts /\ Exists(d)
  BY DEF BeginSend, Loads
<1> HIDE DEF w
<1>4. RunOK(p)'
  BY <1>2, <1>3 DEF IInv, TypeOK, RunOK, Exists
<1> QED  BY <1>2, <1>3, <1>4, CommandGoesOn DEF BeginSend

LEMMA RecheckTargetStep ==
    ASSUME IInv, NEW p \in Process, RecheckTarget(p)
    PROVE  IInv'
<1> DEFINE w == [runs[p] EXCEPT !.pc = "rechecked"]
<1>1. runs[p] \in RunState /\ runs[p].pc = "evaluated" /\ RunOK(p)
  BY DEF IInv, TypeOK, RunInv, RecheckTarget
<1>2. /\ w \in RunState /\ w.pc = "rechecked" /\ w.item = runs[p].item /\ w.draft = runs[p].draft
      /\ w.revision = runs[p].revision /\ w.snapshot = runs[p].snapshot /\ w.seen = runs[p].seen
  BY <1>1 DEF RunState
<1>3. runs' = [runs EXCEPT ![p] = w] /\ UNCHANGED drafts
  BY DEF RecheckTarget
<1> HIDE DEF w
<1>4. RunOK(p)'
  BY <1>1, <1>2, <1>3 DEF IInv, TypeOK, RunOK, Exists
<1> QED  BY <1>2, <1>3, <1>4, CommandGoesOn DEF RecheckTarget

LEMMA BeginRecordRepliedStep ==
    ASSUME IInv, NEW p \in Process, NEW i \in Item, NEW d \in Draft, NEW r \in Revision,
           BeginRecordReplied(p, i, d, r)
    PROVE  IInv'
<1> DEFINE w == [Idle EXCEPT !.pc = "recording", !.item = i, !.draft = d, !.revision = r]
<1>1. w \in RunState /\ w.pc = "recording" /\ w.item = i /\ w.draft = d /\ w.revision = r
  BY IdleType DEF RunState, Idle
<1>2. runs' = [runs EXCEPT ![p] = w]
  BY DEF BeginRecordReplied
<1> HIDE DEF w
<1>3. RunOK(p)'
  BY <1>1, <1>2 DEF IInv, TypeOK, RunOK
<1> QED  BY <1>1, <1>2, <1>3, CommandGoesOn DEF BeginRecordReplied

LEMMA AbandonStep ==
    ASSUME IInv, NEW p \in Process, Abandon(p)
    PROVE  IInv'
<1>1. RunOK(p)'
  BY DEF IInv, TypeOK, RunOK, Abandon, Idle
<1>2. Idle.pc # "posting"
  BY DEF Idle
<1> QED  BY <1>1, <1>2, IdleType, CommandGoesOn DEF Abandon

-----------------------------------------------------------------------------
(***************************************************************************)
(* Steps of the inbox and the clock.                                       *)
(***************************************************************************)
LEMMA TickStep ==
    ASSUME IInv, Tick
    PROVE  IInv'
<1>1. TypeOK'
  BY ReplyAssumption DEF IInv, TypeOK, Tick, Time
<1> QED  BY <1>1 DEF IInv, Tick, LinkedTogether, DraftInv, RepliedInv, RunInv, RunOK,
                     PostersDiffer, Exists

LEMMA ObserveStep ==
    ASSUME IInv, NEW i \in Item, NEW s \in Snapshot, Observe(i, s)
    PROVE  IInv'
<1> DEFINE Seen(p) == IF Sending(p) /\ runs[p].item = i THEN runs[p].seen \cup {s} ELSE runs[p].seen
<1>1. \A p \in Process :
        /\ runs'[p] \in RunState
        /\ runs'[p].pc = runs[p].pc /\ runs'[p].item = runs[p].item /\ runs'[p].draft = runs[p].draft
        /\ runs'[p].revision = runs[p].revision /\ runs'[p].snapshot = runs[p].snapshot
        /\ runs'[p].seen = Seen(p)
  <2> SUFFICES ASSUME NEW p \in Process
               PROVE  /\ runs'[p] \in RunState
                      /\ runs'[p].pc = runs[p].pc /\ runs'[p].item = runs[p].item
                      /\ runs'[p].draft = runs[p].draft /\ runs'[p].revision = runs[p].revision
                      /\ runs'[p].snapshot = runs[p].snapshot /\ runs'[p].seen = Seen(p)
    OBVIOUS
  <2>1. runs[p] \in RunState
    BY DEF IInv, TypeOK
  <2>2. CASE Sending(p) /\ runs[p].item = i
    <3>1. runs'[p] = [runs[p] EXCEPT !.seen = @ \cup {s}]
      BY <2>2 DEF Observe
    <3> QED  BY <2>1, <2>2, <3>1 DEF RunState
  <2>3. CASE ~(Sending(p) /\ runs[p].item = i)
    BY <2>1, <2>3 DEF Observe
  <2> QED  BY <2>2, <2>3
<1>2. TypeOK'
  <2>1. runs' \in [Process -> RunState]
    BY <1>1 DEF Observe
  <2>2. items' \in [Item -> [snapshot : Snapshot, observed : Time]]
    BY DEF IInv, TypeOK, Observe
  <2> QED  BY <2>1, <2>2 DEF IInv, TypeOK, Observe
<1>3. LinkedTogether' /\ DraftInv' /\ RepliedInv'
  BY DEF IInv, Observe, LinkedTogether, DraftInv, RepliedInv, Exists
<1>4. RunInv'
  <2> SUFFICES ASSUME NEW p \in Process PROVE RunOK(p)'
    BY DEF RunInv
  <2>1. RunOK(p) /\ runs[p].seen \subseteq Seen(p)
    BY DEF IInv, RunInv
  <2> QED  BY <1>1, <2>1 DEF RunOK, Exists, Observe
<1>5. PostersDiffer'
  <2> HIDE DEF Seen
  <2> SUFFICES ASSUME NEW p \in Process, NEW q \in Process, p # q,
                      runs'[p].pc = "posting", runs'[q].pc = "posting"
               PROVE  <<runs'[p].draft, runs'[p].revision>> # <<runs'[q].draft, runs'[q].revision>>
    BY DEF PostersDiffer
  <2>1. <<runs[p].draft, runs[p].revision>> # <<runs[q].draft, runs[q].revision>>
    BY <1>1 DEF IInv, PostersDiffer
  <2> QED  BY <1>1, <2>1
<1> QED  BY <1>2, <1>3, <1>4, <1>5 DEF IInv

LEMMA ApplyMarkStep ==
    ASSUME IInv, NEW I \in SUBSET Item, NEW mark \in Mark, ApplyMark(I, mark)
    PROVE  IInv'
<1>1. TypeOK'
  <2>1. marks' \in [Item -> [Mark -> Time \cup {Never}]]
    BY DEF IInv, TypeOK, ApplyMark
  <2>2. history' \subseteq [item : Item, type : Mark \cup {"reply_linked"}, at : Time]
    BY DEF IInv, TypeOK, ApplyMark
  <2> QED  BY <2>1, <2>2 DEF IInv, TypeOK, ApplyMark
<1> QED  BY <1>1 DEF IInv, ApplyMark, LinkedTogether, DraftInv, RepliedInv, RunInv, RunOK,
                     PostersDiffer, Exists

-----------------------------------------------------------------------------
(***************************************************************************)
(* Steps of a command that change the store.                               *)
(***************************************************************************)

\* The run of a command ends; what the others carry is still true.
LEMMA CommandEnds ==
    ASSUME IInv, NEW p \in Process, runs' = [runs EXCEPT ![p] = Idle],
           \A q \in Process : q # p =>
              /\ runs[q].draft \in Draft /\ drafts[runs[q].draft].revision > 0 =>
                    /\ drafts'[runs[q].draft].revision > 0
                    /\ drafts'[runs[q].draft].snapshot = drafts[runs[q].draft].snapshot
              /\ runs[q].pc = "posting" =>
                    attempts'[runs[q].draft][runs[q].revision] = attempts[runs[q].draft][runs[q].revision]
    PROVE  runs' \in [Process -> RunState] /\ RunInv' /\ PostersDiffer'
<1>1. runs' \in [Process -> RunState]
  BY IdleType DEF IInv, TypeOK
<1>2. runs'[p] = Idle /\ \A q \in Process : q # p => runs'[q] = runs[q]
  BY DEF IInv, TypeOK
<1>3. Idle.pc = "idle"
  BY DEF Idle
<1>4. RunInv'
  <2> SUFFICES ASSUME NEW q \in Process PROVE RunOK(q)'
    BY DEF RunInv
  <2>1. CASE q = p
    BY <1>2, <1>3, <2>1 DEF RunOK
  <2>2. CASE q # p
    <3>1. runs'[q] = runs[q] /\ RunOK(q)
      BY <1>2, <2>2 DEF IInv, RunInv
    <3> QED  BY <2>2, <3>1 DEF RunOK, Exists
  <2> QED  BY <2>1, <2>2
<1>5. PostersDiffer'
  BY <1>2, <1>3 DEF IInv, PostersDiffer
<1> QED  BY <1>1, <1>4, <1>5

LEMMA PersistReplyStep ==
    ASSUME IInv, NEW p \in Process, PersistReply(p)
    PROVE  IInv'
<1>0. PICK i \in Item, d \in Draft : i = runs[p].item /\ d = runs[p].draft
  BY DEF IInv, RunInv, RunOK, PersistReply
<1> DEFINE new == [revision |-> 1, item |-> i, snapshot |-> runs[p].snapshot, described |-> FALSE]
           w == [runs[p] EXCEPT !.pc = "describing"]
<1>1. /\ i \in Item /\ d \in Draft /\ ~Exists(d) /\ links[i] \in {NoDraft, d}
      /\ runs[p] \in RunState /\ runs[p].snapshot \in Shown /\ runs[p].at \in Time
      /\ runs' = [runs EXCEPT ![p] = w] /\ drafts' = [drafts EXCEPT ![d] = new]
      /\ links' = [links EXCEPT ![i] = d]
      /\ UNCHANGED <<now, items, attempts, replied, marks>>
  <2>1. ~Exists(d) /\ links[i] \in {NoDraft, d}
    BY <1>0 DEF PersistReply, Persistable, LinkFree
  <2>2. runs[p] \in RunState /\ runs[p].snapshot \in Shown /\ runs[p].at \in Time
    BY DEF IInv, TypeOK, RunState
  <2>3. runs' = [runs EXCEPT ![p] = w]
    BY DEF PersistReply
  <2>4. drafts' = [drafts EXCEPT ![d] = new] /\ links' = [links EXCEPT ![i] = d]
    BY <1>0 DEF PersistReply
  <2> QED  BY <2>1, <2>2, <2>3, <2>4 DEF PersistReply
<1>2. w \in RunState /\ w.pc = "describing" /\ w.item = i /\ w.draft = d
  BY <1>0, <1>1 DEF RunState
<1>3. new.revision = 1 /\ new.item = i /\ new \in [revision : Revision \cup {0}, item : Item \cup {NoItem},
                             snapshot : Shown, described : BOOLEAN]
  BY <1>1, Bounds
<1>4. history' \subseteq [item : Item, type : Mark \cup {"reply_linked"}, at : Time]
  BY <1>0, <1>1 DEF IInv, TypeOK, PersistReply
<1>5. drafts'[d] = new /\ \A e \in Draft : e # d => drafts'[e] = drafts[e]
  BY <1>1 DEF IInv, TypeOK
<1>6. links'[i] = d /\ \A j \in Item : j # i => links'[j] = links[j]
  BY <1>1 DEF IInv, TypeOK
<1>7. runs'[p] = w /\ \A q \in Process : q # p => runs'[q] = runs[q]
  BY <1>1 DEF IInv, TypeOK
<1> HIDE DEF new, w
<1>8. TypeOK'
  BY <1>1, <1>2, <1>3, <1>4 DEF IInv, TypeOK
<1>9. LinkedTogether'
  <2> SUFFICES ASSUME NEW j \in Item, NEW e \in Draft
               PROVE  links'[j] = e <=> (Exists(e)' /\ drafts'[e].item = j)
    BY DEF LinkedTogether
  <2>1. CASE e = d
    <3>1. links[j] # d /\ Exists(d)'
      BY <1>1, <1>3, <1>5 DEF IInv, LinkedTogether, Exists
    <3> QED  BY <1>3, <1>5, <1>6, <2>1, <3>1
  <2>2. CASE e # d
    <3>1. links[i] # e /\ (links[j] = e <=> (Exists(e) /\ drafts[e].item = j))
      BY <1>1, <2>2, ReplyAssumption DEF IInv, LinkedTogether
    <3>2. Exists(e)' <=> Exists(e)
      BY <1>5, <2>2 DEF Exists
    <3> QED  BY <1>5, <1>6, <2>2, <3>1, <3>2
  <2> QED  BY <2>1, <2>2
<1>10. DraftInv'
  BY <1>1, <1>3, <1>5 DEF IInv, DraftInv, Exists
<1>11. RepliedInv'
  BY <1>1 DEF IInv, RepliedInv
<1>12. RunInv'
  <2> SUFFICES ASSUME NEW q \in Process PROVE RunOK(q)'
    BY DEF RunInv
  <2>1. CASE q = p
    BY <1>1, <1>2, <1>3, <1>5, <1>7, <2>1 DEF RunOK, Exists
  <2>2. CASE q # p
    <3>1. runs'[q] = runs[q] /\ RunOK(q)
      BY <1>7, <2>2 DEF IInv, RunInv
    <3>2. \A e \in Draft : Exists(e) => Exists(e)' /\ drafts'[e] = drafts[e]
      BY <1>1, <1>5 DEF Exists
    <3> QED  BY <1>1, <3>1, <3>2 DEF RunOK
  <2> QED  BY <2>1, <2>2
<1>13. PostersDiffer'
  BY <1>2, <1>7 DEF IInv, PostersDiffer
<1> QED  BY <1>8, <1>9, <1>10, <1>11, <1>12, <1>13 DEF IInv

LEMMA DescribeReplyStep ==
    ASSUME IInv, NEW p \in Process, DescribeReply(p)
    PROVE  IInv'
<1>1. /\ runs' = [runs EXCEPT ![p] = Idle] /\ runs[p].draft \in Draft
      /\ UNCHANGED <<now, items, attempts, links, replied, marks, history>>
  BY DEF IInv, RunInv, RunOK, DescribeReply
<1>2. \A e \in Draft :
        /\ drafts'[e].revision = drafts[e].revision /\ drafts'[e].item = drafts[e].item
        /\ drafts'[e].snapshot = drafts[e].snapshot
  BY DEF IInv, TypeOK, DescribeReply
<1>3. drafts' \in [Draft -> [revision : Revision \cup {0}, item : Item \cup {NoItem},
                             snapshot : Shown, described : BOOLEAN]]
  BY DEF IInv, TypeOK, DescribeReply
<1>4. runs' \in [Process -> RunState] /\ RunInv' /\ PostersDiffer'
  BY <1>1, <1>2, CommandEnds DEF Exists
<1>5. TypeOK'
  BY <1>1, <1>3, <1>4 DEF IInv, TypeOK
<1>6. LinkedTogether' /\ DraftInv' /\ RepliedInv'
  BY <1>1, <1>2 DEF IInv, LinkedTogether, DraftInv, RepliedInv, Exists
<1> QED  BY <1>4, <1>5, <1>6 DEF IInv

\* A new revision carries the reference of the old one.
LEMMA RevisionKeepsReference ==
    ASSUME IInv, NEW p \in Process, PersistRevision(p)
    PROVE  /\ drafts' \in [Draft -> [revision : Revision \cup {0}, item : Item \cup {NoItem},
                                    snapshot : Shown, described : BOOLEAN]]
           /\ \A e \in Draft :
                 /\ Exists(e)' <=> Exists(e)
                 /\ drafts'[e].item = drafts[e].item /\ drafts'[e].snapshot = drafts[e].snapshot
<1> DEFINE d == runs[p].draft
           new == [drafts[d] EXCEPT !.revision = runs[p].revision, !.snapshot = runs[p].snapshot]
<1>1. /\ d \in Draft /\ Exists(d) /\ runs[p].snapshot = drafts[d].snapshot
      /\ runs[p].revision \in Revision
      /\ drafts' = [drafts EXCEPT ![d] = new]
  BY DEF IInv, RunInv, RunOK, PersistRevision
<1>2. /\ new \in [revision : Revision \cup {0}, item : Item \cup {NoItem},
                  snapshot : Shown, described : BOOLEAN]
      /\ new.item = drafts[d].item /\ new.snapshot = drafts[d].snapshot /\ new.revision > 0
  <2>1. drafts[d] \in [revision : Revision \cup {0}, item : Item \cup {NoItem},
                       snapshot : Shown, described : BOOLEAN]
    BY <1>1 DEF IInv, TypeOK
  <2>2. new.revision = runs[p].revision /\ new.snapshot = runs[p].snapshot
        /\ new.item = drafts[d].item
    BY <1>1, <2>1
  <2>3. runs[p].revision > 0
    BY <1>1, Bounds DEF Revision
  <2>4. runs[p].revision \in Revision \cup {0} /\ runs[p].snapshot \in Shown
    BY <1>1, <2>1
  <2>5. new \in [revision : Revision \cup {0}, item : Item \cup {NoItem},
                 snapshot : Shown, described : BOOLEAN]
    BY <2>1, <2>4
  <2> QED  BY <1>1, <2>2, <2>3, <2>5
<1>3. drafts'[d] = new /\ \A e \in Draft : e # d => drafts'[e] = drafts[e]
  BY <1>1 DEF IInv, TypeOK
<1> HIDE DEF new
<1> QED  BY <1>1, <1>2, <1>3 DEF IInv, TypeOK, Exists

LEMMA PersistRevisionStep ==
    ASSUME IInv, NEW p \in Process, PersistRevision(p)
    PROVE  IInv'
<1>1. /\ runs' = [runs EXCEPT ![p] = Idle]
      /\ UNCHANGED <<now, items, attempts, links, replied, marks, history>>
  BY DEF PersistRevision
<1>2. runs' \in [Process -> RunState] /\ RunInv' /\ PostersDiffer'
  BY <1>1, RevisionKeepsReference, CommandEnds DEF Exists
<1>3. TypeOK'
  BY <1>1, <1>2, RevisionKeepsReference DEF IInv, TypeOK
<1>4. LinkedTogether' /\ DraftInv' /\ RepliedInv'
  BY <1>1, RevisionKeepsReference DEF IInv, LinkedTogether, DraftInv, RepliedInv
<1> QED  BY <1>2, <1>3, <1>4 DEF IInv

LEMMA ClaimReplyStep ==
    ASSUME IInv, NEW p \in Process, ClaimReply(p)
    PROVE  IInv'
<1> DEFINE d == runs[p].draft
           r == runs[p].revision
           w == [runs[p] EXCEPT !.pc = "posting"]
<1>1. /\ d \in Draft /\ r \in Revision /\ attempts[d][r] = "none" /\ Exists(d)
      /\ runs[p] \in RunState /\ runs[p].pc = "rechecked" /\ RunOK(p)
      /\ attempts' = [attempts EXCEPT ![d][r] = "claimed"]
      /\ runs' = [runs EXCEPT ![p] = w]
      /\ UNCHANGED <<now, items, drafts, links, replied, marks, history>>
  BY DEF IInv, TypeOK, RunInv, RunOK, ClaimReply
<1>2. /\ w \in RunState /\ w.pc = "posting" /\ w.item = runs[p].item /\ w.draft = d
      /\ w.revision = r /\ w.snapshot = runs[p].snapshot /\ w.seen = runs[p].seen
  BY <1>1 DEF RunState
<1>3. runs'[p] = w /\ \A q \in Process : q # p => runs'[q] = runs[q]
  BY <1>1 DEF IInv, TypeOK
<1>4. /\ attempts'[d][r] = "claimed"
      /\ \A e \in Draft, s \in Revision : <<e, s>> # <<d, r>> => attempts'[e][s] = attempts[e][s]
  BY <1>1 DEF IInv, TypeOK
<1> HIDE DEF w
<1>5. TypeOK'
  BY <1>1, <1>2 DEF IInv, TypeOK
<1>6. LinkedTogether' /\ DraftInv'
  BY <1>1 DEF IInv, LinkedTogether, DraftInv, Exists
<1>7. RepliedInv'
  <2> SUFFICES ASSUME NEW e \in Draft, replied[e] # 0 PROVE attempts'[e][replied[e]] = "accepted"
    BY <1>1 DEF RepliedInv
  <2>1. replied[e] \in Revision /\ attempts[e][replied[e]] = "accepted"
    BY DEF IInv, TypeOK, RepliedInv
  <2> QED  BY <1>1, <1>4, <2>1
<1>8. \A q \in Process : q # p /\ runs[q].pc = "posting" =>
        <<runs[q].draft, runs[q].revision>> # <<d, r>>
  BY <1>1 DEF IInv, RunInv, RunOK
<1>9. RunInv'
  <2> SUFFICES ASSUME NEW q \in Process PROVE RunOK(q)'
    BY DEF RunInv
  <2>1. CASE q = p
    BY <1>1, <1>2, <1>3, <1>4, <2>1 DEF RunOK, Exists
  <2>2. CASE q # p
    <3>1. runs'[q] = runs[q] /\ RunOK(q)
      BY <1>3, <2>2 DEF IInv, RunInv
    <3> QED  BY <1>1, <1>4, <1>8, <2>2, <3>1 DEF RunOK, Exists
  <2> QED  BY <2>1, <2>2
<1>10. PostersDiffer'
  BY <1>2, <1>3, <1>8 DEF IInv, PostersDiffer
<1> QED  BY <1>5, <1>6, <1>7, <1>9, <1>10 DEF IInv

LEMMA RecordOutcomeStep ==
    ASSUME IInv, NEW p \in Process, NEW outcome \in {"accepted", "failed", "unknown"},
           RecordOutcome(p, outcome)
    PROVE  IInv'
<1> DEFINE d == runs[p].draft
           r == runs[p].revision
<1>1. /\ d \in Draft /\ r \in Revision /\ attempts[d][r] = "claimed" /\ runs[p].pc = "posting"
      /\ attempts' = [attempts EXCEPT ![d][r] = outcome]
      /\ runs' = [runs EXCEPT ![p] = Idle]
      /\ UNCHANGED <<now, items, drafts, links, replied, marks, history>>
  BY DEF IInv, RunInv, RunOK, RecordOutcome
<1>2. \A e \in Draft, s \in Revision : <<e, s>> # <<d, r>> => attempts'[e][s] = attempts[e][s]
  BY <1>1 DEF IInv, TypeOK
<1>3. \A q \in Process : q # p /\ runs[q].pc = "posting" =>
        attempts'[runs[q].draft][runs[q].revision] = attempts[runs[q].draft][runs[q].revision]
  BY <1>1, <1>2 DEF IInv, PostersDiffer, RunInv, RunOK
<1>4. runs' \in [Process -> RunState] /\ RunInv' /\ PostersDiffer'
  BY <1>1, <1>3, CommandEnds DEF Exists
<1>5. TypeOK'
  BY <1>1, <1>4 DEF IInv, TypeOK
<1>6. LinkedTogether' /\ DraftInv'
  BY <1>1 DEF IInv, LinkedTogether, DraftInv, Exists
<1>7. RepliedInv'
  <2> SUFFICES ASSUME NEW e \in Draft, replied[e] # 0 PROVE attempts'[e][replied[e]] = "accepted"
    BY <1>1 DEF RepliedInv
  <2>1. replied[e] \in Revision /\ attempts[e][replied[e]] = "accepted"
    BY DEF IInv, TypeOK, RepliedInv
  <2> QED  BY <1>1, <1>2, <2>1
<1> QED  BY <1>4, <1>5, <1>6, <1>7 DEF IInv

LEMMA RecordRepliedStep ==
    ASSUME IInv, NEW p \in Process, RecordReplied(p)
    PROVE  IInv'
<1>1. /\ runs[p].draft \in Draft /\ runs[p].revision \in Revision
      /\ attempts[runs[p].draft][runs[p].revision] = "accepted"
      /\ replied' = [replied EXCEPT ![runs[p].draft] = runs[p].revision]
      /\ runs' = [runs EXCEPT ![p] = Idle]
      /\ UNCHANGED <<now, items, drafts, attempts, links, marks, history>>
  BY DEF IInv, RunInv, RunOK, RecordReplied, EvidenceMatches
<1>2. runs' \in [Process -> RunState] /\ RunInv' /\ PostersDiffer'
  BY <1>1, CommandEnds DEF Exists
<1>3. TypeOK'
  BY <1>1, <1>2 DEF IInv, TypeOK
<1>4. LinkedTogether' /\ DraftInv' /\ RepliedInv'
  BY <1>1 DEF IInv, TypeOK, LinkedTogether, DraftInv, RepliedInv, Exists
<1> QED  BY <1>2, <1>3, <1>4 DEF IInv

-----------------------------------------------------------------------------
(***************************************************************************)
(* Every step, and the theorems.                                           *)
(***************************************************************************)
LEMMA InitialState == Init => IInv
<1> SUFFICES ASSUME Init PROVE IInv
  OBVIOUS
<1>1. TypeOK
  BY IdleType, ReplyAssumption
     DEF Init, TypeOK, NoReply, Snapshot, Shown, Time, Never
<1>2. LinkedTogether /\ DraftInv /\ RepliedInv
  BY ReplyAssumption DEF Init, LinkedTogether, DraftInv, RepliedInv, Exists, NoReply
<1>3. RunInv /\ PostersDiffer
  BY DEF Init, RunInv, RunOK, PostersDiffer, Idle
<1> QED  BY <1>1, <1>2, <1>3 DEF IInv

LEMMA EveryStep == IInv /\ [Next]_vars => IInv'
<1> SUFFICES ASSUME IInv, [Next]_vars PROVE IInv'
  OBVIOUS
<1>1. CASE Inbox
  BY <1>1, TickStep, ObserveStep, ApplyMarkStep DEF Inbox
<1>2. ASSUME NEW p \in Process, Create(p) PROVE IInv'
  BY <1>2, BeginReplyStep, PersistReplyStep, DescribeReplyStep DEF Create
<1>3. ASSUME NEW p \in Process, Update(p) PROVE IInv'
  BY <1>3, BeginUpdateStep, PersistRevisionStep DEF Update
<1>4. ASSUME NEW p \in Process, Send(p) PROVE IInv'
  BY <1>4, BeginSendStep, RecheckTargetStep, ClaimReplyStep, RecordOutcomeStep DEF Send
<1>5. ASSUME NEW p \in Process, Replied(p) PROVE IInv'
  BY <1>5, BeginRecordRepliedStep, RecordRepliedStep DEF Replied
<1>6. ASSUME NEW p \in Process, Abandon(p) PROVE IInv'
  BY <1>6, AbandonStep
<1>7. CASE UNCHANGED vars
  BY <1>7 DEF vars, IInv, TypeOK, LinkedTogether, DraftInv, RepliedInv, RunInv, RunOK,
              PostersDiffer, Exists
<1> QED  BY <1>1, <1>2, <1>3, <1>4, <1>5, <1>6, <1>7 DEF Next

LEMMA Invariance == Spec => []IInv
BY InitialState, EveryStep, PTL DEF Spec

\* No draft and no command ever carries the snapshot of a deleted target.
THEOREM ReplyTypeCorrect == Spec => []TypeOK
<1>1. IInv => TypeOK
  BY DEF IInv
<1> QED  BY <1>1, Invariance, PTL

\* A reply draft and the link of its item are there together, whatever commands
\* race for the item or the draft identifier.
THEOREM DraftsAndLinksArePaired == Spec => []LinkedTogether
<1>1. IInv => LinkedTogether
  BY DEF IInv
<1> QED  BY <1>1, Invariance, PTL

\* A send that reaches its claim saw what its reply was written for.
THEOREM ClaimsAreForShownTargets == Spec => []ClaimedForShownTarget
<1>1. IInv => ClaimedForShownTarget
  BY DEF IInv, RunInv, RunOK, ClaimedForShownTarget
<1> QED  BY <1>1, Invariance, PTL

\* An item is only ever reported replied with an accepted attempt of its draft.
THEOREM RepliesAreAccepted == Spec => []RepliedIsAccepted
<1>1. IInv => RepliedIsAccepted
  <2> SUFFICES ASSUME IInv, NEW i \in Item PROVE ReplyStatus(i) # "conflict"
    BY DEF RepliedIsAccepted
  <2>1. links[i] # NoDraft => links[i] \in Draft
    BY DEF IInv, TypeOK
  <2> QED  BY <2>1 DEF IInv, RepliedInv, ReplyStatus
<1> QED  BY <1>1, Invariance, PTL

\* The recorded evidence of a reply is not replaced.
THEOREM EvidenceOfReplyIsFinal == Spec => RepliedIsFinal
<1> DEFINE Step == \A d \in Draft : replied[d] # 0 => replied'[d] = replied[d]
<1>1. IInv /\ [Next]_vars => [Step]_vars
  <2> SUFFICES ASSUME IInv, Next PROVE Step
    OBVIOUS
  <2>1. CASE Inbox
    BY <2>1 DEF Inbox, Tick, Observe, ApplyMark
  <2>2. ASSUME NEW p \in Process, RecordReplied(p) PROVE Step
    BY <2>2 DEF IInv, TypeOK, RecordReplied, NotYetReplied
  <2>3. ASSUME NEW p \in Process, Create(p) \/ Update(p) \/ Send(p) \/ Abandon(p) PROVE Step
    BY <2>3 DEF Create, BeginReply, PersistReply, DescribeReply, Update, BeginUpdate, PersistRevision,
                Send, BeginSend, RecheckTarget, ClaimReply, RecordOutcome, Abandon
  <2>4. ASSUME NEW p \in Process, NEW i \in Item, NEW d \in Draft, NEW r \in Revision,
               BeginRecordReplied(p, i, d, r)
        PROVE  Step
    BY <2>4 DEF BeginRecordReplied
  <2> QED  BY <2>1, <2>2, <2>3, <2>4 DEF Next, Replied
<1> QED  BY <1>1, Invariance, PTL DEF Spec, RepliedIsFinal

\* A link, and what its draft answers, never change.
THEOREM LinksAreForEver == Spec => LinkIsForEver
<1> DEFINE Step == \A i \in Item : links[i] # NoDraft =>
                      /\ links'[i] = links[i]
                      /\ drafts'[links[i]].item = drafts[links[i]].item
                      /\ drafts'[links[i]].snapshot = drafts[links[i]].snapshot
<1>1. IInv /\ [Next]_vars => [Step]_vars
  <2> SUFFICES ASSUME IInv, Next PROVE Step
    OBVIOUS
  <2>1. CASE UNCHANGED <<links, drafts>>
    BY <2>1
  <2>2. ASSUME NEW p \in Process, PersistReply(p) PROVE Step
    <3> SUFFICES ASSUME NEW i \in Item, links[i] # NoDraft
                 PROVE  /\ links'[i] = links[i]
                        /\ drafts'[links[i]] = drafts[links[i]]
      OBVIOUS
    <3>1. links[i] \in Draft /\ Exists(links[i])
      BY DEF IInv, TypeOK, LinkedTogether
    <3>2. runs[p].item \in Item /\ runs[p].draft \in Draft
          /\ links[i] # runs[p].draft /\ i # runs[p].item
      BY <2>2, <3>1 DEF IInv, RunInv, RunOK, PersistReply, Persistable, LinkFree
    <3> QED  BY <2>2, <3>1, <3>2 DEF IInv, TypeOK, PersistReply
  <2>3. ASSUME NEW p \in Process, DescribeReply(p) PROVE Step
    BY <2>3 DEF IInv, TypeOK, RunInv, RunOK, DescribeReply
  <2>4. ASSUME NEW p \in Process, PersistRevision(p) PROVE Step
    BY <2>4, RevisionKeepsReference DEF IInv, TypeOK, PersistRevision
  <2>5. Inbox => UNCHANGED <<links, drafts>>
    BY DEF Inbox, Tick, Observe, ApplyMark
  <2>6. \A p \in Process :
          \/ \E i \in Item, d \in Draft : BeginReply(p, i, d)
          \/ \E d \in Draft : BeginUpdate(p, d)
          \/ Send(p) \/ Replied(p) \/ Abandon(p)
          => UNCHANGED <<links, drafts>>
    BY DEF BeginReply, BeginUpdate, Send, BeginSend, RecheckTarget, ClaimReply, RecordOutcome,
           Replied, BeginRecordReplied, RecordReplied, Abandon
  <2> QED  BY <2>1, <2>2, <2>3, <2>4, <2>5, <2>6 DEF Next, Create, Update
<1> QED  BY <1>1, Invariance, PTL DEF Spec, LinkIsForEver

=============================================================================
