------------------------- MODULE InvocationProofs --------------------------
(***************************************************************************)
(* The invariants of one invocation, for every value of the bounds: first   *)
(* the messages and requests of Composition, then the command and its      *)
(* output, the setup check, the hash of the configuration and the          *)
(* reconciliation, whose own invariant is proved in ReconcileProofs.  Each *)
(* part has an invariant of its own; the parts share no variable, so the   *)
(* steps of the others leave it alone.                                     *)
(***************************************************************************)
EXTENDS MCInvocation, FiniteSetTheorems, SequenceTheorems, WellFoundedInduction, TLAPS

(***************************************************************************)
(* A message as a function of its nonce.                                   *)
(***************************************************************************)
Body(n) == Normalized(n[1])
Named(n) == {n[2].allowed[Body(n)[i][2]] : i \in Mentions(Body(n))}

Rendered(n) ==
    [body |-> Resolved(Body(n), n[2].allowed), nonce |-> n, destination |-> n[2],
     mentions |-> SetToSeq(Named(n)), reply |-> n[4]]

\* What RenderErrors checks, of what the message keeps.
Renders(n) ==
    /\ MentionErrors(Body(n), n[2].allowed) = {}
    /\ <<"marker">> \notin Range(Body(n))
    /\ ~(Length(Resolved(Body(n), n[2].allowed)) + 1 > MaxLength)

Alias == {"a", "b"}
Known == Token \cup {<<"ping", t>> : t \in Target}

TypedNonce(n) ==
    /\ n[1] \in Seq(Known)
    /\ DOMAIN n[2].allowed \subseteq Alias
    /\ n[2].allowed \in [DOMAIN n[2].allowed -> Target]
    /\ \A c \in n[4] : c = n[2].channel

(***************************************************************************)
(* The inductive invariant.                                                *)
(***************************************************************************)
ConfigInv == config \in [channel : {"c1", "c2"}, mentions : [Alias -> Target], allowed : SUBSET Alias]

RowInv ==
    /\ \A s, t \in row : s = t
    /\ \A s \in row : s.message = Rendered(s.message.nonce) /\ s.message.body \in Seq(Known)

\* The revision in memory has the nonce of the stored one.
RevisionInv ==
    /\ \A q, r \in revision : q = r
    /\ \A r \in revision : TypedNonce(Canonical(r))
    /\ \A r \in revision, s \in row : Canonical(r) = s.message.nonce

MessageInv ==
    /\ message # {} => revision # {}
    /\ \A m \in message, r \in revision : m = Rendered(Canonical(r)) /\ Renders(Canonical(r))

RequestInv ==
    /\ request # {} => message # {}
    /\ \A b \in request, r \in revision : b = RequestBody(Rendered(Canonical(r)))

IInv == ConfigInv /\ RowInv /\ RevisionInv /\ MessageInv /\ RequestInv

-----------------------------------------------------------------------------
(***************************************************************************)
(* Operators.                                                              *)
(***************************************************************************)

\* Equal nonces, equal messages.
LEMMA RenderByNonce == ASSUME NEW r PROVE Render(r) = Rendered(Canonical(r))
BY DEF Render, Rendered, Canonical, Listed, Body, Named

\* A normalised text is a beginning of the text.
LEMMA NormalizedType ==
    ASSUME NEW text \in Seq(Known)
    PROVE  Normalized(text) \in Seq(Known)
<1> DEFINE kept == {i \in DOMAIN text : \E j \in i..Len(text) : text[j] # <<"gap">>}
<1>1. DOMAIN text = 1..Len(text) /\ Len(text) \in Nat
  OBVIOUS
<1>2. IsFiniteSet(1..Len(text)) /\ Cardinality(1..Len(text)) = Len(text)
  BY <1>1, FS_Interval
<1>3. IsFiniteSet(kept) /\ Cardinality(kept) <= Len(text)
  BY <1>1, <1>2, FS_Subset
<1>4. Cardinality(kept) \in Nat
  BY <1>3, FS_CardinalityType
<1> HIDE DEF kept
<1>5. SubSeq(text, 1, Cardinality(kept)) \in Seq(Known)
  <2>1. \A i \in 1..Cardinality(kept) : i \in 1..Len(text)
    BY <1>1, <1>3, <1>4
  <2> QED  BY <1>4, <2>1, SubSeqProperties
<1> QED  BY <1>5 DEF Normalized, kept

LEMMA MentionsInDomain == ASSUME NEW text PROVE Mentions(text) \subseteq DOMAIN text
BY DEF Mentions

\* A text without errors names only aliases of the allowlist.
LEMMA AllowedMentions ==
    ASSUME NEW text, NEW allowed, MentionErrors(text, allowed) = {},
           NEW i \in Mentions(text)
    PROVE  text[i][2] \in DOMAIN allowed
BY DEF MentionErrors

\* The errors of mentions are not "none".
LEMMA MentionErrorsNamed ==
    ASSUME NEW text, NEW allowed
    PROVE  "none" \notin MentionErrors(text, allowed)
BY DEF MentionErrors

LEMMA RendersWithoutError ==
    ASSUME NEW r, NEW at, "none" \in RenderErrors(r, at)
    PROVE  RenderErrors(r, at) = {"none"} /\ Renders(Canonical(r))
<1> DEFINE body == Normalized(r.text)
<1>1. "none" \notin MentionErrors(body, r.destination.allowed)
  BY MentionErrorsNamed
<1>2. /\ ~(at >= r.expires) /\ body # <<>> /\ <<"marker">> \notin Range(body)
      /\ MentionErrors(body, r.destination.allowed) = {}
      /\ ~(Length(Resolved(body, r.destination.allowed)) + 1 > MaxLength)
      /\ RenderErrors(r, at) = {"none"}
  BY <1>1 DEF RenderErrors
<1> QED  BY <1>2 DEF Renders, Body, Canonical

\* A resolved text has known tokens again.
LEMMA ResolvedType ==
    ASSUME NEW n, TypedNonce(n), Renders(n)
    PROVE  Resolved(Body(n), n[2].allowed) \in Seq(Known)
<1>1. Body(n) \in Seq(Known)
  BY NormalizedType DEF TypedNonce, Body
<1>2. \A i \in Mentions(Body(n)) : n[2].allowed[Body(n)[i][2]] \in Target
  BY AllowedMentions DEF Renders, TypedNonce
<1>3. \A i \in DOMAIN Body(n) : Resolved(Body(n), n[2].allowed)[i] \in Known
  <2> SUFFICES ASSUME NEW i \in DOMAIN Body(n) PROVE Resolved(Body(n), n[2].allowed)[i] \in Known
    OBVIOUS
  <2>1. Body(n)[i] \in Known
    BY <1>1
  <2> QED  BY <1>2, <2>1 DEF Resolved, Known
<1>4. Resolved(Body(n), n[2].allowed) \in [1..Len(Body(n)) -> Known]
  BY <1>1, <1>3 DEF Resolved
<1> QED  BY <1>1, <1>4, SeqDef

\* The listed mentions are the named ones, each once.
LEMMA NamedIsFinite ==
    ASSUME NEW n, TypedNonce(n)
    PROVE  IsFiniteSet(Named(n))
<1> DEFINE X == Mentions(Body(n))
           f == [i \in X |-> n[2].allowed[Body(n)[i][2]]]
<1>1. IsFiniteSet(X)
  <2>1. Body(n) \in Seq(Known)
    BY NormalizedType DEF TypedNonce, Body
  <2>2. IsFiniteSet(1..Len(Body(n))) /\ DOMAIN Body(n) = 1..Len(Body(n))
    BY <2>1, FS_Interval
  <2> QED  BY <2>2, MentionsInDomain, FS_Subset
<1>2. f \in Surjection(X, Named(n))
  BY DEF Surjection, Named
<1> QED  BY <1>1, <1>2, FS_Surjection

LEMMA ListOfSet ==
    ASSUME NEW X, IsFiniteSet(X)
    PROVE  Range(SetToSeq(X)) = X /\ Len(SetToSeq(X)) = Cardinality(X)
<1>1. Cardinality(X) \in Nat /\ ExistsBijection(1..Cardinality(X), X)
  BY FS_CardinalityType
<1>2. PICK f \in [1..Cardinality(X) -> X] : IsInjective(f)
  BY <1>1 DEF ExistsBijection, Bijection, Injection
<1>3. SetToSeq(X) \in [1..Cardinality(X) -> X] /\ IsInjective(SetToSeq(X))
  BY <1>2 DEF SetToSeq
<1>4. SetToSeq(X) \in Injection(1..Cardinality(X), X)
  BY <1>3 DEF Injection
<1>5. SetToSeq(X) \in Surjection(1..Cardinality(X), X)
  BY <1>1, <1>4, FS_Injection, FS_Interval
<1>6. Range(SetToSeq(X)) = X
  BY <1>3, <1>5 DEF Surjection, Range
<1>7. SetToSeq(X) \in Seq(X) /\ Len(SetToSeq(X)) = Cardinality(X)
  BY <1>1, <1>3, SeqDef, LenProperties
<1> QED  BY <1>6, <1>7

-----------------------------------------------------------------------------
(***************************************************************************)
(* The invariant.                                                          *)
(***************************************************************************)

LEMMA RenderedBody ==
    ASSUME NEW n, TypedNonce(n), Renders(n)
    PROVE  Rendered(n).body \in Seq(Known) /\ Rendered(n).nonce = n
BY ResolvedType DEF Rendered

LEMMA BuildTyped ==
    ASSUME ConfigInv, NEW text \in Seq(Known), NEW reply, NEW created, NEW lifetime,
           BuildError(reply, lifetime) = "none"
    PROVE  TypedNonce(Canonical(Build(text, reply, created, lifetime)))
<1> DEFINE n == Canonical(Build(text, reply, created, lifetime))
<1>1. /\ n[1] = text /\ n[2] = Destination /\ n[4] = reply
  BY DEF Canonical, Build
<1>2. /\ Destination.channel = config.channel
      /\ Destination.allowed = [alias \in config.allowed |-> config.mentions[alias]]
  BY DEF Destination
<1>3. config.allowed \subseteq Alias /\ config.mentions \in [Alias -> Target]
  BY DEF ConfigInv
<1>4. \A c \in reply : c = config.channel
  BY DEF BuildError
<1> HIDE DEF n
<1>5. /\ DOMAIN n[2].allowed \subseteq Alias
      /\ n[2].allowed \in [DOMAIN n[2].allowed -> Target]
  BY <1>1, <1>2, <1>3
<1>6. TypedNonce(n)
  BY <1>1, <1>2, <1>4, <1>5 DEF TypedNonce
<1> QED  BY <1>6 DEF n

\* Nothing in memory.
LEMMA StopStep ==
    ASSUME IInv, NEW fault, Stop(fault), row' = row, config' = config
    PROVE  IInv'
BY DEF IInv, Stop, ConfigInv, RowInv, RevisionInv, MessageInv, RequestInv

LEMMA InitStep == Init => IInv
<1> SUFFICES ASSUME Init PROVE IInv
  OBVIOUS
<1>1. ConfigInv
  BY DEF Init, ConfigInv, Alias, Target
<1> QED
  BY <1>1 DEF Init, IInv, RowInv, RevisionInv, MessageInv, RequestInv

LEMMA CreateStep == ASSUME IInv, Create PROVE IInv'
<1>1. PICK text \in Text, reply \in {{}, {"c1"}}, lifetime \in 0..(MaxExpiry + 1) :
        \E fault \in IF BuildError(reply, lifetime) # "none" THEN {BuildError(reply, lifetime)}
                     ELSE RenderErrors(Build(text, reply, time, lifetime), time) :
            IF fault # "none" THEN Stop(fault) /\ row' = row
            ELSE /\ revision' = {Build(text, reply, time, lifetime)}
                 /\ message' = {Render(Build(text, reply, time, lifetime))}
                 /\ request' = {}
                 /\ row' = {[message |-> Render(Build(text, reply, time, lifetime)),
                             created |-> time, config |-> config,
                             expires |-> Build(text, reply, time, lifetime).expires]}
  BY DEF Create
<1> DEFINE r == Build(text, reply, time, lifetime)
           wrong == BuildError(reply, lifetime)
<1>2. config' = config
  BY DEF Create
<1>3. PICK fault \in IF wrong # "none" THEN {wrong} ELSE RenderErrors(r, time) :
        IF fault # "none" THEN Stop(fault) /\ row' = row
        ELSE /\ revision' = {r} /\ message' = {Render(r)} /\ request' = {}
             /\ row' = {[message |-> Render(r), created |-> time, config |-> config,
                         expires |-> r.expires]}
  BY <1>1
<1>4. CASE fault # "none"
  BY <1>2, <1>3, <1>4, StopStep
<1>5. CASE fault = "none"
  <2>1. wrong = "none" /\ "none" \in RenderErrors(r, time)
    BY <1>3, <1>5
  <2>2. text \in Seq(Known)
    <3>1. PICK size \in 1..MaxText : text \in [1..size -> Token]
      BY DEF Text
    <3> QED  BY <3>1, SeqDef DEF Known
  <2>3. TypedNonce(Canonical(r))
    BY <2>1, <2>2, BuildTyped DEF IInv
  <2>4. Renders(Canonical(r)) /\ Render(r) = Rendered(Canonical(r))
    BY <2>1, RendersWithoutError, RenderByNonce
  <2> DEFINE w == Render(r)
             c == Canonical(r)
             s == [message |-> w, created |-> time, config |-> config, expires |-> r.expires]
  <2>5. /\ revision' = {r} /\ message' = {w} /\ request' = {} /\ row' = {s}
    BY <1>3, <1>5
  <2>6. s.message = w
    OBVIOUS
  <2>7. w = Rendered(c) /\ w.nonce = c /\ w.body \in Seq(Known)
    BY <2>3, <2>4, RenderedBody
  <2>8. RowInv'
    <3> HIDE DEF w, c, s, r
    <3> QED  BY <2>5, <2>6, <2>7 DEF RowInv
  <2>9. RevisionInv'
    <3>1. \A q \in revision', t \in row' : Canonical(q) = t.message.nonce
      <4> HIDE DEF w, s, r
      <4> QED  BY <2>5, <2>6, <2>7
    <3> HIDE DEF w, s, r
    <3> QED  BY <2>3, <2>5, <3>1 DEF RevisionInv, c
  <2>10. MessageInv' /\ RequestInv'
    <3> HIDE DEF s, r
    <3> QED  BY <2>4, <2>5 DEF MessageInv, RequestInv
  <2>11. ConfigInv'
    BY <1>2 DEF IInv, ConfigInv
  <2> QED  BY <2>8, <2>9, <2>10, <2>11 DEF IInv
<1> QED  BY <1>4, <1>5

LEMMA LoadStep == ASSUME IInv, Load PROVE IInv'
<1>1. PICK stored \in row :
        \E fault \in UNION {LoadErrors(s) : s \in row} :
            /\ IF fault # "none" THEN Stop(fault)
               ELSE /\ revision' = {Build(stored.message.body, stored.message.reply,
                                          stored.created, stored.expires - stored.created)}
                    /\ message' = {} /\ request' = {}
            /\ row' = row /\ config' = config
  BY DEF Load
<1>2. UNION {LoadErrors(s) : s \in row} = LoadErrors(stored)
  BY DEF IInv, RowInv
<1> DEFINE lifetime == stored.expires - stored.created
           r == Build(stored.message.body, stored.message.reply, stored.created, lifetime)
<1>3. PICK fault \in LoadErrors(stored) :
        /\ IF fault # "none" THEN Stop(fault)
           ELSE revision' = {r} /\ message' = {} /\ request' = {}
        /\ row' = row /\ config' = config
  BY <1>1, <1>2
<1>4. CASE fault # "none"
  BY <1>3, <1>4, StopStep
<1>5. CASE fault = "none"
  <2>1. BuildError(stored.message.reply, lifetime) = "none" /\ Canonical(r) = stored.message.nonce
    <3>1. "none" \in RenderErrors(r, stored.created) => RenderErrors(r, stored.created) = {"none"}
      BY RendersWithoutError
    <3>2. "none" \in LoadErrors(stored)
      BY <1>3, <1>5
    <3> QED  BY <3>1, <3>2 DEF LoadErrors
  <2>2. TypedNonce(Canonical(r))
    BY <2>1, BuildTyped DEF IInv, RowInv
  <2>3. revision' = {r} /\ message' = {} /\ request' = {} /\ row' = row /\ config' = config
    BY <1>3, <1>5
  <2>4. row = {stored}
    BY DEF IInv, RowInv
  <2>5. RevisionInv'
    <3> HIDE DEF r
    <3> QED  BY <2>1, <2>2, <2>3, <2>4 DEF RevisionInv
  <2> QED
    BY <2>3, <2>5 DEF IInv, ConfigInv, RowInv, MessageInv, RequestInv
<1> QED  BY <1>4, <1>5

LEMMA RenderNowStep == ASSUME IInv, RenderNow PROVE IInv'
<1>1. PICK r \in revision : \E fault \in RenderErrors(r, time) :
        /\ IF fault # "none" THEN Stop(fault)
           ELSE message' = {Render(r)} /\ revision' = revision /\ request' = request
        /\ config' = config /\ row' = row
  BY DEF RenderNow
<1>2. PICK fault \in RenderErrors(r, time) :
        /\ IF fault # "none" THEN Stop(fault)
           ELSE message' = {Render(r)} /\ revision' = revision /\ request' = request
        /\ config' = config /\ row' = row
  BY <1>1
<1>3. CASE fault # "none"
  BY <1>2, <1>3, StopStep
<1>4. CASE fault = "none"
  <2>1. Renders(Canonical(r)) /\ Render(r) = Rendered(Canonical(r))
    BY <1>2, <1>4, RendersWithoutError, RenderByNonce
  <2>2. /\ message' = {Rendered(Canonical(r))} /\ revision' = revision /\ request' = request
        /\ config' = config /\ row' = row
    BY <1>2, <1>4, <2>1
  <2>3. \A q \in revision : q = r
    BY DEF IInv, RevisionInv
  <2> QED
    BY <2>1, <2>2, <2>3 DEF IInv, ConfigInv, RowInv, RevisionInv, MessageInv, RequestInv
<1> QED  BY <1>3, <1>4

LEMMA ComposeStep == ASSUME IInv, Compose PROVE IInv'
<1>1. PICK m \in message :
        /\ IF RequestError(m) # "none" THEN Stop(RequestError(m))
           ELSE request' = {RequestBody(m)} /\ revision' = revision /\ message' = message
        /\ config' = config /\ row' = row
  BY DEF Compose
<1>2. CASE RequestError(m) # "none"
  BY <1>1, <1>2, StopStep
<1>3. CASE RequestError(m) = "none"
  <2>1. \A r \in revision : m = Rendered(Canonical(r))
    BY DEF IInv, MessageInv
  <2> QED
    BY <1>1, <1>3, <2>1 DEF IInv, ConfigInv, RowInv, RevisionInv, MessageInv, RequestInv
<1> QED  BY <1>2, <1>3

LEMMA EditStep == ASSUME IInv, Edit PROVE IInv'
<1>1. UNCHANGED <<revision, message, request, row>>
  BY DEF Edit
<1>2. ConfigInv'
  <2>1. config \in [channel : {"c1", "c2"}, mentions : [Alias -> Target], allowed : SUBSET Alias]
    BY DEF IInv, ConfigInv
  <2>2. CASE config' = [config EXCEPT !.channel = "c2"]
    BY <2>1, <2>2 DEF ConfigInv
  <2>3. ASSUME NEW alias \in Alias, NEW goal \in Target,
               config' = [config EXCEPT !.mentions[alias] = goal]
        PROVE  ConfigInv'
    BY <2>1, <2>3 DEF ConfigInv
  <2>4. ASSUME NEW aliases \in SUBSET Alias, config' = [config EXCEPT !.allowed = aliases]
        PROVE  ConfigInv'
    BY <2>1, <2>4 DEF ConfigInv
  <2>5. config' \in
            {[config EXCEPT !.channel = "c2"]}
            \union {[config EXCEPT !.mentions[alias] = goal] : alias \in Alias, goal \in Target}
            \union {[config EXCEPT !.allowed = aliases] : aliases \in SUBSET Alias}
    BY DEF Edit, Alias
  <2> QED  BY <2>2, <2>3, <2>4, <2>5
<1> QED  BY <1>1, <1>2 DEF IInv, RowInv, RevisionInv, MessageInv, RequestInv

LEMMA OtherSteps ==
    ASSUME IInv, UNCHANGED <<config, revision, message, request, row>>
    PROVE  IInv'
BY DEF IInv, ConfigInv, RowInv, RevisionInv, MessageInv, RequestInv

LEMMA Invariance == Spec => []IInv
<1>1. Init => IInv
  BY InitStep
<1>2. IInv /\ [Next]_vars => IInv'
  <2> SUFFICES ASSUME IInv, [Next]_vars PROVE IInv'
    OBVIOUS
  <2>1. CASE Create
    BY <2>1, CreateStep
  <2>2. CASE Load
    BY <2>2, LoadStep
  <2>3. CASE RenderNow
    BY <2>3, RenderNowStep
  <2>4. CASE Preview
    BY <2>4, OtherSteps DEF Preview
  <2>5. CASE Compose
    BY <2>5, ComposeStep
  <2>6. CASE Scan
    BY <2>6, OtherSteps DEF Scan
  <2>7. CASE Edit
    BY <2>7, EditStep
  <2>8. CASE Tick
    BY <2>8, OtherSteps DEF Tick
  <2>9. CASE UNCHANGED vars
    BY <2>9, OtherSteps DEF vars
  <2> QED  BY <2>1, <2>2, <2>3, <2>4, <2>5, <2>6, <2>7, <2>8, <2>9 DEF Next
<1> QED  BY <1>1, <1>2, PTL DEF Spec

-----------------------------------------------------------------------------
(***************************************************************************)
(* The theorems.                                                           *)
(***************************************************************************)

\* What loads under an edited configuration renders to the stored message: a load
\* succeeds only with the stored hash, and the message is a function of the hash.
THEOREM NonceStandsForOneMessage == Spec => []NonceNamesMessage
<1>1. IInv => NonceNamesMessage
  <2> SUFFICES ASSUME IInv, NEW stored \in row, NEW m \in message PROVE m = stored.message
    BY DEF NonceNamesMessage
  <2>1. PICK r \in revision : TRUE
    BY DEF IInv, MessageInv
  <2> QED  BY <2>1 DEF IInv, MessageInv, RevisionInv, RowInv
<1> QED  BY <1>1, Invariance, PTL

\* The request lets the service notify the targets of the aliases the text uses, and
\* no others: those the allowlist of the destination has.
THEOREM RequestsPingTheListed == Spec => []PingsAreListed
<1>1. ASSUME NEW n, TypedNonce(n), Renders(n)
      PROVE  /\ Pings(RequestBody(Rendered(n))) = Named(n)
             /\ Range(Rendered(n).mentions) = Named(n)
  <2>1. Range(Rendered(n).mentions) = Named(n)
    BY <1>1, NamedIsFinite, ListOfSet DEF Rendered
  <2> DEFINE text == Body(n)
             content == Resolved(text, n[2].allowed)
             b == RequestBody(Rendered(n))
  <2>2. b.targets = Named(n) /\ b.content = content /\ b.parse = {}
    BY <2>1 DEF RequestBody, Rendered, Parse
  <2>3. ASSUME NEW t \in Named(n) PROVE <<"ping", t>> \in Range(content)
    <3>1. PICK i \in Mentions(text) : t = n[2].allowed[text[i][2]]
      BY DEF Named
    <3>2. i \in DOMAIN text
      BY <3>1, MentionsInDomain
    <3>3. content[i] = <<"ping", t>> /\ i \in DOMAIN content
      BY <3>1, <3>2 DEF Resolved
    <3> QED  BY <3>3 DEF Range
  <2> HIDE DEF b, content
  <2>4. Pings(b) = Named(n)
    BY <2>2, <2>3 DEF Pings
  <2> QED  BY <2>1, <2>4 DEF b
<1>2. IInv => PingsAreListed
  <2> SUFFICES ASSUME IInv, NEW body \in request, NEW m \in message
               PROVE  /\ Pings(body) = Range(m.mentions)
                      /\ \A goal \in Pings(body) :
                            \E alias \in DOMAIN m.destination.allowed :
                                m.destination.allowed[alias] = goal
    BY DEF PingsAreListed
  <2>1. PICK r \in revision : TRUE
    BY DEF IInv, MessageInv
  <2> DEFINE n == Canonical(r)
  <2>2. /\ TypedNonce(n) /\ Renders(n) /\ m = Rendered(n) /\ body = RequestBody(Rendered(n))
    BY <2>1 DEF IInv, RevisionInv, MessageInv, RequestInv
  <2> HIDE DEF n
  <2>3. Pings(body) = Named(n) /\ Range(m.mentions) = Named(n)
    BY <1>1, <2>2
  <2>4. m.destination = n[2]
    BY <2>2 DEF Rendered
  <2>5. ASSUME NEW goal \in Named(n)
        PROVE  \E alias \in DOMAIN n[2].allowed : n[2].allowed[alias] = goal
    <3>1. PICK i \in Mentions(Body(n)) : goal = n[2].allowed[Body(n)[i][2]]
      BY DEF Named
    <3>2. Body(n)[i][2] \in DOMAIN n[2].allowed
      BY <2>2, <3>1, AllowedMentions DEF Renders
    <3> QED  BY <3>1, <3>2
  <2> QED  BY <2>3, <2>4, <2>5
<1> QED  BY <1>2, Invariance, PTL

\* Nothing that renders is refused by the composer of the request, save for a
\* destination with two aliases for one target.
THEOREM RenderedMessagesAreRequestable == Spec => []RenderedIsRequestable
<1>1. IInv => RenderedIsRequestable
  <2> SUFFICES ASSUME IInv, NEW m \in message,
                      \A a, b \in DOMAIN m.destination.allowed :
                        m.destination.allowed[a] = m.destination.allowed[b] => a = b
               PROVE  RequestError(m) = "none"
    BY DEF RenderedIsRequestable
  <2>1. PICK r \in revision : TRUE
    BY DEF IInv, MessageInv
  <2> DEFINE n == Canonical(r)
  <2>2. TypedNonce(n) /\ Renders(n) /\ m = Rendered(n)
    BY <2>1 DEF IInv, RevisionInv, MessageInv
  <2> HIDE DEF n
  <2> DEFINE allowed == n[2].allowed
             targets == {allowed[alias] : alias \in DOMAIN allowed}
  <2>3. /\ m.body = Resolved(Body(n), allowed) /\ m.destination = n[2]
        /\ m.mentions = SetToSeq(Named(n)) /\ m.reply = n[4]
    BY <2>2 DEF Rendered
  <2>4. ~(Length(m.body) + 1 > MaxLength)
    BY <2>2, <2>3 DEF Renders
  <2>5. <<"marker">> \notin Range(m.body)
    <3> SUFFICES ASSUME <<"marker">> \in Range(m.body) PROVE FALSE
      OBVIOUS
    <3>1. PICK i \in DOMAIN Body(n) : Resolved(Body(n), allowed)[i] = <<"marker">>
      BY <2>3 DEF Range, Resolved
    <3>2. Body(n)[i] = <<"marker">>
      BY <3>1 DEF Resolved
    <3> QED  BY <2>2, <3>2 DEF Renders, Range
  <2>6. Cardinality(targets) = Cardinality(DOMAIN allowed)
    <3>1. IsFiniteSet(Alias)
      <4>1. IsFiniteSet({"a"}) /\ {"a"} \cup {"b"} = Alias
        BY FS_Singleton DEF Alias
      <4> QED  BY <4>1, FS_AddElement
    <3>2. IsFiniteSet(DOMAIN allowed)
      BY <2>2, <3>1, FS_Subset DEF TypedNonce
    <3>3. allowed \in [DOMAIN allowed -> targets]
      BY <2>2 DEF TypedNonce
    <3>4. allowed \in Surjection(DOMAIN allowed, targets)
      BY <3>3 DEF Surjection
    <3>5. IsInjective(allowed)
      BY <2>3 DEF IsInjective
    <3>6. allowed \in Injection(DOMAIN allowed, targets)
      BY <3>3, <3>5 DEF Injection
    <3> HIDE DEF allowed, targets
    <3> QED  BY <3>2, <3>4, <3>6, FS_Surjection
  <2>7. Range(m.mentions) = Named(n) /\ Len(m.mentions) = Cardinality(Named(n))
    BY <2>2, <2>3, NamedIsFinite, ListOfSet
  <2>8. Named(n) \subseteq targets
    <3> SUFFICES ASSUME NEW i \in Mentions(Body(n)) PROVE allowed[Body(n)[i][2]] \in targets
      BY DEF Named
    <3> QED  BY <2>2, AllowedMentions DEF Renders
  <2>9. \A c \in m.reply : c = m.destination.channel
    BY <2>2, <2>3 DEF TypedNonce
  <2>10. {m.destination.allowed[alias] : alias \in DOMAIN m.destination.allowed} = targets
         /\ DOMAIN m.destination.allowed = DOMAIN allowed
    BY <2>3
  <2> HIDE DEF allowed, targets
  <2> QED  BY <2>4, <2>5, <2>6, <2>7, <2>8, <2>9, <2>10 DEF RequestError
<1> QED  BY <1>1, Invariance, PTL

-----------------------------------------------------------------------------
(***************************************************************************)
(* The search for secrets.  Each match has a place in the order of the     *)
(* scan, and what is accepted is found place by place: by induction on the *)
(* place, with the least place where it fails.                             *)
(***************************************************************************)
Place(f) == f.rank * 12 + f.from * 6 + f.to * 2 + (IF f.source = "text" THEN 0 ELSE 1)

Accepts(taken, kept, n) ==
    \A f \in kept : Place(f) < n =>
        (f \in taken <=> ~\E g \in taken : Precedes(g, f) /\ Overlap(g, f))

\* The order is that of the places.
LEMMA Places ==
    ASSUME NEW f \in Match, NEW g \in Match
    PROVE  /\ Place(f) \in Nat /\ Place(f) < 40
           /\ Precedes(g, f) <=> Place(g) < Place(f)
<1>1. /\ f.rank \in 1..2 /\ f.from \in 0..1 /\ f.to \in 1..2 /\ f.source \in {"text", "branch"}
      /\ g.rank \in 1..2 /\ g.from \in 0..1 /\ g.to \in 1..2 /\ g.source \in {"text", "branch"}
  BY DEF Match
<1> QED  BY <1>1, SMTT(60) DEF Place, Precedes

\* Whatever the matches are, there is such a set.
LEMMA AcceptedExists ==
    ASSUME NEW kept \in SUBSET Match
    PROVE  \E taken \in SUBSET kept :
              \A f \in kept : f \in taken <=> ~\E g \in taken : Precedes(g, f) /\ Overlap(g, f)
<1> DEFINE Good(n) == \E taken \in SUBSET kept :
                          Accepts(taken, kept, n) /\ \A f \in taken : Place(f) < n
           Bad == {n \in Nat : ~Good(n)}
<1>1. Good(0)
  <2>1. \A f \in kept : ~(Place(f) < 0)
    BY Places
  <2>2. Accepts({}, kept, 0)
    BY <2>1 DEF Accepts
  <2> QED  BY <2>2
<1>2. ASSUME NEW n \in Nat, Good(n) PROVE Good(n + 1)
  <2>1. PICK taken \in SUBSET kept : Accepts(taken, kept, n) /\ \A f \in taken : Place(f) < n
    BY <1>2
  <2> DEFINE next == {f \in kept : Place(f) = n /\ ~\E g \in taken : Overlap(g, f)}
             more == taken \union next
  <2>2. \A f \in more : Place(f) < n + 1
    BY <2>1, Places
  <2>3. Accepts(more, kept, n + 1)
    <3> SUFFICES ASSUME NEW f \in kept, Place(f) < n + 1
                 PROVE  f \in more <=> ~\E g \in more : Precedes(g, f) /\ Overlap(g, f)
      BY DEF Accepts
    <3>1. \A g \in next : ~Precedes(g, f)
      BY Places
    <3>2. (\E g \in more : Precedes(g, f) /\ Overlap(g, f)) <=> \E g \in taken : Precedes(g, f) /\ Overlap(g, f)
      BY <3>1
    <3>3. CASE Place(f) < n
      <4>1. f \in more <=> f \in taken
        BY <3>3, Places
      <4> QED  BY <2>1, <3>2, <3>3, <4>1 DEF Accepts
    <3>4. CASE Place(f) = n
      <4>1. \A g \in taken : Precedes(g, f)
        BY <2>1, <3>4, Places
      <4>2. f \notin taken
        BY <2>1, <3>4, Places
      <4> QED  BY <3>2, <3>4, <4>1, <4>2
    <3> QED  BY <3>3, <3>4, Places
  <2> HIDE DEF more
  <2>4. more \in SUBSET kept
    BY DEF more
  <2> QED  BY <2>2, <2>3, <2>4
<1>3. Bad = {}
  <2> SUFFICES ASSUME NEW n \in Bad PROVE FALSE
    OBVIOUS
  <2> HIDE DEF Good
  <2>1. PICK least \in Bad : \A k \in Bad : least <= k
    <3> DEFINE below == OpToRel(<, Nat)
    <3>1. IsWellFoundedOn(below, Nat)
      BY NatLessThanWellFounded
    <3>2. \A k, m \in Nat : k < m => <<k, m>> \in below
      BY DEF OpToRel
    <3> HIDE DEF below
    <3>3. PICK m \in Bad : \A k \in Bad : ~(<<k, m>> \in below)
      BY <3>1, WFMin
    <3>4. m \in Nat /\ \A k \in Bad : k \in Nat
      OBVIOUS
    <3> HIDE DEF Bad
    <3>5. \A k \in Bad : ~(k < m)
      BY <3>2, <3>3, <3>4
    <3> QED  BY <3>4, <3>5
  <2>2. least \in Nat /\ least # 0
    BY <1>1, <2>1
  <2>3. least - 1 \in Nat /\ least - 1 \notin Bad
    BY <2>1, <2>2
  <2>4. Good(least - 1 + 1)
    BY <1>2, <2>3
  <2>5. least - 1 + 1 = least
    BY <2>2
  <2> QED  BY <2>1, <2>4, <2>5
<1>4. Good(40)
  BY <1>3
<1> QED  BY <1>4, Places DEF Accepts

\* What a scan of the text found is in its report, or overlaps what is.
LEMMA ReportedCovers ==
    ASSUME NEW matches \in SUBSET {f \in Match : f.from < f.to}, NEW f \in matches, f.source = "text"
    PROVE  \E g \in Reported(matches) : g.source = "text" /\ g.from < f.to /\ f.from < g.to
<1> DEFINE kept == Deduplicated(matches)
<1>1. kept \in SUBSET Match
  BY DEF Deduplicated
<1>2. f \in kept
  <2>1. ASSUME NEW g \in matches, g.rank = f.rank, g.from = f.from, g.to = f.to PROVE ~Precedes(g, f)
    BY <2>1 DEF Precedes, Match
  <2> QED  BY <2>1 DEF Deduplicated
<1> HIDE DEF kept
<1>3. /\ Reported(matches) \in SUBSET kept
      /\ \A h \in kept : h \in Reported(matches)
            <=> ~\E g \in Reported(matches) : Precedes(g, h) /\ Overlap(g, h)
  BY <1>1, AcceptedExists DEF Reported, kept
<1>4. CASE f \in Reported(matches)
  BY <1>4 DEF Match
<1>5. CASE f \notin Reported(matches)
  <2>1. PICK g \in Reported(matches) : Overlap(g, f)
    BY <1>2, <1>3, <1>5
  <2> QED  BY <2>1 DEF Overlap
<1> QED  BY <1>4, <1>5

ScanInv == raw # {} => raw \in SUBSET {f \in Match : f.from < f.to} /\ findings = Reported(raw)

\* No match in the text of the message goes unreported: a reported one covers it
\* (SecretScanResult::from_raw).
THEOREM TextIsReported == Spec => []TextMatchesReported
<1>1. Init => ScanInv
  BY DEF Init, ScanInv
<1>2. ScanInv /\ [Next]_vars => ScanInv'
  <2> SUFFICES ASSUME ScanInv, [Next]_vars PROVE ScanInv'
    OBVIOUS
  <2>1. CASE Scan
    <3>1. PICK matches \in UNION {kSubset(n, {f \in Match : f.from < f.to}) : n \in 1..MaxRaw} :
              raw' = matches /\ findings' = Reported(matches)
      BY <2>1 DEF Scan
    <3>2. matches \in SUBSET {f \in Match : f.from < f.to}
      BY <3>1 DEF kSubset
    <3> QED  BY <3>1, <3>2 DEF ScanInv
  <2>2. CASE UNCHANGED <<raw, findings>>
    BY <2>2 DEF ScanInv
  <2> QED  BY <2>1, <2>2 DEF Next, vars, Create, Load, RenderNow, Preview, Compose, Edit, Tick, Stop
<1>3. ScanInv => TextMatchesReported
  <2> SUFFICES ASSUME ScanInv, NEW f \in raw, f.source = "text"
               PROVE  \E g \in findings : g.source = "text" /\ g.from < f.to /\ f.from < g.to
    BY DEF TextMatchesReported
  <2> QED  BY ReportedCovers DEF ScanInv
<1> QED  BY <1>1, <1>2, <1>3, PTL DEF Spec

-----------------------------------------------------------------------------
(***************************************************************************)
(* Command: one invocation after another.                                  *)
(***************************************************************************)

\* The running invocation may show a prompt.
Asks == inv.command \in I!Prompting /\ I!Tty(inv)

Before == {"idle", "parse", "input", "config", "open"}

\* Past the gate, a command that prompts has its terminal.
GateInv ==
    /\ pc \in {"check", "preview", "prompt", "work"} /\ inv.command \in I!Prompting => I!Tty(inv)
    /\ pc \in {"preview", "prompt"} => inv.command \in I!Prompting

\* What was written, and by whom.
OutputInv ==
    /\ pc \in Before \cup {"gate", "check", "preview"} => stdout = <<>>
    /\ pc # "done" => stdout \in {<<>>, <<"prompt">>}
    /\ ~Asks => /\ pc # "done" => stdout = <<>>
                /\ pc = "done" => stdout \in {<<>>, <<"text">>, <<I!Document(inv)>>}

TraceInv ==
    /\ pc \in Before => ~touched
    /\ inv.command \in I!Prompting /\ ~I!Tty(inv) => ~touched

\* Only the work has a result, and a refusal has a category.
OutcomeInv ==
    /\ result \in {"none", "good", "bad"}
    /\ pc \notin {"render", "done"} => result = "none"
    /\ pc = "render" /\ result = "none" => error \in I!Category
    /\ pc = "done" /\ code = 0 => result # "none" \/ stdout = <<"text">>
    /\ pc = "done" /\ result # "none" => code = 0 \/ (code = 1 /\ stdout \in {<<>>, <<"prompt">>})

CommandInv == GateInv /\ OutputInv /\ TraceInv /\ OutcomeInv

LEMMA ExitCodes == \A c \in I!Category : I!ExitCode[c] # 0
BY DEF I!Category, I!ExitCode

LEMMA WrittenOnce ==
    ASSUME stdout = <<>>, NEW k
    PROVE  I!Written(k) = {<<>>, <<k>>}
BY DEF I!Written

\* A failure before the dispatch.
LEMMA EmitErrorStep ==
    ASSUME CommandInv, NEW c \in I!Category, I!EmitError(c), pc \in Before
    PROVE  CommandInv'
<1>1. stdout = <<>> /\ result = "none" /\ ~touched
  BY DEF CommandInv, OutputInv, OutcomeInv, TraceInv, Before
<1>2. stdout' \in {<<>>, <<I!Document(inv)>>} /\ pc' = "done" /\ UNCHANGED <<inv, result, touched>>
      /\ code' # 0
  BY <1>1, WrittenOnce, ExitCodes DEF I!EmitError
<1>3. GateInv' /\ TraceInv' /\ OutcomeInv'
  BY <1>1, <1>2 DEF GateInv, TraceInv, OutcomeInv, Before
<1>4. OutputInv'
  BY <1>2 DEF OutputInv, Before, Asks, I!Document, I!Tty
<1> QED  BY <1>3, <1>4 DEF CommandInv

\* A step of the dispatch, or of the handler, that only goes on.
LEMMA GoesOn ==
    ASSUME CommandInv, pc' \notin {"idle", "render", "done", "open", "preview", "prompt", "work", "check"},
           pc \in Before, UNCHANGED <<inv, stdout, result, touched>>
    PROVE  CommandInv'
BY DEF CommandInv, GateInv, OutputInv, TraceInv, OutcomeInv, Before, Asks, I!Document, I!Tty

\* The handler ends without a prompt of its own.
LEMMA EndsWork ==
    ASSUME CommandInv, pc \notin Before \cup {"render", "done"}, pc' = "render", result' \in {"none", "good", "bad"},
           result' = "none" => error' \in I!Category, UNCHANGED <<inv, stdout>>,
           UNCHANGED touched \/ inv.command \notin I!Prompting \/ I!Tty(inv)
    PROVE  CommandInv'
<1>1. GateInv' /\ OutcomeInv'
  BY DEF GateInv, OutcomeInv
<1>2. OutputInv'
  BY DEF CommandInv, OutputInv, Before, Asks, I!Tty
<1>3. TraceInv'
  BY DEF CommandInv, TraceInv, Before, I!Tty
<1> QED  BY <1>1, <1>2, <1>3 DEF CommandInv

LEMMA CategoryNames ==
    {"usage", "operator", "policy", "authentication", "permission", "conflict", "delivery", "storage",
     "connectivity", "internal"} \subseteq I!Category
BY DEF I!Category, I!ExitCode

LEMMA RefusedEnds ==
    ASSUME CommandInv, pc \notin Before \cup {"render", "done"}, NEW c \in I!Category, I!Refused(c)
    PROVE  CommandInv'
BY EndsWork DEF I!Refused, I!Outcome

LEMMA CommandStep ==
    ASSUME CommandInv, I!Next
    PROVE  CommandInv'
<1> USE CategoryNames
<1>0. GateInv /\ OutputInv /\ TraceInv /\ OutcomeInv
  BY DEF CommandInv
<1>1. CASE I!Start
  <2>1. pc = "idle" /\ pc' = "parse" /\ UNCHANGED <<stdout, result, touched>>
    BY <1>1 DEF I!Start
  <2>2. stdout = <<>> /\ result = "none" /\ ~touched
    BY <1>0, <2>1 DEF OutputInv, OutcomeInv, TraceInv, Before
  <2> QED  BY <2>1, <2>2 DEF CommandInv, GateInv, OutputInv, TraceInv, OutcomeInv, Before
<1>2. CASE I!Help
  <2>1. pc = "parse" /\ pc' = "done" /\ UNCHANGED <<inv, result, touched>>
    BY <1>2 DEF I!Help
  <2>2. stdout = <<>> /\ result = "none" /\ ~touched
    BY <1>0, <2>1 DEF OutputInv, OutcomeInv, TraceInv, Before
  <2>3. stdout' \in {<<>>, <<"text">>} /\ (code' = 0 => stdout' = <<"text">>)
    BY <1>2, <2>2, WrittenOnce DEF I!Help
  <2> QED  BY <2>1, <2>2, <2>3 DEF CommandInv, GateInv, OutputInv, TraceInv, OutcomeInv, Before
<1>3. CASE I!ParseLine \/ I!ReadInput
  <2>1. pc \in Before
    BY <1>3 DEF I!ParseLine, I!ReadInput, Before
  <2>2. \/ I!EmitError("usage")
        \/ pc' \in {"input", "config"} /\ UNCHANGED <<inv, stdout, result, touched>>
    BY <1>3 DEF I!ParseLine, I!ReadInput
  <2> QED  BY <2>1, <2>2, EmitErrorStep, GoesOn
<1>4. CASE I!ResolveConfig
  <2>1. pc = "config" /\ pc \in Before
    BY <1>4 DEF I!ResolveConfig, Before
  <2>2. \/ I!EmitError("usage")
        \/ pc' = "open" /\ UNCHANGED <<inv, stdout, result, touched>>
    BY <1>4 DEF I!ResolveConfig
  <2>3. CASE pc' = "open" /\ UNCHANGED <<inv, stdout, result, touched>>
    BY <1>0, <2>1, <2>3 DEF CommandInv, GateInv, OutputInv, TraceInv, OutcomeInv, Before, Asks, I!Tty
  <2> QED  BY <2>1, <2>2, <2>3, EmitErrorStep
<1>5. CASE I!OpenState
  <2>1. pc = "open" /\ pc \in Before
    BY <1>5 DEF I!OpenState, Before
  <2>2. CASE I!EmitError("storage")
    BY <2>1, <2>2, EmitErrorStep
  <2>3. CASE I!OpensState(inv) /\ pc' = "gate" /\ UNCHANGED <<inv, stdout, result>>
    <3>1. inv.command \notin I!Prompting \/ I!Tty(inv)
      BY <2>3 DEF I!OpensState
    <3>2. TraceInv'
      BY <2>3, <3>1 DEF TraceInv, Before, I!Tty
    <3> QED  BY <1>0, <2>1, <2>3, <3>2 DEF CommandInv, GateInv, OutputInv, OutcomeInv, Before, Asks, I!Tty
  <2>4. CASE pc' = "gate" /\ UNCHANGED <<inv, stdout, result, touched>>
    BY <2>1, <2>4, GoesOn
  <2> QED  BY <1>5, <2>2, <2>3, <2>4 DEF I!OpenState
<1>6. CASE I!Gate
  <2>1. pc = "gate"
    BY <1>6 DEF I!Gate
  <2>2. CASE I!Refused("operator")
    BY <2>1, <2>2, RefusedEnds DEF Before
  <2>3. CASE /\ ~(inv.command \in I!Prompting /\ ~I!Tty(inv))
             /\ pc' = "check" /\ UNCHANGED <<inv, stdout, result, touched>>
    BY <1>0, <2>1, <2>3 DEF CommandInv, GateInv, OutputInv, TraceInv, OutcomeInv, Before, Asks, I!Tty
  <2> QED  BY <1>6, <2>2, <2>3 DEF I!Gate
<1>7. CASE I!Check
  <2>1. pc = "check"
    BY <1>7 DEF I!Check
  <2>2. CASE I!Refused("usage")
    BY <2>1, <2>2, RefusedEnds DEF Before
  <2>3. CASE /\ pc' = IF inv.command \in I!Prompting THEN "preview" ELSE "work"
             /\ UNCHANGED <<inv, stdout, result, touched>>
    BY <1>0, <2>1, <2>3 DEF CommandInv, GateInv, OutputInv, TraceInv, OutcomeInv, Before, Asks, I!Tty
  <2> QED  BY <1>7, <2>2, <2>3 DEF I!Check
<1>8. CASE I!PreviewPurge \/ I!PreviewActivation \/ I!PreviewDraft
  <2>1. pc = "preview"
    BY <1>8 DEF I!PreviewPurge, I!PreviewActivation, I!PreviewDraft
  <2>2. CASE I!ShowPrompt
    <3>1. inv.command \in I!Prompting /\ I!Tty(inv)
      BY <1>0, <2>1 DEF GateInv
    <3>2. pc' = "prompt" /\ UNCHANGED <<inv, result, touched>>
      BY <2>2 DEF I!ShowPrompt
    <3>3. stdout' = <<"prompt">>
      BY <1>0, <2>1, <2>2 DEF I!ShowPrompt, OutputInv
    <3> QED  BY <1>0, <2>1, <3>1, <3>2, <3>3 DEF CommandInv, GateInv, OutputInv, TraceInv, OutcomeInv, Before, Asks, I!Tty
  <2>3. CASE \E c \in I!Category : I!Refused(c)
    BY <2>1, <2>3, RefusedEnds DEF Before
  <2> QED  BY <1>8, <2>2, <2>3 DEF I!PreviewPurge, I!PreviewActivation, I!PreviewDraft
<1>9. CASE I!Answer
  <2>1. pc = "prompt"
    BY <1>9 DEF I!Answer
  <2>2. CASE pc' = "work" /\ UNCHANGED <<inv, stdout, result, touched>>
    BY <1>0, <2>1, <2>2 DEF CommandInv, GateInv, OutputInv, TraceInv, OutcomeInv, Before, Asks, I!Tty
  <2>3. CASE \E c \in I!Category : I!Refused(c)
    BY <2>1, <2>3, RefusedEnds DEF Before
  <2> QED  BY <1>9, <2>2, <2>3 DEF I!Answer, I!Unconfirmed
<1>10. CASE I!WorkPrompted \/ I!WorkWriting \/ I!WorkReading \/ I!WorkStateless
  <2>1. pc = "work"
    BY <1>10 DEF I!WorkPrompted, I!WorkWriting, I!WorkReading, I!WorkStateless
  <2>2. CASE \E c \in I!Category : I!Refused(c)
    BY <2>1, <2>2, RefusedEnds DEF Before
  <2>3. CASE I!Return
    BY <2>1, <2>3, EndsWork DEF Before, I!Return, I!Results, I!Outcome
  <2>4. ASSUME NEW given \in I!Results(inv.command), I!Commit(given, "none") PROVE CommandInv'
    BY <1>0, <2>1, <2>4, EndsWork DEF Before, I!Results, I!Outcome, I!Commit, GateInv
  <2>5. ASSUME NEW c \in I!Category, I!Commit("none", c) PROVE CommandInv'
    BY <1>0, <2>1, <2>5, EndsWork DEF Before, I!Outcome, I!Commit, GateInv
  <2>6. "good" \in I!Results(inv.command)
    BY DEF I!Results
  <2> QED  BY <1>10, <2>2, <2>3, <2>4, <2>5, <2>6 DEF I!WorkPrompted, I!WorkWriting, I!WorkReading, I!WorkStateless
<1>11. CASE I!Render
  <2>1. pc = "render" /\ pc' = "done" /\ UNCHANGED <<inv, result, touched>>
    BY <1>11 DEF I!Render
  <2>2. PICK out \in I!Written(I!Document(inv)) :
          stdout' = out /\ code' \in IF out = stdout THEN {1, I!OutcomeCode} ELSE {I!OutcomeCode}
    BY <1>11 DEF I!Render
  <2>3. /\ result # "none" => code' = 0 \/ (code' = 1 /\ stdout' = stdout)
        /\ result = "none" => code' # 0
    BY <1>0, <2>1, <2>2, ExitCodes DEF OutcomeInv, I!OutcomeCode
  <2>4. ~Asks => stdout' \in {<<>>, <<I!Document(inv)>>}
    BY <1>0, <2>1, <2>2, WrittenOnce DEF OutputInv
  <2>5. OutputInv'
    BY <2>1, <2>4 DEF OutputInv, Before, Asks, I!Document, I!Tty
  <2>6. OutcomeInv'
    <3>1. stdout \in {<<>>, <<"prompt">>}
      BY <1>0, <2>1 DEF OutputInv
    <3> QED  BY <1>0, <2>1, <2>3, <3>1 DEF OutcomeInv
  <2> QED  BY <1>0, <2>1, <2>5, <2>6 DEF CommandInv, GateInv, TraceInv, Before, I!Tty
<1>12. CASE I!Others
  BY <1>0, <1>12 DEF I!Others, CommandInv, GateInv, OutputInv, TraceInv, OutcomeInv, Before, Asks, I!Tty, I!Document
<1>13. CASE I!Ended
  BY <1>13 DEF I!Ended, CommandInv, GateInv, OutputInv, TraceInv, OutcomeInv, Before
<1> QED  BY <1>1, <1>2, <1>3, <1>4, <1>5, <1>6, <1>7, <1>8, <1>9, <1>10, <1>11, <1>12, <1>13 DEF I!Next

LEMMA CommandInductive == PartsSpec => []CommandInv
<1>1. PartsInit => CommandInv
  BY DEF PartsInit, I!Init, CommandInv, GateInv, OutputInv, TraceInv, OutcomeInv, Before
<1>2. CommandInv /\ [PartsNext]_<<part, vars, commandVars, configurationVars, setupVars, reconcileVars>> => CommandInv'
  <2>1. ASSUME CommandInv, UNCHANGED commandVars PROVE CommandInv'
    BY <2>1 DEF commandVars, CommandInv, GateInv, OutputInv, TraceInv, OutcomeInv, Before, Asks, I!Tty, I!Document
  <2> QED  BY <2>1, CommandStep DEF PartsNext
<1> QED  BY <1>1, <1>2, PTL DEF PartsSpec

\* A program that reads the output with --output json finds at most one document
\* there: no prompt and no view (the output of every command, and its errors).
THEOREM OneDocument == PartsSpec => []MachineReadsOneDocument
<1>1. CommandInv => MachineReadsOneDocument
  BY DEF CommandInv, OutputInv, MachineReadsOneDocument, I!MachineReadsOneDocument, Asks, I!Tty, I!Document
<1> QED  BY <1>1, CommandInductive, PTL

\* Without a terminal a command that widens a permission or deletes leaves no
\* trace, not even a database (explicit_tty_mode, the dispatcher).
THEOREM NoTrace == PartsSpec => []AutomationLeavesNoTrace
<1>1. CommandInv => AutomationLeavesNoTrace
  <2> SUFFICES ASSUME CommandInv, inv.command \in I!Prompting, ~I!Tty(inv)
               PROVE  ~touched /\ "prompt" \notin {stdout[k] : k \in DOMAIN stdout}
    BY DEF AutomationLeavesNoTrace, I!AutomationLeavesNoTrace, I!Tty
  <2>1. stdout \in {<<>>, <<"text">>, <<I!Document(inv)>>} /\ ~touched
    BY DEF CommandInv, OutputInv, TraceInv, Asks
  <2>2. I!Document(inv) # "prompt"
    BY DEF I!Document
  <2> QED  BY <2>1, <2>2
<1> QED  BY <1>1, CommandInductive, PTL

\* Zero means that the handler returned a result, good or bad, or that text was
\* asked for; a result never ends in the code of a refusal, and in one only when it
\* was not written (exit_code, execute).
THEOREM ExitTellsHowItEnded == PartsSpec => []ExitTellsTheEnd
<1>1. CommandInv => ExitTellsTheEnd
  BY DEF CommandInv, OutcomeInv, ExitTellsTheEnd, I!ExitTellsTheEnd
<1> QED  BY <1>1, CommandInductive, PTL
-----------------------------------------------------------------------------
(***************************************************************************)
(* Setup: the check of a workspace.                                        *)
(***************************************************************************)

\* What the reads of an unchanged workspace have found.
Ctx ==
    [has_role |-> guild.has_role, admin |-> guild.has_role /\ guild.admin,
     base |-> guild.everyone \union (IF guild.has_role THEN guild.role ELSE {}),
     role_exists |-> guild.role_exists, mentionable |-> guild.mentionable]

Perms == S!PermissionsFor(Ctx, guild.overwrites)

ChannelRead ==
    IF S!Required = {} THEN granted = {} /\ issues = {}
    ELSE IF guild.channel # "here" THEN granted = {} /\ issues # {}
    ELSE issues = S!Required \ Perms /\ granted = IF issues = {} THEN Perms ELSE {}

SetupInv ==
    /\ uses \cap {"role", "user", "self"} # {} => "destination" \in uses
    /\ ~moved =>
        /\ step \in {"identity", "membership", "guild", "channel"} => issues = {} /\ granted = {}
        /\ step \in {"membership", "guild", "channel", "mentions"} => guild.dedicated
        /\ step \in {"guild", "channel", "mentions"} => guild.member
        /\ step = "guild" => context = {[has_role |-> guild.has_role]}
        /\ step \in {"channel", "mentions"} => context = {Ctx}
        /\ step = "mentions" => ChannelRead
        /\ step = "done" => (issues = {} <=> S!Usable)

\* The computation agrees with the rule of the most specific statement.
LEMMA PermissionRule ==
    ASSUME NEW p \in S!Permission
    PROVE  p \in Perms <=> S!Allowed(p)
<1>1. /\ Ctx.has_role = guild.has_role
      /\ Ctx.admin <=> (guild.has_role /\ guild.admin)
      /\ Ctx.base = guild.everyone \union (IF guild.has_role THEN guild.role ELSE {})
  BY DEF Ctx
<1>2. /\ S!NoOverwrite.allow = {} /\ S!NoOverwrite.deny = {}
  BY DEF S!NoOverwrite
<1>3. CASE guild.has_role /\ guild.admin
  BY <1>1, <1>3 DEF Perms, S!PermissionsFor, S!Allowed
<1>4. CASE ~(guild.has_role /\ guild.admin)
  <2> DEFINE o == guild.overwrites
             base == guild.everyone \union (IF guild.has_role THEN guild.role ELSE {})
             everyone == (base \ o["everyone"].deny) \union o["everyone"].allow
             role == IF guild.has_role THEN (everyone \ o["role"].deny) \union o["role"].allow ELSE everyone
  <2>1. ~Ctx.admin
    BY <1>1, <1>4
  <2>2. Perms = (role \ o["bot"].deny) \union o["bot"].allow
    <3>1. S!Apply(Ctx.base, o["everyone"]) = everyone
      BY <1>1 DEF S!Apply
    <3> HIDE DEF everyone
    <3>2. (IF Ctx.has_role THEN S!Apply(everyone, o["role"]) ELSE everyone) = role
      BY <1>1 DEF S!Apply
    <3> HIDE DEF role
    <3>3. Perms = S!Apply(role, o["bot"])
      BY <2>1, <3>1, <3>2 DEF Perms, S!PermissionsFor
    <3> QED  BY <3>3 DEF S!Apply
  <2>3. CASE guild.has_role
    BY <1>4, <2>2, <2>3 DEF S!Allowed
  <2>4. CASE ~guild.has_role
    <3>1. S!Allowed(p) <=>
            \/ p \in o["bot"].allow
            \/ /\ p \notin o["bot"].deny
               /\ \/ p \in o["everyone"].allow
                  \/ p \notin o["everyone"].deny /\ p \in guild.everyone
      BY <1>2, <2>4 DEF S!Allowed
    <3>2. role = (guild.everyone \ o["everyone"].deny) \union o["everyone"].allow
      BY <2>4
    <3> HIDE DEF role
    <3> QED  BY <2>2, <3>1, <3>2
  <2> QED  BY <2>3, <2>4
<1> QED  BY <1>3, <1>4

LEMMA RequiredPermissions == S!Required \subseteq S!Permission /\ "mention" \in S!Permission
BY DEF S!Required, S!Permission

LEMMA ReadMentionsStep ==
    ASSUME SetupInv, S!ReadMentions, ~moved
    PROVE  issues' = {} <=> S!Usable
<1>0. /\ guild.dedicated /\ guild.member /\ context = {Ctx} /\ ChannelRead
      /\ uses \cap {"role", "user", "self"} # {} => "destination" \in uses
  BY DEF SetupInv, S!ReadMentions
<1>1. /\ Ctx.role_exists = guild.role_exists /\ Ctx.mentionable = guild.mentionable
  BY DEF Ctx
<1>2. issues' = issues \union
            (IF granted = {} THEN {}
             ELSE (IF "role" \notin uses THEN {}
                   ELSE IF ~guild.role_exists THEN {"role gone"}
                   ELSE (IF guild.mentionable THEN {} ELSE {"not mentionable"})
                        \union ({"mention"} \ granted))
                  \union (IF "user" \in uses /\ ~guild.user THEN {"user gone"} ELSE {})
                  \union (IF "self" \in uses THEN {"mentions the bot"} ELSE {}))
  <2>1. PICK ctx \in context :
        issues' = issues \union
            (IF granted = {} THEN {}
             ELSE (IF "role" \notin uses THEN {}
                   ELSE IF ~ctx.role_exists THEN {"role gone"}
                   ELSE (IF ctx.mentionable THEN {} ELSE {"not mentionable"})
                        \union ({"mention"} \ granted))
                  \union (IF "user" \in uses /\ ~guild.user THEN {"user gone"} ELSE {})
                  \union (IF "self" \in uses THEN {"mentions the bot"} ELSE {}))
    BY DEF S!ReadMentions
  <2>2. ctx = Ctx
    BY <1>0
  <2> QED  BY <1>1, <2>1, <2>2
<1>3. CASE S!Required = {}
  <2>1. uses \cap {"role", "user", "self"} = {}
    BY <1>0, <1>3 DEF S!Required
  <2>2. issues' = {}
    BY <1>0, <1>2, <1>3 DEF ChannelRead
  <2> QED  BY <1>0, <1>3, <2>1, <2>2 DEF S!Usable
<1>4. CASE S!Required # {} /\ guild.channel # "here"
  BY <1>0, <1>2, <1>4 DEF ChannelRead, S!Usable
<1>5. CASE S!Required # {} /\ guild.channel = "here" /\ issues # {}
  <2>1. PICK p \in S!Required : p \notin Perms
    BY <1>0, <1>5 DEF ChannelRead
  <2>2. ~S!Allowed(p)
    BY <2>1, PermissionRule, RequiredPermissions
  <2> QED  BY <1>2, <1>5, <2>2 DEF S!Usable
<1>6. CASE S!Required # {} /\ guild.channel = "here" /\ issues = {}
  <2>1. granted = Perms /\ S!Required \subseteq Perms /\ granted # {}
    BY <1>0, <1>6 DEF ChannelRead
  <2>2. \A p \in S!Required : S!Allowed(p)
    BY <2>1, PermissionRule, RequiredPermissions
  <2>3. S!Allowed("mention") <=> "mention" \in granted
    BY <2>1, PermissionRule, RequiredPermissions
  <2>4. issues' = {} <=> /\ "role" \in uses => guild.role_exists /\ guild.mentionable /\ "mention" \in granted
                         /\ "user" \in uses => guild.user
                         /\ "self" \notin uses
    BY <1>2, <1>6, <2>1
  <2> QED  BY <1>0, <1>6, <2>2, <2>3, <2>4 DEF S!Usable
<1> QED  BY <1>3, <1>4, <1>5, <1>6

LEMMA ReadChannelStep ==
    ASSUME SetupInv, S!ReadChannel, ~moved
    PROVE  ChannelRead'
<1>0. context = {Ctx} /\ issues = {} /\ UNCHANGED <<guild, uses>>
  BY DEF SetupInv, S!ReadChannel
<1>1. PICK ctx \in context :
        IF S!Required = {} THEN granted' = {} /\ UNCHANGED issues
        ELSE IF guild.channel # "here" THEN issues' = {"channel"} /\ UNCHANGED granted
        ELSE /\ issues' = S!Required \ S!PermissionsFor(ctx, guild.overwrites)
             /\ granted' = IF issues' = {} THEN S!PermissionsFor(ctx, guild.overwrites) ELSE {}
  BY DEF S!ReadChannel
<1>2. ctx = Ctx /\ granted = {}
  BY <1>0, <1>1 DEF SetupInv, S!ReadChannel
<1>3. Perms' = Perms /\ S!Required' = S!Required
  BY <1>0 DEF Perms, Ctx, S!Required, S!PermissionsFor, S!Apply, S!Permission
<1> QED  BY <1>0, <1>1, <1>2, <1>3 DEF ChannelRead, Perms

\* What was read of a workspace that stays is still so.
LEMMA SetupKept ==
    ASSUME UNCHANGED <<guild, uses>>
    PROVE  Ctx' = Ctx /\ S!Usable' = S!Usable
BY DEF Ctx, S!Usable, S!Required, S!Allowed, S!NoOverwrite

LEMMA SetupStep ==
    ASSUME SetupInv, S!Next
    PROVE  SetupInv'
<1>1. CASE S!Begin
  BY <1>1 DEF S!Begin, SetupInv
<1>2. CASE S!ReadIdentity
  <2>1. UNCHANGED <<guild, uses, moved, granted>> /\ step = "identity" /\ step' \in {"membership", "done"}
    BY <1>2 DEF S!ReadIdentity
  <2>2. CASE guild.dedicated
    BY <1>2, <2>1, <2>2 DEF S!ReadIdentity, SetupInv
  <2>3. CASE ~guild.dedicated
    <3>1. step' = "done" /\ issues' # {} /\ ~S!Usable'
      BY <1>2, <2>1, <2>3 DEF S!ReadIdentity, S!Usable
    <3> QED  BY <2>1, <3>1 DEF SetupInv
  <2> QED  BY <2>2, <2>3
<1>3. CASE S!ReadMembership
  <2>1. UNCHANGED <<guild, uses, moved, granted>> /\ step = "membership"
    BY <1>3 DEF S!ReadMembership
  <2>2. CASE guild.member
    BY <1>3, <2>1, <2>2 DEF S!ReadMembership, SetupInv
  <2>3. CASE ~guild.member
    <3>1. step' = "done" /\ issues' # {} /\ ~S!Usable'
      BY <1>3, <2>1, <2>3 DEF S!ReadMembership, S!Usable
    <3> QED  BY <2>1, <3>1 DEF SetupInv
  <2> QED  BY <2>2, <2>3
<1>4. CASE S!ReadGuild
  <2>1. UNCHANGED <<guild, uses, moved, granted, issues>> /\ step = "guild" /\ step' \in {"failed", "channel"}
    BY <1>4 DEF S!ReadGuild
  <2>2. CASE moved \/ step' = "failed"
    BY <2>1, <2>2 DEF SetupInv
  <2>3. CASE ~moved /\ step' = "channel"
    <3>1. context' = {Ctx}
      <4>1. context = {[has_role |-> guild.has_role]}
        BY <2>1, <2>3 DEF SetupInv
      <4>2. PICK member \in context :
              context' =
                {[has_role |-> member.has_role, admin |-> member.has_role /\ guild.admin,
                  base |-> guild.everyone \union (IF member.has_role THEN guild.role ELSE {}),
                  role_exists |-> guild.role_exists, mentionable |-> guild.mentionable]}
        BY <1>4, <2>3 DEF S!ReadGuild
      <4>3. member.has_role = guild.has_role
        BY <4>1, <4>2
      <4> QED  BY <4>2, <4>3 DEF Ctx
    <3> QED  BY <2>1, <2>3, <3>1, SetupKept DEF SetupInv
  <2> QED  BY <2>1, <2>2, <2>3 DEF SetupInv
<1>5. CASE S!ReadChannel
  <2>1. UNCHANGED <<guild, uses, moved, context>> /\ step = "channel" /\ step' = "mentions"
    BY <1>5 DEF S!ReadChannel
  <2> QED  BY <1>5, <2>1, ReadChannelStep, SetupKept DEF SetupInv
<1>6. CASE S!ReadMentions
  <2>1. UNCHANGED <<guild, uses, moved>> /\ step' = "done"
    BY <1>6 DEF S!ReadMentions
  <2> QED  BY <1>6, <2>1, ReadMentionsStep, SetupKept DEF SetupInv
<1>7. CASE S!ReadFails
  BY <1>7 DEF S!ReadFails, SetupInv
<1>8. CASE S!Administer
  BY <1>8 DEF S!Administer, SetupInv
<1> QED  BY <1>1, <1>2, <1>3, <1>4, <1>5, <1>6, <1>7, <1>8 DEF S!Next

\* A check during which nothing changed calls a configuration ready exactly when
\* the service lets the bot do all of it (SetupReport::ready, permissions_for).
THEOREM ReadyIsReal == PartsSpec => []ReadyIsUsable
<1>1. PartsInit => SetupInv
  BY DEF PartsInit, S!Init, SetupInv
<1>2. SetupInv /\ [PartsNext]_<<part, vars, commandVars, configurationVars, setupVars, reconcileVars>> => SetupInv'
  <2>1. ASSUME SetupInv, UNCHANGED setupVars PROVE SetupInv'
    <3>1. UNCHANGED <<guild, changes, uses, step, context, granted, issues, moved>>
      BY <2>1 DEF setupVars
    <3>2. ChannelRead' = ChannelRead
      BY <3>1 DEF ChannelRead, Perms, Ctx, S!Required, S!PermissionsFor, S!Apply, S!Permission
    <3> QED  BY <2>1, <3>1, <3>2, SetupKept DEF SetupInv
  <2> QED  BY <2>1, SetupStep DEF PartsNext
<1>3. SetupInv => ReadyIsUsable
  BY DEF SetupInv, ReadyIsUsable, S!ReadyIsUsable
<1> QED  BY <1>1, <1>2, <1>3, PTL DEF PartsSpec
-----------------------------------------------------------------------------
(***************************************************************************)
(* Configuration: the hash of an accepted document.                        *)
(***************************************************************************)
Document(d) ==
    /\ d = [syntax |-> d.syntax, faults |-> d.faults, identity |-> d.identity, workspace |-> d.workspace,
            destinations |-> d.destinations, malformed |-> d.malformed, mentions |-> d.mentions,
            inbound |-> d.inbound, retention |-> d.retention, auto_send |-> d.auto_send]
    /\ d.syntax \in BOOLEAN /\ d.identity \in BOOLEAN /\ d.workspace \in BOOLEAN

\* What the loader has made sure of, as far as the hash needs it.
Loaded(d) ==
    /\ d.syntax = TRUE /\ d.identity = TRUE /\ d.workspace = TRUE
    /\ \A a \in DOMAIN d.destinations : C!NoRepeat(d.destinations[a])
    /\ C!NoRepeat(d.auto_send)

DocumentsInv ==
    /\ Document(file)
    /\ \A d \in accepted \cup earlier : Document(d) /\ Loaded(d)

LEMMA DocumentEdit ==
    ASSUME NEW d, Document(d), NEW v
    PROVE  /\ Document([d EXCEPT !.faults = v]) /\ Document([d EXCEPT !.malformed = v])
           /\ Document([d EXCEPT !.destinations = v]) /\ Document([d EXCEPT !.mentions = v])
           /\ Document([d EXCEPT !.inbound = v]) /\ Document([d EXCEPT !.retention = v])
           /\ Document([d EXCEPT !.auto_send = v])
           /\ v \in BOOLEAN => /\ Document([d EXCEPT !.syntax = v]) /\ Document([d EXCEPT !.identity = v])
                               /\ Document([d EXCEPT !.workspace = v])
<1>1. Document([d EXCEPT !.faults = v]) /\ Document([d EXCEPT !.malformed = v])
  BY DEF Document
<1>2. Document([d EXCEPT !.destinations = v]) /\ Document([d EXCEPT !.mentions = v])
  BY DEF Document
<1>3. Document([d EXCEPT !.inbound = v]) /\ Document([d EXCEPT !.retention = v])
  BY DEF Document
<1>4. Document([d EXCEPT !.auto_send = v])
  BY DEF Document
<1>5. v \in BOOLEAN => Document([d EXCEPT !.syntax = v])
  BY DEF Document
<1>6. v \in BOOLEAN => Document([d EXCEPT !.identity = v]) /\ Document([d EXCEPT !.workspace = v])
  BY DEF Document
<1> QED  BY <1>1, <1>2, <1>3, <1>4, <1>5, <1>6

LEMMA FileEdited ==
    ASSUME Document(file), NEW d \in C!Edited
    PROVE  Document(d)
<1> DEFINE scalars ==
              {[file EXCEPT !.syntax = FALSE], [file EXCEPT !.identity = FALSE],
               [file EXCEPT !.workspace = FALSE], [file EXCEPT !.retention.content = 0],
               [file EXCEPT !.retention.metadata = 0], [file EXCEPT !.retention.content = 7]}
           shaped == {[file EXCEPT !.faults = {<<kind, table>>}] :
                        kind \in DOMAIN C!ShapeFault, table \in C!Range(C!Tables)}
           misnamed == {[file EXCEPT !.malformed = {alias}] : alias \in {"a", "b"}}
           addressed == {[file EXCEPT !.destinations =
                           [a \in DOMAIN file.destinations \union {alias} |->
                             IF a = alias THEN list ELSE file.destinations[a]]] :
                           alias \in {"a", "b"}, list \in C!Lists({"a", "b"})}
           unaddressed == {[file EXCEPT !.destinations =
                             [a \in DOMAIN file.destinations \ {alias} |-> file.destinations[a]]] :
                             alias \in {"a", "b"}}
           mentioned == {[file EXCEPT !.mentions =
                           [m \in DOMAIN file.mentions \union {alias} |->
                             IF m = alias THEN aim ELSE file.mentions[m]]] :
                           alias \in {"a", "b"}, aim \in {"role:1", "user:1"} \union {"channel:1"}}
           unmentioned == {[file EXCEPT !.mentions =
                             [m \in DOMAIN file.mentions \ {alias} |-> file.mentions[m]]] :
                             alias \in {"a", "b"}}
           heard == {[file EXCEPT !.inbound =
                       [a \in DOMAIN file.inbound \union {alias} |->
                         IF a = alias THEN on ELSE file.inbound[a]]] :
                       alias \in {"a", "b"}, on \in BOOLEAN}
           automatic == {[file EXCEPT !.auto_send = list] : list \in C!Lists(C!Tuple)}
<1>1. C!Edited = scalars \union shaped \union misnamed \union addressed \union unaddressed
                   \union mentioned \union unmentioned \union heard \union automatic
  BY DEF C!Edited
<1>2. ASSUME d \in scalars PROVE Document(d)
  <2>1. ASSUME NEW v PROVE Document([file EXCEPT !.retention = v])
    BY DocumentEdit
  <2>2. \/ d \in {[file EXCEPT !.syntax = FALSE], [file EXCEPT !.identity = FALSE],
                 [file EXCEPT !.workspace = FALSE]}
        \/ d = [file EXCEPT !.retention = [file.retention EXCEPT !.content = 0]]
        \/ d = [file EXCEPT !.retention = [file.retention EXCEPT !.metadata = 0]]
        \/ d = [file EXCEPT !.retention = [file.retention EXCEPT !.content = 7]]
    BY <1>2
  <2>3. Document([file EXCEPT !.syntax = FALSE]) /\ Document([file EXCEPT !.identity = FALSE])
        /\ Document([file EXCEPT !.workspace = FALSE])
    BY DocumentEdit
  <2> HIDE DEF scalars
  <2> QED  BY <2>1, <2>2, <2>3
<1>3. ASSUME d \in shaped PROVE Document(d)
  <2>1. PICK kind \in DOMAIN C!ShapeFault, table \in C!Range(C!Tables) :
          d = [file EXCEPT !.faults =
                {<<kind, table>>}]
    BY <1>3
  <2> QED  BY <2>1, DocumentEdit
<1>4. ASSUME d \in misnamed PROVE Document(d)
  <2>1. PICK alias \in {"a", "b"} :
          d = [file EXCEPT !.malformed =
                {alias}]
    BY <1>4
  <2> QED  BY <2>1, DocumentEdit
<1>5. ASSUME d \in addressed PROVE Document(d)
  <2>1. PICK alias \in {"a", "b"}, list \in C!Lists({"a", "b"}) :
          d = [file EXCEPT !.destinations =
                [a \in DOMAIN file.destinations \union {alias} |-> IF a = alias THEN list ELSE file.destinations[a]]]
    BY <1>5
  <2> QED  BY <2>1, DocumentEdit
<1>6. ASSUME d \in unaddressed PROVE Document(d)
  <2>1. PICK alias \in {"a", "b"} :
          d = [file EXCEPT !.destinations =
                [a \in DOMAIN file.destinations \ {alias} |-> file.destinations[a]]]
    BY <1>6
  <2> QED  BY <2>1, DocumentEdit
<1>7. ASSUME d \in mentioned PROVE Document(d)
  <2>1. PICK alias \in {"a", "b"}, aim \in {"role:1", "user:1"} \union {"channel:1"} :
          d = [file EXCEPT !.mentions =
                [m \in DOMAIN file.mentions \union {alias} |-> IF m = alias THEN aim ELSE file.mentions[m]]]
    BY <1>7
  <2> QED  BY <2>1, DocumentEdit
<1>8. ASSUME d \in unmentioned PROVE Document(d)
  <2>1. PICK alias \in {"a", "b"} :
          d = [file EXCEPT !.mentions =
                [m \in DOMAIN file.mentions \ {alias} |-> file.mentions[m]]]
    BY <1>8
  <2> QED  BY <2>1, DocumentEdit
<1>9. ASSUME d \in heard PROVE Document(d)
  <2>1. PICK alias \in {"a", "b"}, on \in BOOLEAN :
          d = [file EXCEPT !.inbound =
                [a \in DOMAIN file.inbound \union {alias} |-> IF a = alias THEN on ELSE file.inbound[a]]]
    BY <1>9
  <2> QED  BY <2>1, DocumentEdit
<1>10. ASSUME d \in automatic PROVE Document(d)
  <2>1. PICK list \in C!Lists(C!Tuple) :
          d = [file EXCEPT !.auto_send =
                list]
    BY <1>10
  <2> QED  BY <2>1, DocumentEdit
<1> HIDE DEF scalars, shaped, misnamed, addressed, unaddressed, mentioned, unmentioned, heard, automatic
<1> QED  BY <1>1, <1>2, <1>3, <1>4, <1>5, <1>6, <1>7, <1>8, <1>9, <1>10

\* What is accepted has no repeated entry and is well formed.
LEMMA LoadedFile ==
    ASSUME Document(file), "none" \in C!LoadErrors(file)
    PROVE  Loaded(file)
<1>1. C!ShapeError(file) = "none" /\ C!ReferenceChecks(file) = {}
  <2>1. CASE C!ShapeError(file) # "none"
    BY <2>1 DEF C!LoadErrors
  <2>2. CASE C!ShapeError(file) = "none" /\ C!ReferenceChecks(file) # {}
    <3>1. PICK check \in C!ReferenceChecks(file) : check[1] = "none"
      BY <2>2 DEF C!LoadErrors
    <3> DEFINE broken == {"invalid-repository-id", "invalid-workspace-id", "invalid-channel-id",
                          "duplicate-alias", "missing-mention-alias", "invalid-mention-target",
                          "unconfigured-inbound-alias", "invalid-auto-send",
                          "unknown-destination-alias", "duplicate-auto-send"}
    <3>2. \E p1, p2, p3, p4, p5, p6, p7, p8, p9, p10 : check \in
              {<<"invalid-repository-id", p1>>, <<"invalid-workspace-id", p2>>,
               <<"invalid-channel-id", p3>>, <<"duplicate-alias", p4>>,
               <<"missing-mention-alias", p5>>, <<"invalid-mention-target", p6>>,
               <<"unconfigured-inbound-alias", p7>>, <<"invalid-auto-send", p8>>,
               <<"unknown-destination-alias", p9>>, <<"duplicate-auto-send", p10>>}
      BY <3>1, Zenon DEF C!ReferenceChecks
    <3>3. check[1] \in broken
      BY <3>2
    <3> QED  BY <3>1, <3>3
  <2> QED  BY <2>1, <2>2
<1>2. file.syntax
  BY <1>1 DEF C!ShapeError
<1>3. /\ file.identity /\ file.workspace
      /\ \A a \in DOMAIN file.destinations : C!NoRepeat(file.destinations[a])
      /\ C!NoRepeat(file.auto_send)
  <2> DEFINE repeats == \A a \in DOMAIN file.destinations : C!NoRepeat(file.destinations[a])
             once == C!NoRepeat(file.auto_send)
  <2>1. \A check \in {<<"invalid-repository-id", file.identity>>, <<"invalid-workspace-id", file.workspace>>,
                     <<"duplicate-alias", repeats>>, <<"duplicate-auto-send", once>>} :
            ~check[2] => check \in C!ReferenceChecks(file)
    BY DEF C!ReferenceChecks
  <2> HIDE DEF repeats, once
  <2>2. file.identity /\ file.workspace /\ repeats /\ once
    BY <1>1, <2>1
  <2> QED  BY <2>2 DEF repeats, once
<1> QED  BY <1>2, <1>3 DEF Loaded, Document

LEMMA DocumentsStep ==
    ASSUME DocumentsInv, C!Next
    PROVE  DocumentsInv'
<1>1. CASE C!Edit
  BY <1>1, FileEdited DEF C!Edit, DocumentsInv
<1>2. CASE C!Learn
  BY <1>2 DEF C!Learn, DocumentsInv
<1>3. CASE C!Load
  BY <1>3, LoadedFile DEF C!Load, DocumentsInv
<1> QED  BY <1>1, <1>2, <1>3 DEF C!Next

\* A sorted list without repetition stands for its set.
LEMMA SortedOnce ==
    ASSUME NEW list, C!NoRepeat(list)
    PROVE  C!Sorted(list) = [x \in C!Range(list) |-> 1]
<1>1. ASSUME NEW x \in C!Range(list) PROVE Cardinality({i \in DOMAIN list : list[i] = x}) = 1
  <2>1. PICK j \in DOMAIN list : list[j] = x
    BY DEF C!Range
  <2>2. {i \in DOMAIN list : list[i] = x} = {j}
    BY <2>1 DEF C!NoRepeat
  <2>3. Cardinality({j}) = 1
    BY FS_Singleton
  <2> QED  BY <2>2, <2>3
<1>2. \A X : C!Cardinality(X) = Cardinality(X)
  BY DEF C!Cardinality, Cardinality
<1> QED  BY <1>1, <1>2 DEF C!Sorted

LEMMA SortedMeaning ==
    ASSUME NEW list, NEW other, C!NoRepeat(list), C!NoRepeat(other)
    PROVE  C!Sorted(list) = C!Sorted(other) <=> C!Range(list) = C!Range(other)
<1>1. /\ C!Sorted(list) = [x \in C!Range(list) |-> 1]
      /\ C!Sorted(other) = [x \in C!Range(other) |-> 1]
  BY SortedOnce
<1>2. DOMAIN C!Sorted(list) = C!Range(list) /\ DOMAIN C!Sorted(other) = C!Range(other)
  BY <1>1
<1> QED  BY <1>1, <1>2

LEMMA MeaningOfHash ==
    ASSUME NEW new, NEW old, Document(new), Document(old), Loaded(new), Loaded(old)
    PROVE  C!Canonical(new) = C!Canonical(old) <=> C!Meaning(new) = C!Meaning(old)
<1> DEFINE lists(d) == [a \in DOMAIN d.destinations |-> C!Sorted(d.destinations[a])]
           sets(d) == [a \in DOMAIN d.destinations |-> C!Range(d.destinations[a])]
           sorted(d) == C!Sorted(d.auto_send)
           sent(d) == C!Range(d.auto_send)
<1>1. lists(new) = lists(old) <=> sets(new) = sets(old)
  <2>1. ASSUME lists(new) = lists(old) PROVE sets(new) = sets(old)
    <3>1. DOMAIN new.destinations = DOMAIN old.destinations
      BY <2>1
    <3>2. \A a \in DOMAIN new.destinations : C!Sorted(new.destinations[a]) = C!Sorted(old.destinations[a])
      <4> TAKE a \in DOMAIN new.destinations
      <4>1. lists(new)[a] = C!Sorted(new.destinations[a]) /\ lists(old)[a] = C!Sorted(old.destinations[a])
        BY <3>1
      <4> HIDE DEF lists
      <4> QED  BY <2>1, <4>1
    <3>3. \A a \in DOMAIN new.destinations : C!Range(new.destinations[a]) = C!Range(old.destinations[a])
      BY <3>1, <3>2, SortedMeaning DEF Loaded
    <3> QED  BY <3>1, <3>3
  <2>2. ASSUME sets(new) = sets(old) PROVE lists(new) = lists(old)
    <3>1. DOMAIN new.destinations = DOMAIN old.destinations
      BY <2>2
    <3>2. \A a \in DOMAIN new.destinations : C!Range(new.destinations[a]) = C!Range(old.destinations[a])
      <4> TAKE a \in DOMAIN new.destinations
      <4>1. sets(new)[a] = C!Range(new.destinations[a]) /\ sets(old)[a] = C!Range(old.destinations[a])
        BY <3>1
      <4> HIDE DEF sets
      <4> QED  BY <2>2, <4>1
    <3>3. \A a \in DOMAIN new.destinations : C!Sorted(new.destinations[a]) = C!Sorted(old.destinations[a])
      BY <3>1, <3>2, SortedMeaning DEF Loaded
    <3> QED  BY <3>1, <3>3
  <2> QED  BY <2>1, <2>2
<1>2. sorted(new) = sorted(old) <=> sent(new) = sent(old)
  BY SortedMeaning DEF Loaded
<1>3. ASSUME NEW d, Document(d), Loaded(d)
      PROVE  C!Canonical(d) =
                [syntax |-> TRUE, faults |-> {}, identity |-> TRUE, workspace |-> TRUE,
                 destinations |-> lists(d), malformed |-> {}, mentions |-> d.mentions,
                 inbound |-> d.inbound, retention |-> d.retention, auto_send |-> sorted(d)]
  <2> DEFINE l == lists(d)
             t == sorted(d)
  <2>1. C!Canonical(d) = [d EXCEPT !.faults = {}, !.malformed = {}, !.destinations = l, !.auto_send = t]
    BY DEF C!Canonical
  <2> HIDE DEF l, t
  <2>2. C!Canonical(d) =
                [syntax |-> TRUE, faults |-> {}, identity |-> TRUE, workspace |-> TRUE,
                 destinations |-> l, malformed |-> {}, mentions |-> d.mentions,
                 inbound |-> d.inbound, retention |-> d.retention, auto_send |-> t]
    BY <1>3, <2>1 DEF Document, Loaded
  <2> QED  BY <2>2 DEF l, t
<1>4. C!Meaning(new) = <<sets(new), new.mentions, new.inbound, new.retention, sent(new)>>
  BY DEF C!Meaning
<1>5. C!Meaning(old) = <<sets(old), old.mentions, old.inbound, old.retention, sent(old)>>
  BY DEF C!Meaning
<1> HIDE DEF lists, sets, sorted, sent
<1>6. C!Canonical(new) = C!Canonical(old) <=>
        /\ lists(new) = lists(old) /\ new.mentions = old.mentions /\ new.inbound = old.inbound
        /\ new.retention = old.retention /\ sorted(new) = sorted(old)
  <2> DEFINE whole(d) ==
                [syntax |-> TRUE, faults |-> {}, identity |-> TRUE, workspace |-> TRUE,
                 destinations |-> lists(d), malformed |-> {}, mentions |-> d.mentions,
                 inbound |-> d.inbound, retention |-> d.retention, auto_send |-> sorted(d)]
  <2>1. C!Canonical(new) = whole(new) /\ C!Canonical(old) = whole(old)
    BY <1>3
  <2>2. ASSUME whole(new) = whole(old)
        PROVE  /\ lists(new) = lists(old) /\ new.mentions = old.mentions /\ new.inbound = old.inbound
               /\ new.retention = old.retention /\ sorted(new) = sorted(old)
    <3>1. \A d : /\ whole(d).destinations = lists(d) /\ whole(d).mentions = d.mentions
                 /\ whole(d).inbound = d.inbound /\ whole(d).retention = d.retention
                 /\ whole(d).auto_send = sorted(d)
      OBVIOUS
    <3> HIDE DEF whole
    <3> QED  BY <2>2, <3>1
  <2>3. ASSUME /\ lists(new) = lists(old) /\ new.mentions = old.mentions /\ new.inbound = old.inbound
               /\ new.retention = old.retention /\ sorted(new) = sorted(old)
        PROVE  whole(new) = whole(old)
    BY <2>3
  <2> HIDE DEF whole
  <2> QED  BY <2>1, <2>2, <2>3
<1>7. C!Meaning(new) = C!Meaning(old) <=>
        /\ sets(new) = sets(old) /\ new.mentions = old.mentions /\ new.inbound = old.inbound
        /\ new.retention = old.retention /\ sent(new) = sent(old)
  BY <1>4, <1>5
<1> QED  BY <1>1, <1>2, <1>6, <1>7

\* An approval that is bound to the hash of the configuration survives exactly the
\* edits that change nothing the program does (canonical_hash, validate_config).
THEOREM HashIsExact == PartsSpec => []HashIsMeaning
<1>1. PartsInit => DocumentsInv
  BY DEF PartsInit, C!Init, C!Base, DocumentsInv, Document
<1>2. DocumentsInv /\ [PartsNext]_<<part, vars, commandVars, configurationVars, setupVars, reconcileVars>> => DocumentsInv'
  <2>1. ASSUME DocumentsInv, UNCHANGED configurationVars PROVE DocumentsInv'
    BY <2>1 DEF configurationVars, DocumentsInv
  <2> QED  BY <2>1, DocumentsStep DEF PartsNext
<1>3. DocumentsInv => HashIsMeaning
  BY MeaningOfHash DEF DocumentsInv, HashIsMeaning, C!HashIsMeaning
<1> QED  BY <1>1, <1>2, <1>3, PTL DEF PartsSpec
-----------------------------------------------------------------------------
(***************************************************************************)
(* Reconcile: its invariant, proved of the component by itself, is kept by *)
(* the steps of this part.                                                 *)
(***************************************************************************)
RP == INSTANCE ReconcileProofs WITH Message <- {m1, m2}, time <- clock

LEMMA ReconcileSteps ==
    /\ PartsInit => RP!IInv
    /\ [PartsNext]_<<part, vars, commandVars, configurationVars, setupVars, reconcileVars>> => [RP!Next]_(RP!vars)
<1>1. R!Init => RP!Init
  BY DEF R!Init, RP!Init
<1>2. PartsInit => RP!IInv
  BY <1>1, RP!InitialState DEF PartsInit
<1>3. R!Next => RP!Next
  <2> USE DEF R!Reconcile, RP!Reconcile, R!Answered, RP!Answered, R!Now, RP!Now, R!Verdict, RP!Verdict
  <2>1. R!ReconcileAt => RP!ReconcileAt
    BY DEF R!ReconcileAt, RP!ReconcileAt
  <2>2. R!ReconcileStamped => RP!ReconcileStamped
    BY DEF R!ReconcileStamped, RP!ReconcileStamped
  <2>3. R!ReadFails => RP!ReadFails
    BY DEF R!ReadFails, RP!ReadFails
  <2>4. R!ClockMovedBack => RP!ClockMovedBack
    BY DEF R!ClockMovedBack, RP!ClockMovedBack
  <2>5. R!ReadPage => RP!ReadPage
    BY DEF R!ReadPage, RP!ReadPage, R!Observe, RP!Observe, R!Classify, RP!Classify, R!Finding, RP!Finding,
           R!Conflict, RP!Conflict, R!Candidates,
           RP!Candidates, R!AbsenceGate, RP!AbsenceGate, R!Cached, RP!Cached, R!IsConflict, RP!IsConflict,
           R!Cardinality, RP!Cardinality
  <2>6. R!Restart => RP!Restart
    BY DEF R!Restart, RP!Restart
  <2>7. R!Arrive => RP!Arrive
    BY DEF R!Arrive, RP!Arrive
  <2>8. R!Change => RP!Change
    BY DEF R!Change, RP!Change, R!Candidates, RP!Candidates
  <2>9. R!Vanish => RP!Vanish
    BY DEF R!Vanish, RP!Vanish
  <2>10. R!Tick => RP!Tick
    BY DEF R!Tick, RP!Tick
  <2>11. R!SetBack => RP!SetBack
    BY DEF R!SetBack, RP!SetBack
  <2> QED  BY <2>1, <2>2, <2>3, <2>4, <2>5, <2>6, <2>7, <2>8, <2>9, <2>10, <2>11 DEF R!Next, RP!Next
<1>4. [PartsNext]_<<part, vars, commandVars, configurationVars, setupVars, reconcileVars>> => [RP!Next]_(RP!vars)
  <2>1. UNCHANGED reconcileVars => UNCHANGED RP!vars
    BY DEF reconcileVars, RP!vars
  <2> QED  BY <1>3, <2>1 DEF PartsNext
<1> QED  BY <1>2, <1>4

\* Whoever reads "absent" may send again: nothing of the attempt is there or can
\* come (ReconciliationProgress::can_prove_absence, classify_observation).
THEOREM NothingComesAfterAbsence ==
    ASSUME RP!WindowOutlastsLatency PROVE PartsSpec => []AbsenceIsTrue
<1>1. RP!IInv /\ [PartsNext]_<<part, vars, commandVars, configurationVars, setupVars, reconcileVars>> => RP!IInv'
  BY ReconcileSteps, RP!EveryStep
<1>2. RP!IInv => AbsenceIsTrue
  BY DEF RP!IInv, RP!TimingInv, RP!AbsenceInv, AbsenceIsTrue, R!AbsenceIsTrue, RP!Candidates
<1> QED  BY <1>1, <1>2, ReconcileSteps, PTL DEF PartsSpec

\* A decision that a reconciler keeps rests on all the complete pages that it ever
\* read, and no incomplete page decides (should_cache, classify_observation).
THEOREM VerdictsRestOnCompletePages == PartsSpec => []VerdictFromCompletePages
<1>1. PartsInit => RP!EvidenceInv
  BY ReconcileSteps DEF RP!IInv
<1>2. RP!EvidenceInv /\ [PartsNext]_<<part, vars, commandVars, configurationVars, setupVars, reconcileVars>>
        => RP!EvidenceInv'
  BY ReconcileSteps, RP!EvidenceStep
<1>3. RP!EvidenceInv => VerdictFromCompletePages
  BY DEF RP!EvidenceInv, RP!VerdictFromCompletePages, VerdictFromCompletePages, R!VerdictFromCompletePages
<1> QED  BY <1>1, <1>2, <1>3, PTL DEF PartsSpec

=============================================================================
