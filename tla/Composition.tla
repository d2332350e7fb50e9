---------------------------- MODULE Composition ----------------------------
(***************************************************************************)
(* One draft from its text to the request that is posted: the revision and *)
(* its canonical hash, the resolution of mentions, the nonce footer, the   *)
(* search for secrets, the preview and the request body.  The program      *)
(* stores what it rendered, and every later invocation builds the revision *)
(* again from the stored text and the configuration of that moment.  A text*)
(* is a sequence of tokens; what a token is spelled like is left out.      *)
(***************************************************************************)
EXTENDS Naturals, Sequences, FiniteSets, SequencesExt

CONSTANTS
    MaxText,    \* tokens of a draft
    MaxLength,  \* characters of a message, in the units of Weight
    MaxExpiry,  \* the longest lifetime of a revision
    MaxEdits,   \* bound on the edits of the configuration
    MaxRaw      \* bound on the raw matches of one scan

VARIABLES
    config,     \* what the destination resolves to
    edits,      \* the edits of the configuration so far
    time,       \* the clock
    revision,   \* the revision in memory, or {}
    message,    \* the rendered message in memory, or {}
    request,    \* the body of the create-message request, or {}
    row,        \* the stored revision, or {}
    raw,        \* the raw matches of the last scan
    findings,   \* what the scan reported
    answer      \* the last answer

vars == <<config, edits, time, revision, message, request, row, raw, findings, answer>>

-----------------------------------------------------------------------------
(* Texts *)

Target == {"role:1", "user:2"}

Token ==
    {<<"word">>, <<"long">>, <<"gap">>, <<"stop">>, <<"marker">>, <<"ping", "user:9">>,
     <<"at", "a">>, <<"at", "b">>, <<"at", "everyone">>}

Text == UNION {[1..n -> Token] : n \in 1..MaxText}

\* Letters, digits and the full stop continue an alias; an at-sign behind them is text
IsWord(token) == token[1] \in {"word", "long", "stop", "marker"}

\* What replaces an alias is longer than a word
Weight(token) ==
    IF token[1] = "long" THEN MaxLength - 1 ELSE IF token[1] = "ping" THEN 2 ELSE 1

Length(text) == FoldSeq(LAMBDA token, sum : sum + Weight(token), 0, text)

\* Whitespace at the end goes
Normalized(text) ==
    LET kept == {i \in DOMAIN text : \E j \in i..Len(text) : text[j] # <<"gap">>}
    IN  SubSeq(text, 1, Cardinality(kept))

-----------------------------------------------------------------------------
(* Mentions *)

\* An at-sign behind a letter, also behind another one that was text
Behind(text) ==
    LET behind[i \in DOMAIN text] ==
            i > 1 /\ (IsWord(text[i - 1]) \/ (text[i - 1][1] = "at" /\ behind[i - 1]))
    IN  behind

Mentions(text) ==
    LET behind == Behind(text)
    IN  {i \in DOMAIN text : text[i][1] = "at" /\ ~behind[i]}

\* The name runs on to the next gap; full stops at its end are text
Continued(text, i) ==
    {j \in (i + 1)..Len(text) : \A k \in (i + 1)..j : IsWord(text[k])}

MentionErrors(text, allowed) ==
    (IF \E i \in DOMAIN text : text[i][1] = "ping" THEN {"raw-discord-mention"} ELSE {})
    \union UNION {
        LET run == Continued(text, i)
            next == i + Cardinality(run) + 1
        IN  IF next \in DOMAIN text /\ text[next][1] = "at" THEN {"malformed-mention-alias"}
            ELSE IF text[i] = <<"at", "everyone">> /\ run = {} THEN {"raw-discord-mention"}
            ELSE IF text[i][2] \notin DOMAIN allowed \/ \E j \in run : text[j] # <<"stop">>
            THEN {"unlisted-mention-alias"}
            ELSE {} : i \in Mentions(text)}

Resolved(text, allowed) ==
    LET mentions == Mentions(text)
    IN  [i \in DOMAIN text |->
            IF i \in mentions THEN <<"ping", allowed[text[i][2]]>> ELSE text[i]]

-----------------------------------------------------------------------------
(* Revisions and messages *)

\* The alias resolves to a channel and to the targets of its mentions
Destination ==
    [channel |-> config.channel, allowed |-> [alias \in config.allowed |-> config.mentions[alias]]]

\* Without the resolved destination
Canonical_AliasOnly(r) == <<r.text, r.expires, r.reply>>

\* What the content hash is taken of: everything but the number of the revision
\* and the time of its creation
Canonical(r) == <<r.text, r.destination, r.expires, r.reply>>

BuildError(reply, lifetime) ==
    IF \E channel \in reply : channel # config.channel THEN "reply-channel-mismatch"
    ELSE IF lifetime = 0 THEN "expiry-must-be-positive"
    ELSE IF lifetime > MaxExpiry THEN "expiry-too-long"
    ELSE "none"

Build(text, reply, created, lifetime) ==
    [text |-> text, destination |-> Destination, expires |-> created + lifetime, reply |-> reply]

\* The first error of the renderer; which of several in one text is left open
RenderErrors(r, at) ==
    LET body == Normalized(r.text)
        errors == MentionErrors(body, r.destination.allowed)
    IN  IF at >= r.expires THEN {"revision-expired"}
        ELSE IF body = <<>> THEN {"empty-text"}
        ELSE IF <<"marker">> \in Range(body) THEN {"nonce-already-rendered"}
        ELSE IF errors # {} THEN errors
        ELSE IF Length(Resolved(body, r.destination.allowed)) + 1 > MaxLength
        THEN {"message-too-long"}
        ELSE {"none"}

\* Each target once per time it is written
Listed_Twice(r) ==
    LET body == Normalized(r.text)
        at == SetToSeq(Mentions(body))
    IN  [i \in DOMAIN at |-> r.destination.allowed[body[at[i]][2]]]

\* Each target once, however often it is written
Listed(r) ==
    LET body == Normalized(r.text)
    IN  SetToSeq({r.destination.allowed[body[i][2]] : i \in Mentions(body)})

Render(r) ==
    [body |-> Resolved(Normalized(r.text), r.destination.allowed), nonce |-> Canonical(r),
     destination |-> r.destination, mentions |-> Listed(r), reply |-> r.reply]

-----------------------------------------------------------------------------
(* The request *)

\* A payload that lets the service parse mass mentions
Parse_Everyone == {"everyone"}

\* Nothing is left to the service to parse
Parse == {}

RequestError(m) ==
    LET targets == {m.destination.allowed[alias] : alias \in DOMAIN m.destination.allowed}
    IN  IF Length(m.body) + 1 > MaxLength THEN "text-too-long"
        ELSE IF <<"marker">> \in Range(m.body) THEN "nonce-footer-mismatch"
        ELSE IF Cardinality(targets) # Cardinality(DOMAIN m.destination.allowed)
        THEN "duplicate-mention"
        ELSE IF ~(Range(m.mentions) \subseteq targets) THEN "unlisted-mention"
        ELSE IF Cardinality(Range(m.mentions)) # Len(m.mentions) THEN "duplicate-mention"
        ELSE IF \E channel \in m.reply : channel # m.destination.channel
        THEN "reply-reference-mismatch"
        ELSE "none"

RequestBody(m) ==
    [content |-> m.body, nonce |-> m.nonce, channel |-> m.destination.channel,
     targets |-> Range(m.mentions), parse |-> Parse, reply |-> m.reply]

\* Whom the service notifies
Pings(body) ==
    {target \in body.targets : <<"ping", target>> \in Range(body.content)}
    \union (IF <<"at", "everyone">> \in Range(body.content) THEN body.parse ELSE {})

-----------------------------------------------------------------------------
(* Secrets *)

\* A match: the rank of its kind, where it was found, and its range there
Match == [rank : 1..2, source : {"text", "branch"}, from : 0..1, to : 1..2]

\* The order in which matches are accepted; the text is collected first
Precedes(f, g) ==
    \/ f.rank < g.rank
    \/ f.rank = g.rank /\ f.from < g.from
    \/ f.rank = g.rank /\ f.from = g.from /\ f.to < g.to
    \/ f.rank = g.rank /\ f.from = g.from /\ f.to = g.to /\ f.source = "text" /\ g.source # "text"

\* dedup_by_key: the kind and the range, whatever the source
Deduplicated(matches) ==
    {f \in matches : ~\E g \in matches :
        g.rank = f.rank /\ g.from = f.from /\ g.to = f.to /\ Precedes(g, f)}

\* ranges_overlap without the source
Overlap_Anywhere(f, g) == f.from < g.to /\ g.from < f.to

Overlap(f, g) == f.source = g.source /\ f.from < g.to /\ g.from < f.to

\* A match is accepted when it overlaps none of those accepted before it
Reported(matches) ==
    LET kept == Deduplicated(matches)
    IN  CHOOSE accepted \in SUBSET kept :
            \A f \in kept : f \in accepted <=> ~\E g \in accepted : Precedes(g, f) /\ Overlap(g, f)

-----------------------------------------------------------------------------
(* The steps *)

Stop(error) ==
    /\ answer' = error
    /\ revision' = {} /\ message' = {} /\ request' = {}

\* The revision is rendered at its own time and stored as it was rendered; one that
\* fails leaves nothing behind, so that a second attempt is not modelled
Create ==
    /\ answer = "none"
    /\ \E text \in Text, reply \in {{}, {"c1"}}, lifetime \in 0..(MaxExpiry + 1) :
        LET wrong == BuildError(reply, lifetime)
            r == Build(text, reply, time, lifetime)
        IN  \E error \in IF wrong # "none" THEN {wrong} ELSE RenderErrors(r, time) :
                IF error # "none" THEN Stop(error) /\ UNCHANGED row
                ELSE LET m == Render(r)
                     IN  /\ revision' = {r} /\ message' = {m} /\ request' = {}
                         /\ row' = {[message |-> m, created |-> time,
                                     config |-> config, expires |-> r.expires]}
                         /\ answer' = "created"
    /\ UNCHANGED <<config, edits, time, raw, findings>>

\* The next invocation: the stored text, without its footer, is built, hashed and
\* rendered again
LoadErrors(stored) ==
    LET reply == stored.message.reply
        lifetime == stored.expires - stored.created
        r == Build(stored.message.body, reply, stored.created, lifetime)
    IN  IF BuildError(reply, lifetime) # "none" THEN {BuildError(reply, lifetime)}
        ELSE IF RenderErrors(r, stored.created) # {"none"} THEN RenderErrors(r, stored.created)
        ELSE IF Canonical(r) # stored.message.nonce THEN {"storage-integrity"}
        ELSE {"none"}

Load ==
    \E stored \in row, error \in UNION {LoadErrors(s) : s \in row} :
        /\ IF error # "none" THEN Stop(error)
           ELSE LET r == Build(stored.message.body, stored.message.reply, stored.created,
                               stored.expires - stored.created)
                IN  revision' = {r} /\ message' = {} /\ request' = {} /\ answer' = "loaded"
        /\ UNCHANGED <<config, edits, time, row, raw, findings>>

\* A preview or a send renders at its own time
RenderNow ==
    \E r \in revision : \E error \in RenderErrors(r, time) :
        /\ IF error # "none" THEN Stop(error)
           ELSE message' = {Render(r)} /\ answer' = "rendered" /\ UNCHANGED <<revision, request>>
        /\ UNCHANGED <<config, edits, time, row, raw, findings>>

\* The preview of a message that expired meanwhile says that it is blocked
Preview ==
    \E r \in revision, m \in message :
        /\ answer' = IF time >= r.expires THEN "blocked" ELSE "unresolved"
        /\ UNCHANGED <<config, edits, time, revision, message, request, row, raw, findings>>

Compose ==
    \E m \in message :
        /\ request = {}
        /\ IF RequestError(m) # "none" THEN Stop(RequestError(m))
           ELSE request' = {RequestBody(m)} /\ answer' = "composed" /\ UNCHANGED <<revision, message>>
        /\ UNCHANGED <<config, edits, time, row, raw, findings>>

\* The scan of a text and of its metadata; what the matchers find is left open
Scan ==
    /\ answer = "none" /\ edits = 0
    /\ \E matches \in UNION {kSubset(n, {f \in Match : f.from < f.to}) : n \in 1..MaxRaw} :
        /\ raw' = matches
        /\ findings' = Reported(matches)
    /\ answer' = "scanned"
    /\ UNCHANGED <<config, edits, time, revision, message, request, row>>

Edit ==
    /\ edits < MaxEdits /\ raw = {}
    /\ edits' = edits + 1
    /\ config' \in
        {[config EXCEPT !.channel = "c2"]}
        \union {[config EXCEPT !.mentions[alias] = target] : alias \in {"a", "b"}, target \in Target}
        \union {[config EXCEPT !.allowed = aliases] : aliases \in SUBSET {"a", "b"}}
    /\ UNCHANGED <<time, revision, message, request, row, raw, findings, answer>>

\* The draft is created at time 0
Tick ==
    /\ time < MaxExpiry /\ row # {}
    /\ time' = time + 1
    /\ UNCHANGED <<config, edits, revision, message, request, row, raw, findings, answer>>

Init ==
    /\ config = [channel |-> "c1", mentions |-> [a |-> "role:1", b |-> "user:2"], allowed |-> {"a", "b"}]
    /\ edits = 0 /\ time = 0
    /\ revision = {} /\ message = {} /\ request = {} /\ row = {}
    /\ raw = {} /\ findings = {} /\ answer = "none"

Next ==
    \/ Create \/ Load \/ RenderNow \/ Preview \/ Compose \/ Scan \/ Edit \/ Tick

Spec == Init /\ [][Next]_vars

-----------------------------------------------------------------------------
(* Properties *)

\* A request notifies exactly those whose aliases the text uses, whatever else
\* looks like a mention in it (AllowedMentionsPayload, resolve_with_allowlist).
PingsAreListed ==
    \A body \in request, m \in message :
        /\ Pings(body) = Range(m.mentions)
        /\ \A target \in Pings(body) :
            \E alias \in DOMAIN m.destination.allowed : m.destination.allowed[alias] = target

\* The nonce stands for one message: a revision that loads under an edited
\* configuration renders to what was stored (canonical_hash, load_model).
NonceNamesMessage ==
    \A stored \in row, m \in message : m = stored.message

\* What renders can be requested: the claim that lies between the two is not
\* wasted (from_rendered).  Two aliases for one target are the exception.
RenderedIsRequestable ==
    \A m \in message :
        (\A a, b \in DOMAIN m.destination.allowed :
            m.destination.allowed[a] = m.destination.allowed[b] => a = b)
            => RequestError(m) = "none"

\* No match in the text of the message goes unreported: a reported one covers it
\* (SecretScanResult::from_raw).
TextMatchesReported ==
    \A f \in raw : f.source = "text" =>
        \E g \in findings : g.source = "text" /\ g.from < f.to /\ f.from < g.to

\* A draft that was created can be shown, approved and sent by the invocations
\* that follow, while the configuration stays the same (load_model).
CreatedLoads ==
    \A stored \in row : stored.config = config => LoadErrors(stored) = {"none"}

=============================================================================
